--------------------- MODULE StandardInstallationProofs ---------------------
(***************************************************************************)
(* Proofs about StandardInstallation, the installation composed with the   *)
(* production state, for every number of shells, of runs and of faults and *)
(* for whatever the secret authority delivers.                             *)
(***************************************************************************)
EXTENDS StandardInstallation, SequenceTheorems, TLAPS, FiniteSetTheorems

-----------------------------------------------------------------------------
(* The inductive invariant.                                                *)

Command == {"none", "install", "verify", "enroll", "plan", "facts", "prepare", "native",
            "initialize", "publish", "validate", "namespace"}
DocumentPoint ==
  {"administrator"} \X AdministratorFlaw \cup {"inventory"} \X InventoryFlaw
    \cup {"firewall"} \X DocumentFlaw \cup {"plan"} \X PlanFlaw \cup {"facts"} \X FactsFlaw
    \cup {"run"} \X RunFlaw \cup {"run"} \X NativeRunFlaw
    \cup {"contract"} \X ContractFlaw \cup {"command"} \X CommandFlaw
Deviation == StateFlaw \cup BaseFlaw \cup PreparationFlaw
HostPoint == Deviation \cup {<<"authority", "state">>}
Value == UNION {{s[n] : n \in DOMAIN SecretFile} : s \in Sources}
JobRecord ==
  [cmd : Command, doc : SUBSET DocumentPoint, flag : BOOLEAN, stood : SUBSET HostPoint,
   found : SUBSET HostPoint, changed : BOOLEAN, counted : BOOLEAN, legacy : BOOLEAN, i : Nat,
   copied : Seq(Value)]
BaseRecord ==
  [files : [FileName -> {"absent", "partial", "right"}],
   dirs : [BaseDirName -> {"absent", "legacy", "torn", "half", "right"}],
   packages : 0 .. 2, account : {"absent", "group", "right"}, uid : BOOLEAN, gid : BOOLEAN,
   masked : BOOLEAN, usermasked : BOOLEAN, xdg : BOOLEAN, loaded : BOOLEAN,
   manager : {"down", "right", "stale"}, linger : BOOLEAN, label : {"none", "policy", "right"},
   firewall : BOOLEAN, enabled : BOOLEAN, active : BOOLEAN]
MarkerRecord == [by : Proc \cup {"none", "dead"}, whole : BOOLEAN, owned : BOOLEAN]

\* The steps of the installation before and after anything is changed, of its
\* verification and of the preparation.
CheckStep == {"platform", "detect"}
WorkStep ==
  {"mask", "packages", "account", "group", "user", "uid", "gid", "dirs", "make dir", "chown dir",
   "files", "open file", "write file", "repair", "unlink", "transfer", "xdg", "link", "reload", "labels", "rule",
   "restorecon", "linger", "manager", "user mask", "firewall", "enable", "start"}
\* The loops over directories and files, and the steps at which something is still missing
\* or half done.
DirStep == {"dirs", "make dir", "chown dir"}
FileStep == {"files", "open file", "write file"}
HalfStep == {"group", "user", "make dir", "chown dir", "open file", "write file", "unlink", "transfer", "link",
             "rule", "restorecon"}
VerifyStep == {"verify host", "verify files", "verify runtime", "ready"}
ObserveStep == {"observe", "observe rest", "observe native"}
InstallStep == CheckStep \cup WorkStep \cup VerifyStep \cup ObserveStep

Types ==
  /\ pc \in [Proc -> Ended \cup StateStep \cup InstallStep]
  /\ job \in [Proc -> JobRecord]
  /\ off \subseteq Deviation
  /\ base \in BaseRecord
  /\ dirs \in [DirName -> {"absent", "torn", "right"}]
  /\ source \in Sources
  /\ marker \in MarkerRecord /\ temp \in MarkerRecord

\* Of one running command: where an installation can be, and what its loops run over.
Placed(p) ==
  /\ job[p].cmd = "install" => pc[p] \in InstallStep
  /\ pc[p] \in DirStep => job[p].i \in DOMAIN BaseDir
  /\ pc[p] \in FileStep => job[p].i \in DOMAIN File
  /\ pc[p] = "write file" => base.files[File[job[p].i]] = "partial"

\* A staged tree grows by valid files only.
Staged(p) ==
  /\ pc[p] \notin {"copy", "seal"} => job[p].copied = <<>>
  /\ pc[p] = "copy" => Len(job[p].copied) < Len(SecretFile)
  /\ pc[p] = "seal" => Len(job[p].copied) = Len(SecretFile)
  /\ \A n \in 1 .. Len(job[p].copied) : job[p].copied[n] # "malformed"

\* What it stood on is still there, and the layout stays complete once it was validated.
LayoutIsRight == \A d \in Layout : dirs[d] = "right"
Stands(p) ==
  /\ job[p].stood \subseteq off \cup {<<"authority", "state">>}
  /\ <<"authority", "state">> \in job[p].stood => marker.by # "none" \/ secrets # NoTree
  /\ pc[p] \in {"stage", "open"} => LayoutIsRight

\* What an installation has found out before it changes anything.
HostConflict ==
  {"platform"} \X PlatformFlaw \cup {"authority"} \X (AuthorityFlaw \cup {"state"}) \cup {"services"} \X DormantFlaw
PathConflict == {"file"} \X FileName \cup {"dir"} \X (BaseDirName \ {"config"}) \cup {"packages"} \X {"pin"}
Detected(p) ==
  job[p].cmd = "install" =>
    /\ pc[p] \in CheckStep => ~job[p].changed
    /\ pc[p] # "platform" => job[p].stood \cap HostConflict = {}
    /\ pc[p] \notin CheckStep =>
         /\ job[p].stood \cap PathConflict = {}
         /\ <<"dir", "config">> \in job[p].stood => job[p].legacy

\* A repeated installation meets a finished base all along.
Repeated(p) ==
  job[p].cmd = "install" /\ job[p].flag =>
    /\ BaseIsRight
    /\ ~job[p].changed /\ ~job[p].counted
    /\ pc[p] \notin HalfStep

Each(p) == Placed(p) /\ Staged(p) /\ Stands(p) /\ Detected(p) /\ Repeated(p)

\* A file is created exclusively: no two installations write the same one.
OneWriter ==
  \A p, q \in Proc :
    p # q /\ pc[p] = "write file" /\ pc[q] = "write file" => File[job[p].i] # File[job[q].i]

IInv ==
  /\ Types
  /\ StateIsWhole
  /\ temp.by # "none" => LayoutIsRight
  /\ OneWriter
  /\ \A p \in Running : Each(p)

-----------------------------------------------------------------------------
(* Lemmas.                                                                 *)

USE DEF Ended, CheckStep, WorkStep, DirStep, FileStep, HalfStep, VerifyStep, ObserveStep, InstallStep, StateStep, MarkerStep

\* What the host keeps whatever a step does.
Forward ==
  /\ off \subseteq off'
  /\ marker.by # "none" => marker'.by # "none"
  /\ secrets # NoTree => secrets' # NoTree
  /\ LayoutIsRight => LayoutIsRight'
  /\ BaseIsRight => BaseIsRight'

\* A command that does not move.
LEMMA OtherKeeps ==
  ASSUME NEW q \in Proc, Each(q), pc'[q] = pc[q], job'[q] = job[q], Forward,
         pc[q] = "write file" => base'.files[File[job[q].i]] = "partial"
  PROVE  Each(q)'
<1>1. Placed(q)' /\ Staged(q)'
  BY DEF Each, Placed, Staged
<1>2. Stands(q)'
  BY DEF Each, Stands, Forward
<1>3. Detected(q)' /\ Repeated(q)'
  BY DEF Each, Detected, Repeated, Forward
<1> QED BY <1>1, <1>2, <1>3 DEF Each

\* A step of one command.
LEMMA StepKeeps ==
  ASSUME IInv, NEW p \in Proc, NEW l, NEW j,
         pc' = [pc EXCEPT ![p] = l], job' = [job EXCEPT ![p] = j],
         Types', StateIsWhole', temp'.by # "none" => LayoutIsRight', Forward, OneWriter',
         \A q \in Proc \ {p} : pc[q] = "write file" =>
           base'.files[File[job[q].i]] = base.files[File[job[q].i]],
         l \notin Ended => Each(p)'
  PROVE  IInv'
<1>1. Types /\ \A q \in Running : Each(q)
  BY DEF IInv
<1>2. pc'[p] = l /\ \A q \in Proc \ {p} : pc'[q] = pc[q] /\ job'[q] = job[q]
  BY <1>1 DEF Types
<1>3. ASSUME NEW q \in Running' PROVE Each(q)'
  <2>1. CASE q = p
    BY <1>2, <2>1 DEF Running
  <2>2. CASE q # p
    <3>1. q \in Proc /\ Each(q) /\ pc'[q] = pc[q] /\ job'[q] = job[q]
      BY <1>1, <1>2, <2>2 DEF Running
    <3>2. pc[q] = "write file" => base'.files[File[job[q].i]] = "partial"
      BY <2>2, <3>1 DEF Each, Placed
    <3> QED BY <3>1, <3>2, OtherKeeps
  <2> QED BY <2>1, <2>2
<1> QED BY <1>3 DEF IInv

\* A step of one command that leaves the production state and every file alone.
LEMMA BaseStepKeeps ==
  ASSUME IInv, NEW p \in Proc, NEW l \in Ended \cup InstallStep, NEW j \in JobRecord, NEW b \in BaseRecord,
         pc' = [pc EXCEPT ![p] = l], job' = [job EXCEPT ![p] = j], base' = b,
         UNCHANGED <<off, stateVars>>,
         b.files = base.files, BaseIsRight => b = base,
         l # "write file", l \notin Ended => Each(p)'
  PROVE  IInv'
<1>1. Types /\ StateIsWhole /\ (temp.by # "none" => LayoutIsRight) /\ OneWriter
  BY DEF IInv
<1>2. UNCHANGED <<dirs, secrets, source, marker, temp>>
  BY DEF stateVars
<1>3. Types'
  BY <1>1, <1>2 DEF Types
<1>4. StateIsWhole' /\ (temp'.by # "none" => LayoutIsRight')
  BY <1>1, <1>2 DEF StateIsWhole, LayoutIsRight
<1>5. Forward
  BY <1>2 DEF Forward, LayoutIsRight, BaseIsRight
<1>6. OneWriter'
  BY <1>1 DEF OneWriter, Types
<1> QED BY <1>3, <1>4, <1>5, <1>6, StepKeeps

\* What every step of a command does to its own part of the invariant, as long as it
\* remembers what it stood on.
LEMMA EachKeeps ==
  ASSUME IInv, NEW p \in Running, NEW l \in InstallStep \ CheckStep, NEW j \in JobRecord,
         pc' = [pc EXCEPT ![p] = l], job' = [job EXCEPT ![p] = j],
         UNCHANGED <<off, stateVars>>,
         pc[p] \in InstallStep \ CheckStep,
         j.cmd = job[p].cmd, j.flag = job[p].flag, j.stood = job[p].stood, j.copied = job[p].copied,
         j.legacy = job[p].legacy,
         BaseIsRight => BaseIsRight',
         l \in DirStep => j.i \in DOMAIN BaseDir,
         l \in FileStep => j.i \in DOMAIN File,
         l = "write file" => base'.files[File[j.i]] = "partial",
         job[p].cmd = "install" /\ job[p].flag =>
           /\ j.changed = job[p].changed /\ j.counted = job[p].counted
           /\ l \notin HalfStep
  PROVE  Each(p)'
<1>1. Types /\ Each(p) /\ p \in Proc
  BY DEF IInv, Running
<1>2. pc'[p] = l /\ job'[p] = j
  BY <1>1 DEF Types
<1>3. Placed(p)' /\ Staged(p)'
  <2>1. Placed(p)'
    BY <1>1, <1>2 DEF Each, Placed
  <2>2. l \notin {"copy", "seal"} /\ job[p].copied = <<>>
    BY <1>1 DEF Each, Staged
  <2>3. Staged(p)'
    <3> HIDE DEF Ended, CheckStep, WorkStep, DirStep, FileStep, HalfStep, VerifyStep, ObserveStep, InstallStep, StateStep, MarkerStep
    <3> QED BY <1>1, <1>2, <2>2 DEF Each, Staged
  <2> QED BY <2>1, <2>3
<1>4. Stands(p)'
  BY <1>1, <1>2 DEF Each, Stands, stateVars
<1>5. Detected(p)'
  BY <1>1, <1>2 DEF Each, Detected
<1>6. Repeated(p)'
  BY <1>1, <1>2 DEF Each, Repeated
<1> QED BY <1>3, <1>4, <1>5, <1>6 DEF Each

\* A step that is an Install().
LEMMA InstallKeeps ==
  ASSUME IInv, NEW p \in Proc, NEW from \in WorkStep, NEW to \in WorkStep \ (DirStep \cup FileStep),
         NEW changes \in BOOLEAN, NEW b \in BaseRecord, Install(p, from, to, changes, b),
         b.files = base.files, BaseIsRight => b = base,
         BaseIsRight /\ ~job[p].counted /\ from \notin HalfStep =>
           ~changes /\ to \notin HalfStep
  PROVE  IInv'
<1> DEFINE j == IF changes THEN [job[p] EXCEPT !.changed = TRUE, !.counted = TRUE] ELSE job[p]
<1>1. Types /\ p \in Running
  BY DEF IInv, Install, Step, Running
<1>2. job[p] \in JobRecord /\ pc[p] = from
  BY <1>1 DEF Types, Install, Step
<1>3. /\ j \in JobRecord
      /\ j.cmd = job[p].cmd /\ j.flag = job[p].flag /\ j.stood = job[p].stood /\ j.copied = job[p].copied
      /\ j.legacy = job[p].legacy
      /\ ~changes => j.changed = job[p].changed /\ j.counted = job[p].counted
  BY <1>2 DEF JobRecord
<1>4. /\ pc' = [pc EXCEPT ![p] = to] /\ base' = b /\ UNCHANGED <<off, stateVars>>
      /\ job' = [job EXCEPT ![p] = j]
  BY <1>1, <1>2 DEF Install, Goto, Did, Types
<1> HIDE DEF j
<1>5. BaseIsRight => BaseIsRight'
  BY <1>4 DEF BaseIsRight
<1>6. job[p].cmd = "install" /\ job[p].flag => BaseIsRight /\ ~job[p].counted /\ from \notin HalfStep
  BY <1>1, <1>2 DEF IInv, Each, Repeated
<1>7. /\ pc[p] \in InstallStep \ CheckStep /\ to \in InstallStep \ CheckStep
      /\ to \notin (DirStep \cup FileStep)
  BY <1>2, ZenonT(60)
<1>8. job[p].cmd = "install" /\ job[p].flag =>
        /\ j.changed = job[p].changed /\ j.counted = job[p].counted
        /\ to \notin HalfStep
  BY <1>3, <1>6, <1>7
<1>9. Each(p)'
  BY <1>1, <1>3, <1>4, <1>5, <1>7, <1>8, EachKeeps
<1> QED BY <1>3, <1>4, <1>7, <1>9, BaseStepKeeps

\* A command that ends, with the host as it is.
LEMMA EndKeeps ==
  ASSUME IInv, NEW p \in Proc, NEW l \in Ended, NEW j \in JobRecord, pc' = [pc EXCEPT ![p] = l],
         job' = [job EXCEPT ![p] = j], UNCHANGED <<off, stateVars, base>>
  PROVE  IInv'
<1>1. base \in BaseRecord
  BY DEF IInv, Types
<1> QED BY <1>1, BaseStepKeeps

LEMMA RefusesKeeps == ASSUME IInv, NEW p \in Proc, NEW l, NEW why, Refuses(p, l, why) PROVE IInv'
<1>1. job[p] \in JobRecord /\ job' = [job EXCEPT ![p] = job[p]]
  BY DEF IInv, Types, Refuses
<1> QED BY <1>1, EndKeeps DEF Refuses, Goto

\* A verification or an observation goes on or ends, and changes nothing.
LEMMA VerifiesKeeps ==
  ASSUME IInv, NEW p \in Proc, NEW from \in VerifyStep \cup ObserveStep,
         NEW to \in VerifyStep \cup ObserveStep \cup {"ok"}, NEW ok, Verifies(p, from, to, ok)
  PROVE  IInv'
<1>1. /\ job[p] \in JobRecord /\ job' = [job EXCEPT ![p] = job[p]] /\ base \in BaseRecord /\ p \in Running
      /\ pc[p] = from
  BY DEF IInv, Types, Verifies, Read, Step, Running
<1> DEFINE l == IF ok THEN to ELSE "refused"
<1>2. pc' = [pc EXCEPT ![p] = l] /\ UNCHANGED <<off, stateVars, base>>
  BY DEF Verifies, Read, Goto
<1>3. CASE l \in Ended
  BY <1>1, <1>2, <1>3, EndKeeps
<1>4. CASE l \notin Ended
  <2>1. /\ l \in VerifyStep \cup ObserveStep /\ l \in InstallStep \ CheckStep
        /\ pc[p] \in InstallStep \ CheckStep
        /\ l \notin (DirStep \cup FileStep \cup HalfStep)
    BY <1>1, <1>4
  <2> HIDE DEF l
  <2>2. BaseIsRight => BaseIsRight'
    BY <1>2 DEF BaseIsRight
  <2>3. Each(p)'
    BY <1>1, <1>2, <2>1, <2>2, EachKeeps
  <2> QED BY <1>1, <1>2, <2>1, <2>3, BaseStepKeeps
<1> QED BY <1>3, <1>4

\* platform() and dormant() look at every conflict of the host.
LEMMA InspectionIsComplete ==
  ASSUME Platform, Dormant
  PROVE  /\ off \cap ({"platform"} \X PlatformFlaw) = {} /\ off \cap ({"authority"} \X AuthorityFlaw) = {}
         /\ off \cap ({"services"} \X DormantFlaw) = {} /\ ~PrematureState
<1>1. /\ Clean("platform", {"secret environment"}, off) /\ Clean("platform", {"os release", "minor"}, off)
      /\ Clean("platform", {"architecture", "selinux mode"}, off)
      /\ Clean("platform", {"repository repeated", "repository foreign"}, off)
      /\ Clean("platform", {"selinux policy", "cgroup", "cpu", "hostname", "management peer", "automatic update"}, off)
  BY DEF Platform, Environment, AdmitPlatform, OsRelease, Repositories
<1>2. \A f \in PlatformFlaw : <<"platform", f>> \notin off
  BY <1>1 DEF PlatformFlaw, Clean
<1>3. off \cap ({"platform"} \X PlatformFlaw) = {}
  BY <1>2
<1> QED BY <1>3 DEF Platform, NoAuthority, Dormant, Clean

LEMMA InspectHostKeeps == ASSUME IInv, NEW p \in Proc, InspectHost(p) PROVE IInv'
<1>1. /\ job[p] \in JobRecord /\ job' = [job EXCEPT ![p] = job[p]] /\ base \in BaseRecord /\ p \in Running
      /\ pc[p] = "platform" /\ Types /\ Each(p)
  BY DEF IInv, Types, InspectHost, Read, Step, Running
<1>2. UNCHANGED <<off, stateVars, base, job>> /\ pc' = [pc EXCEPT ![p] = IF Platform /\ Dormant THEN "detect" ELSE "refused"]
  BY DEF InspectHost, Read, Goto
<1>3. CASE ~(Platform /\ Dormant)
  BY <1>1, <1>2, <1>3, EndKeeps
<1>4. CASE Platform /\ Dormant
  <2>1. pc'[p] = "detect" /\ job'[p] = job[p]
    BY <1>1, <1>2, <1>4 DEF Types
  <2>2. Placed(p)' /\ Repeated(p)'
    BY <1>1, <1>2, <2>1 DEF Each, Placed, Repeated, BaseIsRight
  <2>3. Staged(p)' /\ Stands(p)'
    BY <1>1, <1>2, <2>1 DEF Each, Staged, Stands, stateVars
  <2>4. job[p].stood \cap HostConflict = {}
    <3>1. /\ off \cap ({"platform"} \X PlatformFlaw) = {} /\ off \cap ({"authority"} \X AuthorityFlaw) = {}
          /\ off \cap ({"services"} \X DormantFlaw) = {} /\ ~PrematureState
      BY <1>4, InspectionIsComplete
    <3>2. <<"authority", "state">> \notin job[p].stood /\ job[p].stood \subseteq off
      BY <1>1, <3>1 DEF Each, Stands, PrematureState
    <3>3. HostConflict = {"platform"} \X PlatformFlaw \cup {"authority"} \X AuthorityFlaw
                           \cup {"services"} \X DormantFlaw \cup {<<"authority", "state">>}
      BY DEF HostConflict
    <3> QED BY <3>1, <3>2, <3>3
  <2>5. Detected(p)'
    BY <1>1, <2>1, <2>4 DEF Each, Detected
  <2>6. Each(p)'
    BY <2>2, <2>3, <2>5 DEF Each
  <2> QED BY <1>1, <1>2, <1>4, <2>6, BaseStepKeeps
<1> QED BY <1>3, <1>4

LEMMA DetectKeeps == ASSUME IInv, NEW p \in Proc, Detect(p) PROVE IInv'
<1> DEFINE found == /\ Legacy => LegacyIsExact
                    /\ \A f \in FileName : FileExists(f) => PublicFile(f)
                    /\ \A d \in BaseDirName : BaseDirExists(d) /\ ~(Legacy /\ d = "config") => Directory(d)
                    /\ Pinned
           j == [job[p] EXCEPT !.legacy = Legacy]
<1>1. job[p] \in JobRecord /\ base \in BaseRecord /\ p \in Running /\ pc[p] = "detect" /\ Types /\ Each(p)
  BY DEF IInv, Types, Detect, Read, Step, Running
<1>2. /\ UNCHANGED <<off, stateVars, base>>
      /\ pc' = [pc EXCEPT ![p] = IF found THEN "mask" ELSE "refused"]
      /\ job' = [job EXCEPT ![p] = j]
  BY <1>1 DEF Detect, Read, Goto, Types
<1>3. /\ j \in JobRecord /\ j.legacy = Legacy
      /\ j.cmd = job[p].cmd /\ j.flag = job[p].flag /\ j.stood = job[p].stood /\ j.copied = job[p].copied
      /\ j.changed = job[p].changed /\ j.counted = job[p].counted
  BY <1>1 DEF JobRecord, Legacy
<1> HIDE DEF j
<1>4. CASE ~found
  BY <1>2, <1>3, <1>4, EndKeeps
<1>5. CASE found
  <2>1. pc'[p] = "mask" /\ job'[p] = j
    BY <1>1, <1>2, <1>5 DEF Types
  <2>2. Placed(p)' /\ Repeated(p)'
    BY <1>1, <1>2, <1>3, <2>1 DEF Each, Placed, Repeated, BaseIsRight
  <2>3. Staged(p)' /\ Stands(p)'
    BY <1>1, <1>2, <1>3, <2>1 DEF Each, Staged, Stands, stateVars
  <2>4. job[p].cmd = "install" => job[p].stood \cap HostConflict = {} /\ <<"authority", "state">> \notin job[p].stood
    BY <1>1 DEF Each, Detected, HostConflict
  <2>5. job[p].cmd = "install" => job[p].stood \subseteq off
    BY <1>1, <2>4 DEF Each, Stands
  <2>6. /\ \A f \in FileName : <<"file", f>> \notin off
        /\ \A d \in BaseDirName \ {"config"} : <<"dir", d>> \notin off
        /\ <<"dir", "config">> \in off => Legacy
        /\ <<"packages", "pin">> \notin off
    BY <1>5 DEF FileExists, PublicFile, BaseDirExists, Directory, Pinned, Clean, BaseDirName, BaseDir
  <2>7. off \cap PathConflict = {}
    BY <2>6 DEF PathConflict
  <2>8. Detected(p)'
    BY <1>3, <2>1, <2>4, <2>5, <2>6, <2>7 DEF Detected
  <2>9. Each(p)'
    BY <2>2, <2>3, <2>8 DEF Each
  <2> QED BY <1>1, <1>2, <1>3, <1>5, <2>9, BaseStepKeeps
<1> QED BY <1>4, <1>5

\* The finished base, field by field.
LEMMA RightFields ==
  ASSUME BaseIsRight
  PROVE  /\ \A f \in FileName : base.files[f] = "right"
         /\ \A d \in BaseDirName : base.dirs[d] = "right"
         /\ base.packages = 2 /\ base.account = "right" /\ base.uid = TRUE /\ base.gid = TRUE
         /\ base.masked = TRUE /\ base.usermasked = TRUE /\ base.xdg = TRUE /\ base.loaded = TRUE
         /\ base.manager = "right" /\ base.linger = TRUE /\ base.label = "right" /\ base.firewall = TRUE
         /\ base.enabled = TRUE /\ base.active = TRUE
BY DEF BaseIsRight

\* Units, packages, the account and its first subordinate range.
LEMMA AccountKeeps ==
  ASSUME IInv, NEW p \in Proc, Mask(p) \/ InstallPackages(p) \/ FindAccount(p) \/ CreateGroup(p) \/ CreateUser(p) \/ AddSubuid(p)
  PROVE  IInv'
<1>1. base \in BaseRecord /\ job[p] \in JobRecord
  BY DEF IInv, Types
<1>2. CASE Mask(p)
  <2> DEFINE b == [base EXCEPT !.masked = TRUE]
  <2>1. b \in BaseRecord /\ b.files = base.files /\ (~base.masked) \in BOOLEAN
    BY <1>1 DEF BaseRecord
  <2>2. BaseIsRight => b = base /\ base.masked
    BY <1>1, RightFields DEF BaseRecord
  <2> HIDE DEF b
  <2>3. CASE Install(p, "mask", "packages", ~base.masked, b)
    BY <2>1, <2>2, <2>3, InstallKeeps
  <2> QED BY <1>2, <2>3, RefusesKeeps DEF Mask, b
<1>3. CASE InstallPackages(p)
  <2> DEFINE b == [base EXCEPT !.packages = IF @ < 2 THEN @ + 1 ELSE @]
             to == IF base.packages < 2 THEN "packages" ELSE "account"
  <2>1. b \in BaseRecord /\ b.files = base.files /\ (base.packages < 2) \in BOOLEAN /\ to \in {"packages", "account"}
    BY <1>1 DEF BaseRecord
  <2>2. BaseIsRight => b = base /\ ~(base.packages < 2)
    BY <1>1, RightFields DEF BaseRecord
  <2>3. Install(p, "packages", to, base.packages < 2, b)
    BY <1>3 DEF InstallPackages
  <2> HIDE DEF b, to
  <2> QED BY <2>1, <2>2, <2>3, InstallKeeps
<1>4. CASE FindAccount(p)
  <2> DEFINE to == IF base.account = "absent" THEN "group" ELSE "user"
  <2>1. CASE base.account # "right" /\ Install(p, "account", to, FALSE, base)
    <3>1. ~BaseIsRight /\ to \in {"group", "user"}
      BY <2>1, RightFields
    <3> HIDE DEF to
    <3> QED BY <1>1, <2>1, <3>1, InstallKeeps
  <2>2. CASE Install(p, "account", "uid", FALSE, base)
    BY <1>1, <2>2, InstallKeeps
  <2> QED BY <1>4, <2>1, <2>2, RefusesKeeps DEF FindAccount
<1>6. CASE CreateGroup(p)
  <2> DEFINE b == [base EXCEPT !.account = "group"]
  <2>1. b \in BaseRecord /\ b.files = base.files
    BY <1>1 DEF BaseRecord
  <2>2. CASE base.account = "absent" /\ Install(p, "group", "user", TRUE, b)
    <3>1. ~BaseIsRight
      BY <2>2, RightFields
    <3> HIDE DEF b
    <3> QED BY <2>1, <2>2, <3>1, InstallKeeps
  <2>3. Step(p, "group") /\ ~Taken(p) => base.account = "absent"
    BY DEF Taken, Step
  <2> HIDE DEF b
  <2> QED BY <1>6, <2>2, <2>3, RefusesKeeps DEF CreateGroup, Install, b
<1>7. CASE CreateUser(p)
  <2> DEFINE b == [base EXCEPT !.account = "right"]
  <2>1. b \in BaseRecord /\ b.files = base.files
    BY <1>1 DEF BaseRecord
  <2>2. CASE Install(p, "user", "account", TRUE, b)
    <3>1. BaseIsRight => b = base
      BY <1>1, RightFields DEF BaseRecord
    <3> HIDE DEF b
    <3> QED BY <2>1, <2>2, <3>1, InstallKeeps
  <2> HIDE DEF b
  <2> QED BY <1>7, <2>2, RefusesKeeps DEF CreateUser, b
<1>5. CASE AddSubuid(p)
  <2> DEFINE b == [base EXCEPT !.uid = TRUE]
  <2>1. b \in BaseRecord /\ b.files = base.files /\ (~base.uid) \in BOOLEAN
    BY <1>1 DEF BaseRecord
  <2>2. BaseIsRight => b = base /\ base.uid
    BY <1>1, RightFields DEF BaseRecord
  <2> HIDE DEF b
  <2>3. CASE Install(p, "uid", "gid", ~base.uid, b)
    BY <2>1, <2>2, <2>3, InstallKeeps
  <2> QED BY <1>5, <2>3, RefusesKeeps DEF AddSubuid, b
<1> QED BY <1>2, <1>3, <1>4, <1>5, <1>6, <1>7

\* The old layout, the links of the service account and the reload.
LEMMA LinksKeep ==
  ASSUME IInv, NEW p \in Proc, CheckLegacy(p) \/ RemoveLegacy(p) \/ TransferLegacy(p) \/ SetUpXdg(p) \/ LinkXdg(p) \/ Reload(p)
  PROVE  IInv'
<1>1. base \in BaseRecord /\ job[p] \in JobRecord
  BY DEF IInv, Types
<1>7. Legacy => ~BaseIsRight
  <2>1. "config" \in BaseDirName
    BY DEF BaseDirName, BaseDir
  <2> QED BY <2>1, RightFields DEF Legacy
<1>2. CASE RemoveLegacy(p)
  <2> DEFINE b == [base EXCEPT !.dirs["config"] = "half"]
  <2>1. b \in BaseRecord /\ b.files = base.files
    BY <1>1 DEF BaseRecord
  <2>2. CASE Legacy /\ Install(p, "unlink", "transfer", TRUE, b)
    <3>1. ~BaseIsRight
      BY <1>7, <2>2
    <3> HIDE DEF b
    <3> QED BY <2>1, <2>2, <3>1, InstallKeeps
  <2>3. pc[p] = "unlink" /\ ~Taken(p) => Legacy
    BY DEF Taken
  <2> HIDE DEF b
  <2> QED BY <1>2, <2>2, <2>3, RefusesKeeps DEF RemoveLegacy, Install, Step, b
<1>8. CASE CheckLegacy(p)
  <2>1. CASE Legacy /\ Install(p, "repair", "unlink", FALSE, base)
    BY <1>1, <1>7, <2>1, InstallKeeps
  <2>2. CASE Install(p, "repair", "xdg", FALSE, base)
    BY <1>1, <2>2, InstallKeeps
  <2> QED BY <1>8, <2>1, <2>2, RefusesKeeps DEF CheckLegacy
<1>3. CASE TransferLegacy(p)
  <2> DEFINE b == [base EXCEPT !.dirs["config"] = "right"]
  <2>1. b \in BaseRecord /\ b.files = base.files
    BY <1>1 DEF BaseRecord
  <2>2. BaseIsRight => b = base
    BY <1>1, RightFields DEF BaseRecord, BaseDirName, BaseDir
  <2>3. Install(p, "transfer", "xdg", TRUE, b)
    BY <1>3 DEF TransferLegacy
  <2> HIDE DEF b
  <2> QED BY <2>1, <2>2, <2>3, InstallKeeps
<1>4. CASE SetUpXdg(p)
  <2> DEFINE to == IF base.xdg THEN "reload" ELSE "link"
  <2>1. to \in {"reload", "link"} /\ (BaseIsRight => to = "reload")
    BY RightFields
  <2>2. CASE Install(p, "xdg", to, FALSE, base)
    <3> HIDE DEF to
    <3> QED BY <1>1, <2>1, <2>2, InstallKeeps
  <2> HIDE DEF to
  <2> QED BY <1>4, <2>2, RefusesKeeps DEF SetUpXdg, to
<1>6. CASE LinkXdg(p)
  <2> DEFINE b == [base EXCEPT !.xdg = TRUE]
  <2>1. b \in BaseRecord /\ b.files = base.files
    BY <1>1 DEF BaseRecord
  <2>2. BaseIsRight => b = base
    BY <1>1, RightFields DEF BaseRecord
  <2> HIDE DEF b
  <2>3. CASE Install(p, "link", "reload", TRUE, b)
    BY <2>1, <2>2, <2>3, InstallKeeps
  <2> QED BY <1>6, <2>3, RefusesKeeps DEF LinkXdg, b
<1>5. CASE Reload(p)
  <2> DEFINE b == [base EXCEPT !.loaded = @ \/ job[p].counted]
  <2>1. b \in BaseRecord /\ b.files = base.files
    BY <1>1 DEF BaseRecord, JobRecord
  <2>2. job[p].counted \in BOOLEAN
    BY <1>1 DEF JobRecord
  <2>3. BaseIsRight => b = base
    BY <1>1, RightFields DEF BaseRecord
  <2>4. Install(p, "reload", "labels", job[p].counted, b)
    BY <1>5 DEF Reload
  <2> HIDE DEF b
  <2> QED BY <2>1, <2>2, <2>3, <2>4, InstallKeeps
<1> QED BY <1>2, <1>3, <1>4, <1>5, <1>6, <1>8

\* The label of the store.
LEMMA LabelsKeep == ASSUME IInv, NEW p \in Proc, LabelStorage(p) \/ AddRule(p) \/ Restorecon(p) PROVE IInv'
<1>1. base \in BaseRecord /\ job[p] \in JobRecord
  BY DEF IInv, Types
<1>2. CASE LabelStorage(p)
  <2>1. CASE base.label = "none" /\ Install(p, "labels", "rule", FALSE, base)
    <3>1. ~BaseIsRight
      BY <2>1, RightFields
    <3> QED BY <1>1, <2>1, <3>1, InstallKeeps
  <2>2. CASE Install(p, "labels", "linger", FALSE, base)
    BY <1>1, <2>2, InstallKeeps
  <2> QED BY <1>2, <2>1, <2>2, RefusesKeeps DEF LabelStorage
<1>4. CASE AddRule(p)
  <2> DEFINE b == [base EXCEPT !.label = "policy"]
  <2>1. b \in BaseRecord /\ b.files = base.files
    BY <1>1 DEF BaseRecord
  <2>2. CASE base.label = "none" /\ Install(p, "rule", "restorecon", TRUE, b)
    <3>1. ~BaseIsRight
      BY <2>2, RightFields
    <3> HIDE DEF b
    <3> QED BY <2>1, <2>2, <3>1, InstallKeeps
  <2>3. Step(p, "rule") /\ ~Taken(p) => base.label = "none"
    BY DEF Taken, Step
  <2> HIDE DEF b
  <2> QED BY <1>4, <2>2, <2>3, RefusesKeeps DEF AddRule, Install, b
<1>3. CASE Restorecon(p)
  <2> DEFINE b == [base EXCEPT !.label = "right"]
  <2>1. b \in BaseRecord /\ b.files = base.files
    BY <1>1 DEF BaseRecord
  <2>2. BaseIsRight => b = base
    BY <1>1, RightFields DEF BaseRecord
  <2> HIDE DEF b
  <2>3. CASE Install(p, "restorecon", "linger", TRUE, b)
    BY <2>1, <2>2, <2>3, InstallKeeps
  <2> QED BY <1>3, <2>3, RefusesKeeps DEF Restorecon, b
<1> QED BY <1>2, <1>3, <1>4

\* A started user manager changes nothing else of the base.
LEMMA StartedBase ==
  ASSUME NEW b \in BaseRecord, NEW c \in Started(b)
  PROVE  c \in BaseRecord /\ c.files = b.files /\ (b.manager = "right" => c = b)
<1>1. PICK m \in {"down", "right", "stale"} : c = [b EXCEPT !.manager = m] /\ (b.manager # "down" => m = b.manager)
  BY DEF Started, BaseRecord
<1>2. c \in BaseRecord /\ c.files = b.files
  BY <1>1 DEF BaseRecord
<1>3. b.manager = "right" => c = b
  BY <1>1 DEF BaseRecord
<1> QED BY <1>2, <1>3

\* Lingering, the user manager and the units of the user.
LEMMA ManagerKeeps ==
  ASSUME IInv, NEW p \in Proc, EnableLinger(p) \/ StartManager(p) \/ MaskUser(p)
  PROVE  IInv'
<1>1. base \in BaseRecord /\ job[p] \in JobRecord
  BY DEF IInv, Types
<1>2. CASE EnableLinger(p)
  <2> DEFINE l == [base EXCEPT !.linger = TRUE]
  <2>1. l \in BaseRecord /\ l.files = base.files
    BY <1>1 DEF BaseRecord
  <2>2. CASE ~base.linger /\ \E b \in Started(l) : Install(p, "linger", "manager", TRUE, b)
    <3>1. ~BaseIsRight
      BY <2>2, RightFields
    <3> HIDE DEF l
    <3>2. PICK b \in Started(l) : Install(p, "linger", "manager", TRUE, b)
      BY <2>2
    <3>3. b \in BaseRecord /\ b.files = base.files
      BY <2>1, StartedBase
    <3> QED BY <3>1, <3>2, <3>3, InstallKeeps
  <2>3. CASE Install(p, "linger", "manager", FALSE, base)
    BY <1>1, <2>3, InstallKeeps
  <2> HIDE DEF l
  <2> QED BY <1>2, <2>2, <2>3 DEF EnableLinger, l
<1>3. CASE StartManager(p)
  <2>1. PICK b \in Started(base) : Install(p, "manager", "user mask", base.manager = "down", b)
    BY <1>3 DEF StartManager
  <2>2. b \in BaseRecord /\ b.files = base.files /\ (base.manager = "right" => b = base)
    BY <1>1, StartedBase
  <2>3. BaseIsRight => b = base /\ base.manager # "down"
    BY <2>2, RightFields
  <2>4. /\ (base.manager = "down") \in BOOLEAN
        /\ "manager" \in WorkStep /\ "user mask" \in WorkStep \ (DirStep \cup FileStep) /\ "user mask" \notin HalfStep
    OBVIOUS
  <2> HIDE DEF Ended, CheckStep, WorkStep, DirStep, FileStep, HalfStep, VerifyStep, ObserveStep, InstallStep, StateStep, MarkerStep
  <2> QED BY <2>1, <2>2, <2>3, <2>4, InstallKeeps
<1>4. CASE MaskUser(p)
  <2> DEFINE b == [base EXCEPT !.usermasked = TRUE]
  <2>1. b \in BaseRecord /\ b.files = base.files /\ (~base.usermasked) \in BOOLEAN
    BY <1>1 DEF BaseRecord
  <2>2. BaseIsRight => b = base /\ base.usermasked
    BY <1>1, RightFields DEF BaseRecord
  <2> HIDE DEF b
  <2>3. CASE Install(p, "user mask", "firewall", ~base.usermasked, b)
    BY <2>1, <2>2, <2>3, InstallKeeps
  <2> QED BY <1>4, <2>3, RefusesKeeps DEF MaskUser, b
<1> QED BY <1>2, <1>3, <1>4

\* The rules of the firewall and its service.
LEMMA FirewallKeeps == ASSUME IInv, NEW p \in Proc, ApplyFirewall(p) \/ EnableFirewall(p) PROVE IInv'
<1>1. base \in BaseRecord /\ job[p] \in JobRecord
  BY DEF IInv, Types
<1>2. CASE ApplyFirewall(p)
  <2> DEFINE b == [base EXCEPT !.firewall = TRUE]
  <2>1. b \in BaseRecord /\ b.files = base.files /\ (~base.firewall) \in BOOLEAN
    BY <1>1 DEF BaseRecord
  <2>2. BaseIsRight => b = base /\ base.firewall
    BY <1>1, RightFields DEF BaseRecord
  <2> HIDE DEF b
  <2>3. CASE Install(p, "firewall", "enable", ~base.firewall, b)
    BY <2>1, <2>2, <2>3, InstallKeeps
  <2> QED BY <1>2, <2>3, RefusesKeeps DEF ApplyFirewall, b
<1>3. CASE EnableFirewall(p)
  <2> DEFINE loaded == base.loaded \/ ~base.enabled
             b == [base EXCEPT !.enabled = TRUE, !.loaded = @ \/ ~base.enabled]
  <2>0. loaded \in BOOLEAN /\ (BaseIsRight => loaded = TRUE) /\ b = [base EXCEPT !.enabled = TRUE, !.loaded = loaded]
    BY RightFields
  <2> HIDE DEF loaded, b
  <2>1. b \in BaseRecord /\ b.files = base.files /\ (~base.enabled) \in BOOLEAN
    BY <1>1, <2>0 DEF BaseRecord
  <2>2. BaseIsRight => b = base /\ base.enabled
    BY <1>1, <2>0, RightFields DEF BaseRecord
  <2>3. CASE Install(p, "enable", "start", ~base.enabled, b)
    BY <2>1, <2>2, <2>3, InstallKeeps
  <2> QED BY <1>3, <2>3, RefusesKeeps DEF EnableFirewall, b
<1> QED BY <1>2, <1>3

\* The second subordinate range, after which the loop over the directories begins.
LEMMA AddSubgidKeeps == ASSUME IInv, NEW p \in Proc, AddSubgid(p) PROVE IInv'
<1>1. /\ base \in BaseRecord /\ job[p] \in JobRecord /\ p \in Running /\ pc[p] = "gid" /\ Types /\ Each(p)
      /\ UNCHANGED <<off, stateVars>>
  BY DEF IInv, Types, Running, AddSubgid, Step
<1>2. CASE Goto(p, "refused") /\ UNCHANGED <<job, base>>
  <2>1. job' = [job EXCEPT ![p] = job[p]] /\ pc' = [pc EXCEPT ![p] = "refused"]
    BY <1>1, <1>2 DEF Goto, Types
  <2> QED BY <1>1, <1>2, <2>1, EndKeeps
<1>3. CASE /\ Goto(p, "dirs") /\ base' = [base EXCEPT !.gid = TRUE]
           /\ job' = [job EXCEPT ![p].changed = @ \/ ~base.gid, ![p].counted = FALSE, ![p].i = 1]
  <2> DEFINE b == [base EXCEPT !.gid = TRUE]
             changed == job[p].changed \/ ~base.gid
             j == [job[p] EXCEPT !.changed = changed, !.counted = FALSE, !.i = 1]
  <2>1. b \in BaseRecord /\ b.files = base.files
    BY <1>1 DEF BaseRecord
  <2>2. BaseIsRight => b = base
    BY <1>1, RightFields DEF BaseRecord
  <2>3. job' = [job EXCEPT ![p] = j] /\ pc' = [pc EXCEPT ![p] = "dirs"] /\ base' = b
    BY <1>1, <1>3 DEF Goto, Types
  <2>4. job[p].cmd = "install" /\ job[p].flag => ~job[p].changed /\ ~job[p].counted /\ BaseIsRight
    BY <1>1 DEF Each, Repeated
  <2>5. /\ changed \in BOOLEAN
        /\ job[p].cmd = "install" /\ job[p].flag => ~changed
    BY <2>4, RightFields
  <2> HIDE DEF b, changed
  <2>6. /\ j \in JobRecord
        /\ j.cmd = job[p].cmd /\ j.flag = job[p].flag /\ j.stood = job[p].stood /\ j.copied = job[p].copied
        /\ j.legacy = job[p].legacy /\ j.changed = changed /\ j.counted = FALSE /\ j.i = 1
    BY <1>1, <2>5 DEF JobRecord
  <2> HIDE DEF j
  <2>7. job[p].changed \in BOOLEAN /\ job[p].counted \in BOOLEAN
    BY <1>1 DEF JobRecord
  <2>8. job[p].cmd = "install" /\ job[p].flag => j.changed = job[p].changed /\ j.counted = job[p].counted
    BY <2>4, <2>5, <2>6, <2>7
  <2>9. 1 \in DOMAIN BaseDir
    BY DEF BaseDir
  <2>10. BaseIsRight => BaseIsRight'
    BY <2>2, <2>3 DEF BaseIsRight
  <2>11. Each(p)'
    BY <1>1, <2>3, <2>6, <2>8, <2>9, <2>10, EachKeeps
  <2> QED BY <1>1, <2>1, <2>2, <2>3, <2>6, <2>11, BaseStepKeeps
<1> QED BY <1>2, <1>3 DEF AddSubgid

LEMMA Loops ==
  /\ Len(BaseDir) = 4 /\ DOMAIN BaseDir = 1 .. 4
  /\ Len(File) = 4 /\ DOMAIN File = 1 .. 4
BY DEF BaseDir, File

\* One directory done, to the next one or to the files.
LEMMA NextDirectory ==
  ASSUME NEW n \in DOMAIN BaseDir
  PROVE  /\ BaseDir[n] \in BaseDirName /\ 1 \in DOMAIN File
         /\ n + 1 \in Nat /\ (n # Len(BaseDir) => n + 1 \in DOMAIN BaseDir)
<1>1. BaseDir[n] \in BaseDirName
  BY DEF BaseDirName
<1> QED BY <1>1, Loops

LEMMA CheckDirectoryKeeps == ASSUME IInv, NEW p \in Proc, CheckDirectory(p) PROVE IInv'
<1> DEFINE d == BaseDir[job[p].i]
           l == AfterDirectory(p)
           i == IF job[p].i = Len(BaseDir) THEN 1 ELSE job[p].i + 1
           on == [job[p] EXCEPT !.i = i]
<1>1. /\ base \in BaseRecord /\ job[p] \in JobRecord /\ p \in Running /\ pc[p] = "dirs" /\ Types /\ Each(p)
      /\ UNCHANGED <<off, stateVars, base>>
  BY DEF IInv, Types, Running, CheckDirectory, Step
<1>2. /\ job[p].i \in DOMAIN BaseDir /\ d \in BaseDirName
      /\ l \in {"files", "dirs"} /\ i \in Nat
      /\ l = "files" => i \in DOMAIN File
      /\ l = "dirs" => i \in DOMAIN BaseDir
  <2>1. job[p].i \in DOMAIN BaseDir
    BY <1>1 DEF Each, Placed
  <2> QED BY <2>1, NextDirectory DEF AfterDirectory
<1>3. \/ pc' = [pc EXCEPT ![p] = l] /\ job' = [job EXCEPT ![p] = on]
      \/ pc' = [pc EXCEPT ![p] = "refused"] /\ job' = [job EXCEPT ![p] = job[p]]
      \/ base.dirs[d] = "absent" /\ pc' = [pc EXCEPT ![p] = "make dir"] /\ job' = [job EXCEPT ![p] = job[p]]
  BY <1>1 DEF CheckDirectory, JobAfterDirectory, Goto, Types, BaseDirExists
<1> HIDE DEF i, l, d
<1>4. /\ on \in JobRecord
      /\ on.cmd = job[p].cmd /\ on.flag = job[p].flag /\ on.stood = job[p].stood /\ on.copied = job[p].copied
      /\ on.legacy = job[p].legacy /\ on.changed = job[p].changed /\ on.counted = job[p].counted /\ on.i = i
  BY <1>1, <1>2 DEF JobRecord
<1> HIDE DEF on
<1>5. BaseIsRight => BaseIsRight'
  BY <1>1 DEF BaseIsRight
<1>6. CASE pc' = [pc EXCEPT ![p] = l] /\ job' = [job EXCEPT ![p] = on]
  <2>1. l \in InstallStep \ CheckStep /\ l \notin HalfStep
    BY <1>2
  <2>2. Each(p)'
    BY <1>1, <1>2, <1>4, <1>5, <1>6, <2>1, EachKeeps
  <2> QED BY <1>1, <1>4, <1>6, <2>1, <2>2, BaseStepKeeps
<1>7. CASE pc' = [pc EXCEPT ![p] = "refused"] /\ job' = [job EXCEPT ![p] = job[p]]
  BY <1>1, <1>7, EndKeeps
<1>8. CASE base.dirs[d] = "absent" /\ pc' = [pc EXCEPT ![p] = "make dir"] /\ job' = [job EXCEPT ![p] = job[p]]
  <2>1. ~(job[p].cmd = "install" /\ job[p].flag)
    BY <1>1, <1>2, <1>8, RightFields DEF Each, Repeated
  <2>2. Each(p)'
    BY <1>1, <1>2, <1>5, <1>8, <2>1, EachKeeps
  <2> QED BY <1>1, <1>8, <2>2, BaseStepKeeps
<1> QED BY <1>3, <1>6, <1>7, <1>8

LEMMA MakeDirectoryKeeps == ASSUME IInv, NEW p \in Proc, MakeDirectory(p) PROVE IInv'
<1> DEFINE d == BaseDir[job[p].i]
           l == AfterDirectory(p)
           i == IF job[p].i = Len(BaseDir) THEN 1 ELSE job[p].i + 1
           on == [job[p] EXCEPT !.i = i]
<1>1. /\ base \in BaseRecord /\ job[p] \in JobRecord /\ p \in Running /\ pc[p] = "make dir" /\ Types /\ Each(p)
      /\ UNCHANGED <<off, stateVars>>
  BY DEF IInv, Types, Running, MakeDirectory, Refuses, Step
<1>2. /\ job[p].i \in DOMAIN BaseDir /\ d \in BaseDirName
      /\ l \in {"files", "dirs"} /\ i \in Nat
      /\ l = "files" => i \in DOMAIN File
      /\ l = "dirs" => i \in DOMAIN BaseDir
  <2>1. job[p].i \in DOMAIN BaseDir
    BY <1>1 DEF Each, Placed
  <2> QED BY <2>1, NextDirectory DEF AfterDirectory
<1>3. \/ pc' = [pc EXCEPT ![p] = "refused"] /\ UNCHANGED <<job, base>>
      \/ /\ base.dirs[d] = "absent"
         /\ base' = [base EXCEPT !.dirs[d] = IF d = "quadlets" THEN "right" ELSE "torn"]
         /\ pc' = [pc EXCEPT ![p] = IF d = "quadlets" THEN l ELSE "chown dir"]
         /\ job' = [job EXCEPT ![p] = [(IF d = "quadlets" THEN on ELSE job[p]) EXCEPT !.changed = TRUE, !.counted = TRUE]]
  BY <1>1 DEF MakeDirectory, JobAfterDirectory, Refuses, Goto, Types, BaseDirExists
<1> HIDE DEF i, l, d
<1>4. /\ on \in JobRecord
      /\ on.cmd = job[p].cmd /\ on.flag = job[p].flag /\ on.stood = job[p].stood /\ on.copied = job[p].copied
      /\ on.legacy = job[p].legacy /\ on.changed = job[p].changed /\ on.counted = job[p].counted /\ on.i = i
  BY <1>1, <1>2 DEF JobRecord
<1> HIDE DEF on
<1>6. CASE pc' = [pc EXCEPT ![p] = "refused"] /\ UNCHANGED <<job, base>>
  <2>1. job' = [job EXCEPT ![p] = job[p]]
    BY <1>1, <1>6 DEF Types
  <2> QED BY <1>1, <1>6, <2>1, EndKeeps
<1>7. CASE /\ base.dirs[d] = "absent"
           /\ base' = [base EXCEPT !.dirs[d] = IF d = "quadlets" THEN "right" ELSE "torn"]
           /\ pc' = [pc EXCEPT ![p] = IF d = "quadlets" THEN l ELSE "chown dir"]
           /\ job' = [job EXCEPT ![p] = [(IF d = "quadlets" THEN on ELSE job[p]) EXCEPT !.changed = TRUE, !.counted = TRUE]]
  <2> DEFINE b == [base EXCEPT !.dirs[d] = IF d = "quadlets" THEN "right" ELSE "torn"]
             r == IF d = "quadlets" THEN on ELSE job[p]
             j == [r EXCEPT !.changed = TRUE, !.counted = TRUE]
             to == IF d = "quadlets" THEN l ELSE "chown dir"
  <2>1. b \in BaseRecord /\ b.files = base.files
    BY <1>1, <1>2 DEF BaseRecord
  <2>2. ~BaseIsRight /\ ~(job[p].cmd = "install" /\ job[p].flag)
    BY <1>1, <1>2, <1>7, RightFields DEF Each, Repeated
  <2>3. r \in JobRecord /\ r.cmd = job[p].cmd /\ r.flag = job[p].flag /\ r.stood = job[p].stood
        /\ r.copied = job[p].copied /\ r.legacy = job[p].legacy
    BY <1>1, <1>4
  <2>4. /\ to \in {"files", "dirs", "chown dir"}
        /\ to \in DirStep => r.i \in DOMAIN BaseDir
        /\ to = "files" => r.i \in DOMAIN File
    BY <1>2, <1>4
  <2>5. base' = b /\ pc' = [pc EXCEPT ![p] = to] /\ job' = [job EXCEPT ![p] = j]
    BY <1>7
  <2> HIDE DEF r, b, to
  <2>6. /\ j \in JobRecord
        /\ j.cmd = r.cmd /\ j.flag = r.flag /\ j.stood = r.stood /\ j.copied = r.copied /\ j.legacy = r.legacy
        /\ j.i = r.i
    BY <2>3 DEF JobRecord
  <2> HIDE DEF j
  <2>7. to \in InstallStep \ CheckStep /\ to # "write file" /\ pc[p] \in InstallStep \ CheckStep
    BY <1>1, <2>4
  <2>8. Each(p)'
    BY <1>1, <2>2, <2>3, <2>4, <2>5, <2>6, <2>7, EachKeeps
  <2> QED BY <1>1, <2>1, <2>2, <2>5, <2>6, <2>7, <2>8, BaseStepKeeps
<1> QED BY <1>3, <1>6, <1>7

LEMMA ChownDirectoryKeeps == ASSUME IInv, NEW p \in Proc, ChownDirectory(p) PROVE IInv'
<1> DEFINE d == BaseDir[job[p].i]
           l == AfterDirectory(p)
           i == IF job[p].i = Len(BaseDir) THEN 1 ELSE job[p].i + 1
           j == [job[p] EXCEPT !.i = i]
           b == [base EXCEPT !.dirs[d] = "right"]
<1>1. /\ base \in BaseRecord /\ job[p] \in JobRecord /\ p \in Running /\ pc[p] = "chown dir" /\ Types /\ Each(p)
      /\ UNCHANGED <<off, stateVars>>
  BY DEF IInv, Types, Running, ChownDirectory, Step
<1>2. /\ job[p].i \in DOMAIN BaseDir /\ d \in BaseDirName
      /\ l \in {"files", "dirs"} /\ i \in Nat
      /\ l = "files" => i \in DOMAIN File
      /\ l = "dirs" => i \in DOMAIN BaseDir
  <2>1. job[p].i \in DOMAIN BaseDir
    BY <1>1 DEF Each, Placed
  <2> QED BY <2>1, NextDirectory DEF AfterDirectory
<1>3. pc' = [pc EXCEPT ![p] = l] /\ job' = [job EXCEPT ![p] = j] /\ base' = b
  BY <1>1 DEF ChownDirectory, JobAfterDirectory, Goto, Types
<1> HIDE DEF i, l, d
<1>4. /\ j \in JobRecord
      /\ j.cmd = job[p].cmd /\ j.flag = job[p].flag /\ j.stood = job[p].stood /\ j.copied = job[p].copied
      /\ j.legacy = job[p].legacy /\ j.changed = job[p].changed /\ j.counted = job[p].counted /\ j.i = i
  BY <1>1, <1>2 DEF JobRecord
<1>5. b \in BaseRecord /\ b.files = base.files
  BY <1>1, <1>2 DEF BaseRecord
<1>6. BaseIsRight => b = base
  <2>1. BaseIsRight => [base.dirs EXCEPT ![d] = "right"] = base.dirs
    BY <1>1, <1>2, RightFields DEF BaseRecord
  <2>2. b = [base EXCEPT !.dirs = [base.dirs EXCEPT ![d] = "right"]]
    OBVIOUS
  <2> QED BY <1>1, <2>1, <2>2 DEF BaseRecord
<1> HIDE DEF j, b
<1>7. BaseIsRight => BaseIsRight'
  BY <1>3, <1>6 DEF BaseIsRight
<1>8. /\ l \in InstallStep \ CheckStep /\ l \notin HalfStep
      /\ pc[p] \in InstallStep \ CheckStep
  BY <1>1, <1>2
<1>9. Each(p)'
  BY <1>1, <1>2, <1>3, <1>4, <1>7, <1>8, EachKeeps
<1> QED BY <1>1, <1>3, <1>4, <1>5, <1>6, <1>8, <1>9, BaseStepKeeps

\* One file done, to the next one or on.
LEMMA NextFile ==
  ASSUME NEW p \in Proc, job[p].i \in DOMAIN File
  PROVE  /\ File[job[p].i] \in FileName /\ job[p].i + 1 \in Nat
         /\ AfterFile(p) \in {"files", "repair", "xdg"}
         /\ AfterFile(p) = "files" => job[p].i + 1 \in DOMAIN File
<1>1. File[job[p].i] \in FileName
  BY DEF FileName
<1>2. /\ AfterFile(p) \in {"files", "repair", "xdg"}
      /\ AfterFile(p) = "files" => job[p].i < Len(File)
  BY DEF AfterFile
<1> QED BY <1>1, <1>2, Loops

LEMMA Writers ==
  ASSUME OneWriter, NEW q \in Proc, NEW r \in Proc, q # r, pc[q] = "write file", pc[r] = "write file"
  PROVE  File[job[q].i] # File[job[r].i]
BY Zenon DEF OneWriter

\* A command that opens a file no other one writes.
LEMMA OneWriterKeeps ==
  ASSUME OneWriter, NEW p \in Proc, NEW f,
         \A q \in Proc \ {p} : pc'[q] = pc[q] /\ job'[q] = job[q],
         \A q \in Proc \ {p} : pc[q] = "write file" => File[job[q].i] # f,
         pc'[p] = "write file" => File[job'[p].i] = f
  PROVE  OneWriter'
<1>1. SUFFICES ASSUME NEW q \in Proc, NEW r \in Proc, q # r, pc'[q] = "write file", pc'[r] = "write file"
               PROVE  File[job'[q].i] # File[job'[r].i]
  BY DEF OneWriter
<1>2. CASE q = p
  <2>1. pc'[r] = pc[r] /\ job'[r] = job[r]
    BY <1>1, <1>2
  <2>2. File[job[r].i] # f /\ File[job'[q].i] = f
    BY <1>1, <1>2, <2>1
  <2> QED BY <2>1, <2>2, Zenon
<1>3. CASE r = p
  <2>1. pc'[q] = pc[q] /\ job'[q] = job[q]
    BY <1>1, <1>3
  <2>2. File[job[q].i] # f /\ File[job'[r].i] = f
    BY <1>1, <1>3, <2>1
  <2> QED BY <2>1, <2>2, Zenon
<1>4. CASE q # p /\ r # p
  <2>1. pc'[q] = pc[q] /\ job'[q] = job[q] /\ pc'[r] = pc[r] /\ job'[r] = job[r]
    BY <1>1, <1>4
  <2>2. pc[q] = "write file" /\ pc[r] = "write file" /\ q # r
    BY <1>1, <2>1
  <2>3. File[job[q].i] # File[job[r].i]
    BY <2>2, Writers
  <2> QED BY <2>1, <2>3, Zenon
<1> QED BY <1>2, <1>3, <1>4

\* A step that changes one file.
LEMMA FileStepKeeps ==
  ASSUME IInv, NEW p \in Running, NEW l \in InstallStep \ CheckStep, NEW j \in JobRecord, NEW b \in BaseRecord,
         NEW f \in FileName,
         pc' = [pc EXCEPT ![p] = l], job' = [job EXCEPT ![p] = j], base' = b,
         UNCHANGED <<off, stateVars>>,
         \A g \in FileName \ {f} : b.files[g] = base.files[g],
         base.files[f] # "right",
         \A q \in Proc \ {p} : pc[q] = "write file" => File[job[q].i] # f,
         l = "write file" => File[j.i] = f,
         Each(p)'
  PROVE  IInv'
<1>1. Types /\ StateIsWhole /\ (temp.by # "none" => LayoutIsRight) /\ OneWriter /\ p \in Proc
  BY DEF IInv, Running
<1>2. UNCHANGED <<dirs, secrets, source, marker, temp>>
  BY DEF stateVars
<1>3. Types'
  BY <1>1, <1>2 DEF Types
<1>4. StateIsWhole' /\ (temp'.by # "none" => LayoutIsRight')
  BY <1>1, <1>2 DEF StateIsWhole, LayoutIsRight
<1>5. ~BaseIsRight
  BY RightFields
<1>6. Forward
  BY <1>2, <1>5 DEF Forward, LayoutIsRight
<1>7. pc'[p] = l /\ job'[p] = j /\ \A q \in Proc \ {p} : pc'[q] = pc[q] /\ job'[q] = job[q]
  BY <1>1 DEF Types
<1>8. OneWriter'
  <2>1. \A q \in Proc \ {p} : pc[q] = "write file" => File[job[q].i] # f
    OBVIOUS
  <2>2. pc'[p] = "write file" => File[job'[p].i] = f
    BY <1>7
  <2>3. \A q \in Proc \ {p} : pc'[q] = pc[q] /\ job'[q] = job[q]
    BY <1>7
  <2>4. OneWriter /\ p \in Proc
    BY <1>1
  <2> HIDE DEF Ended, CheckStep, WorkStep, DirStep, FileStep, HalfStep, VerifyStep, ObserveStep, InstallStep, StateStep, MarkerStep
  <2> QED BY <2>1, <2>2, <2>3, <2>4, OneWriterKeeps, ZenonT(60)
<1>9. ASSUME NEW q \in Proc \ {p}, pc[q] = "write file"
      PROVE  base'.files[File[job[q].i]] = base.files[File[job[q].i]]
  <2>1. q \in Running /\ Each(q)
    BY <1>9 DEF Running, IInv
  <2>2. File[job[q].i] \in FileName
    BY <1>9, <2>1 DEF Each, Placed, FileName
  <2> QED BY <1>9, <2>2
<1> QED BY <1>1, <1>3, <1>4, <1>6, <1>8, <1>9, StepKeeps

LEMMA CheckFileKeeps == ASSUME IInv, NEW p \in Proc, CheckFile(p) PROVE IInv'
<1> DEFINE f == File[job[p].i]
<1>1. /\ base \in BaseRecord /\ job[p] \in JobRecord /\ p \in Running /\ pc[p] = "files" /\ Types /\ Each(p)
      /\ UNCHANGED <<off, stateVars, base>>
  BY DEF IInv, Types, Running, CheckFile, Step
<1>2. /\ job[p].i \in DOMAIN File /\ f \in FileName /\ job[p].i + 1 \in Nat
      /\ AfterFile(p) \in {"files", "repair", "xdg"}
      /\ AfterFile(p) = "files" => job[p].i + 1 \in DOMAIN File
  <2>1. job[p].i \in DOMAIN File
    BY <1>1 DEF Each, Placed
  <2> QED BY <2>1, NextFile
<1>3. \/ /\ pc' = [pc EXCEPT ![p] = IF PublicFile(f) THEN AfterFile(p) ELSE "refused"]
         /\ job' = [job EXCEPT ![p] = [job[p] EXCEPT !.i = job[p].i + 1]]
      \/ /\ base.files[f] = "absent" /\ pc' = [pc EXCEPT ![p] = "open file"]
         /\ job' = [job EXCEPT ![p] = job[p]]
  BY <1>1 DEF CheckFile, Goto, FileExists, Types
<1> HIDE DEF f
<1>4. CASE /\ pc' = [pc EXCEPT ![p] = IF PublicFile(f) THEN AfterFile(p) ELSE "refused"]
           /\ job' = [job EXCEPT ![p] = [job[p] EXCEPT !.i = job[p].i + 1]]
  <2> DEFINE j == [job[p] EXCEPT !.i = job[p].i + 1]
             l == IF PublicFile(f) THEN AfterFile(p) ELSE "refused"
  <2>1. /\ j \in JobRecord
        /\ j.cmd = job[p].cmd /\ j.flag = job[p].flag /\ j.stood = job[p].stood /\ j.copied = job[p].copied
        /\ j.legacy = job[p].legacy /\ j.changed = job[p].changed /\ j.counted = job[p].counted /\ j.i = job[p].i + 1
    BY <1>1, <1>2 DEF JobRecord
  <2>2. pc' = [pc EXCEPT ![p] = l] /\ job' = [job EXCEPT ![p] = j]
    BY <1>4
  <2>3. l \in {"files", "repair", "xdg", "refused"} /\ (l = "files" => j.i \in DOMAIN File)
    BY <1>2, <2>1
  <2> HIDE DEF j, l
  <2>4. CASE l = "refused"
    BY <1>1, <1>4, <2>1, <2>2, <2>4, EndKeeps
  <2>5. CASE l # "refused"
    <3>1. /\ l \in InstallStep \ CheckStep /\ l \notin (DirStep \cup HalfStep)
          /\ pc[p] \in InstallStep \ CheckStep
      BY <1>1, <2>3, <2>5
    <3>2. BaseIsRight => BaseIsRight'
      BY <1>1 DEF BaseIsRight
    <3>3. Each(p)'
      BY <1>1, <2>1, <2>2, <2>3, <3>1, <3>2, EachKeeps
    <3>4. /\ l # "write file" /\ l \in Ended \cup InstallStep
          /\ p \in Proc /\ base' = base /\ UNCHANGED <<off, stateVars>>
      BY <1>1, <3>1
    <3>5. /\ IInv /\ base \in BaseRecord /\ base.files = base.files /\ j \in JobRecord
          /\ pc' = [pc EXCEPT ![p] = l] /\ job' = [job EXCEPT ![p] = j]
      BY <1>1, <2>1, <2>2
    <3> HIDE DEF Ended, CheckStep, WorkStep, DirStep, FileStep, HalfStep, VerifyStep, ObserveStep, InstallStep, StateStep, MarkerStep
    <3> QED BY <3>3, <3>4, <3>5, BaseStepKeeps
  <2> QED BY <2>4, <2>5
<1>5. CASE base.files[f] = "absent" /\ pc' = [pc EXCEPT ![p] = "open file"] /\ job' = [job EXCEPT ![p] = job[p]]
  <2>1. ~BaseIsRight /\ ~(job[p].cmd = "install" /\ job[p].flag)
    BY <1>1, <1>2, <1>5, RightFields DEF Each, Repeated
  <2>2. Each(p)'
    BY <1>1, <1>2, <1>5, <2>1, EachKeeps
  <2> QED BY <1>1, <1>5, <2>1, <2>2, BaseStepKeeps
<1> QED BY <1>3, <1>4, <1>5

LEMMA OpenFileKeeps == ASSUME IInv, NEW p \in Proc, OpenFile(p) PROVE IInv'
<1> DEFINE f == File[job[p].i]
<1>1. CASE Refuses(p, "open file", FileExists(f))
  BY <1>1, RefusesKeeps
<1>2. CASE Step(p, "open file") /\ ~FileExists(f) /\ Install(p, "open file", "write file", FALSE, [base EXCEPT !.files[f] = "partial"])
  <2> DEFINE b == [base EXCEPT !.files[f] = "partial"]
  <2>1. /\ base \in BaseRecord /\ job[p] \in JobRecord /\ p \in Running /\ pc[p] = "open file" /\ Types /\ Each(p)
        /\ UNCHANGED <<off, stateVars>>
    BY <1>2 DEF IInv, Types, Running, Install, Step
  <2>2. job[p].i \in DOMAIN File /\ f \in FileName
    BY <2>1 DEF Each, Placed, FileName
  <2>3. /\ base.files[f] = "absent" /\ pc' = [pc EXCEPT ![p] = "write file"]
        /\ base' = b /\ job' = [job EXCEPT ![p] = job[p]]
    BY <1>2, <2>1 DEF Install, Goto, FileExists, Types
  <2>4. b \in BaseRecord /\ b.files[f] = "partial" /\ \A g \in FileName \ {f} : b.files[g] = base.files[g]
    BY <2>1, <2>2 DEF BaseRecord
  <2>5. f = File[job[p].i]
    OBVIOUS
  <2> HIDE DEF b, f
  <2>6. ~BaseIsRight /\ ~(job[p].cmd = "install" /\ job[p].flag)
    BY <2>1, <2>2, <2>3, RightFields DEF Each, Repeated
  <2>7. Each(p)'
    BY <2>1, <2>2, <2>3, <2>4, <2>5, <2>6, EachKeeps
  <2>8. \A q \in Proc \ {p} : pc[q] = "write file" => File[job[q].i] # f
    BY <2>3 DEF IInv, Running, Each, Placed
  <2> QED BY <2>1, <2>2, <2>3, <2>4, <2>5, <2>7, <2>8, FileStepKeeps
<1> QED BY <1>1, <1>2 DEF OpenFile

LEMMA WriteFileKeeps == ASSUME IInv, NEW p \in Proc, WriteFile(p) PROVE IInv'
<1> DEFINE f == File[job[p].i]
           l == AfterFile(p)
           loaded == base.loaded /\ f # "user drop-in"
           j == [job[p] EXCEPT !.i = job[p].i + 1, !.changed = TRUE, !.counted = TRUE]
           b == [base EXCEPT !.files[f] = "right", !.loaded = loaded]
<1>1. /\ base \in BaseRecord /\ job[p] \in JobRecord /\ p \in Running /\ pc[p] = "write file" /\ Types /\ Each(p)
      /\ UNCHANGED <<off, stateVars>>
  BY DEF IInv, Types, Running, WriteFile, Step
<1>2. /\ job[p].i \in DOMAIN File /\ f \in FileName /\ job[p].i + 1 \in Nat
      /\ l \in {"files", "repair", "xdg"}
      /\ l = "files" => job[p].i + 1 \in DOMAIN File
  <2>1. job[p].i \in DOMAIN File
    BY <1>1 DEF Each, Placed
  <2> QED BY <2>1, NextFile
<1>3. pc' = [pc EXCEPT ![p] = l] /\ job' = [job EXCEPT ![p] = j] /\ base' = b
  BY <1>1 DEF WriteFile, Goto, Types
<1>4. base.files[f] = "partial"
  BY <1>1 DEF Each, Placed
<1>5. \A q \in Proc \ {p} : pc[q] = "write file" => File[job[q].i] # f
  BY <1>1 DEF IInv, OneWriter
<1>6. loaded \in BOOLEAN
  OBVIOUS
<1> HIDE DEF f, l, loaded
<1>7. b \in BaseRecord /\ \A g \in FileName \ {f} : b.files[g] = base.files[g]
  BY <1>1, <1>2, <1>6 DEF BaseRecord
<1>8. /\ j \in JobRecord
      /\ j.cmd = job[p].cmd /\ j.flag = job[p].flag /\ j.stood = job[p].stood /\ j.copied = job[p].copied
      /\ j.legacy = job[p].legacy /\ j.i = job[p].i + 1
  BY <1>1, <1>2 DEF JobRecord
<1> HIDE DEF j, b
<1>9. ~BaseIsRight /\ ~(job[p].cmd = "install" /\ job[p].flag)
  BY <1>1, <1>2, <1>4, RightFields DEF Each, Repeated
<1>10. /\ l \in InstallStep \ CheckStep /\ l \notin (DirStep \cup {"write file"})
       /\ pc[p] \in InstallStep \ CheckStep
  BY <1>1, <1>2
<1>11. Each(p)'
  BY <1>1, <1>2, <1>3, <1>8, <1>9, <1>10, EachKeeps
<1>12. l # "write file" /\ base.files[f] # "right"
  BY <1>2, <1>4
<1> HIDE DEF Ended, CheckStep, WorkStep, DirStep, FileStep, HalfStep, VerifyStep, ObserveStep, InstallStep, StateStep, MarkerStep
<1> QED BY <1>1, <1>2, <1>3, <1>5, <1>7, <1>8, <1>10, <1>11, <1>12, FileStepKeeps

\* What a command that starts now may stand on.
LEMMA StandingIsKnown ==
  ASSUME Types
  PROVE  /\ Standing \in SUBSET HostPoint /\ Standing \subseteq off \cup {<<"authority", "state">>}
         /\ <<"authority", "state">> \in Standing => marker.by # "none" \/ secrets # NoTree
<1>1. "state" \notin AuthorityFlaw
  BY DEF AuthorityFlaw
<1>2. <<"authority", "state">> \notin StateFlaw
  BY DEF StateFlaw
<1>3. <<"authority", "state">> \notin BaseFlaw
  BY <1>1 DEF BaseFlaw
<1>4. <<"authority", "state">> \notin PreparationFlaw
  BY DEF PreparationFlaw
<1>5. <<"authority", "state">> \notin off
  BY <1>2, <1>3, <1>4 DEF Types, Deviation
<1> QED BY <1>5 DEF Types, Standing, HostPoint

LEMMA StartFirewallKeeps == ASSUME IInv, NEW p \in Proc, StartFirewall(p) PROVE IInv'
<1> DEFINE b == [base EXCEPT !.active = TRUE]
           changed == job[p].changed \/ ~base.active
           j == [job[p] EXCEPT !.changed = changed, !.found = Standing]
<1>1. /\ base \in BaseRecord /\ job[p] \in JobRecord /\ p \in Running /\ pc[p] = "start" /\ Types /\ Each(p)
      /\ UNCHANGED <<off, stateVars>>
  BY DEF IInv, Types, Running, StartFirewall, Step
<1>2. b \in BaseRecord /\ b.files = base.files
  BY <1>1 DEF BaseRecord
<1>3. BaseIsRight => b = base
  BY <1>1, RightFields DEF BaseRecord
<1>4. job' = [job EXCEPT ![p] = j] /\ pc' = [pc EXCEPT ![p] = "verify host"] /\ base' = b
  BY <1>1 DEF StartFirewall, Goto, Types
<1>5. job[p].cmd = "install" /\ job[p].flag => ~job[p].changed /\ ~job[p].counted /\ BaseIsRight
  BY <1>1 DEF Each, Repeated
<1>6. changed \in BOOLEAN /\ (job[p].cmd = "install" /\ job[p].flag => ~changed)
  BY <1>5, RightFields
<1>7. Standing \in SUBSET HostPoint
  BY <1>1, StandingIsKnown
<1> HIDE DEF b, changed
<1>8. /\ j \in JobRecord
      /\ j.cmd = job[p].cmd /\ j.flag = job[p].flag /\ j.stood = job[p].stood /\ j.copied = job[p].copied
      /\ j.legacy = job[p].legacy /\ j.changed = changed /\ j.counted = job[p].counted
  BY <1>1, <1>6, <1>7 DEF JobRecord
<1> HIDE DEF j
<1>9. job[p].changed \in BOOLEAN
  BY <1>1 DEF JobRecord
<1>10. job[p].cmd = "install" /\ job[p].flag => j.changed = job[p].changed /\ j.counted = job[p].counted
  BY <1>5, <1>6, <1>8, <1>9
<1>11. BaseIsRight => BaseIsRight'
  BY <1>3, <1>4 DEF BaseIsRight
<1>12. Each(p)'
  BY <1>1, <1>4, <1>8, <1>10, <1>11, EachKeeps
<1> QED BY <1>1, <1>2, <1>3, <1>4, <1>8, <1>12, BaseStepKeeps

\* Every step of the installation, the verification and the preparation.
LEMMA InstallCommandKeeps == ASSUME IInv, NEW p \in Proc, InstallCommand(p) PROVE IInv'
<1>1. CASE VerifyHost(p) \/ VerifyFiles(p) \/ Ready(p)
  BY <1>1, VerifiesKeeps DEF VerifyHost, VerifyFiles, Ready
<1>2. CASE VerifyRuntime(p)
  <2> DEFINE to == IF job[p].cmd = "enroll" THEN "ready" ELSE "ok"
  <2>1. to \in {"ready", "ok"}
    OBVIOUS
  <2> QED BY <1>2, <2>1, VerifiesKeeps DEF VerifyRuntime
<1>3. CASE Observe(p) \/ ObserveRest(p) \/ ObserveNative(p)
  BY <1>3, VerifiesKeeps DEF Observe, ObserveRest, ObserveNative
<1> QED BY <1>1, <1>2, <1>3, InspectHostKeeps, DetectKeeps, AccountKeeps, AddSubgidKeeps, CheckDirectoryKeeps,
          MakeDirectoryKeeps, ChownDirectoryKeeps, CheckFileKeeps, OpenFileKeeps, WriteFileKeeps, LinksKeep, LabelsKeep, ManagerKeeps, FirewallKeeps,
          StartFirewallKeeps DEF InstallCommand

\* A step of a state command: an installation is never at one.
LEMMA StateStepKeeps ==
  ASSUME IInv, NEW p \in Proc, pc[p] \in StateStep, NEW l \in Ended \cup StateStep, NEW j \in JobRecord,
         pc' = [pc EXCEPT ![p] = l], job' = [job EXCEPT ![p] = j], UNCHANGED <<off, base, source>>,
         dirs' \in [DirName -> {"absent", "torn", "right"}], marker' \in MarkerRecord, temp' \in MarkerRecord,
         LayoutIsRight => LayoutIsRight',
         marker.by # "none" => marker'.by # "none", secrets # NoTree => secrets' # NoTree,
         StateIsWhole', temp'.by # "none" => LayoutIsRight',
         j.cmd = job[p].cmd, j.stood = job[p].stood,
         l \in {"stage", "open"} => LayoutIsRight',
         l \notin Ended => Staged(p)'
  PROVE  IInv'
<1>1. Types /\ OneWriter /\ p \in Running /\ Each(p)
  BY DEF IInv, Running
<1>2. pc'[p] = l /\ job'[p] = j
  BY <1>1 DEF Types
<1>3. job[p].cmd # "install"
  BY <1>1 DEF Each, Placed
<1>4. Types'
  BY <1>1 DEF Types
<1>5. Forward
  BY DEF Forward, BaseIsRight
<1>6. OneWriter'
  BY <1>1 DEF OneWriter, Types
<1>7. ASSUME l \notin Ended PROVE Each(p)'
  <2>1. Placed(p)' /\ Detected(p)' /\ Repeated(p)'
    BY <1>2, <1>3, <1>7 DEF Placed, Detected, Repeated
  <2>2. Stands(p)'
    BY <1>1, <1>2 DEF Each, Stands
  <2> QED BY <1>7, <2>1, <2>2 DEF Each
<1> QED BY <1>4, <1>5, <1>6, <1>7, StepKeeps

\* A state command that only reads.
LEMMA ReadKeeps ==
  ASSUME IInv, NEW p \in Proc, NEW from \in StateStep \ {"copy", "seal"}, NEW to \in StateStep \cup {"ok"},
         NEW ok, Read(p, from, to, ok), UNCHANGED <<job, off, stateVars, base>>, to # "seal",
         to \in {"stage", "open"} /\ ok => LayoutIsRight
  PROVE  IInv'
<1> DEFINE l == IF ok THEN to ELSE "refused"
<1>1. /\ Types /\ StateIsWhole /\ (temp.by # "none" => LayoutIsRight) /\ p \in Running /\ Each(p)
      /\ job[p] \in JobRecord /\ pc[p] = from
  BY DEF IInv, Types, Running, Read, Step
<1>2. pc' = [pc EXCEPT ![p] = l] /\ job' = [job EXCEPT ![p] = job[p]]
  BY <1>1 DEF Read, Goto, Types
<1>3. UNCHANGED <<dirs, secrets, source, marker, temp>>
  BY DEF stateVars
<1>4. l \in Ended \cup StateStep /\ l # "seal" /\ (l \in {"stage", "open"} => LayoutIsRight)
  OBVIOUS
<1> HIDE DEF l
<1>5. StateIsWhole' /\ (temp'.by # "none" => LayoutIsRight') /\ (LayoutIsRight => LayoutIsRight')
  BY <1>1, <1>3 DEF StateIsWhole, LayoutIsRight
<1>6. Staged(p)'
  <2>1. job'[p].copied = <<>>
    BY <1>1, <1>2 DEF Each, Staged
  <2>2. Len(SecretFile) = 4
    BY DEF SecretFile
  <2>3. pc'[p] = l
    BY <1>1, <1>2 DEF Types
  <2>4. Len(job'[p].copied) = 0
    BY <2>1
  <2> QED BY <1>4, <2>1, <2>2, <2>3, <2>4 DEF Staged
<1> QED BY <1>1, <1>2, <1>3, <1>4, <1>5, <1>6, StateStepKeeps DEF Types

LEMMA ValidateKeeps ==
  ASSUME IInv, NEW p \in Proc, UNCHANGED base,
         \/ InitializeStart(p) \/ InitializeAgain(p) \/ Validate(p) \/ StageMarker(p) \/ FinalValidate(p)
         \/ Publish(p) \/ ValidateCommand(p)
  PROVE  IInv'
<1>1. CASE InitializeStart(p)
  <2> DEFINE to == IF marker.by # "none" THEN "again" ELSE "create"
  <2>1. to \in {"again", "create"}
    OBVIOUS
  <2> QED BY <1>1, <2>1, ReadKeeps DEF InitializeStart
<1>2. CASE InitializeAgain(p) \/ FinalValidate(p) \/ Publish(p) \/ ValidateCommand(p)
  BY <1>2, ReadKeeps DEF InitializeAgain, FinalValidate, Publish, ValidateCommand
<1>3. CASE Validate(p)
  <2>1. ValidateProduction("host", TRUE, FALSE) => LayoutIsRight
    BY DEF ValidateProduction, LayoutIsRight, DirIsRight
  <2> QED BY <1>3, <2>1, ReadKeeps DEF Validate
<1>4. CASE StageMarker(p)
  <2>1. LayoutIsRight
    BY <1>4 DEF StageMarker, Read, Step, IInv, Running, Each, Stands
  <2> QED BY <1>4, <2>1, ReadKeeps DEF StageMarker
<1> QED BY <1>1, <1>2, <1>3, <1>4

\* A directory of the state is made once and then only completed.
LEMMA DirectoryKeeps ==
  ASSUME IInv, NEW p \in Proc, UNCHANGED base, CreateDirectory(p) \/ OwnDirectory(p)
  PROVE  IInv'
<1> DEFINE d == StateDir[job[p].i]
<1>1. /\ Types /\ StateIsWhole /\ (temp.by # "none" => LayoutIsRight) /\ p \in Running /\ Each(p)
      /\ job[p] \in JobRecord /\ pc[p] \in {"create", "own"} /\ job[p].i \in Nat
      /\ dirs \in [DirName -> {"absent", "torn", "right"}]
  BY DEF IInv, Types, Running, CreateDirectory, OwnDirectory, Step, JobRecord
<1>2. UNCHANGED <<off, base, secrets, source, marker, temp>>
  BY DEF CreateDirectory, OwnDirectory
<1>3. PICK l \in {"create", "own", "publish", "validate", "refused"} : pc' = [pc EXCEPT ![p] = l]
  BY DEF CreateDirectory, OwnDirectory, Goto
<1>4. PICK j \in JobRecord : /\ job' = [job EXCEPT ![p] = j]
                             /\ j.cmd = job[p].cmd /\ j.stood = job[p].stood /\ j.copied = job[p].copied
  <2> DEFINE n == IF job[p].i = Len(StateDir) THEN 1 ELSE job[p].i + 1
             m == IF d \in PlainDir THEN job[p].i + 1 ELSE job[p].i
             jn == [job[p] EXCEPT !.i = n]
             jm == [job[p] EXCEPT !.changed = TRUE, !.i = m]
  <2>1. \/ job' = [job EXCEPT ![p] = job[p]] \/ job' = [job EXCEPT ![p] = jn] \/ job' = [job EXCEPT ![p] = jm]
    <3>1. CASE CreateDirectory(p)
      BY <1>1, <3>1 DEF CreateDirectory, Types
    <3>2. CASE OwnDirectory(p)
      BY <1>1, <3>2 DEF OwnDirectory, Types
    <3> QED BY <3>1, <3>2
  <2>2. n \in Nat /\ m \in Nat
    BY <1>1
  <2> HIDE DEF n, m
  <2>3. jn \in JobRecord /\ jn.cmd = job[p].cmd /\ jn.stood = job[p].stood /\ jn.copied = job[p].copied
    BY <1>1, <2>2 DEF JobRecord
  <2>4. jm \in JobRecord /\ jm.cmd = job[p].cmd /\ jm.stood = job[p].stood /\ jm.copied = job[p].copied
    BY <1>1, <2>2 DEF JobRecord
  <2> HIDE DEF jn, jm
  <2> QED BY <1>1, <2>1, <2>3, <2>4
<1>5. \/ dirs' = dirs
      \/ dirs' = [dirs EXCEPT ![d] = "right"]
      \/ dirs[d] = "absent" /\ dirs' = [dirs EXCEPT ![d] = "torn"]
  BY DEF CreateDirectory, OwnDirectory, Exists
<1> HIDE DEF d
<1>8. dirs' \in [DirName -> {"absent", "torn", "right"}]
  BY <1>1, <1>5
<1>9. LayoutIsRight => LayoutIsRight'
  <2>1. Layout \subseteq DirName
    BY DEF Layout, DirName, StateDir
  <2> QED BY <1>1, <1>5, <2>1 DEF LayoutIsRight
<1>10. StateIsWhole' /\ (temp'.by # "none" => LayoutIsRight')
  BY <1>1, <1>2, <1>9 DEF StateIsWhole, LayoutIsRight
<1>11. Staged(p)'
  <2>1. job[p].copied = <<>>
    BY <1>1 DEF Each, Staged
  <2>2. job'[p].copied = <<>> /\ pc'[p] = l
    BY <1>1, <1>3, <1>4, <2>1 DEF Types
  <2>3. Len(job'[p].copied) = 0
    BY <2>2
  <2> QED BY <2>2, <2>3 DEF Staged
<1> QED BY <1>1, <1>2, <1>3, <1>4, <1>8, <1>9, <1>10, <1>11, StateStepKeeps DEF Types

\* The staged and the final marker: whoever renames one has validated the layout, or found
\* a staged marker that somebody else made after doing so.
LEMMA MarkerKeeps ==
  ASSUME IInv, NEW p \in Proc, UNCHANGED base,
         OpenMarker(p) \/ WriteMarker(p) \/ OwnMarker(p) \/ RenameMarker(p)
  PROVE  IInv'
<1>1. /\ Types /\ StateIsWhole /\ (temp.by # "none" => LayoutIsRight) /\ p \in Running /\ Each(p)
      /\ job[p] \in JobRecord /\ pc[p] \in MarkerStep /\ job[p].copied = <<>>
  BY DEF IInv, Types, Running, OpenMarker, WriteMarker, OwnMarker, RenameMarker, Step, Each, Staged
<1>2. UNCHANGED <<off, base, secrets, source, dirs, job>> /\ job' = [job EXCEPT ![p] = job[p]]
  BY <1>1 DEF OpenMarker, WriteMarker, OwnMarker, RenameMarker, Types
<1>3. PICK l \in {"write", "chown", "rename", "final", "refused"} : pc' = [pc EXCEPT ![p] = l]
  BY DEF OpenMarker, WriteMarker, OwnMarker, RenameMarker, Goto
<1>4. marker \in MarkerRecord /\ temp \in MarkerRecord /\ NoFile \in MarkerRecord /\ NoFile.by = "none"
  BY <1>1 DEF Types, NoFile, MarkerRecord
<1>5. LayoutIsRight => LayoutIsRight'
  BY <1>2 DEF LayoutIsRight
<1>6. /\ marker' \in MarkerRecord /\ temp' \in MarkerRecord
      /\ marker.by # "none" => marker'.by # "none"
      /\ temp'.by # "none" => LayoutIsRight
      /\ marker'.by # "none" => marker.by # "none" \/ LayoutIsRight
  <2>1. CASE OpenMarker(p)
    <3>1. LayoutIsRight
      BY <1>1, <2>1 DEF OpenMarker, Step, Each, Stands
    <3>2. [NoFile EXCEPT !.by = p] \in MarkerRecord
      BY DEF NoFile, MarkerRecord
    <3> QED BY <1>4, <2>1, <3>1, <3>2 DEF OpenMarker
  <2>2. CASE WriteMarker(p)
    <3>1. \A f \in MarkerRecord : [f EXCEPT !.whole = TRUE] \in MarkerRecord /\ [f EXCEPT !.whole = TRUE].by = f.by
      BY DEF MarkerRecord
    <3> QED BY <1>1, <1>4, <2>2, <3>1 DEF WriteMarker
  <2>3. CASE OwnMarker(p)
    <3>1. [temp EXCEPT !.owned = TRUE] \in MarkerRecord /\ [temp EXCEPT !.owned = TRUE].by = temp.by
      BY <1>4 DEF MarkerRecord
    <3> QED BY <1>1, <1>4, <2>3, <3>1 DEF OwnMarker
  <2>4. CASE RenameMarker(p)
    BY <1>1, <1>4, <2>4 DEF RenameMarker
  <2> QED BY <2>1, <2>2, <2>3, <2>4
<1>7. StateIsWhole' /\ (temp'.by # "none" => LayoutIsRight')
  BY <1>1, <1>2, <1>5, <1>6 DEF StateIsWhole, LayoutIsRight
<1>8. Staged(p)'
  <2>1. job'[p].copied = <<>> /\ pc'[p] = l
    BY <1>1, <1>2, <1>3 DEF Types
  <2>2. Len(job'[p].copied) = 0
    BY <2>1
  <2> QED BY <2>1, <2>2 DEF Staged
<1>9. /\ pc[p] \in StateStep /\ l \in Ended \cup StateStep /\ l \notin {"stage", "open"}
      /\ dirs' \in [DirName -> {"absent", "torn", "right"}]
      /\ LayoutIsRight => LayoutIsRight'
  BY <1>1, <1>2, <1>3 DEF Types, LayoutIsRight
<1> HIDE DEF Ended, CheckStep, WorkStep, DirStep, FileStep, HalfStep, VerifyStep, ObserveStep, InstallStep, StateStep, MarkerStep
<1> QED BY <1>1, <1>2, <1>3, <1>5, <1>6, <1>7, <1>8, <1>9, StateStepKeeps DEF Types

\* One more secret file is read and validated.
LEMMA CopySecretKeeps == ASSUME IInv, NEW p \in Proc, UNCHANGED base, CopySecret(p) PROVE IInv'
<1> DEFINE c == job[p].copied
           v == source[Len(c) + 1]
           j == [job[p] EXCEPT !.copied = Append(c, v)]
           l == IF ~ValidSecret(v) \/ ~Clean("source", {"partial", "mode", "too large"}, off) THEN "refused"
                ELSE IF Len(c) + 1 = Len(SecretFile) THEN "seal" ELSE "copy"
<1>1. /\ Types /\ StateIsWhole /\ (temp.by # "none" => LayoutIsRight) /\ p \in Running /\ Each(p)
      /\ job[p] \in JobRecord /\ pc[p] = "copy" /\ UNCHANGED <<off, stateVars>>
  BY DEF IInv, Types, Running, CopySecret, Step
<1>2. pc' = [pc EXCEPT ![p] = l] /\ job' = [job EXCEPT ![p] = j]
  BY <1>1 DEF CopySecret, Goto, Types
<1>3. /\ c \in Seq(Value) /\ Len(c) \in Nat /\ Len(c) < 4 /\ Len(SecretFile) = 4
      /\ \A n \in 1 .. Len(c) : c[n] # "malformed"
  <2>1. c \in Seq(Value)
    BY <1>1 DEF JobRecord
  <2>2. Len(SecretFile) = 4
    BY DEF SecretFile
  <2> QED BY <1>1, <2>1, <2>2 DEF Each, Staged
<1>4. v \in Value
  <2>1. DOMAIN SecretFile = 1 .. 4
    BY DEF SecretFile
  <2>2. source \in Sources
    BY <1>1 DEF Types
  <2>3. Len(c) + 1 \in DOMAIN SecretFile
    BY <1>3, <2>1
  <2> QED BY <2>2, <2>3 DEF Value
<1>5. l \in {"refused", "seal", "copy"} /\ (l # "refused" => v # "malformed")
      /\ (l = "seal" => Len(c) + 1 = 4) /\ (l = "copy" => Len(c) + 1 # 4)
  BY <1>3 DEF ValidSecret
<1> HIDE DEF l, v, c
<1>6. /\ Append(c, v) \in Seq(Value) /\ Len(Append(c, v)) = Len(c) + 1
      /\ Append(c, v)[Len(c) + 1] = v /\ \A n \in 1 .. Len(c) : Append(c, v)[n] = c[n]
  BY <1>3, <1>4
<1>7. j \in JobRecord /\ j.cmd = job[p].cmd /\ j.stood = job[p].stood /\ j.copied = Append(c, v)
  BY <1>1, <1>6 DEF JobRecord
<1> HIDE DEF j
<1>8. UNCHANGED <<dirs, secrets, source, marker, temp>>
  BY <1>1 DEF stateVars
<1>9. StateIsWhole' /\ (temp'.by # "none" => LayoutIsRight') /\ (LayoutIsRight => LayoutIsRight')
  BY <1>1, <1>8 DEF StateIsWhole, LayoutIsRight
<1>10. ASSUME l \notin Ended PROVE Staged(p)'
  <2>1. pc'[p] = l /\ job'[p].copied = Append(c, v)
    BY <1>1, <1>2, <1>7 DEF Types
  <2>2. \A n \in 1 .. Len(Append(c, v)) : Append(c, v)[n] # "malformed"
    BY <1>3, <1>5, <1>6, <1>10
  <2>3. /\ l \in {"seal", "copy"}
        /\ l = "copy" => Len(Append(c, v)) < 4
        /\ l = "seal" => Len(Append(c, v)) = 4
    BY <1>3, <1>5, <1>6, <1>10
  <2> QED BY <1>3, <2>1, <2>2, <2>3 DEF Staged
<1> QED BY <1>1, <1>2, <1>5, <1>7, <1>8, <1>9, <1>10, StateStepKeeps DEF Types

\* The tree appears whole, and only where there is none.
LEMMA RenameTreeKeeps == ASSUME IInv, NEW p \in Proc, UNCHANGED base, RenameTree(p) PROVE IInv'
<1> DEFINE c == job[p].copied
           done == Separate(c) /\ secrets = NoTree
           j == [job[p] EXCEPT !.copied = <<>>, !.changed = done]
           l == IF ~done THEN "refused" ELSE IF job[p].cmd = "publish" THEN "ok" ELSE "validate"
<1>1. /\ Types /\ StateIsWhole /\ (temp.by # "none" => LayoutIsRight) /\ p \in Running /\ Each(p)
      /\ job[p] \in JobRecord /\ pc[p] = "seal" /\ UNCHANGED <<off, dirs, source, marker, temp>>
  BY DEF IInv, Types, Running, RenameTree, Step
<1>2. /\ pc' = [pc EXCEPT ![p] = l] /\ job' = [job EXCEPT ![p] = j]
      /\ secrets' = IF done THEN c ELSE secrets
  BY <1>1 DEF RenameTree, Goto, Types
<1>3. c \in Seq(Value) /\ Len(c) = 4 /\ \A n \in 1 .. Len(c) : c[n] # "malformed"
  <2>1. c \in Seq(Value)
    BY <1>1 DEF JobRecord
  <2>2. Len(SecretFile) = 4
    BY DEF SecretFile
  <2> QED BY <1>1, <2>1, <2>2 DEF Each, Staged
<1>4. DOMAIN c = DOMAIN SecretFile /\ c # NoTree
  <2>1. DOMAIN SecretFile = 1 .. 4
    BY DEF SecretFile
  <2>2. DOMAIN c = 1 .. 4
    BY <1>3
  <2> QED BY <1>3, <2>1, <2>2 DEF NoTree
<1>5. done => c[3] # c[4] /\ c[1] # c[2]
  BY DEF Separate
<1>6. /\ l \in {"refused", "ok", "validate"} /\ done \in BOOLEAN
      /\ secrets' = secrets \/ (secrets = NoTree /\ done /\ secrets' = c)
  BY <1>2
<1>7. StateIsWhole' /\ (temp'.by # "none" => LayoutIsRight') /\ (LayoutIsRight => LayoutIsRight')
      /\ (secrets # NoTree => secrets' # NoTree)
  <2>1. (temp'.by # "none" => LayoutIsRight') /\ (LayoutIsRight => LayoutIsRight')
        /\ (marker'.by # "none" => \A d \in Layout : dirs'[d] = "right")
    BY <1>1 DEF LayoutIsRight, StateIsWhole
  <2>2. secrets' # NoTree =>
          /\ DOMAIN secrets' = DOMAIN SecretFile
          /\ \A i \in DOMAIN secrets' : secrets'[i] # "malformed"
          /\ secrets'[3] # secrets'[4] /\ secrets'[1] # secrets'[2]
    <3>1. CASE secrets' = secrets
      BY <1>1, <3>1 DEF StateIsWhole
    <3>2. CASE done /\ secrets' = c
      <4>1. \A i \in DOMAIN c : c[i] # "malformed"
        BY <1>3
      <4> QED BY <1>4, <1>5, <3>2, <4>1
    <3> QED BY <1>6, <3>1, <3>2
  <2> QED BY <1>6, <2>1, <2>2 DEF StateIsWhole
<1> HIDE DEF l, done
<1>8. j \in JobRecord /\ j.cmd = job[p].cmd /\ j.stood = job[p].stood /\ j.copied = <<>>
  <2>1. <<>> \in Seq(Value)
    OBVIOUS
  <2> QED BY <1>1, <1>6, <2>1 DEF JobRecord
<1> HIDE DEF j
<1>9. Staged(p)'
  <2>1. job'[p].copied = <<>> /\ pc'[p] = l
    BY <1>1, <1>2, <1>8 DEF Types
  <2>2. Len(job'[p].copied) = 0
    BY <2>1
  <2> QED BY <1>6, <2>1, <2>2 DEF Staged
<1> QED BY <1>1, <1>2, <1>6, <1>7, <1>8, <1>9, StateStepKeeps DEF Types

LEMMA StateCommandKeeps == ASSUME IInv, NEW p \in Proc, StateCommand(p), UNCHANGED base PROVE IInv'
BY ValidateKeeps, DirectoryKeeps, MarkerKeeps, CopySecretKeeps, RenameTreeKeeps DEF StateCommand

\* A command that has staged nothing yet.
LEMMA NothingStaged == <<>> \in Seq(Value)
OBVIOUS

LEMMA StagedAtFirst ==
  ASSUME NEW p \in Proc, job'[p].copied = <<>>, pc'[p] \notin {"copy", "seal"}
  PROVE  Staged(p)'
<1>1. Len(job'[p].copied) = 0
  OBVIOUS
<1> QED BY <1>1 DEF Staged

\* A new command: it stands on what is there, and has changed nothing.
LEMMA StartKeeps ==
  ASSUME IInv, NEW p \in Proc, NEW cmd \in Command, NEW doc \in SUBSET DocumentPoint, NEW flag \in BOOLEAN, NEW ok,
         NEW to \in {"platform", "verify host", "ok", "observe", "observe native", "initialize", "publish", "check"},
         Start(p, cmd, doc, flag, ok, to, Standing), UNCHANGED <<base, stateVars>>,
         cmd = "install" => to = "platform" /\ (flag => BaseIsRight)
  PROVE  IInv'
<1> DEFINE l == IF ok THEN to ELSE "refused"
           read == IF ok THEN doc ELSE {}
           j == [NoJob EXCEPT !.cmd = cmd, !.doc = read, !.flag = flag, !.stood = Standing, !.found = Standing]
<1>1. Types /\ StateIsWhole /\ (temp.by # "none" => LayoutIsRight) /\ OneWriter
  BY DEF IInv
<1>2. /\ pc' = [pc EXCEPT ![p] = l] /\ job' = [job EXCEPT ![p] = j]
      /\ UNCHANGED <<off, base, dirs, secrets, source, marker, temp>>
  BY DEF Start, stateVars
<1>3. read \in SUBSET DocumentPoint /\ l \in {to, "refused"}
  OBVIOUS
<1>4. /\ Standing \in SUBSET HostPoint /\ Standing \subseteq off \cup {<<"authority", "state">>}
      /\ <<"authority", "state">> \in Standing => marker.by # "none" \/ secrets # NoTree
  BY <1>1, StandingIsKnown
<1> HIDE DEF l, read
<1>5. /\ j \in JobRecord /\ j.cmd = cmd /\ j.flag = flag /\ j.stood = Standing /\ j.changed = FALSE
      /\ j.counted = FALSE /\ j.copied = <<>>
  <2> QED BY <1>3, <1>4, NothingStaged DEF NoJob, JobRecord
<1> HIDE DEF j
<1>6. pc'[p] = l /\ job'[p] = j
  BY <1>1, <1>2 DEF Types
<1>7. Types'
  BY <1>1, <1>2, <1>3, <1>5 DEF Types
<1>8. StateIsWhole' /\ (temp'.by # "none" => LayoutIsRight')
  BY <1>1, <1>2 DEF StateIsWhole, LayoutIsRight
<1>9. Forward
  BY <1>2 DEF Forward, LayoutIsRight, BaseIsRight
<1>10. OneWriter'
  BY <1>1, <1>2, <1>3 DEF OneWriter, Types
<1>11. ASSUME l \notin Ended PROVE Each(p)'
  <2>1. l = to /\ to # "ok"
    BY <1>3, <1>11
  <2>2. Placed(p)'
    BY <1>5, <1>6, <2>1 DEF Placed
  <2>3. Staged(p)'
    <3>1. job'[p].copied = <<>> /\ pc'[p] \notin {"copy", "seal"}
      BY <1>5, <1>6, <2>1
    <3> QED BY <3>1, StagedAtFirst
  <2>4. Stands(p)'
    BY <1>2, <1>4, <1>5, <1>6, <2>1 DEF Stands
  <2>5. Detected(p)'
    BY <1>5, <1>6, <2>1 DEF Detected
  <2>6. Repeated(p)'
    BY <1>2, <1>5, <1>6, <2>1 DEF Repeated, BaseIsRight
  <2> QED BY <2>2, <2>3, <2>4, <2>5, <2>6 DEF Each
<1> QED BY <1>1, <1>2, <1>7, <1>8, <1>9, <1>10, <1>11, StepKeeps

LEMMA OneFlawIs == ASSUME NEW F \in SUBSET DocumentPoint, NEW doc \in OneFlaw(F) PROVE doc \in SUBSET DocumentPoint
BY DEF OneFlaw

LEMMA StartsKeep ==
  ASSUME IInv, NEW p \in Proc,
         \/ StartInstall(p) \/ StartVerify(p) \/ StartPlan(p) \/ StartFacts(p) \/ StartState(p)
         \/ StartPreparation(p) \/ StartNative(p)
  PROVE  IInv'
<1> USE DEF Command
<1>1. PlanDocument \subseteq SUBSET DocumentPoint /\ StateDocument \subseteq SUBSET DocumentPoint
  <2>1. /\ {"administrator"} \X AdministratorFlaw \cup {"inventory"} \X InventoryFlaw
             \cup {"firewall"} \X DocumentFlaw \cup {"plan"} \X PlanFlaw \in SUBSET DocumentPoint
        /\ {"contract"} \X ContractFlaw \cup {"command"} \X CommandFlaw \in SUBSET DocumentPoint
    BY DEF DocumentPoint
  <2> QED BY <2>1, OneFlawIs DEF PlanDocument, StateDocument
<1>2. CASE StartInstall(p)
  <2>1. PICK doc \in PlanDocument : Start(p, "install", doc, BaseIsRight, AdmitInstallation(doc), "platform", Standing)
    BY <1>2 DEF StartInstall
  <2>2. BaseIsRight \in BOOLEAN
    BY DEF BaseIsRight
  <2>3. UNCHANGED <<base, stateVars>>
    BY <1>2 DEF StartInstall
  <2> QED BY <1>1, <2>1, <2>2, <2>3, StartKeeps
<1>3. CASE StartVerify(p)
  <2>1. PICK doc \in PlanDocument, cmd \in {"verify", "enroll"} :
          Start(p, cmd, doc, FALSE, AdmitInstallation(doc), "verify host", Standing)
    BY <1>3 DEF StartVerify
  <2>2. UNCHANGED <<base, stateVars>>
    BY <1>3 DEF StartVerify
  <2> QED BY <1>1, <2>1, <2>2, StartKeeps
<1>4. CASE StartPlan(p)
  <2>1. {"inventory"} \X InventoryFlaw \cup {"plan"} \X PlanFlaw \in SUBSET DocumentPoint
    BY DEF DocumentPoint
  <2>2. PICK doc \in OneFlaw({"inventory"} \X InventoryFlaw \cup {"plan"} \X PlanFlaw) :
          Start(p, "plan", doc, FALSE, AdmitPlan(doc), "ok", Standing)
    BY <1>4 DEF StartPlan
  <2>3. UNCHANGED <<base, stateVars>> /\ doc \in SUBSET DocumentPoint
    BY <1>4, <2>1, <2>2, OneFlawIs DEF StartPlan
  <2> QED BY <2>2, <2>3, StartKeeps
<1>5. CASE StartFacts(p)
  <2>1. {"inventory"} \X InventoryFlaw \cup {"facts"} \X FactsFlaw \in SUBSET DocumentPoint
    BY DEF DocumentPoint
  <2>2. PICK doc \in OneFlaw({"inventory"} \X InventoryFlaw \cup {"facts"} \X FactsFlaw) :
          Start(p, "facts", doc, FALSE, AdmitFacts(doc), "ok", Standing)
    BY <1>5 DEF StartFacts
  <2>3. UNCHANGED <<base, stateVars>> /\ doc \in SUBSET DocumentPoint
    BY <1>5, <2>1, <2>2, OneFlawIs DEF StartFacts
  <2> QED BY <2>2, <2>3, StartKeeps
<1>6. CASE StartState(p)
  <2>1. PICK doc \in StateDocument, cmd \in {"initialize", "publish", "validate", "namespace"}, flag \in BOOLEAN :
          Start(p, cmd, doc, flag, AdmitStateCommand(cmd, doc),
                IF cmd \in {"initialize", "publish"} THEN cmd ELSE "check", Standing)
    BY <1>6 DEF StartState
  <2> DEFINE to == IF cmd \in {"initialize", "publish"} THEN cmd ELSE "check"
  <2>2. to \in {"initialize", "publish", "check"}
    OBVIOUS
  <2>3. UNCHANGED <<base, stateVars>>
    BY <1>6 DEF StartState
  <2>4. Start(p, cmd, doc, flag, AdmitStateCommand(cmd, doc), to, Standing)
    BY <2>1
  <2> HIDE DEF to
  <2> QED BY <1>1, <2>1, <2>2, <2>3, <2>4, StartKeeps
<1>7. CASE StartPreparation(p)
  <2>1. {"run"} \X RunFlaw \in SUBSET DocumentPoint
    BY DEF DocumentPoint
  <2>2. PICK doc \in OneFlaw({"run"} \X RunFlaw) :
          Start(p, "prepare", doc, FALSE, AdmitRun("prepare", doc), "observe", Standing)
    BY <1>7 DEF StartPreparation
  <2>3. UNCHANGED <<base, stateVars>> /\ doc \in SUBSET DocumentPoint
    BY <1>7, <2>1, <2>2, OneFlawIs DEF StartPreparation
  <2> QED BY <2>2, <2>3, StartKeeps
<1>8. CASE StartNative(p)
  <2>1. {"run"} \X NativeRunFlaw \in SUBSET DocumentPoint
    BY DEF DocumentPoint
  <2>2. PICK doc \in OneFlaw({"run"} \X NativeRunFlaw) :
          Start(p, "native", doc, FALSE, AdmitRun("native", doc), "observe native", Standing)
    BY <1>8 DEF StartNative
  <2>3. UNCHANGED <<base, stateVars>> /\ doc \in SUBSET DocumentPoint
    BY <1>8, <2>1, <2>2, OneFlawIs DEF StartNative
  <2> QED BY <2>2, <2>3, StartKeeps
<1> QED BY <1>2, <1>3, <1>4, <1>5, <1>6, <1>7, <1>8

\* Who made a file is forgotten with its maker, that somebody made it is not.
LEMMA OrphanedFile ==
  ASSUME NEW p \in Proc, NEW f \in MarkerRecord
  PROVE  Orphaned(f, p) \in MarkerRecord /\ (Orphaned(f, p).by = "none" <=> f.by = "none")
<1>1. [f EXCEPT !.by = "dead"] \in MarkerRecord /\ [f EXCEPT !.by = "dead"].by = "dead"
  BY DEF MarkerRecord
<1> QED BY <1>1, ProcAssumption DEF Orphaned

\* A command of the system fails.
LEMMA FailureKeeps == ASSUME IInv, NEW p \in Proc, CommandFails(p) PROVE IInv'
<1>1. job[p] \in JobRecord /\ job' = [job EXCEPT ![p] = job[p]]
  BY DEF IInv, Types, CommandFails
<1> QED BY <1>1, EndKeeps DEF CommandFails, Goto

\* A kill or a signal ends one command.
LEMMA KillKeeps == ASSUME IInv, NEW p \in Proc, Kill(p) \/ (Interrupt(p) /\ UNCHANGED base) PROVE IInv'
<1> DEFINE j == [job[p] EXCEPT !.copied = <<>>]
<1>1. Types /\ StateIsWhole /\ (temp.by # "none" => LayoutIsRight) /\ OneWriter /\ job[p] \in JobRecord
  BY DEF IInv, Types
<1>2. /\ pc' = [pc EXCEPT ![p] = "killed"] /\ job' = [job EXCEPT ![p] = j]
      /\ UNCHANGED <<off, dirs, secrets, source, base>>
      /\ marker' = Orphaned(marker, p) /\ temp' \in {NoFile, Orphaned(temp, p)}
  BY <1>1 DEF Kill, Interrupt, Goto, Types
<1>3. j \in JobRecord
  <2>1. <<>> \in Seq(Value)
    OBVIOUS
  <2> QED BY <1>1, <2>1 DEF JobRecord
<1> HIDE DEF j
<1>4. NoFile \in MarkerRecord /\ NoFile.by = "none"
  BY DEF NoFile, MarkerRecord
<1>5. /\ marker' \in MarkerRecord /\ temp' \in MarkerRecord
      /\ marker'.by = "none" <=> marker.by = "none"
      /\ temp'.by # "none" => temp.by # "none"
  <2>1. marker \in MarkerRecord /\ temp \in MarkerRecord
    BY <1>1 DEF Types
  <2>2. marker' \in MarkerRecord /\ (marker'.by = "none" <=> marker.by = "none")
    BY <1>2, <2>1, OrphanedFile
  <2>3. Orphaned(temp, p) \in MarkerRecord /\ (Orphaned(temp, p).by = "none" <=> temp.by = "none")
    BY <2>1, OrphanedFile
  <2>4. temp' \in MarkerRecord /\ (temp'.by # "none" => temp.by # "none")
    BY <1>2, <1>4, <2>3
  <2> QED BY <2>2, <2>4
<1>6. Types'
  BY <1>1, <1>2, <1>3, <1>5 DEF Types
<1>7. StateIsWhole' /\ (temp'.by # "none" => LayoutIsRight')
  BY <1>1, <1>2, <1>5 DEF StateIsWhole, LayoutIsRight
<1>8. Forward
  BY <1>2, <1>5 DEF Forward, LayoutIsRight, BaseIsRight
<1>9. OneWriter'
  BY <1>1, <1>2 DEF OneWriter, Types
<1> QED BY <1>1, <1>2, <1>6, <1>7, <1>8, <1>9, StepKeeps

LEMMA NoJobIs == NoJob \in JobRecord
<1>1. <<>> \in Seq(Value)
  OBVIOUS
<1> QED BY <1>1 DEF NoJob, JobRecord, Command

\* A reboot ends every command; what is on the disk stays.
LEMMA RebootKeeps == ASSUME IInv, Reboot PROVE IInv'
<1>1. Types /\ StateIsWhole /\ (temp.by # "none" => LayoutIsRight)
  BY DEF IInv
<1>2. \A p \in Proc : pc'[p] \in {"idle", "killed"}
  BY DEF Reboot
<1>3. Running' = {} /\ OneWriter'
  BY <1>2 DEF Running, OneWriter
<1>4. pc' \in [Proc -> Ended \cup StateStep \cup InstallStep] /\ job' \in [Proc -> JobRecord]
  BY NoJobIs DEF Reboot
<1>5. base' \in BaseRecord
  <2> DEFINE m == IF ~base.linger THEN "down" ELSE IF base.files["user drop-in"] = "right" THEN "right" ELSE "stale"
             fw == base.firewall /\ base.enabled
  <2>1. m \in {"down", "right", "stale"} /\ fw \in BOOLEAN
    OBVIOUS
  <2>2. base' = [base EXCEPT !.loaded = TRUE, !.active = base.enabled,
                              !.firewall = fw, !.manager = m]
    BY DEF Reboot
  <2> HIDE DEF m, fw
  <2> QED BY <1>1, <2>1, <2>2 DEF Types, BaseRecord
<1>6. dirs' \in [DirName -> {"absent", "torn", "right"}] /\ UNCHANGED <<off, source>>
  BY <1>1 DEF Types, Reboot
<1>7. /\ marker' \in MarkerRecord /\ temp' \in MarkerRecord
      /\ marker'.by # "none" => marker.by # "none"
      /\ temp'.by # "none" => temp.by # "none"
  <2>1. \A f \in MarkerRecord : [f EXCEPT !.by = "dead"] \in MarkerRecord
    BY DEF MarkerRecord
  <2> QED BY <1>1, <2>1 DEF Types, Reboot
<1>8. Types'
  BY <1>1, <1>4, <1>5, <1>6, <1>7 DEF Types
<1>9. LayoutIsRight => LayoutIsRight'
  <2>1. "run" \notin Layout
    BY DEF Layout
  <2>2. Layout \subseteq DirName
    BY DEF Layout, DirName, StateDir
  <2> QED BY <1>1, <2>1, <2>2 DEF LayoutIsRight, Reboot, Types
<1>10. secrets' = NoTree
  BY DEF Reboot
<1>11. StateIsWhole'
  BY <1>1, <1>7, <1>9, <1>10 DEF StateIsWhole, LayoutIsRight
<1> QED BY <1>1, <1>3, <1>7, <1>8, <1>9, <1>11 DEF IInv

\* Steps of nobody's command.
LEMMA WorldKeeps ==
  ASSUME IInv, UNCHANGED <<pc, job, base, dirs, secrets, marker, temp>>,
         off \subseteq off', off' \subseteq Deviation, source' \in Sources
  PROVE  IInv'
<1>1. Types /\ StateIsWhole /\ (temp.by # "none" => LayoutIsRight) /\ OneWriter /\ \A p \in Running : Each(p)
  BY DEF IInv
<1>2. Types'
  BY <1>1 DEF Types
<1>3. StateIsWhole' /\ (temp'.by # "none" => LayoutIsRight') /\ OneWriter'
  BY <1>1 DEF StateIsWhole, LayoutIsRight, OneWriter
<1>4. Forward
  BY DEF Forward, LayoutIsRight, BaseIsRight
<1>5. ASSUME NEW p \in Running' PROVE Each(p)'
  <2>1. p \in Proc /\ p \in Running /\ Each(p) /\ pc'[p] = pc[p] /\ job'[p] = job[p]
    BY <1>1, <1>5 DEF Running
  <2>2. pc[p] = "write file" => base'.files[File[job[p].i]] = "partial"
    BY <2>1 DEF Each, Placed
  <2> QED BY <1>4, <2>1, <2>2, OtherKeeps
<1> QED BY <1>2, <1>3, <1>5 DEF IInv

-----------------------------------------------------------------------------
(* The theorems.                                                           *)

LEMMA InvInit == Init => IInv
<1> SUFFICES ASSUME Init PROVE IInv
  OBVIOUS
<1>1. pc = [p \in Proc |-> "idle"] /\ job = [p \in Proc |-> NoJob] /\ off = {}
  BY DEF Init, CommandInit
<1>2. dirs = [d \in DirName |-> "absent"] /\ secrets = NoTree /\ source \in Sources /\ marker = NoFile /\ temp = NoFile
  BY DEF Init, StateInit
<1>3. NoFile \in MarkerRecord /\ NoFile.by = "none"
  BY DEF NoFile, MarkerRecord
<1>4. base \in BaseRecord
  <2>1. FreshBase \in BaseRecord
    BY DEF FreshBase, BaseRecord
  <2>2. LegacyBase \in BaseRecord
    <3> DEFINE fs == [f \in FileName |-> IF f = "storage" THEN "absent" ELSE "right"]
               ds == [d \in BaseDirName |-> IF d = "config" THEN "legacy" ELSE "right"]
    <3>1. /\ fs \in [FileName -> {"absent", "partial", "right"}]
          /\ ds \in [BaseDirName -> {"absent", "legacy", "torn", "half", "right"}]
      OBVIOUS
    <3> QED BY <3>1 DEF LegacyBase, BaseRecord
  <2> QED BY <2>1, <2>2 DEF Init
<1>5. Types
  BY <1>1, <1>2, <1>3, <1>4, NoJobIs DEF Types
<1>6. Running = {} /\ OneWriter
  BY <1>1 DEF Running, OneWriter
<1>7. StateIsWhole
  BY <1>2, <1>3 DEF StateIsWhole
<1> QED BY <1>2, <1>3, <1>5, <1>6, <1>7 DEF IInv

LEMMA InvNext == IInv /\ [Next]_baseVars => IInv'
<1> SUFFICES ASSUME IInv, [Next]_baseVars PROVE IInv'
  OBVIOUS
<1>1. off \subseteq Deviation /\ source \in Sources
  BY DEF IInv, Types
<1>2. CASE UNCHANGED baseVars
  BY <1>1, <1>2, WorldKeeps DEF baseVars, commandVars, stateVars
<1>3. CASE Reboot
  BY <1>3, RebootKeeps
<1>4. CASE Deviate(StateFlaw \cup BaseFlaw \cup PreparationFlaw) /\ UNCHANGED <<base, stateVars>>
  <2>1. PICK f \in Deviation : off' = off \cup {f}
    BY <1>4 DEF Deviate, Deviation
  <2>2. UNCHANGED <<pc, job, base, dirs, secrets, marker, temp, source>>
    BY <1>4 DEF Deviate, stateVars
  <2> QED BY <1>1, <2>1, <2>2, WorldKeeps
<1>5. CASE ReplaceSource /\ UNCHANGED base
  <2>1. UNCHANGED <<pc, job, off, base, dirs, secrets, marker, temp>> /\ source' \in Sources
    BY <1>5 DEF ReplaceSource
  <2> QED BY <1>1, <2>1, WorldKeeps
<1>6. ASSUME NEW p \in Proc,
             \/ StartInstall(p) \/ StartVerify(p) \/ StartPlan(p) \/ StartFacts(p) \/ StartState(p)
             \/ StartPreparation(p) \/ StartNative(p)
             \/ InstallCommand(p) \/ CommandFails(p) \/ Kill(p)
             \/ (StateCommand(p) /\ UNCHANGED base) \/ (Interrupt(p) /\ UNCHANGED base)
      PROVE  IInv'
  BY <1>6, StartsKeep, InstallCommandKeeps, FailureKeeps, KillKeeps, StateCommandKeeps
<1> QED BY <1>2, <1>3, <1>4, <1>5, <1>6 DEF Next

LEMMA Invariance == Spec => []IInv
BY InvInit, InvNext, PTL DEF Spec

\* The tree of secrets is never seen incomplete, invalid or mixed up, and a marker always
\* freezes a complete layout: for any number of concurrent, killed and repeated commands
\* and whatever the secret authority puts into the source meanwhile
\* (publish_initial_secret_tree, initialize_production).
THEOREM StateStaysWhole == Spec => []StateIsWhole
<1>1. IInv => StateIsWhole
  BY DEF IInv
<1> QED BY <1>1, Invariance, PTL

\* An installation that starts on a host with a conflict changes nothing, however many
\* installations run at once and are killed (install_public_base).
THEOREM ConflictsAreHarmless == Spec => []ConflictsChangeNothing
<1>1. IInv => ConflictsChangeNothing
  <2> SUFFICES ASSUME IInv, NEW p \in Running, job[p].cmd = "install", job[p].changed
               PROVE  /\ job[p].stood \cap ({"platform"} \X PlatformFlaw \cup {"authority"} \X (AuthorityFlaw \cup {"state"})
                             \cup {"services"} \X DormantFlaw \cup {"file"} \X FileName \cup {"dir"} \X (BaseDirName \ {"config"})
                             \cup {"packages"} \X {"pin"}) = {}
                      /\ <<"dir", "config">> \in job[p].stood => job[p].legacy
    BY DEF ConflictsChangeNothing
  <2>1. Detected(p)
    BY DEF IInv, Each
  <2>2. /\ job[p].stood \cap HostConflict = {} /\ job[p].stood \cap PathConflict = {}
        /\ <<"dir", "config">> \in job[p].stood => job[p].legacy
    BY <2>1 DEF Detected
  <2> QED BY <2>2 DEF HostConflict, PathConflict
<1> QED BY <1>1, Invariance, PTL

\* An installation that starts on a finished base changes nothing, whatever else happens to
\* the host while it runs (install_public_base: PUBLIC_BASE_UNCHANGED).
THEOREM RepetitionIsSilent == Spec => []RepeatChangesNothing
<1>1. IInv => RepeatChangesNothing
  BY DEF IInv, Each, Repeated, RepeatChangesNothing
<1> QED BY <1>1, Invariance, PTL
-----------------------------------------------------------------------------
(* A second invariant: how far each command has come.                      *)

\* Which steps a command has.
BaseCommand == {"install", "verify", "enroll"}
OfItsKind(p) ==
  /\ job[p].cmd \notin {"none", "plan", "facts"}
  /\ job[p].cmd = "install" => pc[p] \in CheckStep \cup WorkStep \cup (VerifyStep \ {"ready"})
  /\ job[p].cmd = "verify" => pc[p] \in VerifyStep \ {"ready"}
  /\ job[p].cmd = "enroll" => pc[p] \in VerifyStep
  /\ job[p].cmd = "prepare" => pc[p] \in {"observe", "observe rest"}
  /\ job[p].cmd = "native" => pc[p] = "observe native"
  /\ job[p].cmd = "initialize" => pc[p] \in StateStep \ {"check"}
  /\ job[p].cmd = "publish" => pc[p] \in {"publish", "copy", "seal"}
  /\ job[p].cmd \in {"validate", "namespace"} => pc[p] = "check"

\* main() has admitted its documents.
Excusable(cmd) == IF Unprivileged(cmd) THEN {<<"command", "not root">>} ELSE {}
Admits(p) == job[p].doc \subseteq Excusable(job[p].cmd)

\* The steps of an installation up to the one that sees to an item.
EarlyStep == {"mask", "packages", "account", "group", "user", "uid", "gid"}
ToMask == CheckStep \cup {"mask"}
ToPackages == ToMask \cup {"packages"}
ToAccount == ToPackages \cup {"account", "group", "user"}
ToUid == ToAccount \cup {"uid"}
ToGid == ToUid \cup {"gid"}
ToDirectories == ToGid \cup DirStep
ToFiles == ToDirectories \cup FileStep
ToRepair == ToFiles \cup {"repair", "unlink"}
ToXdg == ToRepair \cup {"transfer", "xdg"}
ToLink == ToXdg \cup {"link"}
ToLabels == ToLink \cup {"reload", "labels", "rule", "restorecon"}
ToLinger == ToLabels \cup {"linger"}
ToManager == ToLinger \cup {"manager"}
ToUserMask == ToManager \cup {"user mask"}
ToFirewall == ToUserMask \cup {"firewall"}
ToEnable == ToFirewall \cup {"enable"}
ToStart == ToEnable \cup {"start"}

\* A directory that an installation went past: the old one is still to be repaired.
Passed(d, legacy) ==
  base.dirs[d] = "right" \/ (d = "config" /\ legacy /\ base.dirs[d] \in {"legacy", "half"})
\* What an installation at step s (of its loops at i) has seen to is there.
AccountSeen(s) ==
  /\ s \notin ToMask => base.masked
  /\ s \notin ToPackages => base.packages = 2
  /\ s \notin ToAccount => base.account = "right"
  /\ s \notin ToUid => base.uid
  /\ s \notin ToGid => base.gid
PathsSeen(s, i, legacy) ==
  /\ s \notin CheckStep /\ base.dirs["config"] = "legacy" => legacy
  /\ s \notin CheckStep /\ legacy => base.dirs["config"] \in {"legacy", "half", "right"}
  /\ s \in DirStep => \A j \in 1 .. i - 1 : Passed(BaseDir[j], legacy)
  /\ s \notin ToDirectories => \A d \in BaseDirName : Passed(d, legacy)
  /\ s \in FileStep => \A j \in 1 .. i - 1 : base.files[File[j]] = "right"
  /\ s \notin ToFiles => \A f \in FileName : base.files[f] = "right"
  /\ s \notin ToRepair => base.dirs["config"] # "legacy"
  /\ s \notin ToXdg => base.dirs["config"] = "right"
  /\ s \notin ToLink => base.xdg
ServicesSeen(s) ==
  /\ s \notin ToLabels => base.label = "right"
  /\ s \notin ToLinger => base.linger
  /\ s \notin ToManager => base.manager # "down"
  /\ s \notin ToUserMask => base.usermasked
  /\ s \notin ToFirewall => base.firewall
  /\ s \notin ToEnable => base.enabled
  /\ s \notin ToStart => base.active
SeenTo(p) ==
  job[p].cmd = "install" =>
    AccountSeen(pc[p]) /\ PathsSeen(pc[p], job[p].i, job[p].legacy) /\ ServicesSeen(pc[p])

\* What a verification found when it began is still so.
Found(p) ==
  /\ job[p].found \subseteq off \cup {<<"authority", "state">>}
  /\ <<"authority", "state">> \in job[p].found => marker.by # "none" \/ secrets # NoTree

\* The reads of a verification, and of an observation, each with the deviations it admits none of.
HostLook ==
  {"platform"} \X PlatformFlaw \cup {"authority"} \X AuthorityFlaw \cup {"services"} \X DormantFlaw
    \cup {"account"} \X {"identity", "groups", "group", "sudo"} \cup {"subids"} \X {"untrusted file", "own entry"}
    \cup {"packages"} \X {"key shape", "key packet"}
FilesLook ==
  {"packages"} \X {"pin", "key shape", "key packet", "identity", "nevra", "header", "signature", "verification",
                   "repository", "architecture", "podman version", "postgresql series", "haproxy identity",
                   "haproxy binary", "haproxy features"}
    \cup {"file"} \X FileName \cup {"dir"} \X BaseDirName \cup {"xdg"} \X {"link", "directory"}
    \cup {"system", "user"} \X {"unit active", "unit enabled"}
RuntimeLook ==
  {"labels"} \X {"foreign rule", "drift"}
    \cup {"runtime"} \X {"search path", "graphroot", "container", "podman info", "rootful", "oci runtime",
                         "network backend", "seccomp", "api socket", "remote service"}
    \cup {"firewall"} \X {"service state", "preview"}
FirstObservation ==
  {"observation"} \X {"failed", "too large", "not decoded"} \cup {"preparation"} \X {"dnf", "releasever", "labels disabled",
                                                                "digests", "digest repeated", "other fixture", "no fixture"}
    \cup {"platform"} \X {"automatic update", "selinux mode", "selinux policy", "repository repeated",
                          "repository foreign", "cgroup"}
    \cup {"runtime"} \X {"podman info", "rootful", "oci runtime", "network backend", "seccomp", "api socket",
                         "remote service"} \cup {<<"packages", "podman version">>}
AccountIsThere == base.account = "right" /\ base.uid /\ base.gid
FilesAreThere ==
  /\ base.packages = 2 /\ base.xdg /\ base.masked /\ base.usermasked
  /\ \A f \in FileName : base.files[f] = "right"
  /\ \A d \in BaseDirName : base.dirs[d] = "right"
HostLooked(found) ==
  /\ AccountIsThere
  /\ found \cap HostLook = {} /\ <<"authority", "state">> \notin found /\ OwnIdentities(found)
FilesLooked(found) == FilesAreThere /\ found \cap FilesLook = {}
RuntimeLooked(found) == BaseIsRight /\ found \cap RuntimeLook = {}
Looked(p) ==
  /\ pc[p] \in {"verify files", "verify runtime", "ready"} => HostLooked(job[p].found)
  /\ pc[p] \in {"verify runtime", "ready"} => FilesLooked(job[p].found)
  /\ pc[p] = "ready" => RuntimeLooked(job[p].found)
  /\ pc[p] = "observe rest" => base.manager # "down" /\ job[p].found \cap FirstObservation = {}

\* initialize_production() has gone past the root in /srv.
PastRoot(s, i, cmd) ==
  \/ s \in {"validate", "stage", "final", "own", "again"} \cup MarkerStep
  \/ s = "create" /\ i > 1
  \/ s \in {"publish", "copy", "seal"} /\ cmd = "initialize"
Rooted(p) ==
  /\ pc[p] = "initialize" => job[p].i = 1
  /\ pc[p] \in {"create", "own"} => job[p].i \in DOMAIN StateDir
  /\ PastRoot(pc[p], job[p].i, job[p].cmd) => dirs["srv"] = "right"

Stage(p) == OfItsKind(p) /\ Admits(p) /\ SeenTo(p) /\ Found(p) /\ Looked(p) /\ Rooted(p)

\* The old layout is that of one directory; the last thing an installation turns on
\* comes after the drop-in of the user manager, which systemd has then loaded.
OldLayout == \A d \in BaseDirName : base.dirs[d] = "legacy" => d = "config" /\ base.dirs["home"] = "right"
LoadedWithRules == base.enabled => base.loaded /\ base.files["user drop-in"] = "right"

JInv ==
  /\ OldLayout /\ LoadedWithRules
  /\ marker.by # "none" \/ temp.by # "none" => dirs["srv"] = "right"
  /\ \A p \in Running : Stage(p)
-----------------------------------------------------------------------------
(* Lemmas for the second invariant.                                        *)

\* What no step of a running command and no other administrator takes away.
BaseGrows ==
  /\ base.masked => base'.masked
  /\ base.packages = 2 => base'.packages = 2
  /\ base.account = "right" => base'.account = "right"
  /\ base.uid => base'.uid
  /\ base.gid => base'.gid
  /\ \A f \in FileName : base.files[f] = "right" => base'.files[f] = "right"
  /\ \A d \in BaseDirName : base.dirs[d] = "right" => base'.dirs[d] = "right"
  /\ base.dirs["config"] = "half" => base'.dirs["config"] \in {"half", "right"}
  /\ base.dirs["config"] = "legacy" => base'.dirs["config"] \in {"legacy", "half", "right"}
  /\ base.dirs["config"] # "legacy" => base'.dirs["config"] # "legacy"
  /\ base.xdg => base'.xdg
  /\ base.label = "right" => base'.label = "right"
  /\ base.linger => base'.linger
  /\ base.manager # "down" => base'.manager # "down"
  /\ base.usermasked => base'.usermasked
  /\ base.firewall => base'.firewall
  /\ base.enabled => base'.enabled
  /\ base.active => base'.active
  /\ BaseIsRight => BaseIsRight'
  /\ OldLayout => OldLayout'
  /\ LoadedWithRules => LoadedWithRules'
StateGrows ==
  /\ off \subseteq off'
  /\ marker.by # "none" => marker'.by # "none"
  /\ secrets # NoTree => secrets' # NoTree
  /\ dirs["srv"] = "right" => dirs'["srv"] = "right"

LEMMA SameBaseGrows == ASSUME UNCHANGED base PROVE BaseGrows
BY DEF BaseGrows, BaseIsRight, OldLayout, LoadedWithRules

LEMMA SameStateGrows == ASSUME UNCHANGED <<off, stateVars>> PROVE StateGrows
BY DEF StateGrows, stateVars

\* What a command has seen to or looked at stays so.
LEMMA SeenGrows ==
  ASSUME BaseGrows, NEW s, NEW i \in Nat, NEW legacy \in BOOLEAN
  PROVE  /\ AccountSeen(s) => AccountSeen(s)'
         /\ i - 1 <= 4 /\ PathsSeen(s, i, legacy) => PathsSeen(s, i, legacy)'
         /\ ServicesSeen(s) => ServicesSeen(s)'
<1>1. AccountSeen(s) => AccountSeen(s)'
  BY DEF AccountSeen, BaseGrows
<1>2. ServicesSeen(s) => ServicesSeen(s)'
  BY DEF ServicesSeen, BaseGrows
<1>3. ASSUME i - 1 <= 4, PathsSeen(s, i, legacy) PROVE PathsSeen(s, i, legacy)'
  <2>1. \A d \in BaseDirName : Passed(d, legacy) => Passed(d, legacy)'
    BY DEF BaseGrows, Passed
  <2>2. \A j \in 1 .. i - 1 : BaseDir[j] \in BaseDirName /\ File[j] \in FileName
    BY <1>3, Loops DEF BaseDirName, FileName
  <2>3. s \in DirStep => \A j \in 1 .. i - 1 : Passed(BaseDir[j], legacy)'
    BY <1>3, <2>1, <2>2 DEF PathsSeen
  <2>4. s \in FileStep => \A j \in 1 .. i - 1 : base'.files[File[j]] = "right"
    BY <1>3, <2>2 DEF PathsSeen, BaseGrows
  <2>5. s \notin ToDirectories => \A d \in BaseDirName : Passed(d, legacy)'
    BY <1>3, <2>1 DEF PathsSeen
  <2>6. /\ s \notin CheckStep /\ base'.dirs["config"] = "legacy" => legacy
        /\ s \notin CheckStep /\ legacy => base'.dirs["config"] \in {"legacy", "half", "right"}
        /\ s \notin ToFiles => \A f \in FileName : base'.files[f] = "right"
        /\ s \notin ToRepair => base'.dirs["config"] # "legacy"
        /\ s \notin ToXdg => base'.dirs["config"] = "right"
        /\ s \notin ToLink => base'.xdg
    <3>1. "config" \in BaseDirName
      BY DEF BaseDirName, BaseDir
    <3> QED BY <1>3, <3>1 DEF PathsSeen, BaseGrows
  <2> QED BY <2>3, <2>4, <2>5, <2>6 DEF PathsSeen
<1> QED BY <1>1, <1>2, <1>3

LEMMA LookedGrows ==
  ASSUME BaseGrows, NEW found
  PROVE  /\ HostLooked(found) => HostLooked(found)'
         /\ FilesLooked(found) => FilesLooked(found)'
         /\ RuntimeLooked(found) => RuntimeLooked(found)'
         /\ base.manager # "down" => base'.manager # "down"
BY DEF BaseGrows, HostLooked, FilesLooked, RuntimeLooked, AccountIsThere, FilesAreThere

\* A command that does not move.
LEMMA OtherStays ==
  ASSUME Types, NEW q \in Proc, Placed(q), Stage(q), pc'[q] = pc[q], job'[q] = job[q], BaseGrows, StateGrows
  PROVE  Stage(q)'
<1>1. OfItsKind(q)' /\ Admits(q)'
  BY DEF Stage, OfItsKind, Admits
<1>2. SeenTo(q)'
  <2>1. job[q].i \in Nat /\ job[q].legacy \in BOOLEAN
    BY DEF Types, JobRecord
  <2>2. CASE job[q].i - 1 <= 4
    BY <2>1, <2>2, SeenGrows DEF Stage, SeenTo
  <2>3. CASE ~(job[q].i - 1 <= 4)
    <3>1. pc[q] \notin (DirStep \cup FileStep)
      <4>1. pc[q] \in DirStep \/ pc[q] \in FileStep => job[q].i \in 1 .. 4
        BY Loops DEF Placed
      <4>2. job[q].i \notin 1 .. 4
        BY <2>1, <2>3
      <4> QED BY <4>1, <4>2
    <3>2. \A i \in Nat : PathsSeen(pc[q], i, job[q].legacy) <=> PathsSeen(pc[q], 1, job[q].legacy)
      BY <3>1 DEF PathsSeen
    <3>3. \A i \in Nat : PathsSeen(pc[q], i, job[q].legacy)' <=> PathsSeen(pc[q], 1, job[q].legacy)'
      BY <3>1 DEF PathsSeen
    <3> QED BY <2>1, <3>2, <3>3, SeenGrows DEF Stage, SeenTo
  <2> QED BY <2>2, <2>3
<1>3. Found(q)'
  BY DEF Stage, Found, StateGrows
<1>4. Looked(q)'
  BY LookedGrows DEF Stage, Looked
<1>5. Rooted(q)'
  BY DEF Stage, Rooted, PastRoot, StateGrows
<1> QED BY <1>1, <1>2, <1>3, <1>4, <1>5 DEF Stage

\* A step of one command.
LEMMA StagesStay ==
  ASSUME IInv, JInv, NEW p \in Proc, NEW l, NEW j,
         pc' = [pc EXCEPT ![p] = l], job' = [job EXCEPT ![p] = j], BaseGrows, StateGrows,
         marker'.by # "none" \/ temp'.by # "none" => dirs'["srv"] = "right",
         l \notin Ended => Stage(p)'
  PROVE  JInv'
<1>1. Types /\ \A q \in Running : Placed(q) /\ Stage(q)
  BY DEF IInv, JInv, Each
<1>2. pc'[p] = l /\ \A q \in Proc \ {p} : pc'[q] = pc[q] /\ job'[q] = job[q]
  BY <1>1 DEF Types
<1>3. ASSUME NEW q \in Running' PROVE Stage(q)'
  <2>1. CASE q = p
    BY <1>2, <2>1 DEF Running
  <2>2. CASE q # p
    <3>1. q \in Proc /\ Placed(q) /\ Stage(q) /\ pc'[q] = pc[q] /\ job'[q] = job[q]
      BY <1>1, <1>2, <2>2 DEF Running
    <3> QED BY <1>1, <3>1, OtherStays
  <2> QED BY <2>1, <2>2
<1>4. OldLayout' /\ LoadedWithRules'
  BY DEF JInv, BaseGrows
<1> QED BY <1>3, <1>4 DEF JInv

\* A step of one command that leaves the production state alone, or ends.
LEMMA StageStays ==
  ASSUME IInv, JInv, NEW p \in Proc, NEW l, NEW j,
         pc' = [pc EXCEPT ![p] = l], job' = [job EXCEPT ![p] = j], BaseGrows, UNCHANGED <<off, stateVars>>,
         l \notin Ended => Stage(p)'
  PROVE  JInv'
<1>1. StateGrows
  BY SameStateGrows
<1>2. marker'.by # "none" \/ temp'.by # "none" => dirs'["srv"] = "right"
  BY DEF JInv, stateVars
<1> QED BY <1>1, <1>2, StagesStay

\* The command that runs at a step.
LEMMA CommandAt ==
  ASSUME NEW p \in Proc, job[p].cmd \in Command, OfItsKind(p)
  PROVE  /\ pc[p] \in CheckStep \cup WorkStep => job[p].cmd = "install"
         /\ pc[p] \in VerifyStep => job[p].cmd \in BaseCommand
         /\ pc[p] = "ready" => job[p].cmd = "enroll"
         /\ pc[p] \in {"observe", "observe rest"} => job[p].cmd = "prepare"
         /\ pc[p] = "observe native" => job[p].cmd = "native"
         /\ pc[p] \in StateStep => job[p].cmd \in {"initialize", "publish", "validate", "namespace"}
         /\ pc[p] = "check" => job[p].cmd \in {"validate", "namespace"}
         /\ pc[p] \in StateStep \ {"check", "publish", "copy", "seal"} => job[p].cmd = "initialize"
<1>1. job[p].cmd \in {"install", "verify", "enroll", "prepare", "native", "initialize", "publish", "validate", "namespace"}
  BY DEF OfItsKind, Command
<1>2. CASE job[p].cmd = "install"
  BY <1>2 DEF OfItsKind, BaseCommand
<1>3. CASE job[p].cmd = "verify"
  BY <1>3 DEF OfItsKind, BaseCommand
<1>4. CASE job[p].cmd = "enroll"
  BY <1>4 DEF OfItsKind, BaseCommand
<1>5. CASE job[p].cmd = "prepare"
  BY <1>5 DEF OfItsKind, BaseCommand
<1>6. CASE job[p].cmd = "native"
  BY <1>6 DEF OfItsKind, BaseCommand
<1>7. CASE job[p].cmd = "initialize"
  BY <1>7 DEF OfItsKind, BaseCommand
<1>8. CASE job[p].cmd = "publish"
  BY <1>8 DEF OfItsKind, BaseCommand
<1>9. CASE job[p].cmd \in {"validate", "namespace"}
  BY <1>9 DEF OfItsKind, BaseCommand
<1> QED BY <1>1, <1>2, <1>3, <1>4, <1>5, <1>6, <1>7, <1>8, <1>9

\* A step of an installation.
LEMMA InstallationStays ==
  ASSUME IInv, JInv, NEW p \in Running, NEW l \in CheckStep \cup WorkStep \cup {"verify host"}, NEW j \in JobRecord,
         pc' = [pc EXCEPT ![p] = l], job' = [job EXCEPT ![p] = j], BaseGrows, UNCHANGED <<off, stateVars>>,
         pc[p] \in CheckStep \cup WorkStep,
         j.cmd = job[p].cmd, j.doc = job[p].doc,
         j.found = job[p].found \/ j.found = Standing,
         AccountSeen(l)', PathsSeen(l, j.i, j.legacy)', ServicesSeen(l)'
  PROVE  JInv'
<1>1. Types /\ Stage(p) /\ p \in Proc /\ job[p].cmd \in Command
  BY DEF IInv, JInv, Running, Types, JobRecord
<1>2. pc'[p] = l /\ job'[p] = j
  BY <1>1 DEF Types
<1>3. job[p].cmd = "install" /\ OfItsKind(p)'
  BY <1>1, <1>2, CommandAt DEF Stage, OfItsKind
<1>4. Admits(p)'
  BY <1>1, <1>2 DEF Stage, Admits
<1>5. SeenTo(p)'
  BY <1>2 DEF SeenTo
<1>6. Found(p)'
  <2>1. Standing \subseteq off \cup {<<"authority", "state">>}
        /\ (<<"authority", "state">> \in Standing => marker.by # "none" \/ secrets # NoTree)
    BY StandingIsKnown DEF IInv
  <2> QED BY <1>1, <1>2, <2>1 DEF Stage, Found, stateVars
<1>7. Looked(p)' /\ Rooted(p)'
  BY <1>2 DEF Looked, Rooted, PastRoot
<1>8. Stage(p)'
  BY <1>3, <1>4, <1>5, <1>6, <1>7 DEF Stage
<1> QED BY <1>1, <1>8, StageStays

LEMMA RefusesStays == ASSUME IInv, JInv, NEW p \in Proc, NEW l, NEW why, Refuses(p, l, why) PROVE JInv'
<1>1. /\ job' = [job EXCEPT ![p] = job[p]] /\ pc' = [pc EXCEPT ![p] = "refused"]
      /\ UNCHANGED <<off, stateVars>> /\ UNCHANGED base
  BY DEF IInv, Types, Refuses, Goto
<1> QED BY <1>1, StageStays, SameBaseGrows

LEMMA SomeRound == \E n \in Nat : n - 1 <= 4
OBVIOUS

\* A step that is an Install() outside of the loops.
LEMMA InstallStays ==
  ASSUME IInv, JInv, NEW p \in Proc, NEW from \in WorkStep, NEW to \in WorkStep \ (DirStep \cup FileStep),
         NEW changes, NEW b, Install(p, from, to, changes, b), BaseGrows,
         AccountSeen(from)' => AccountSeen(to)',
         \A i \in Nat, legacy \in BOOLEAN : PathsSeen(from, i, legacy)' => PathsSeen(to, i, legacy)',
         ServicesSeen(from)' => ServicesSeen(to)',
         from \notin (DirStep \cup FileStep)
  PROVE  JInv'
<1> DEFINE j == IF changes THEN [job[p] EXCEPT !.changed = TRUE, !.counted = TRUE] ELSE job[p]
<1>1. Types /\ p \in Running /\ job[p] \in JobRecord /\ pc[p] = from
  BY DEF IInv, Install, Step, Running, Types
<1>2. /\ j \in JobRecord /\ j.cmd = job[p].cmd /\ j.doc = job[p].doc /\ j.found = job[p].found
      /\ j.i = job[p].i /\ j.legacy = job[p].legacy
  BY <1>1 DEF JobRecord
<1>3. /\ pc' = [pc EXCEPT ![p] = to] /\ UNCHANGED <<off, stateVars>> /\ job' = [job EXCEPT ![p] = j]
  BY <1>1 DEF Install, Goto, Did, Types
<1> HIDE DEF j
<1>4. Stage(p) /\ job[p].cmd = "install"
  BY <1>1, CommandAt DEF JInv, Stage, JobRecord
<1>5. AccountSeen(from)' /\ ServicesSeen(from)'
  BY <1>1, <1>4, SeenGrows DEF Stage, SeenTo
<1>6. ASSUME NEW i \in Nat, NEW legacy \in BOOLEAN, i = job[p].i, legacy = job[p].legacy
      PROVE  PathsSeen(from, i, legacy)'
  <2>1. PathsSeen(pc[p], job[p].i, job[p].legacy)
    BY <1>4 DEF Stage, SeenTo
  <2>2. PathsSeen(from, i, legacy)
    BY <1>1, <1>6, <2>1
  <2>3. PICK n \in Nat : n - 1 <= 4
    BY SomeRound
  <2>4. PathsSeen(from, n, legacy)
    BY <2>2 DEF PathsSeen
  <2>5. PathsSeen(from, n, legacy)'
    BY <2>3, <2>4, SeenGrows
  <2> QED BY <2>5 DEF PathsSeen
<1>7. job[p].i \in Nat /\ job[p].legacy \in BOOLEAN
  BY <1>1 DEF JobRecord
<1>8. ASSUME NEW i \in Nat, NEW legacy \in BOOLEAN, i = j.i, legacy = j.legacy
      PROVE  JInv'
  <2>1. PathsSeen(to, i, legacy)'
    BY <1>2, <1>6, <1>8
  <2> QED BY <1>1, <1>2, <1>3, <1>5, <1>8, <2>1, InstallationStays
<1> QED BY <1>2, <1>7, <1>8

\* What the second invariant asks next of an installation that goes on: what its step has
\* just seen to, and nothing else.
LEMMA EarlyPaths ==
  ASSUME NEW s \in EarlyStep, NEW i \in Nat, NEW legacy \in BOOLEAN
  PROVE  PathsSeen(s, i, legacy)' <=> /\ base'.dirs["config"] = "legacy" => legacy
                                      /\ legacy => base'.dirs["config"] \in {"legacy", "half", "right"}
<1>1. /\ s \notin CheckStep /\ s \notin (DirStep \cup FileStep)
      /\ s \in ToDirectories /\ s \in ToFiles /\ s \in ToRepair /\ s \in ToXdg /\ s \in ToLink
  BY DEF EarlyStep, ToMask, ToPackages, ToAccount, ToUid, ToGid, ToDirectories, ToFiles, ToRepair, ToXdg, ToLink
<1> HIDE DEF CheckStep
<1> QED BY <1>1 DEF PathsSeen

LEMMA EarlySteps ==
  /\ AccountSeen("mask")' /\ base'.masked => AccountSeen("packages")'
  /\ AccountSeen("packages")' /\ base'.packages = 2 => AccountSeen("account")'
  /\ \A s, t \in {"account", "group", "user"} : AccountSeen(s)' => AccountSeen(t)'
  /\ AccountSeen("account")' /\ base'.account = "right" => AccountSeen("uid")'
  /\ AccountSeen("uid")' /\ base'.uid => AccountSeen("gid")'
  /\ \A s \in EarlyStep : ServicesSeen(s)'
<1>1. /\ AccountSeen("mask")' /\ base'.masked => AccountSeen("packages")'
      /\ AccountSeen("packages")' /\ base'.packages = 2 => AccountSeen("account")'
      /\ \A s, t \in {"account", "group", "user"} : AccountSeen(s)' => AccountSeen(t)'
      /\ AccountSeen("account")' /\ base'.account = "right" => AccountSeen("uid")'
      /\ AccountSeen("uid")' /\ base'.uid => AccountSeen("gid")'
  BY DEF AccountSeen, ToMask, ToPackages, ToAccount, ToUid, ToGid
<1>2. ASSUME NEW s \in EarlyStep PROVE ServicesSeen(s)'
  <2>1. s \in ToLabels
    BY DEF EarlyStep, ToMask, ToPackages, ToAccount, ToUid, ToGid, ToDirectories, ToFiles, ToRepair, ToXdg, ToLink, ToLabels
  <2> QED BY <2>1 DEF ServicesSeen, ToLinger, ToManager, ToUserMask, ToFirewall, ToEnable, ToStart
<1> QED BY <1>1, <1>2

\* A step that sets some of the single fields.
LEMMA FieldsGrow ==
  ASSUME Types, NEW b \in BaseRecord, base' = b, b.files = base.files, b.dirs = base.dirs,
         base.loaded => b.loaded, b.enabled = base.enabled, BaseIsRight => b = base,
         base.masked => b.masked, base.packages = 2 => b.packages = 2,
         base.account = "right" => b.account = "right", base.uid => b.uid, base.gid => b.gid,
         base.xdg => b.xdg, base.label = "right" => b.label = "right", base.linger => b.linger,
         base.manager # "down" => b.manager # "down", base.usermasked => b.usermasked,
         base.firewall => b.firewall, base.active => b.active
  PROVE  BaseGrows
<1>1. BaseIsRight => BaseIsRight'
  BY DEF BaseIsRight
<1>2. (OldLayout => OldLayout') /\ (LoadedWithRules => LoadedWithRules')
  BY DEF OldLayout, LoadedWithRules
<1> QED BY <1>1, <1>2 DEF BaseGrows

LEMMA EarlyInstallStays ==
  ASSUME IInv, JInv, NEW p \in Proc, NEW from \in EarlyStep, NEW to \in EarlyStep, NEW changes, NEW b,
         Install(p, from, to, changes, b), BaseGrows, AccountSeen(from)' => AccountSeen(to)'
  PROVE  JInv'
<1>1. EarlyStep \subseteq WorkStep \ (DirStep \cup FileStep)
  BY DEF EarlyStep
<1>2. \A i \in Nat, legacy \in BOOLEAN : PathsSeen(from, i, legacy)' => PathsSeen(to, i, legacy)'
  BY EarlyPaths
<1>3. ServicesSeen(to)'
  BY EarlySteps
<1>4. from \in WorkStep /\ from \notin (DirStep \cup FileStep) /\ to \in WorkStep \ (DirStep \cup FileStep)
  BY <1>1
<1> HIDE DEF WorkStep, DirStep, FileStep, CheckStep
<1> QED BY <1>2, <1>3, <1>4, InstallStays

\* A step of the installation that sets some of the single fields, outside of the loops.
LEMMA AccountStays ==
  ASSUME IInv, JInv, NEW p \in Proc,
         \/ Mask(p) \/ InstallPackages(p) \/ FindAccount(p) \/ CreateGroup(p) \/ CreateUser(p) \/ AddSubuid(p)
  PROVE  JInv'
<1>1. base \in BaseRecord /\ Types
  BY DEF IInv, Types
<1>s. /\ "mask" \in EarlyStep /\ "packages" \in EarlyStep /\ "account" \in EarlyStep /\ "group" \in EarlyStep
      /\ "user" \in EarlyStep /\ "uid" \in EarlyStep /\ "gid" \in EarlyStep
  BY DEF EarlyStep
<1>2. CASE Mask(p)
  <2> DEFINE b == [base EXCEPT !.masked = TRUE]
  <2>1. CASE Install(p, "mask", "packages", ~base.masked, b)
    <3>1. base' = b
      BY <2>1 DEF Install
    <3>2. BaseIsRight => b = base
      BY <1>1, RightFields DEF BaseRecord
    <3>3. b \in BaseRecord
      BY <1>1 DEF BaseRecord
    <3>4. BaseGrows
      BY <1>1, <3>1, <3>2, <3>3, FieldsGrow DEF BaseRecord
    <3>5. base'.masked
      BY <1>1, <3>1 DEF BaseRecord
    <3> HIDE DEF b
    <3> QED BY <1>s, <2>1, <3>4, <3>5, EarlySteps, EarlyInstallStays
  <2> QED BY <1>2, <2>1, RefusesStays DEF Mask
<1>3. CASE InstallPackages(p)
  <2> DEFINE n == IF base.packages < 2 THEN base.packages + 1 ELSE base.packages
             b == [base EXCEPT !.packages = n]
  <2>1. PICK to \in {"packages", "account"} :
          /\ Install(p, "packages", to, base.packages < 2, b)
          /\ to = "account" => ~(base.packages < 2)
    BY <1>3 DEF InstallPackages
  <2>2. n \in 0 .. 2 /\ (base.packages = 2 => n = 2) /\ (to = "account" => n = 2)
    BY <1>1, <2>1 DEF BaseRecord
  <2> HIDE DEF n
  <2>3. base' = b
    BY <2>1 DEF Install
  <2>4. b \in BaseRecord
    BY <1>1, <2>2 DEF BaseRecord
  <2>5. BaseIsRight => b = base
    BY <1>1, <2>2, RightFields DEF BaseRecord
  <2>6. BaseGrows
    BY <1>1, <2>2, <2>3, <2>4, <2>5, FieldsGrow DEF BaseRecord
  <2>7. to = "account" => base'.packages = 2
    BY <1>1, <2>2, <2>3 DEF BaseRecord
  <2> HIDE DEF b
  <2>8. AccountSeen("packages")' => AccountSeen(to)'
    BY <2>2, <2>7, EarlySteps
  <2>9. to \in EarlyStep
    BY <1>s
  <2> QED BY <1>s, <2>1, <2>6, <2>8, <2>9, EarlyInstallStays
<1>4. CASE FindAccount(p)
  <2>1. CASE base.account # "right"
             /\ Install(p, "account", IF base.account = "absent" THEN "group" ELSE "user", FALSE, base)
    <3>1. PICK to \in {"group", "user"} : Install(p, "account", to, FALSE, base)
      BY <2>1
    <3>2. BaseGrows
      BY <3>1, SameBaseGrows DEF Install
    <3>3. to \in EarlyStep /\ (AccountSeen("account")' => AccountSeen(to)')
      BY <1>s, EarlySteps
    <3> QED BY <1>s, <3>1, <3>2, <3>3, EarlyInstallStays
  <2>2. CASE Account /\ Install(p, "account", "uid", FALSE, base)
    <3>1. base' = base /\ base'.account = "right"
      BY <2>2 DEF Install, Account
    <3>2. BaseGrows
      BY <3>1, SameBaseGrows
    <3> QED BY <1>s, <2>2, <3>1, <3>2, EarlySteps, EarlyInstallStays
  <2> QED BY <1>4, <2>1, <2>2, RefusesStays DEF FindAccount
<1>6. CASE CreateGroup(p)
  <2> DEFINE b == [base EXCEPT !.account = "group"]
  <2>1. CASE base.account = "absent" /\ Install(p, "group", "user", TRUE, b)
    <3>1. base' = b
      BY <2>1 DEF Install
    <3>2. b \in BaseRecord /\ ~BaseIsRight
      BY <1>1, <2>1, RightFields DEF BaseRecord
    <3>3. BaseGrows
      BY <1>1, <2>1, <3>1, <3>2, FieldsGrow DEF BaseRecord
    <3> HIDE DEF b
    <3> QED BY <1>s, <2>1, <3>3, EarlySteps, EarlyInstallStays
  <2>2. Step(p, "group") /\ ~Taken(p) => base.account = "absent"
    BY DEF Taken, Step
  <2> HIDE DEF b
  <2> QED BY <1>6, <2>1, <2>2, RefusesStays DEF CreateGroup, Install, b
<1>7. CASE CreateUser(p)
  <2> DEFINE b == [base EXCEPT !.account = "right"]
  <2>1. CASE Install(p, "user", "account", TRUE, b)
    <3>1. base' = b
      BY <2>1 DEF Install
    <3>2. b \in BaseRecord /\ (BaseIsRight => b = base)
      BY <1>1, RightFields DEF BaseRecord
    <3>3. BaseGrows
      BY <1>1, <3>1, <3>2, FieldsGrow DEF BaseRecord
    <3> HIDE DEF b
    <3> QED BY <1>s, <2>1, <3>3, EarlySteps, EarlyInstallStays
  <2> HIDE DEF b
  <2> QED BY <1>7, <2>1, RefusesStays DEF CreateUser, b
<1>5. CASE AddSubuid(p)
  <2> DEFINE b == [base EXCEPT !.uid = TRUE]
  <2>1. CASE Install(p, "uid", "gid", ~base.uid, b)
    <3>1. base' = b
      BY <2>1 DEF Install
    <3>2. b \in BaseRecord /\ (BaseIsRight => b = base)
      BY <1>1, RightFields DEF BaseRecord
    <3>3. BaseGrows
      BY <1>1, <3>1, <3>2, FieldsGrow DEF BaseRecord
    <3>4. base'.uid
      BY <1>1, <3>1 DEF BaseRecord
    <3> HIDE DEF b
    <3> QED BY <1>s, <2>1, <3>3, <3>4, EarlySteps, EarlyInstallStays
  <2> QED BY <1>5, <2>1, RefusesStays DEF AddSubuid
<1> QED BY <1>2, <1>3, <1>4, <1>5, <1>6, <1>7

\* The steps after the loops.
LEMMA LaterSteps ==
  ASSUME NEW s \in WorkStep \ EarlyStep, NEW t \in WorkStep \ EarlyStep
  PROVE  AccountSeen(s)' => AccountSeen(t)'
<1>1. /\ s \notin ToGid /\ s \notin ToUid /\ s \notin ToAccount /\ s \notin ToPackages /\ s \notin ToMask
      /\ t \notin ToGid /\ t \notin ToUid /\ t \notin ToAccount /\ t \notin ToPackages /\ t \notin ToMask
  BY DEF EarlyStep, ToMask, ToPackages, ToAccount, ToUid, ToGid
<1> QED BY <1>1 DEF AccountSeen

LEMMA RepairPaths ==
  ASSUME NEW i \in Nat, NEW legacy \in BOOLEAN
  PROVE  /\ PathsSeen("repair", i, legacy)' => PathsSeen("unlink", i, legacy)'
         /\ PathsSeen("repair", i, legacy)' /\ base'.dirs["config"] # "legacy" => PathsSeen("xdg", i, legacy)'
         /\ PathsSeen("unlink", i, legacy)' /\ base'.dirs["config"] # "legacy" => PathsSeen("transfer", i, legacy)'
         /\ PathsSeen("transfer", i, legacy)' => PathsSeen("xdg", i, legacy)'
         /\ PathsSeen("xdg", i, legacy)' /\ base'.dirs["config"] = "right" => PathsSeen("link", i, legacy)'
         /\ PathsSeen("link", i, legacy)' /\ base'.xdg => PathsSeen("reload", i, legacy)'
BY DEF PathsSeen, ToMask, ToPackages, ToAccount, ToUid, ToGid, ToDirectories, ToFiles, ToRepair, ToXdg, ToLink

LEMMA LatePaths ==
  ASSUME NEW s \in {"reload", "labels", "rule", "restorecon", "linger", "manager", "user mask", "firewall", "enable", "start"},
         NEW t \in {"reload", "labels", "rule", "restorecon", "linger", "manager", "user mask", "firewall", "enable", "start"},
         NEW i \in Nat, NEW legacy \in BOOLEAN
  PROVE  PathsSeen(s, i, legacy)' => PathsSeen(t, i, legacy)'
<1>1. /\ s \notin ToLink /\ t \notin ToLink
      /\ s \notin ToXdg /\ s \notin ToRepair /\ s \notin ToFiles /\ s \notin ToDirectories /\ s \notin CheckStep
      /\ t \notin ToXdg /\ t \notin ToRepair /\ t \notin ToFiles /\ t \notin ToDirectories /\ t \notin CheckStep
      /\ t \notin (DirStep \cup FileStep)
  BY DEF ToMask, ToPackages, ToAccount, ToUid, ToGid, ToDirectories, ToFiles, ToRepair, ToXdg, ToLink
<1> HIDE DEF CheckStep
<1> QED BY <1>1 DEF PathsSeen

LEMMA LateServices ==
  /\ \A s \in {"dirs", "make dir", "chown dir", "files", "open file", "write file", "repair", "unlink", "transfer",
               "xdg", "link", "reload", "labels", "rule", "restorecon"} : ServicesSeen(s)'
  /\ base'.label = "right" => ServicesSeen("linger")'
  /\ ServicesSeen("linger")' /\ base'.linger => ServicesSeen("manager")'
  /\ ServicesSeen("manager")' /\ base'.manager # "down" => ServicesSeen("user mask")'
  /\ ServicesSeen("user mask")' /\ base'.usermasked => ServicesSeen("firewall")'
  /\ ServicesSeen("firewall")' /\ base'.firewall => ServicesSeen("enable")'
  /\ ServicesSeen("enable")' /\ base'.enabled => ServicesSeen("start")'
  /\ ServicesSeen("start")' /\ base'.active => ServicesSeen("verify host")'
<1> USE DEF ToMask, ToPackages, ToAccount, ToUid, ToGid, ToDirectories, ToFiles, ToRepair, ToXdg, ToLink, ToLabels,
        ToLinger, ToManager, ToUserMask, ToFirewall, ToEnable, ToStart
<1>1. ASSUME NEW s \in {"dirs", "make dir", "chown dir", "files", "open file", "write file", "repair", "unlink", "transfer",
               "xdg", "link", "reload", "labels", "rule", "restorecon"} PROVE ServicesSeen(s)'
  <2>1. s \in ToLabels /\ ToLabels \subseteq ToStart
    OBVIOUS
  <2>2. s \in ToLinger /\ s \in ToManager /\ s \in ToUserMask /\ s \in ToFirewall /\ s \in ToEnable /\ s \in ToStart
    BY <2>1
  <2> HIDE DEF ToLabels, ToLinger, ToManager, ToUserMask, ToFirewall, ToEnable, ToStart
  <2> QED BY <2>1, <2>2 DEF ServicesSeen
<1>2. base'.label = "right" => ServicesSeen("linger")'
  BY DEF ServicesSeen
<1>3. ServicesSeen("linger")' /\ base'.linger => ServicesSeen("manager")'
  BY DEF ServicesSeen
<1>4. ServicesSeen("manager")' /\ base'.manager # "down" => ServicesSeen("user mask")'
  BY DEF ServicesSeen
<1>5. ServicesSeen("user mask")' /\ base'.usermasked => ServicesSeen("firewall")'
  BY DEF ServicesSeen
<1>6. ServicesSeen("firewall")' /\ base'.firewall => ServicesSeen("enable")'
  BY DEF ServicesSeen
<1>7. ServicesSeen("enable")' /\ base'.enabled => ServicesSeen("start")'
  BY DEF ServicesSeen
<1>8. ServicesSeen("start")' /\ base'.active => ServicesSeen("verify host")'
  BY DEF ServicesSeen
<1> QED BY <1>1, <1>2, <1>3, <1>4, <1>5, <1>6, <1>7, <1>8

LEMMA LaterInstallStays ==
  ASSUME IInv, JInv, NEW p \in Proc,
         NEW from \in {"repair", "unlink", "transfer", "xdg", "link", "reload", "labels", "rule", "restorecon", "linger",
                       "manager", "user mask", "firewall", "enable"},
         NEW to \in {"unlink", "transfer", "xdg", "link", "reload", "labels", "rule", "restorecon", "linger", "manager",
                     "user mask", "firewall", "enable", "start"},
         NEW changes, NEW b, Install(p, from, to, changes, b), BaseGrows,
         \A i \in Nat, legacy \in BOOLEAN : PathsSeen(from, i, legacy)' => PathsSeen(to, i, legacy)',
         ServicesSeen(from)' => ServicesSeen(to)'
  PROVE  JInv'
<1>1. /\ from \in WorkStep /\ to \in WorkStep
      /\ from \notin EarlyStep /\ to \notin EarlyStep
      /\ from \notin (DirStep \cup FileStep) /\ to \notin (DirStep \cup FileStep)
  BY DEF EarlyStep
<1>2. AccountSeen(from)' => AccountSeen(to)'
  BY <1>1, LaterSteps
<1>3. /\ from \in WorkStep /\ to \in WorkStep \ (DirStep \cup FileStep)
      /\ from \notin (DirStep \cup FileStep)
  BY <1>1
<1> HIDE DEF WorkStep
<1> QED BY <1>2, <1>3, InstallStays

\* A step that changes directories only.
LEMMA DirectoriesGrow ==
  ASSUME base \in BaseRecord, NEW ds \in [BaseDirName -> {"absent", "legacy", "torn", "half", "right"}],
         base' = [base EXCEPT !.dirs = ds],
         \A d \in BaseDirName : base.dirs[d] = "right" => ds[d] = "right",
         base.dirs["config"] = "half" => ds["config"] \in {"half", "right"},
         base.dirs["config"] = "legacy" => ds["config"] \in {"legacy", "half", "right"},
         \A d \in BaseDirName : ds[d] = "legacy" => base.dirs[d] = "legacy"
  PROVE  BaseGrows /\ base'.dirs = ds
<1>1. /\ base'.dirs = ds /\ base'.files = base.files /\ base'.packages = base.packages
      /\ base'.account = base.account /\ base'.uid = base.uid /\ base'.gid = base.gid
      /\ base'.masked = base.masked /\ base'.usermasked = base.usermasked /\ base'.xdg = base.xdg
      /\ base'.loaded = base.loaded /\ base'.manager = base.manager /\ base'.linger = base.linger
      /\ base'.label = base.label /\ base'.firewall = base.firewall /\ base'.enabled = base.enabled
      /\ base'.active = base.active
  BY DEF BaseRecord
<1>2. "config" \in BaseDirName /\ "home" \in BaseDirName
  BY DEF BaseDirName, BaseDir
<1>3. BaseIsRight => BaseIsRight'
  <2>1. BaseIsRight => ds = base.dirs
    BY RightFields DEF BaseRecord
  <2>2. BaseIsRight => base' = base
    BY <2>1 DEF BaseRecord
  <2> QED BY <2>2 DEF BaseIsRight
<1>4. (OldLayout => OldLayout') /\ (LoadedWithRules => LoadedWithRules')
  BY <1>1, <1>2 DEF OldLayout, LoadedWithRules
<1> QED BY <1>1, <1>2, <1>3, <1>4 DEF BaseGrows

\* The old layout.
LEMMA LegacyStays == ASSUME IInv, JInv, NEW p \in Proc, CheckLegacy(p) \/ RemoveLegacy(p) \/ TransferLegacy(p)
  PROVE  JInv'
<1>0. "config" \in BaseDirName
  BY DEF BaseDirName, BaseDir
<1>1. base \in BaseRecord /\ "config" \in BaseDirName
  BY <1>0 DEF IInv, Types
<1>2. CASE RemoveLegacy(p)
  <2> DEFINE ds == [base.dirs EXCEPT !["config"] = "half"]
  <2>1. CASE Legacy /\ Install(p, "unlink", "transfer", TRUE, [base EXCEPT !.dirs = ds])
    <3>1. base' = [base EXCEPT !.dirs = ds]
      BY <2>1 DEF Install
    <3>2. ds \in [BaseDirName -> {"absent", "legacy", "torn", "half", "right"}]
      BY <1>1 DEF BaseRecord
    <3>3. /\ ds["config"] = "half" /\ base.dirs["config"] = "legacy"
          /\ \A d \in BaseDirName \ {"config"} : ds[d] = base.dirs[d]
      BY <1>1, <2>1 DEF BaseRecord, Legacy
    <3> HIDE DEF ds
    <3>4. BaseGrows /\ base'.dirs = ds
      BY <1>1, <3>1, <3>2, <3>3, DirectoriesGrow
    <3>5. base'.dirs["config"] # "legacy"
      BY <3>3, <3>4
    <3>6. \A i \in Nat, legacy \in BOOLEAN : PathsSeen("unlink", i, legacy)' => PathsSeen("transfer", i, legacy)'
      BY <3>5, RepairPaths
    <3> QED BY <2>1, <3>4, <3>6, LateServices, LaterInstallStays
  <2>2. pc[p] = "unlink" /\ ~Taken(p) => Legacy
    BY DEF Taken
  <2> QED BY <1>2, <2>1, <2>2, RefusesStays DEF RemoveLegacy, Install, Step
<1>4. CASE CheckLegacy(p)
  <2>1. CASE Install(p, "repair", "unlink", FALSE, base)
    <3>1. BaseGrows
      BY <2>1, SameBaseGrows DEF Install
    <3> QED BY <2>1, <3>1, RepairPaths, LateServices, LaterInstallStays
  <2>2. CASE ~Legacy /\ Install(p, "repair", "xdg", FALSE, base)
    <3>1. base' = base /\ base'.dirs["config"] # "legacy"
      BY <2>2 DEF Install, Legacy
    <3>2. BaseGrows
      BY <3>1, SameBaseGrows
    <3> QED BY <2>2, <3>1, <3>2, RepairPaths, LateServices, LaterInstallStays
  <2> QED BY <1>4, <2>1, <2>2, RefusesStays DEF CheckLegacy
<1>3. CASE TransferLegacy(p)
  <2> DEFINE ds == [base.dirs EXCEPT !["config"] = "right"]
  <2>1. Install(p, "transfer", "xdg", TRUE, [base EXCEPT !.dirs = ds])
    BY <1>3 DEF TransferLegacy
  <2>2. base' = [base EXCEPT !.dirs = ds]
    BY <2>1 DEF Install
  <2>3. ds \in [BaseDirName -> {"absent", "legacy", "torn", "half", "right"}]
    BY <1>1 DEF BaseRecord
  <2>4. ds["config"] = "right" /\ \A d \in BaseDirName \ {"config"} : ds[d] = base.dirs[d]
    BY <1>1 DEF BaseRecord
  <2> HIDE DEF ds
  <2>5. BaseGrows
    BY <1>1, <2>2, <2>3, <2>4, DirectoriesGrow
  <2>6. \A i \in Nat, legacy \in BOOLEAN : PathsSeen("transfer", i, legacy)' => PathsSeen("xdg", i, legacy)'
    BY RepairPaths
  <2> QED BY <2>1, <2>5, <2>6, LateServices, LaterInstallStays
<1> QED BY <1>2, <1>3, <1>4

\* The links of the account, the reload and the label of the store.
LEMMA StoreStays ==
  ASSUME IInv, JInv, NEW p \in Proc,
         SetUpXdg(p) \/ LinkXdg(p) \/ Reload(p) \/ LabelStorage(p) \/ AddRule(p) \/ Restorecon(p)
  PROVE  JInv'
<1>1. base \in BaseRecord /\ Types
  BY DEF IInv, Types
<1>2. CASE SetUpXdg(p)
  <2> PICK to \in {"reload", "link"} : to = IF base.xdg THEN "reload" ELSE "link"
    OBVIOUS
  <2>1. CASE Directory("config") /\ Install(p, "xdg", to, FALSE, base)
    <3>1. base' = base /\ base'.dirs["config"] = "right" /\ (to = "reload" => base'.xdg)
      BY <2>1 DEF Install, Directory
    <3>2. BaseGrows
      BY <3>1, SameBaseGrows
    <3>3. ServicesSeen(to)'
      BY LateServices
    <3>4. \A i \in Nat, legacy \in BOOLEAN : PathsSeen("xdg", i, legacy)' => PathsSeen(to, i, legacy)'
      <4>1. ASSUME NEW i \in Nat, NEW legacy \in BOOLEAN, PathsSeen("xdg", i, legacy)'
            PROVE  PathsSeen(to, i, legacy)'
        <5>1. PathsSeen("link", i, legacy)'
          BY <3>1, <4>1, RepairPaths
        <5>2. base'.xdg => PathsSeen("reload", i, legacy)'
          BY <5>1, RepairPaths
        <5> QED BY <3>1, <5>1, <5>2
      <4> QED BY <4>1
    <3>5. Install(p, "xdg", to, FALSE, base)
      BY <2>1
    <3> QED BY <3>2, <3>3, <3>4, <3>5, LaterInstallStays
  <2> QED BY <1>2, <2>1, RefusesStays DEF SetUpXdg
<1>6. CASE LinkXdg(p)
  <2> DEFINE b == [base EXCEPT !.xdg = TRUE]
  <2>1. CASE Install(p, "link", "reload", TRUE, b)
    <3>1. base' = b
      BY <2>1 DEF Install
    <3>2. b \in BaseRecord /\ (BaseIsRight => b = base)
      BY <1>1, RightFields DEF BaseRecord
    <3>3. BaseGrows
      BY <1>1, <3>1, <3>2, FieldsGrow DEF BaseRecord
    <3>4. base'.xdg
      BY <1>1, <3>1 DEF BaseRecord
    <3> HIDE DEF b
    <3> QED BY <2>1, <3>3, <3>4, RepairPaths, LateServices, LaterInstallStays
  <2> HIDE DEF b
  <2> QED BY <1>6, <2>1, RefusesStays DEF LinkXdg, b
<1>3. CASE Reload(p)
  <2> DEFINE b == [base EXCEPT !.loaded = @ \/ job[p].counted]
  <2>1. Install(p, "reload", "labels", job[p].counted, b)
    BY <1>3 DEF Reload
  <2>2. base' = b
    BY <2>1 DEF Install
  <2>3. b \in BaseRecord /\ (BaseIsRight => b = base)
    <3> DEFINE loaded == base.loaded \/ job[p].counted
    <3>1. loaded \in BOOLEAN /\ (BaseIsRight => loaded = TRUE) /\ b = [base EXCEPT !.loaded = loaded]
      BY RightFields
    <3> HIDE DEF loaded, b
    <3> QED BY <1>1, <3>1, RightFields DEF BaseRecord
  <2>4. BaseGrows
    BY <1>1, <2>2, <2>3, FieldsGrow DEF BaseRecord
  <2> HIDE DEF b
  <2> QED BY <2>1, <2>4, LatePaths, LateServices, LaterInstallStays
<1>4. CASE LabelStorage(p)
  <2>1. CASE Install(p, "labels", "rule", FALSE, base)
    <3>1. BaseGrows
      BY <2>1, SameBaseGrows DEF Install
    <3> QED BY <2>1, <3>1, LatePaths, LateServices, LaterInstallStays
  <2>2. CASE Labels /\ Install(p, "labels", "linger", FALSE, base)
    <3>1. base' = base /\ base'.label = "right"
      BY <2>2 DEF Install, Labels
    <3>2. BaseGrows
      BY <3>1, SameBaseGrows
    <3> QED BY <2>2, <3>1, <3>2, LatePaths, LateServices, LaterInstallStays
  <2> QED BY <1>4, <2>1, <2>2, RefusesStays DEF LabelStorage
<1>7. CASE AddRule(p)
  <2> DEFINE b == [base EXCEPT !.label = "policy"]
  <2>1. CASE base.label = "none" /\ Install(p, "rule", "restorecon", TRUE, b)
    <3>1. base' = b
      BY <2>1 DEF Install
    <3>2. b \in BaseRecord /\ ~BaseIsRight
      BY <1>1, <2>1, RightFields DEF BaseRecord
    <3>3. BaseGrows
      BY <1>1, <2>1, <3>1, <3>2, FieldsGrow DEF BaseRecord
    <3> HIDE DEF b
    <3> QED BY <2>1, <3>3, LatePaths, LateServices, LaterInstallStays
  <2>2. Step(p, "rule") /\ ~Taken(p) => base.label = "none"
    BY DEF Taken, Step
  <2> HIDE DEF b
  <2> QED BY <1>7, <2>1, <2>2, RefusesStays DEF AddRule, Install, b
<1>5. CASE Restorecon(p)
  <2> DEFINE b == [base EXCEPT !.label = "right"]
  <2>1. CASE Install(p, "restorecon", "linger", TRUE, b)
    <3>1. base' = b
      BY <2>1 DEF Install
    <3>2. b \in BaseRecord /\ (BaseIsRight => b = base)
      BY <1>1, RightFields DEF BaseRecord
    <3>3. BaseGrows
      BY <1>1, <3>1, <3>2, FieldsGrow DEF BaseRecord
    <3>4. base'.label = "right"
      BY <1>1, <3>1 DEF BaseRecord
    <3> HIDE DEF b
    <3> QED BY <2>1, <3>3, <3>4, LatePaths, LateServices, LaterInstallStays
  <2> QED BY <1>5, <2>1, RefusesStays DEF Restorecon
<1> QED BY <1>2, <1>3, <1>4, <1>5, <1>6, <1>7

\* Everything but the manager stays when the user manager starts.
LEMMA StartedGrows ==
  ASSUME Types, NEW b \in BaseRecord, NEW c \in Started(b), base' = c,
         b = base \/ (b = [base EXCEPT !.linger = TRUE] /\ ~base.linger)
  PROVE  BaseGrows /\ base'.manager # "down" /\ base'.linger = b.linger
<1>1. PICK m \in {"right", "stale"} : c = [b EXCEPT !.manager = m] /\ (b.manager # "down" => m = b.manager)
  BY DEF Started, BaseRecord
<1>2. /\ c \in BaseRecord /\ c.files = b.files /\ c.dirs = b.dirs /\ c.loaded = b.loaded /\ c.enabled = b.enabled
      /\ c.masked = b.masked /\ c.packages = b.packages /\ c.account = b.account /\ c.uid = b.uid
      /\ c.gid = b.gid /\ c.xdg = b.xdg /\ c.label = b.label /\ c.linger = b.linger /\ c.manager = m
      /\ c.usermasked = b.usermasked /\ c.firewall = b.firewall /\ c.active = b.active
  BY <1>1 DEF BaseRecord
<1>3. base \in BaseRecord
  BY DEF Types
<1>4. /\ b.files = base.files /\ b.dirs = base.dirs /\ b.loaded = base.loaded /\ b.enabled = base.enabled
      /\ b.masked = base.masked /\ b.packages = base.packages /\ b.account = base.account /\ b.uid = base.uid
      /\ b.gid = base.gid /\ b.xdg = base.xdg /\ b.label = base.label /\ (base.linger => b.linger)
      /\ b.usermasked = base.usermasked /\ b.firewall = base.firewall /\ b.active = base.active
  BY <1>3 DEF BaseRecord
<1>5. BaseIsRight => c = base
  <2>1. BaseIsRight => b = base /\ b.manager = "right"
    BY RightFields
  <2> QED BY <2>1, StartedBase
<1>6. BaseGrows
  BY <1>2, <1>4, <1>5, FieldsGrow
<1> QED BY <1>1, <1>2, <1>6

\* Lingering, the user manager and the units of the user.
LEMMA ManagerStays ==
  ASSUME IInv, JInv, NEW p \in Proc, EnableLinger(p) \/ StartManager(p) \/ MaskUser(p)
  PROVE  JInv'
<1>1. base \in BaseRecord /\ Types
  BY DEF IInv, Types
<1>2. CASE EnableLinger(p)
  <2> DEFINE l == [base EXCEPT !.linger = TRUE]
  <2>1. CASE base.linger /\ Install(p, "linger", "manager", FALSE, base)
    <3>1. base' = base /\ base'.linger
      BY <2>1 DEF Install
    <3>2. BaseGrows
      BY <3>1, SameBaseGrows
    <3> QED BY <2>1, <3>1, <3>2, LatePaths, LateServices, LaterInstallStays
  <2>2. CASE ~base.linger /\ \E b \in Started(l) : Install(p, "linger", "manager", TRUE, b)
    <3>1. PICK b \in Started(l) : Install(p, "linger", "manager", TRUE, b)
      BY <2>2
    <3>2. base' = b
      BY <3>1 DEF Install
    <3>3. l \in BaseRecord /\ l.linger
      BY <1>1 DEF BaseRecord
    <3>4. BaseGrows /\ base'.linger
      BY <1>1, <2>2, <3>2, <3>3, StartedGrows
    <3> QED BY <3>1, <3>4, LatePaths, LateServices, LaterInstallStays
  <2> QED BY <1>2, <2>1, <2>2 DEF EnableLinger
<1>3. CASE StartManager(p)
  <2>1. PICK b \in Started(base), changes \in BOOLEAN : Install(p, "manager", "user mask", changes, b)
    <3>1. (base.manager = "down") \in BOOLEAN
      OBVIOUS
    <3> QED BY <1>3, <3>1, Zenon DEF StartManager
  <2>2. base' = b
    BY <2>1 DEF Install
  <2>3. BaseGrows /\ base'.manager # "down"
    BY <1>1, <2>2, StartedGrows
  <2>4. ServicesSeen("manager")' => ServicesSeen("user mask")'
    BY <2>3, LateServices
  <2>5. \A i \in Nat, legacy \in BOOLEAN : PathsSeen("manager", i, legacy)' => PathsSeen("user mask", i, legacy)'
    BY LatePaths
  <2> QED BY <2>1, <2>3, <2>4, <2>5, LaterInstallStays
<1>4. CASE MaskUser(p)
  <2> DEFINE b == [base EXCEPT !.usermasked = TRUE]
  <2>1. CASE Install(p, "user mask", "firewall", ~base.usermasked, b)
    <3>1. base' = b
      BY <2>1 DEF Install
    <3>2. b \in BaseRecord /\ (BaseIsRight => b = base)
      BY <1>1, RightFields DEF BaseRecord
    <3>3. BaseGrows
      BY <1>1, <3>1, <3>2, FieldsGrow DEF BaseRecord
    <3>4. base'.usermasked
      BY <1>1, <3>1 DEF BaseRecord
    <3> HIDE DEF b
    <3> QED BY <2>1, <3>3, <3>4, LatePaths, LateServices, LaterInstallStays
  <2> QED BY <1>4, <2>1, RefusesStays DEF MaskUser
<1> QED BY <1>2, <1>3, <1>4

\* The rules of the firewall and its service, which is enabled once the drop-in is there.
LEMMA FirewallStays == ASSUME IInv, JInv, NEW p \in Proc, ApplyFirewall(p) \/ EnableFirewall(p) PROVE JInv'
<1>1. base \in BaseRecord /\ Types
  BY DEF IInv, Types
<1>2. CASE ApplyFirewall(p)
  <2> DEFINE b == [base EXCEPT !.firewall = TRUE]
  <2>1. Install(p, "firewall", "enable", ~base.firewall, b)
    BY <1>2 DEF ApplyFirewall
  <2>2. base' = b
    BY <2>1 DEF Install
  <2>3. b \in BaseRecord /\ (BaseIsRight => b = base)
    BY <1>1, RightFields DEF BaseRecord
  <2>4. BaseGrows
    BY <1>1, <2>2, <2>3, FieldsGrow DEF BaseRecord
  <2>5. base'.firewall
    BY <1>1, <2>2 DEF BaseRecord
  <2> HIDE DEF b
  <2> QED BY <2>1, <2>4, <2>5, LatePaths, LateServices, LaterInstallStays
<1>3. CASE EnableFirewall(p)
  <2> DEFINE loaded == base.loaded \/ ~base.enabled
             b == [base EXCEPT !.enabled = TRUE, !.loaded = @ \/ ~base.enabled]
  <2>1. CASE Install(p, "enable", "start", ~base.enabled, b)
    <3>1. base' = b
      BY <2>1 DEF Install
    <3>2. loaded \in BOOLEAN /\ (base.loaded => loaded) /\ (LoadedWithRules => loaded)
          /\ b = [base EXCEPT !.enabled = TRUE, !.loaded = loaded]
      BY DEF LoadedWithRules
    <3> HIDE DEF b, loaded
    <3>3. base.files["user drop-in"] = "right"
      <4>1. p \in Running /\ Stage(p) /\ pc[p] = "enable"
        BY <2>1 DEF Install, Step, Running, JInv
      <4>2. job[p].cmd \in Command
        BY <1>1 DEF Types, JobRecord
      <4>3. job[p].cmd = "install"
        <5>1. OfItsKind(p) /\ p \in Proc /\ pc[p] \in CheckStep \cup WorkStep
          BY <4>1 DEF Stage
        <5> QED BY <4>2, <5>1, CommandAt
      <4>4. PathsSeen("enable", job[p].i, job[p].legacy)
        BY <4>1, <4>3 DEF Stage, SeenTo
      <4>5. "enable" \notin ToFiles
        BY DEF ToMask, ToPackages, ToAccount, ToUid, ToGid, ToDirectories, ToFiles
      <4>6. "user drop-in" \in FileName
        <5>1. File[2] = "user drop-in" /\ 2 \in DOMAIN File
          BY Loops DEF File
        <5> QED BY <5>1 DEF FileName
      <4> QED BY <4>4, <4>5, <4>6 DEF PathsSeen
    <3>4. /\ b \in BaseRecord /\ b.files = base.files /\ b.dirs = base.dirs /\ b.loaded = loaded /\ b.enabled
          /\ b.masked = base.masked /\ b.packages = base.packages /\ b.account = base.account /\ b.uid = base.uid
          /\ b.gid = base.gid /\ b.xdg = base.xdg /\ b.label = base.label /\ b.linger = base.linger
          /\ b.manager = base.manager
          /\ b.usermasked = base.usermasked /\ b.firewall = base.firewall /\ b.active = base.active
      BY <1>1, <3>2 DEF BaseRecord
    <3>5. BaseIsRight => b = base
      BY <1>1, <3>2, RightFields DEF BaseRecord
    <3>6. BaseIsRight => BaseIsRight'
      BY <3>1, <3>5 DEF BaseIsRight
    <3>7. (OldLayout => OldLayout') /\ (LoadedWithRules => LoadedWithRules')
      BY <3>1, <3>2, <3>3, <3>4 DEF OldLayout, LoadedWithRules
    <3>8. BaseGrows
      BY <3>1, <3>4, <3>6, <3>7 DEF BaseGrows
    <3>9. base'.enabled
      BY <3>1, <3>4
    <3> QED BY <2>1, <3>8, <3>9, LatePaths, LateServices, LaterInstallStays DEF b
  <2> QED BY <1>3, <2>1, RefusesStays DEF EnableFirewall
<1> QED BY <1>2, <1>3

-----------------------------------------------------------------------------
(* The loops of the installation.                                          *)

LEMMA CheckSteps ==
  ASSUME NEW s \in CheckStep, NEW i \in Nat, NEW legacy \in BOOLEAN
  PROVE  AccountSeen(s)' /\ PathsSeen(s, i, legacy)' /\ ServicesSeen(s)'
<1>1. /\ s \in ToMask /\ ToMask \subseteq ToGid
  BY DEF ToMask, ToPackages, ToAccount, ToUid, ToGid
<1>2. ToGid \subseteq ToXdg /\ s \notin (DirStep \cup FileStep)
  BY DEF ToDirectories, ToFiles, ToRepair, ToXdg
<1>3. ToXdg \subseteq ToStart
  BY DEF ToLink, ToLabels, ToLinger, ToManager, ToUserMask, ToFirewall, ToEnable, ToStart
<1>4. AccountSeen(s)'
  BY <1>1 DEF AccountSeen, ToPackages, ToAccount, ToUid, ToGid
<1>5. PathsSeen(s, i, legacy)'
  BY <1>1, <1>2 DEF PathsSeen, ToDirectories, ToFiles, ToRepair, ToXdg, ToLink
<1>6. ServicesSeen(s)'
  BY <1>1, <1>2 DEF ServicesSeen, ToLink, ToLabels, ToLinger, ToManager, ToUserMask, ToFirewall, ToEnable, ToStart
<1> QED BY <1>4, <1>5, <1>6

LEMMA AllPaths ==
  /\ BaseDirName = {BaseDir[1], BaseDir[2], BaseDir[3], BaseDir[4]}
  /\ FileName = {File[1], File[2], File[3], File[4]}
<1>1. 1 .. 4 = {1, 2, 3, 4}
  OBVIOUS
<1> QED BY <1>1, Loops DEF BaseDirName, FileName

LEMMA DirectoryPaths ==
  ASSUME NEW i \in 1 .. 4, NEW legacy \in BOOLEAN
  PROVE  /\ \A s, t \in DirStep : PathsSeen(s, i, legacy)' <=> PathsSeen(t, i, legacy)'
         /\ PathsSeen("dirs", i, legacy)' /\ Passed(BaseDir[i], legacy)' =>
              /\ PathsSeen("dirs", i + 1, legacy)'
              /\ i = 4 => PathsSeen("files", 1, legacy)'
<1>1. /\ \A s \in DirStep : s \in ToDirectories /\ s \in ToFiles /\ s \in ToRepair /\ s \in ToXdg /\ s \in ToLink
      /\ "files" \notin ToDirectories /\ "files" \in ToFiles /\ "files" \in ToRepair /\ "files" \in ToXdg
      /\ "files" \in ToLink
      /\ \A s \in DirStep : s \notin CheckStep /\ s \notin FileStep
      /\ "dirs" \in DirStep
  BY DEF ToMask, ToPackages, ToAccount, ToUid, ToGid, ToDirectories, ToFiles, ToRepair, ToXdg, ToLink
<1>2. \A s, t \in DirStep : PathsSeen(s, i, legacy)' <=> PathsSeen(t, i, legacy)'
  <2> HIDE DEF DirStep, FileStep, CheckStep
  <2> QED BY <1>1 DEF PathsSeen
<1>3. ASSUME PathsSeen("dirs", i, legacy)', Passed(BaseDir[i], legacy)'
      PROVE  PathsSeen("dirs", i + 1, legacy)' /\ (i = 4 => PathsSeen("files", 1, legacy)')
  <2>1. /\ base'.dirs["config"] = "legacy" => legacy
        /\ legacy => base'.dirs["config"] \in {"legacy", "half", "right"}
    BY <1>3 DEF PathsSeen
  <2>2. \A j \in 1 .. i - 1 : Passed(BaseDir[j], legacy)'
    BY <1>3 DEF PathsSeen
  <2>3. \A j \in 1 .. i : Passed(BaseDir[j], legacy)'
    BY <1>3, <2>2
  <2>4. PathsSeen("dirs", i + 1, legacy)'
    <3>1. \A j \in 1 .. (i + 1) - 1 : Passed(BaseDir[j], legacy)'
      BY <2>3
    <3> QED BY <1>1, <2>1, <3>1 DEF PathsSeen
  <2>5. i = 4 => \A d \in BaseDirName : Passed(d, legacy)'
    <3>1. i = 4 => /\ Passed(BaseDir[1], legacy)' /\ Passed(BaseDir[2], legacy)'
                   /\ Passed(BaseDir[3], legacy)' /\ Passed(BaseDir[4], legacy)'
      BY <2>3
    <3> QED BY <3>1, AllPaths
  <2>6. i = 4 => PathsSeen("files", 1, legacy)'
    <3>1. \A j \in 1 .. 1 - 1 : base'.files[File[j]] = "right"
      OBVIOUS
    <3> QED BY <1>1, <2>1, <2>5, <3>1 DEF PathsSeen
  <2> QED BY <2>4, <2>6
<1> QED BY <1>2, <1>3

LEMMA FilePaths ==
  ASSUME NEW i \in 1 .. 4, NEW legacy \in BOOLEAN
  PROVE  /\ \A s, t \in FileStep : PathsSeen(s, i, legacy)' <=> PathsSeen(t, i, legacy)'
         /\ PathsSeen("files", i, legacy)' /\ base'.files[File[i]] = "right" =>
              /\ PathsSeen("files", i + 1, legacy)'
              /\ i = 4 /\ legacy => PathsSeen("repair", i + 1, legacy)'
              /\ i = 4 /\ ~legacy => PathsSeen("xdg", i + 1, legacy)'
<1>1. /\ \A s \in FileStep : s \notin ToDirectories /\ s \in ToFiles /\ s \in ToRepair /\ s \in ToXdg /\ s \in ToLink
      /\ "repair" \notin ToDirectories /\ "repair" \notin ToFiles /\ "repair" \in ToRepair /\ "repair" \in ToXdg
      /\ "xdg" \notin ToDirectories /\ "xdg" \notin ToFiles /\ "xdg" \notin ToRepair /\ "xdg" \in ToXdg
      /\ "repair" \in ToLink /\ "xdg" \in ToLink
      /\ \A s \in FileStep : s \notin CheckStep /\ s \notin DirStep
      /\ "files" \in FileStep
  BY DEF ToMask, ToPackages, ToAccount, ToUid, ToGid, ToDirectories, ToFiles, ToRepair, ToXdg, ToLink
<1>2. \A s, t \in FileStep : PathsSeen(s, i, legacy)' <=> PathsSeen(t, i, legacy)'
  <2> HIDE DEF DirStep, FileStep, CheckStep
  <2> QED BY <1>1 DEF PathsSeen
<1>3. ASSUME PathsSeen("files", i, legacy)', base'.files[File[i]] = "right"
      PROVE  /\ PathsSeen("files", i + 1, legacy)'
             /\ i = 4 /\ legacy => PathsSeen("repair", i + 1, legacy)'
             /\ i = 4 /\ ~legacy => PathsSeen("xdg", i + 1, legacy)'
  <2>1. /\ base'.dirs["config"] = "legacy" => legacy
        /\ legacy => base'.dirs["config"] \in {"legacy", "half", "right"}
        /\ \A d \in BaseDirName : Passed(d, legacy)'
    BY <1>1, <1>3 DEF PathsSeen
  <2>2. \A j \in 1 .. i - 1 : base'.files[File[j]] = "right"
    BY <1>3 DEF PathsSeen
  <2>3. \A j \in 1 .. i : base'.files[File[j]] = "right"
    BY <1>3, <2>2
  <2>4. PathsSeen("files", i + 1, legacy)'
    <3>1. \A j \in 1 .. (i + 1) - 1 : base'.files[File[j]] = "right"
      BY <2>3
    <3> QED BY <1>1, <2>1, <3>1 DEF PathsSeen
  <2>5. i = 4 => \A f \in FileName : base'.files[f] = "right"
    <3>1. i = 4 => /\ base'.files[File[1]] = "right" /\ base'.files[File[2]] = "right"
                   /\ base'.files[File[3]] = "right" /\ base'.files[File[4]] = "right"
      BY <2>3
    <3> QED BY <3>1, AllPaths
  <2>6. i = 4 /\ legacy => PathsSeen("repair", i + 1, legacy)'
    BY <1>1, <2>1, <2>5 DEF PathsSeen
  <2>7. i = 4 /\ ~legacy => PathsSeen("xdg", i + 1, legacy)'
    BY <1>1, <2>1, <2>5 DEF PathsSeen
  <2> QED BY <2>4, <2>6, <2>7
<1> QED BY <1>2, <1>3

LEMMA Installing ==
  ASSUME IInv, JInv, NEW p \in Proc, pc[p] \in CheckStep \cup WorkStep
  PROVE  /\ Types /\ base \in BaseRecord /\ p \in Running /\ Placed(p) /\ job[p] \in JobRecord
         /\ AccountSeen(pc[p]) /\ PathsSeen(pc[p], job[p].i, job[p].legacy) /\ ServicesSeen(pc[p])
<1>1. p \in Running
  BY DEF Running
<1>2. Types /\ base \in BaseRecord /\ Placed(p) /\ job[p] \in JobRecord /\ Stage(p)
  BY <1>1 DEF IInv, JInv, Each, Types
<1>3. job[p].cmd \in Command /\ OfItsKind(p)
  BY <1>2 DEF JobRecord, Stage
<1>4. job[p].cmd = "install"
  BY <1>3, CommandAt
<1> QED BY <1>1, <1>2, <1>4 DEF Stage, SeenTo

LEMMA InspectHostStays == ASSUME IInv, JInv, NEW p \in Proc, InspectHost(p) PROVE JInv'
<1>1. pc[p] = "platform" /\ UNCHANGED <<off, stateVars, base, job>>
  BY DEF InspectHost, Read, Step
<1>2. p \in Running /\ job[p] \in JobRecord /\ BaseGrows
  BY <1>1, Installing, SameBaseGrows
<1>3. job' = [job EXCEPT ![p] = job[p]] /\ job[p].i \in Nat /\ job[p].legacy \in BOOLEAN
  BY <1>1, <1>2 DEF IInv, Types, JobRecord
<1>4. CASE pc' = [pc EXCEPT ![p] = "refused"]
  BY <1>1, <1>2, <1>3, <1>4, StageStays
<1>5. CASE pc' = [pc EXCEPT ![p] = "detect"]
  <2>1. PICK j \in JobRecord : j = job[p]
    BY <1>2
  <2>2. AccountSeen("detect")' /\ PathsSeen("detect", j.i, j.legacy)' /\ ServicesSeen("detect")'
    <3>1. j.i \in Nat /\ j.legacy \in BOOLEAN
      BY <1>3, <2>1
    <3> QED BY <3>1, CheckSteps
  <2> QED BY <1>1, <1>2, <1>3, <1>5, <2>1, <2>2, InstallationStays
<1> QED BY <1>4, <1>5 DEF InspectHost, Read, Goto

LEMMA DetectStays == ASSUME IInv, JInv, NEW p \in Proc, Detect(p) PROVE JInv'
<1>1. pc[p] = "detect" /\ UNCHANGED <<off, stateVars, base>>
  BY DEF Detect, Read, Step
<1>2. p \in Running /\ job[p] \in JobRecord /\ BaseGrows /\ Types
  BY <1>1, Installing, SameBaseGrows
<1>3. PICK j \in JobRecord : /\ job' = [job EXCEPT ![p] = j] /\ j.legacy = Legacy
                             /\ j.cmd = job[p].cmd /\ j.doc = job[p].doc /\ j.found = job[p].found
  <2> DEFINE j == [job[p] EXCEPT !.legacy = Legacy]
  <2>1. j \in JobRecord /\ j.legacy = Legacy /\ j.cmd = job[p].cmd /\ j.doc = job[p].doc /\ j.found = job[p].found
    BY <1>2 DEF JobRecord, Legacy
  <2>2. job' = [job EXCEPT ![p] = j]
    BY <1>2 DEF Detect, Types
  <2> QED BY <2>1, <2>2
<1>4. CASE pc' = [pc EXCEPT ![p] = "refused"]
  BY <1>1, <1>2, <1>3, <1>4, StageStays
<1>5. CASE pc' = [pc EXCEPT ![p] = "mask"]
  <2>1. AccountSeen("mask")' /\ ServicesSeen("mask")'
    <3>1. "mask" \in EarlyStep
      BY DEF EarlyStep
    <3>2. AccountSeen("mask")'
      BY DEF AccountSeen, ToMask, ToPackages, ToAccount, ToUid, ToGid
    <3> QED BY <3>1, <3>2, EarlySteps
  <2>2. PathsSeen("mask", j.i, j.legacy)'
    <3>1. j.i \in Nat /\ j.legacy \in BOOLEAN /\ (j.legacy <=> base'.dirs["config"] = "legacy")
      BY <1>1, <1>3 DEF JobRecord, Legacy
    <3>2. "mask" \in EarlyStep
      BY DEF EarlyStep
    <3>3. /\ base'.dirs["config"] = "legacy" => j.legacy
          /\ j.legacy => base'.dirs["config"] \in {"legacy", "half", "right"}
      BY <3>1
    <3> QED BY <3>1, <3>2, <3>3, EarlyPaths
  <2>3. "mask" \in CheckStep \cup WorkStep \cup {"verify host"} /\ pc[p] \in CheckStep \cup WorkStep
    BY <1>1
  <2> QED BY <1>1, <1>2, <1>3, <1>5, <2>1, <2>2, <2>3, InstallationStays
<1> QED BY <1>4, <1>5 DEF Detect, Read, Goto

LEMMA AddSubgidStays == ASSUME IInv, JInv, NEW p \in Proc, AddSubgid(p) PROVE JInv'
<1>1. pc[p] = "gid" /\ UNCHANGED <<off, stateVars>>
  BY DEF AddSubgid, Step
<1>2. /\ p \in Running /\ job[p] \in JobRecord /\ Types /\ base \in BaseRecord
      /\ AccountSeen("gid") /\ PathsSeen("gid", job[p].i, job[p].legacy)
  BY <1>1, Installing
<1>3. CASE Goto(p, "refused") /\ UNCHANGED <<job, base>>
  <2>1. job' = [job EXCEPT ![p] = job[p]] /\ pc' = [pc EXCEPT ![p] = "refused"] /\ BaseGrows
    BY <1>2, <1>3, SameBaseGrows DEF Goto, Types
  <2> QED BY <1>1, <2>1, StageStays
<1>4. CASE /\ Goto(p, "dirs") /\ base' = [base EXCEPT !.gid = TRUE]
           /\ job' = [job EXCEPT ![p].changed = @ \/ ~base.gid, ![p].counted = FALSE, ![p].i = 1]
  <2> DEFINE b == [base EXCEPT !.gid = TRUE]
             changed == job[p].changed \/ ~base.gid
             r == [job[p] EXCEPT !.changed = changed, !.counted = FALSE, !.i = 1]
  <2>1. b \in BaseRecord /\ (BaseIsRight => b = base) /\ base' = b
    BY <1>2, <1>4, RightFields DEF BaseRecord
  <2>2. BaseGrows
    BY <1>2, <2>1, FieldsGrow DEF BaseRecord
  <2>3. base'.gid
    BY <1>2, <2>1 DEF BaseRecord
  <2>4. job' = [job EXCEPT ![p] = r] /\ pc' = [pc EXCEPT ![p] = "dirs"]
    BY <1>2, <1>4 DEF Goto, Types
  <2>5. changed \in BOOLEAN
    BY <1>2 DEF JobRecord
  <2> HIDE DEF changed, b
  <2>6. r \in JobRecord /\ r.legacy = job[p].legacy /\ r.i = 1 /\ r.cmd = job[p].cmd /\ r.doc = job[p].doc /\ r.found = job[p].found
    BY <1>2, <2>5 DEF JobRecord
  <2>7. PICK j \in JobRecord : j = r
    BY <2>6
  <2> HIDE DEF r
  <2>8. AccountSeen("dirs")'
    <3>1. AccountSeen("gid")'
      BY <1>2, <2>2, SeenGrows
    <3> QED BY <2>3, <3>1 DEF AccountSeen, ToMask, ToPackages, ToAccount, ToUid, ToGid
  <2>9. ServicesSeen("dirs")'
    BY LateServices
  <2>10. PathsSeen("dirs", j.i, j.legacy)'
    <3>1. PICK i \in Nat, legacy \in BOOLEAN : i = job[p].i /\ legacy = job[p].legacy
      BY <1>2 DEF JobRecord
    <3>2. PathsSeen("gid", i, legacy)
      BY <1>2, <3>1
    <3>3. /\ base.dirs["config"] = "legacy" => legacy
          /\ legacy => base.dirs["config"] \in {"legacy", "half", "right"}
      BY <3>2 DEF PathsSeen
    <3>4. /\ base'.dirs["config"] = "legacy" => legacy
          /\ legacy => base'.dirs["config"] \in {"legacy", "half", "right"}
      <4>1. "config" \in BaseDirName
        BY DEF BaseDirName, BaseDir
      <4> QED BY <2>2, <3>3, <4>1 DEF BaseGrows
    <3>5. /\ "dirs" \in ToDirectories /\ "dirs" \in ToFiles /\ "dirs" \in ToRepair /\ "dirs" \in ToXdg
          /\ "dirs" \in ToLink
      BY DEF ToMask, ToPackages, ToAccount, ToUid, ToGid, ToDirectories, ToFiles, ToRepair, ToXdg, ToLink
    <3>6. PathsSeen("dirs", 1, legacy)'
      <4>1. \A k \in 1 .. 1 - 1 : Passed(BaseDir[k], legacy)'
        OBVIOUS
      <4> QED BY <3>4, <3>5, <4>1 DEF PathsSeen
    <3> QED BY <2>6, <2>7, <3>1, <3>6
  <2>11. "dirs" \in CheckStep \cup WorkStep \cup {"verify host"} /\ pc[p] \in CheckStep \cup WorkStep
    BY <1>1
  <2> QED BY <1>1, <1>2, <2>2, <2>4, <2>6, <2>7, <2>8, <2>9, <2>10, <2>11, InstallationStays
<1> QED BY <1>3, <1>4 DEF AddSubgid

LEMMA FourRounds == \A n \in 1 .. 4 : n \in Nat /\ n - 1 <= 4 /\ n + 1 \in Nat /\ (n < 4 \/ n = 4)
OBVIOUS

LEMMA DropIn == "user drop-in" \in FileName
<1>1. File[2] = "user drop-in" /\ 2 \in DOMAIN File
  BY Loops DEF File
<1> QED BY <1>1 DEF FileName

\* One directory done: on to the next one, or to the files.
LEMMA DirectoryDone ==
  ASSUME IInv, JInv, NEW p \in Proc, pc[p] \in DirStep, NEW n \in 1 .. 4, n = job[p].i,
         NEW legacy \in BOOLEAN, legacy = job[p].legacy,
         NEW j \in JobRecord, j.i = IF n = 4 THEN 1 ELSE n + 1, j.legacy = legacy,
         j.cmd = job[p].cmd, j.doc = job[p].doc, j.found = job[p].found,
         BaseGrows, UNCHANGED <<off, stateVars>>,
         job' = [job EXCEPT ![p] = j], pc' = [pc EXCEPT ![p] = IF n = 4 THEN "files" ELSE "dirs"],
         Passed(BaseDir[n], legacy)'
  PROVE  JInv'
<1>1. p \in Running /\ AccountSeen(pc[p]) /\ PathsSeen(pc[p], n, legacy)
  BY Installing
<1>2. n \in Nat /\ n - 1 <= 4
  BY FourRounds
<1>3. PathsSeen("dirs", n, legacy)'
  <2>1. PICK s \in DirStep : s = pc[p]
    OBVIOUS
  <2>2. PathsSeen(s, n, legacy)
    BY <1>1, <2>1
  <2>3. PathsSeen(s, n, legacy)'
    BY <1>2, <2>2, SeenGrows
  <2> QED BY <2>3, DirectoryPaths
<1>4. PathsSeen("dirs", n + 1, legacy)' /\ (n = 4 => PathsSeen("files", 1, legacy)')
  BY <1>3, DirectoryPaths
<1>5. AccountSeen("dirs")' /\ AccountSeen("files")'
  <2>1. PICK s \in DirStep : s = pc[p]
    OBVIOUS
  <2>2. AccountSeen(s)'
    BY <1>1, <2>1, SeenGrows
  <2>3. s \in WorkStep \ EarlyStep /\ "dirs" \in WorkStep \ EarlyStep /\ "files" \in WorkStep \ EarlyStep
    BY DEF EarlyStep
  <2> HIDE DEF WorkStep, DirStep
  <2> QED BY <2>2, <2>3, LaterSteps
<1>6. PICK l \in {"dirs", "files"} : l = IF n = 4 THEN "files" ELSE "dirs"
  OBVIOUS
<1>7. PathsSeen(l, j.i, j.legacy)'
  <2>1. CASE n = 4
    BY <1>4, <1>6, <2>1
  <2>2. CASE n # 4
    BY <1>4, <1>6, <2>2
  <2> QED BY <2>1, <2>2
<1>8. AccountSeen(l)' /\ ServicesSeen(l)'
  BY <1>5, LateServices
<1>9. l \in CheckStep \cup WorkStep \cup {"verify host"} /\ pc[p] \in CheckStep \cup WorkStep /\ pc' = [pc EXCEPT ![p] = l]
  BY <1>6
<1> QED BY <1>1, <1>7, <1>8, <1>9, InstallationStays

\* A step within one round of a loop.
LEMMA LoopStays ==
  ASSUME IInv, JInv, NEW p \in Proc, NEW S \in {DirStep, FileStep}, pc[p] \in S, NEW l \in S,
         NEW j \in JobRecord, j.i = job[p].i, j.legacy = job[p].legacy,
         j.cmd = job[p].cmd, j.doc = job[p].doc, j.found = job[p].found,
         BaseGrows, UNCHANGED <<off, stateVars>>,
         job' = [job EXCEPT ![p] = j], pc' = [pc EXCEPT ![p] = l]
  PROVE  JInv'
<1>1. S \subseteq WorkStep \ EarlyStep /\ S \subseteq WorkStep
  BY DEF EarlyStep
<1>2. p \in Running /\ AccountSeen(pc[p]) /\ PathsSeen(pc[p], job[p].i, job[p].legacy) /\ Placed(p)
  BY <1>1, Installing
<1>3. PICK n \in 1 .. 4, legacy \in BOOLEAN, s \in S : n = j.i /\ legacy = j.legacy /\ s = pc[p]
  <2>1. job[p].i \in 1 .. 4
    BY <1>2, Loops DEF Placed
  <2>2. j.legacy \in BOOLEAN
    BY DEF JobRecord
  <2> QED BY <2>1, <2>2
<1>4. n \in Nat /\ n - 1 <= 4
  BY FourRounds
<1>5. AccountSeen(s)' /\ PathsSeen(s, n, legacy)'
  BY <1>2, <1>3, <1>4, SeenGrows
<1>6. AccountSeen(l)'
  <2>1. s \in WorkStep \ EarlyStep /\ l \in WorkStep \ EarlyStep
    BY <1>1
  <2> HIDE DEF WorkStep, DirStep, FileStep
  <2> QED BY <1>5, <2>1, LaterSteps
<1>7. PathsSeen(l, n, legacy)'
  <2> HIDE DEF WorkStep, DirStep, FileStep
  <2>1. CASE S = DirStep
    BY <1>5, <2>1, DirectoryPaths
  <2>2. CASE S = FileStep
    BY <1>5, <2>2, FilePaths
  <2> QED BY <2>1, <2>2
<1>8. ServicesSeen(l)'
  <2>1. \A k \in DirStep \cup FileStep : ServicesSeen(k)'
    BY LateServices
  <2> HIDE DEF DirStep, FileStep
  <2>2. l \in DirStep \cup FileStep
    OBVIOUS
  <2> QED BY <2>1, <2>2
<1>9. l \in CheckStep \cup WorkStep \cup {"verify host"} /\ pc[p] \in CheckStep \cup WorkStep
  BY <1>1
<1> QED BY <1>2, <1>3, <1>6, <1>7, <1>8, <1>9, InstallationStays

\* The place of an installation in the loop over the directories.
LEMMA AtDirectory ==
  ASSUME IInv, JInv, NEW p \in Proc, pc[p] \in DirStep
  PROVE  /\ job[p].i \in 1 .. 4 /\ job[p].legacy \in BOOLEAN /\ BaseDir[job[p].i] \in BaseDirName
         /\ job[p] \in JobRecord /\ Types /\ base \in BaseRecord
         /\ AfterDirectory(p) = IF job[p].i = 4 THEN "files" ELSE "dirs"
         /\ JobAfterDirectory(p) = [job EXCEPT ![p] = [job[p] EXCEPT !.i = IF job[p].i = 4 THEN 1 ELSE job[p].i + 1]]
         /\ PathsSeen(pc[p], job[p].i, job[p].legacy)
<1>1. /\ job[p] \in JobRecord /\ job[p].i \in 1 .. 4 /\ Types /\ base \in BaseRecord
      /\ PathsSeen(pc[p], job[p].i, job[p].legacy)
  BY Installing, Loops DEF Placed
<1>2. BaseDir[job[p].i] \in BaseDirName
  BY <1>1, Loops, NextDirectory
<1>3. AfterDirectory(p) = IF job[p].i = 4 THEN "files" ELSE "dirs"
  BY Loops DEF AfterDirectory
<1>4. JobAfterDirectory(p) = [job EXCEPT ![p] = [job[p] EXCEPT !.i = IF job[p].i = 4 THEN 1 ELSE job[p].i + 1]]
  BY <1>1, Loops DEF JobAfterDirectory, Types
<1> QED BY <1>1, <1>2, <1>3, <1>4 DEF JobRecord

LEMMA CheckDirectoryStays == ASSUME IInv, JInv, NEW p \in Proc, CheckDirectory(p) PROVE JInv'
<1>1. pc[p] = "dirs" /\ UNCHANGED <<off, stateVars>> /\ base' = base
  BY DEF CheckDirectory, Step
<1>2. job[p] \in JobRecord /\ Types /\ base \in BaseRecord
  BY <1>1, AtDirectory
<1>3. PICK n \in 1 .. 4, legacy \in BOOLEAN, d \in BaseDirName :
        /\ n = job[p].i /\ legacy = job[p].legacy /\ d = BaseDir[n] /\ PathsSeen("dirs", n, legacy)
        /\ AfterDirectory(p) = (IF n = 4 THEN "files" ELSE "dirs")
        /\ JobAfterDirectory(p) = [job EXCEPT ![p] = [job[p] EXCEPT !.i = IF n = 4 THEN 1 ELSE n + 1]]
  <2>1. pc[p] \in DirStep
    BY <1>1
  <2> HIDE DEF DirStep
  <2>2. /\ job[p].i \in 1 .. 4 /\ job[p].legacy \in BOOLEAN /\ BaseDir[job[p].i] \in BaseDirName
        /\ AfterDirectory(p) = IF job[p].i = 4 THEN "files" ELSE "dirs"
        /\ JobAfterDirectory(p) = [job EXCEPT ![p] = [job[p] EXCEPT !.i = IF job[p].i = 4 THEN 1 ELSE job[p].i + 1]]
        /\ PathsSeen(pc[p], job[p].i, job[p].legacy)
    BY <2>1, AtDirectory
  <2>3. PathsSeen("dirs", job[p].i, job[p].legacy)
    BY <1>1, <2>2
  <2> QED BY <2>2, <2>3
<1> DEFINE i == IF n = 4 THEN 1 ELSE n + 1
           r == [job[p] EXCEPT !.i = i]
<1>4. BaseGrows
  BY <1>1, SameBaseGrows
<1>5. \/ /\ pc' = [pc EXCEPT ![p] = IF n = 4 THEN "files" ELSE "dirs"] /\ job' = [job EXCEPT ![p] = r]
         /\ base.dirs[d] = "right" \/ (d = "config" /\ legacy)
      \/ pc' = [pc EXCEPT ![p] = "refused"] /\ job' = [job EXCEPT ![p] = job[p]]
      \/ pc' = [pc EXCEPT ![p] = "make dir"] /\ job' = [job EXCEPT ![p] = job[p]]
  BY <1>2, <1>3 DEF CheckDirectory, Goto, Types, Directory
<1>6. CASE /\ pc' = [pc EXCEPT ![p] = IF n = 4 THEN "files" ELSE "dirs"] /\ job' = [job EXCEPT ![p] = r]
           /\ base.dirs[d] = "right" \/ (d = "config" /\ legacy)
  <2>1. i \in Nat
    OBVIOUS
  <2> HIDE DEF i
  <2>2. /\ r \in JobRecord /\ r.i = i /\ r.legacy = legacy /\ r.cmd = job[p].cmd /\ r.doc = job[p].doc
        /\ r.found = job[p].found
    BY <1>2, <1>3, <2>1 DEF JobRecord
  <2> HIDE DEF r
  <2>3. PICK j \in JobRecord : j = r
    BY <2>2
  <2>4. Passed(BaseDir[n], legacy)'
    BY <1>1, <1>3, <1>6 DEF Passed, PathsSeen
  <2> QED BY <1>1, <1>3, <1>4, <1>6, <2>2, <2>3, <2>4, DirectoryDone DEF i
<1>7. CASE pc' = [pc EXCEPT ![p] = "refused"] /\ job' = [job EXCEPT ![p] = job[p]]
  BY <1>1, <1>4, <1>7, StageStays
<1>8. CASE pc' = [pc EXCEPT ![p] = "make dir"] /\ job' = [job EXCEPT ![p] = job[p]]
  <2>1. pc[p] \in DirStep /\ "make dir" \in DirStep
    BY <1>1
  <2>2. PICK j \in JobRecord : j = job[p]
    BY <1>2
  <2> HIDE DEF DirStep, r
  <2> QED BY <1>1, <1>4, <1>8, <2>1, <2>2, LoopStays
<1> QED BY <1>5, <1>6, <1>7, <1>8

LEMMA MakeDirectoryStays == ASSUME IInv, JInv, NEW p \in Proc, MakeDirectory(p) PROVE JInv'
<1>1. CASE Refuses(p, "make dir", BaseDirExists(BaseDir[job[p].i]))
  BY <1>1, RefusesStays
<1>2. CASE ~Refuses(p, "make dir", BaseDirExists(BaseDir[job[p].i]))
  <2>1. pc[p] = "make dir" /\ UNCHANGED <<off, stateVars>>
    BY <1>2 DEF MakeDirectory, Step
  <2>2. job[p] \in JobRecord /\ Types /\ base \in BaseRecord
    BY <2>1, AtDirectory
  <2>3. PICK n \in 1 .. 4, legacy \in BOOLEAN, d \in BaseDirName :
          /\ n = job[p].i /\ legacy = job[p].legacy /\ d = BaseDir[n]
          /\ AfterDirectory(p) = (IF n = 4 THEN "files" ELSE "dirs")
          /\ JobAfterDirectory(p) = [job EXCEPT ![p] = [job[p] EXCEPT !.i = IF n = 4 THEN 1 ELSE n + 1]]
    <3>1. pc[p] \in DirStep
      BY <2>1
    <3> HIDE DEF DirStep
    <3>2. /\ job[p].i \in 1 .. 4 /\ job[p].legacy \in BOOLEAN /\ BaseDir[job[p].i] \in BaseDirName
          /\ AfterDirectory(p) = IF job[p].i = 4 THEN "files" ELSE "dirs"
          /\ JobAfterDirectory(p) = [job EXCEPT ![p] = [job[p] EXCEPT !.i = IF job[p].i = 4 THEN 1 ELSE job[p].i + 1]]
      BY <3>1, AtDirectory
    <3> QED BY <3>2
  <2> DEFINE i == IF n = 4 THEN 1 ELSE n + 1
             r == [job[p] EXCEPT !.i = IF d = "quadlets" THEN i ELSE n, !.changed = TRUE, !.counted = TRUE]
             v == IF d = "quadlets" THEN "right" ELSE "torn"
             ds == [base.dirs EXCEPT ![d] = v]
  <2>4. /\ base.dirs[d] = "absent" /\ base' = [base EXCEPT !.dirs = ds]
        /\ pc' = [pc EXCEPT ![p] = IF d = "quadlets" THEN IF n = 4 THEN "files" ELSE "dirs" ELSE "chown dir"]
        /\ job' = [job EXCEPT ![p] = r]
    <3>1. /\ base.dirs[d] = "absent" /\ base' = [base EXCEPT !.dirs[d] = IF d = "quadlets" THEN "right" ELSE "torn"]
          /\ Goto(p, IF d = "quadlets" THEN AfterDirectory(p) ELSE "chown dir")
          /\ job' = [(IF d = "quadlets" THEN JobAfterDirectory(p) ELSE job) EXCEPT ![p].changed = TRUE, ![p].counted = TRUE]
      BY <1>2, <2>3 DEF MakeDirectory, BaseDirExists
    <3>2. CASE d = "quadlets"
      <4> DEFINE x == [job[p] EXCEPT !.i = i]
      <4>1. job' = [[job EXCEPT ![p] = x] EXCEPT ![p].changed = TRUE, ![p].counted = TRUE]
        BY <2>3, <3>1, <3>2
      <4>2. r = [x EXCEPT !.changed = TRUE, !.counted = TRUE]
        BY <2>2, <3>2 DEF JobRecord
      <4> HIDE DEF x, r
      <4>3. job' = [job EXCEPT ![p] = r]
        BY <2>2, <4>1, <4>2 DEF Types
      <4> QED BY <2>3, <3>1, <3>2, <4>3 DEF Goto
    <3>3. CASE d # "quadlets"
      <4>1. job' = [job EXCEPT ![p].changed = TRUE, ![p].counted = TRUE]
        BY <3>1, <3>3
      <4>2. r = [job[p] EXCEPT !.changed = TRUE, !.counted = TRUE]
        BY <2>2, <2>3, <3>3 DEF JobRecord
      <4> HIDE DEF r
      <4>3. job' = [job EXCEPT ![p] = r]
        BY <4>1, <4>2
      <4> QED BY <3>1, <3>3, <4>3 DEF Goto
    <3> QED BY <3>2, <3>3
  <2>5. ds \in [BaseDirName -> {"absent", "legacy", "torn", "half", "right"}] /\ ds[d] = v
        /\ \A e \in BaseDirName \ {d} : ds[e] = base.dirs[e]
    BY <2>2 DEF BaseRecord
  <2>6. "config" \in BaseDirName
    BY DEF BaseDirName, BaseDir
  <2> HIDE DEF ds
  <2>7. BaseGrows /\ base'.dirs = ds
    BY <2>2, <2>4, <2>5, <2>6, DirectoriesGrow
  <2>8. /\ r \in JobRecord /\ r.i = (IF d = "quadlets" THEN i ELSE n) /\ r.legacy = legacy /\ r.cmd = job[p].cmd
        /\ r.doc = job[p].doc /\ r.found = job[p].found
    <3>1. i \in Nat /\ n \in Nat
      OBVIOUS
    <3> HIDE DEF i
    <3> QED BY <2>2, <2>3, <3>1 DEF JobRecord
  <2> HIDE DEF r
  <2>9. PICK j \in JobRecord : j = r
    BY <2>8
  <2>10. CASE d = "quadlets"
    <3>1. Passed(BaseDir[n], legacy)'
      BY <2>3, <2>5, <2>7, <2>10 DEF Passed
    <3>2. pc[p] \in DirStep
      BY <2>1
    <3>3. /\ job' = [job EXCEPT ![p] = j] /\ pc' = [pc EXCEPT ![p] = IF n = 4 THEN "files" ELSE "dirs"]
          /\ j.i = (IF n = 4 THEN 1 ELSE n + 1)
      BY <2>4, <2>8, <2>9, <2>10
    <3> HIDE DEF Ended, CheckStep, WorkStep, DirStep, FileStep, HalfStep, VerifyStep, ObserveStep, InstallStep, StateStep, MarkerStep
    <3>4. /\ j.legacy = legacy /\ j.cmd = job[p].cmd /\ j.doc = job[p].doc /\ j.found = job[p].found
          /\ n = job[p].i /\ legacy = job[p].legacy /\ BaseGrows /\ UNCHANGED <<off, stateVars>>
      BY <2>1, <2>3, <2>7, <2>8, <2>9
    <3> QED BY <3>1, <3>2, <3>3, <3>4, DirectoryDone
  <2>11. CASE d # "quadlets"
    <3>1. pc[p] \in DirStep /\ "chown dir" \in DirStep
      BY <2>1
    <3> HIDE DEF DirStep
    <3> QED BY <2>1, <2>3, <2>4, <2>7, <2>8, <2>9, <2>11, <3>1, LoopStays
  <2> QED BY <2>10, <2>11
<1> QED BY <1>1, <1>2

LEMMA ChownDirectoryStays == ASSUME IInv, JInv, NEW p \in Proc, ChownDirectory(p) PROVE JInv'
<1>1. pc[p] = "chown dir" /\ UNCHANGED <<off, stateVars>>
  BY DEF ChownDirectory, Step
<1>2. job[p] \in JobRecord /\ Types /\ base \in BaseRecord /\ job[p].i \in 1 .. 4
  BY <1>1, Installing, Loops DEF Placed
<1>3. PICK n \in 1 .. 4, legacy \in BOOLEAN, d \in BaseDirName : n = job[p].i /\ legacy = job[p].legacy /\ d = BaseDir[n]
  <2>1. BaseDir[job[p].i] \in BaseDirName
    BY <1>2, Loops, NextDirectory
  <2> QED BY <1>2, <2>1 DEF JobRecord
<1> DEFINE i == IF n = 4 THEN 1 ELSE n + 1
           r == [job[p] EXCEPT !.i = i]
           ds == [base.dirs EXCEPT ![d] = "right"]
<1>4. /\ pc' = [pc EXCEPT ![p] = IF n = 4 THEN "files" ELSE "dirs"] /\ job' = [job EXCEPT ![p] = r]
      /\ base' = [base EXCEPT !.dirs = ds]
  <2>1. /\ AfterDirectory(p) = (IF n = 4 THEN "files" ELSE "dirs")
        /\ JobAfterDirectory(p) = [job EXCEPT ![p] = [job[p] EXCEPT !.i = IF n = 4 THEN 1 ELSE n + 1]]
    BY <1>1, <1>3, AtDirectory
  <2> QED BY <1>2, <1>3, <2>1 DEF ChownDirectory, Goto, Types
<1>5. ds \in [BaseDirName -> {"absent", "legacy", "torn", "half", "right"}] /\ ds[d] = "right"
      /\ \A e \in BaseDirName \ {d} : ds[e] = base.dirs[e]
  BY <1>2 DEF BaseRecord
<1>6. "config" \in BaseDirName
  BY DEF BaseDirName, BaseDir
<1> HIDE DEF ds
<1>7. BaseGrows /\ base'.dirs = ds
  BY <1>2, <1>4, <1>5, <1>6, DirectoriesGrow
<1>8. i \in Nat
  OBVIOUS
<1> HIDE DEF i
<1>9. /\ r \in JobRecord /\ r.i = i /\ r.legacy = legacy /\ r.cmd = job[p].cmd /\ r.doc = job[p].doc
      /\ r.found = job[p].found
  BY <1>2, <1>3, <1>8 DEF JobRecord
<1> HIDE DEF r
<1>10. PICK j \in JobRecord : j = r
  BY <1>9
<1>11. Passed(BaseDir[n], legacy)'
  BY <1>3, <1>5, <1>7 DEF Passed
<1> QED BY <1>1, <1>3, <1>4, <1>7, <1>9, <1>10, <1>11, DirectoryDone DEF i

-----------------------------------------------------------------------------
(* The files.                                                              *)

\* A step that changes a file that was not there as it should be.
LEMMA FilesGrow ==
  ASSUME base \in BaseRecord, NEW f \in FileName, base.files[f] # "right", NEW v \in {"partial", "right"},
         NEW loaded \in BOOLEAN, base.loaded /\ f # "user drop-in" => loaded,
         base' = [base EXCEPT !.files[f] = v, !.loaded = loaded]
  PROVE  BaseGrows /\ base'.files[f] = v
<1>1. /\ base'.dirs = base.dirs /\ base'.packages = base.packages /\ base'.loaded = loaded
      /\ base'.account = base.account /\ base'.uid = base.uid /\ base'.gid = base.gid
      /\ base'.masked = base.masked /\ base'.usermasked = base.usermasked /\ base'.xdg = base.xdg
      /\ base'.manager = base.manager /\ base'.linger = base.linger
      /\ base'.label = base.label /\ base'.firewall = base.firewall /\ base'.enabled = base.enabled
      /\ base'.active = base.active
  BY DEF BaseRecord
<1>2. base'.files[f] = v /\ \A g \in FileName \ {f} : base'.files[g] = base.files[g]
  BY DEF BaseRecord
<1>3. ~BaseIsRight
  BY RightFields
<1>4. "user drop-in" \in FileName
  BY DropIn
<1>5. (OldLayout => OldLayout') /\ (LoadedWithRules => LoadedWithRules')
  BY <1>1, <1>2, <1>4 DEF OldLayout, LoadedWithRules
<1> QED BY <1>1, <1>2, <1>3, <1>5 DEF BaseGrows

\* One file done: on to the next one, to the repair of the old layout or past it.
LEMMA FileDone ==
  ASSUME IInv, JInv, NEW p \in Proc, pc[p] \in FileStep, NEW n \in 1 .. 4, n = job[p].i,
         NEW legacy \in BOOLEAN, legacy = job[p].legacy,
         NEW j \in JobRecord, j.i = n + 1, j.legacy = legacy,
         j.cmd = job[p].cmd, j.doc = job[p].doc, j.found = job[p].found,
         BaseGrows, UNCHANGED <<off, stateVars>>,
         job' = [job EXCEPT ![p] = j],
         pc' = [pc EXCEPT ![p] = IF n < 4 THEN "files" ELSE IF legacy THEN "repair" ELSE "xdg"],
         base'.files[File[n]] = "right"
  PROVE  JInv'
<1>1. p \in Running /\ AccountSeen(pc[p]) /\ PathsSeen(pc[p], n, legacy)
  BY Installing
<1>2. n \in Nat /\ n - 1 <= 4
  BY FourRounds
<1>3. PathsSeen("files", n, legacy)'
  <2>1. PICK s \in FileStep : s = pc[p]
    OBVIOUS
  <2>2. PathsSeen(s, n, legacy)
    BY <1>1, <2>1
  <2>3. PathsSeen(s, n, legacy)'
    BY <1>2, <2>2, SeenGrows
  <2> QED BY <2>3, FilePaths
<1>4. /\ PathsSeen("files", n + 1, legacy)'
      /\ n = 4 /\ legacy => PathsSeen("repair", n + 1, legacy)'
      /\ n = 4 /\ ~legacy => PathsSeen("xdg", n + 1, legacy)'
  BY <1>3, FilePaths
<1>5. AccountSeen("files")' /\ AccountSeen("repair")' /\ AccountSeen("xdg")'
  <2>1. PICK s \in FileStep : s = pc[p]
    OBVIOUS
  <2>2. AccountSeen(s)'
    BY <1>1, <2>1, SeenGrows
  <2>3. /\ s \in WorkStep \ EarlyStep /\ "files" \in WorkStep \ EarlyStep /\ "repair" \in WorkStep \ EarlyStep
        /\ "xdg" \in WorkStep \ EarlyStep
    BY DEF EarlyStep
  <2> HIDE DEF WorkStep, FileStep
  <2> QED BY <2>2, <2>3, LaterSteps
<1>6. PICK l \in {"files", "repair", "xdg"} : l = IF n < 4 THEN "files" ELSE IF legacy THEN "repair" ELSE "xdg"
  OBVIOUS
<1>7. PathsSeen(l, j.i, j.legacy)'
  <2>1. CASE n < 4
    BY <1>4, <1>6, <2>1
  <2>2. CASE n = 4
    BY <1>4, <1>6, <2>2
  <2> QED BY <2>1, <2>2, FourRounds
<1>8. AccountSeen(l)' /\ ServicesSeen(l)'
  BY <1>5, LateServices
<1>9. l \in CheckStep \cup WorkStep \cup {"verify host"} /\ pc[p] \in CheckStep \cup WorkStep /\ pc' = [pc EXCEPT ![p] = l]
  BY <1>6
<1> QED BY <1>1, <1>7, <1>8, <1>9, InstallationStays

\* The place of an installation in the loop over the files.
LEMMA AtFile ==
  ASSUME IInv, JInv, NEW p \in Proc, pc[p] \in FileStep
  PROVE  /\ job[p].i \in 1 .. 4 /\ job[p].legacy \in BOOLEAN /\ File[job[p].i] \in FileName
         /\ AfterFile(p) = IF job[p].i < 4 THEN "files" ELSE IF job[p].legacy THEN "repair" ELSE "xdg"
         /\ pc[p] = "write file" => base.files[File[job[p].i]] = "partial"
<1>1. job[p] \in JobRecord /\ job[p].i \in 1 .. 4 /\ (pc[p] = "write file" => base.files[File[job[p].i]] = "partial")
  BY Installing, Loops DEF Placed
<1>2. File[job[p].i] \in FileName
  BY <1>1, Loops, NextFile
<1>3. AfterFile(p) = IF job[p].i < 4 THEN "files" ELSE IF job[p].legacy THEN "repair" ELSE "xdg"
  BY Loops DEF AfterFile
<1> QED BY <1>1, <1>2, <1>3 DEF JobRecord

LEMMA CheckFileStays == ASSUME IInv, JInv, NEW p \in Proc, CheckFile(p) PROVE JInv'
<1>1. pc[p] = "files" /\ UNCHANGED <<off, stateVars>>
  BY DEF CheckFile, Step
<1>2. /\ p \in Running /\ job[p] \in JobRecord /\ Types /\ base \in BaseRecord
      /\ AccountSeen("files") /\ PathsSeen("files", job[p].i, job[p].legacy)
  BY <1>1, Installing
<1>3. PICK n \in 1 .. 4, legacy \in BOOLEAN, f \in FileName :
        /\ n = job[p].i /\ legacy = job[p].legacy /\ f = File[n]
        /\ AfterFile(p) = IF n < 4 THEN "files" ELSE IF legacy THEN "repair" ELSE "xdg"
  BY <1>1, AtFile
<1>4. \/ /\ PublicFile(f) /\ pc' = [pc EXCEPT ![p] = AfterFile(p)]
         /\ job' = [job EXCEPT ![p] = [job[p] EXCEPT !.i = job[p].i + 1]] /\ UNCHANGED base
      \/ /\ pc' = [pc EXCEPT ![p] = "refused"] /\ UNCHANGED base
         /\ job' = [job EXCEPT ![p] = [job[p] EXCEPT !.i = job[p].i + 1]]
      \/ pc' = [pc EXCEPT ![p] = "open file"] /\ UNCHANGED base /\ job' = [job EXCEPT ![p] = job[p]]
  BY <1>2, <1>3 DEF CheckFile, Goto, FileExists, Types
<1>5. CASE /\ PublicFile(f) /\ pc' = [pc EXCEPT ![p] = AfterFile(p)]
           /\ job' = [job EXCEPT ![p] = [job[p] EXCEPT !.i = job[p].i + 1]] /\ UNCHANGED base
  <2>1. PICK j \in JobRecord : j = [job[p] EXCEPT !.i = job[p].i + 1]
    <3>1. job[p].i + 1 \in Nat
      BY <1>3, FourRounds
    <3> QED BY <1>2, <3>1 DEF JobRecord
  <2>2. j.i = n + 1 /\ j.legacy = legacy /\ j.cmd = job[p].cmd /\ j.doc = job[p].doc /\ j.found = job[p].found
    BY <1>2, <1>3, <2>1 DEF JobRecord
  <2>3. base'.files[File[n]] = "right" /\ BaseGrows
    BY <1>3, <1>5, SameBaseGrows DEF PublicFile
  <2> QED BY <1>1, <1>3, <1>5, <2>1, <2>2, <2>3, FileDone
<1>6. CASE /\ pc' = [pc EXCEPT ![p] = "refused"] /\ UNCHANGED base
           /\ job' = [job EXCEPT ![p] = [job[p] EXCEPT !.i = job[p].i + 1]]
  BY <1>1, <1>6, StageStays, SameBaseGrows
<1>7. CASE pc' = [pc EXCEPT ![p] = "open file"] /\ UNCHANGED base /\ job' = [job EXCEPT ![p] = job[p]]
  <2>1. pc[p] \in FileStep /\ "open file" \in FileStep
    BY <1>1
  <2>2. PICK j \in JobRecord : j = job[p]
    BY <1>2
  <2>3. BaseGrows
    BY <1>7, SameBaseGrows
  <2> HIDE DEF FileStep
  <2> QED BY <1>1, <1>7, <2>1, <2>2, <2>3, LoopStays
<1> QED BY <1>4, <1>5, <1>6, <1>7

LEMMA OpenFileStays == ASSUME IInv, JInv, NEW p \in Proc, OpenFile(p) PROVE JInv'
<1> DEFINE f == File[job[p].i]
<1>1. CASE /\ Step(p, "open file") /\ ~FileExists(f)
           /\ Install(p, "open file", "write file", FALSE, [base EXCEPT !.files[f] = "partial"])
  <2>1. pc[p] = "open file" /\ UNCHANGED <<off, stateVars>> /\ base.files[f] = "absent"
    BY <1>1 DEF Install, Step, FileExists
  <2>2. job[p] \in JobRecord /\ Types /\ base \in BaseRecord /\ f \in FileName
    BY <2>1, Installing, AtFile
  <2> HIDE DEF f
  <2>3. /\ base' = [base EXCEPT !.files[f] = "partial", !.loaded = base.loaded] /\ base.loaded \in BOOLEAN
        /\ pc' = [pc EXCEPT ![p] = "write file"] /\ job' = [job EXCEPT ![p] = job[p]]
    BY <1>1, <2>2 DEF BaseRecord, Install, Goto, Types
  <2>4. BaseGrows
    BY <2>1, <2>2, <2>3, FilesGrow
  <2>5. pc[p] \in FileStep /\ "write file" \in FileStep
    BY <2>1
  <2>6. PICK j \in JobRecord : j = job[p]
    BY <2>2
  <2> HIDE DEF FileStep
  <2> QED BY <2>1, <2>3, <2>4, <2>5, <2>6, LoopStays
<1> HIDE DEF f
<1> QED BY <1>1, RefusesStays DEF OpenFile, f

LEMMA WriteFileStays == ASSUME IInv, JInv, NEW p \in Proc, WriteFile(p) PROVE JInv'
<1>1. pc[p] = "write file" /\ UNCHANGED <<off, stateVars>>
  BY DEF WriteFile, Step
<1>2. job[p] \in JobRecord /\ Types /\ base \in BaseRecord
  BY <1>1, Installing
<1>3. PICK n \in 1 .. 4, legacy \in BOOLEAN, f \in FileName :
        /\ n = job[p].i /\ legacy = job[p].legacy /\ f = File[n] /\ base.files[f] = "partial"
        /\ AfterFile(p) = IF n < 4 THEN "files" ELSE IF legacy THEN "repair" ELSE "xdg"
  BY <1>1, AtFile
<1>4. PICK loaded \in BOOLEAN : loaded <=> base.loaded /\ f # "user drop-in"
  OBVIOUS
<1>5. PICK j \in JobRecord : j = [job[p] EXCEPT !.i = job[p].i + 1, !.changed = TRUE, !.counted = TRUE]
  <2>1. job[p].i + 1 \in Nat
    BY <1>3, FourRounds
  <2> QED BY <1>2, <2>1 DEF JobRecord
<1>6. j.i = n + 1 /\ j.legacy = legacy /\ j.cmd = job[p].cmd /\ j.doc = job[p].doc /\ j.found = job[p].found
  BY <1>2, <1>3, <1>5 DEF JobRecord
<1>7. /\ pc' = [pc EXCEPT ![p] = AfterFile(p)] /\ job' = [job EXCEPT ![p] = j]
      /\ base' = [base EXCEPT !.files[f] = "right", !.loaded = base.loaded /\ f # "user drop-in"]
  BY <1>2, <1>3, <1>5 DEF WriteFile, Goto, Types
<1>8. base' = [base EXCEPT !.files[f] = "right", !.loaded = loaded]
  <2>1. loaded = (base.loaded /\ f # "user drop-in")
    BY <1>4
  <2> QED BY <1>7, <2>1, Zenon
<1>9. BaseGrows /\ base'.files[f] = "right"
  BY <1>2, <1>3, <1>4, <1>8, FilesGrow
<1> QED BY <1>1, <1>3, <1>6, <1>7, <1>9, FileDone
-----------------------------------------------------------------------------
(* The subordinate identities.                                             *)

LEMMA SequenceOfSet ==
  ASSUME NEW S, IsFiniteSet(S)
  PROVE  /\ SetToSeq(S) \in Seq(S)
         /\ \A x \in S : \E n \in 1 .. Len(SetToSeq(S)) : SetToSeq(S)[n] = x
<1> DEFINE m == Cardinality(S)
<1>1. m \in Nat /\ IsFiniteSet(1 .. m) /\ Cardinality(1 .. m) = m
  BY FS_CardinalityType, FS_Interval
<1>2. \E f \in [1 .. m -> S] : IsInjective(f)
  <2>1. ExistsBijection(1 .. m, S)
    BY FS_CardinalityType
  <2> QED BY <2>1 DEF ExistsBijection, Bijection, Injection
<1>3. SetToSeq(S) \in [1 .. m -> S] /\ IsInjective(SetToSeq(S))
  BY <1>2 DEF SetToSeq
<1>4. PICK f \in Injection(1 .. m, S) : f = SetToSeq(S)
  BY <1>3 DEF Injection
<1>5. f \in Surjection(1 .. m, S)
  BY <1>1, FS_Injection
<1>6. f \in Seq(S) /\ Len(f) = m
  BY <1>1, <1>3, <1>4
<1> QED BY <1>4, <1>5, <1>6 DEF Surjection

\* A range, and that none of its identities is a selected one.
IdPair == Int \X Int
Apart(r) == 4 <= r[1] \/ 2 >= r[1] + r[2]

LEMMA ThreeOfThem ==
  ASSUME NEW X, IsFiniteSet(X), NEW a \in X, NEW b \in X, NEW c \in X, a # b, a # c, b # c
  PROVE  Cardinality(X) # 2
<1>1. IsFiniteSet({a}) /\ Cardinality({a}) = 1
  BY FS_Singleton
<1>2. IsFiniteSet({a} \cup {b}) /\ Cardinality({a} \cup {b}) = 2
  <2>1. /\ IsFiniteSet({a} \cup {b})
        /\ Cardinality({a} \cup {b}) = IF b \in {a} THEN Cardinality({a}) ELSE Cardinality({a}) + 1
    BY <1>1, FS_AddElement
  <2> QED BY <1>1, <2>1
<1>3. {a} \cup {b} \subseteq X /\ {a} \cup {b} # X
  OBVIOUS
<1> QED BY <1>2, <1>3, FS_Subset

\* subids_independent(): the selected range stands in the files once, and no other
\* one and no identity in use touches it.
LEMMA IndependentRanges ==
  ASSUME NEW s \in Seq(IdPair), NEW ids, SubidsIndependent(Selected, s \o <<Selected, Selected>>, ids)
  PROVE  /\ \A n \in 1 .. Len(s) : Apart(s[n])
         /\ \A n \in ids : ~(2 <= n /\ n < 4)
<1> DEFINE w == s \o <<Selected, Selected>>
           same(r) == r[1] = 2 /\ r[1] + r[2] = 4
           X == {n \in DOMAIN w : same(w[n])}
<1>1. Selected[1] = 2 /\ Selected[1] + Selected[2] = 4 /\ Selected \in IdPair
  BY DEF Selected, IdPair
<1>2. /\ Cardinality(X) = 2
      /\ \A n \in DOMAIN w : same(w[n]) \/ 4 <= w[n][1] \/ 2 >= w[n][1] + w[n][2]
      /\ \A n \in ids : ~(2 <= n /\ n < 4)
  BY <1>1 DEF SubidsIndependent
<1>3. /\ Len(s) \in Nat /\ DOMAIN w = 1 .. Len(s) + 2
      /\ w[Len(s) + 1] = Selected /\ w[Len(s) + 2] = Selected
      /\ \A n \in 1 .. Len(s) : w[n] = s[n]
  BY <1>1
<1>4. IsFiniteSet(X)
  <2>1. IsFiniteSet(DOMAIN w)
    BY <1>3, FS_Interval
  <2> QED BY <2>1, FS_Subset
<1>5. Len(s) + 1 \in X /\ Len(s) + 2 \in X /\ Len(s) + 1 # Len(s) + 2
  BY <1>1, <1>3
<1>6. ASSUME NEW n \in 1 .. Len(s) PROVE Apart(s[n])
  <2>1. n # Len(s) + 1 /\ n # Len(s) + 2 /\ n \in DOMAIN w /\ w[n] = s[n]
    BY <1>3
  <2>2. n \notin X
    <3> HIDE DEF X
    <3> QED BY <1>2, <1>4, <1>5, <2>1, ThreeOfThem
  <2> HIDE DEF w
  <2> QED BY <1>2, <2>1, <2>2 DEF Apart
<1> QED BY <1>2, <1>6

LEMMA KnownRanges ==
  /\ \A n \in DOMAIN RangeOf : RangeOf[n] \in IdPair
  /\ \A n \in DOMAIN RangeOf :
       RangeOf[n] \in {<<0, 2>>} \cup {<<1, 2>>} \cup {<<2, 2>>} \cup {<<3, 1>>} \cup {<<3, 0>>} \cup {<<0, 6>>} \cup {<<4, 2>>}
BY DEF RangeOf, IdPair

LEMMA OthersAreFew == ASSUME NEW k PROVE IsFiniteSet(OtherRanges(k)) /\ OtherRanges(k) \subseteq IdPair
<1> DEFINE Q == {<<0, 2>>} \cup {<<1, 2>>} \cup {<<2, 2>>} \cup {<<3, 1>>}
           R == Q \cup {<<3, 0>>} \cup {<<0, 6>>} \cup {<<4, 2>>}
<1>1. IsFiniteSet({<<0, 2>>} \cup {<<1, 2>>})
  <2>1. IsFiniteSet({<<0, 2>>})
    BY FS_Singleton
  <2> QED BY <2>1, FS_AddElement
<1>2. IsFiniteSet(R)
  <2>1. IsFiniteSet({<<0, 2>>} \cup {<<1, 2>>} \cup {<<2, 2>>})
    BY <1>1, FS_AddElement
  <2>2. IsFiniteSet(Q)
    BY <2>1, FS_AddElement
  <2> HIDE DEF Q
  <2>3. IsFiniteSet(Q \cup {<<3, 0>>})
    BY <2>2, FS_AddElement
  <2>4. IsFiniteSet(Q \cup {<<3, 0>>} \cup {<<0, 6>>})
    BY <2>3, FS_AddElement
  <2> QED BY <2>4, FS_AddElement
<1>3. OtherRanges(k) \subseteq R /\ OtherRanges(k) \subseteq IdPair
  BY KnownRanges DEF OtherRanges
<1> QED BY <1>2, <1>3, FS_Subset

LEMMA ApartIdentities ==
  ASSUME NEW r \in IdPair, Apart(r)
  PROVE  Identities(r) \cap Identities(Selected) = {}
BY DEF Apart, IdPair, Identities, Selected

\* No range and no identity that the host had when a command began.
LEMMA OwnIdentitiesAre ==
  ASSUME \A r \in OtherRanges("uid") \cup OtherRanges("gid") : Apart(r),
         \A n \in EffectiveIds : ~(2 <= n /\ n < 4),
         NEW found, found \subseteq off \cup {<<"authority", "state">>}
  PROVE  OwnIdentities(found)
<1>1. ASSUME NEW k \in {"uid", "gid"}, NEW n \in DOMAIN RangeOf, <<k, n>> \in found
      PROVE  Identities(RangeOf[n]) \cap Identities(Selected) = {}
  <2>1. <<k, n>> \in off
    BY <1>1
  <2>2. RangeOf[n] \in OtherRanges(k)
    BY <2>1 DEF OtherRanges
  <2>3. Apart(RangeOf[n])
    BY <2>2
  <2> QED BY <2>3, KnownRanges, ApartIdentities
<1>2. ASSUME NEW n \in DOMAIN IdOf, <<"id", n>> \in found
      PROVE  IdOf[n] \notin Identities(Selected)
  <2>1. IdOf[n] \in EffectiveIds
    BY <1>2 DEF EffectiveIds
  <2>2. ~(2 <= IdOf[n] /\ IdOf[n] < 4)
    BY <2>1
  <2> QED BY <2>2 DEF Identities, Selected
<1> QED BY <1>1, <1>2 DEF OwnIdentities

\* subids() of both kinds
LEMMA SubidsAreOwn ==
  ASSUME ~Collides("uid"), ~Collides("gid"), NEW found, found \subseteq off \cup {<<"authority", "state">>}
  PROVE  OwnIdentities(found)
<1>1. ASSUME NEW k \in {"uid", "gid"}
      PROVE  /\ \A r \in OtherRanges(k) : Apart(r)
             /\ \A n \in EffectiveIds : ~(2 <= n /\ n < 4)
  <2>1. SubidsIndependent(Selected, SetToSeq(OtherRanges(k)) \o <<Selected, Selected>>, EffectiveIds)
    BY DEF Collides
  <2>2. /\ SetToSeq(OtherRanges(k)) \in Seq(OtherRanges(k))
        /\ \A x \in OtherRanges(k) : \E n \in 1 .. Len(SetToSeq(OtherRanges(k))) : SetToSeq(OtherRanges(k))[n] = x
    BY OthersAreFew, SequenceOfSet
  <2>3. SetToSeq(OtherRanges(k)) \in Seq(IdPair)
    BY <2>2, OthersAreFew
  <2>4. /\ \A n \in 1 .. Len(SetToSeq(OtherRanges(k))) : Apart(SetToSeq(OtherRanges(k))[n])
        /\ \A n \in EffectiveIds : ~(2 <= n /\ n < 4)
    BY <2>1, <2>3, IndependentRanges
  <2> QED BY <2>2, <2>4
<1> QED BY <1>1, OwnIdentitiesAre

\* normalize_subids() of both files taken together
LEMMA BothAreOwn ==
  ASSUME SubidsIndependent(Selected, BothRanges, EffectiveIds),
         NEW found, found \subseteq off \cup {<<"authority", "state">>}
  PROVE  OwnIdentities(found)
<1> DEFINE u == SetToSeq(OtherRanges("uid"))
           g == SetToSeq(OtherRanges("gid"))
<1>1. /\ u \in Seq(OtherRanges("uid")) /\ g \in Seq(OtherRanges("gid"))
      /\ \A x \in OtherRanges("uid") : \E n \in 1 .. Len(u) : u[n] = x
      /\ \A x \in OtherRanges("gid") : \E n \in 1 .. Len(g) : g[n] = x
  BY OthersAreFew, SequenceOfSet
<1>2. u \in Seq(IdPair) /\ g \in Seq(IdPair) /\ u \o g \in Seq(IdPair)
  BY <1>1, OthersAreFew
<1>3. SubidsIndependent(Selected, (u \o g) \o <<Selected, Selected>>, EffectiveIds)
  BY DEF BothRanges
<1> HIDE DEF u, g
<1>4. /\ \A n \in 1 .. Len(u \o g) : Apart((u \o g)[n])
      /\ \A n \in EffectiveIds : ~(2 <= n /\ n < 4)
  BY <1>2, <1>3, IndependentRanges
<1>5. ASSUME NEW n \in 1 .. Len(u) PROVE Apart(u[n])
  <2>1. n \in 1 .. Len(u \o g) /\ (u \o g)[n] = u[n]
    BY <1>2
  <2> QED BY <1>4, <2>1
<1>6. ASSUME NEW n \in 1 .. Len(g) PROVE Apart(g[n])
  <2>1. Len(u) + n \in 1 .. Len(u \o g) /\ (u \o g)[Len(u) + n] = g[n]
    BY <1>2
  <2> QED BY <1>4, <2>1
<1>7. \A r \in OtherRanges("uid") \cup OtherRanges("gid") : Apart(r)
  BY <1>1, <1>5, <1>6
<1> QED BY <1>4, <1>7, OwnIdentitiesAre
-----------------------------------------------------------------------------
(* The verification and the observation.                                   *)

LEMMA VerifySeen ==
  ASSUME NEW s \in VerifyStep \cup {"start"}, NEW t \in VerifyStep, NEW i \in Nat, NEW legacy \in BOOLEAN
  PROVE  /\ AccountSeen(s)' => AccountSeen(t)'
         /\ PathsSeen(s, i, legacy)' => PathsSeen(t, i, legacy)'
         /\ s # "start" /\ ServicesSeen(s)' => ServicesSeen(t)'
<1>1. /\ s \notin ToXdg /\ s \notin ToRepair /\ s \notin ToFiles /\ s \notin ToDirectories /\ s \notin CheckStep
      /\ s \notin ToGid /\ s \notin ToUid /\ s \notin ToAccount /\ s \notin ToPackages /\ s \notin ToMask
      /\ t \notin ToXdg /\ t \notin ToRepair /\ t \notin ToFiles /\ t \notin ToDirectories /\ t \notin CheckStep
      /\ t \notin ToGid /\ t \notin ToUid /\ t \notin ToAccount /\ t \notin ToPackages /\ t \notin ToMask
      /\ t \notin (DirStep \cup FileStep) /\ s \notin ToLink /\ t \notin ToLink
  BY DEF ToMask, ToPackages, ToAccount, ToUid, ToGid, ToDirectories, ToFiles, ToRepair, ToXdg, ToLink
<1>2. s # "start" => /\ s \notin ToStart /\ s \notin ToEnable /\ s \notin ToFirewall /\ s \notin ToUserMask
                     /\ s \notin ToManager /\ s \notin ToLinger /\ s \notin ToLabels
  BY <1>1 DEF ToLabels, ToLinger, ToManager, ToUserMask, ToFirewall, ToEnable, ToStart
<1> HIDE DEF CheckStep, VerifyStep
<1>3. AccountSeen(s)' => AccountSeen(t)'
  BY <1>1 DEF AccountSeen
<1>4. PathsSeen(s, i, legacy)' => PathsSeen(t, i, legacy)'
  BY <1>1 DEF PathsSeen
<1>5. s # "start" /\ ServicesSeen(s)' => ServicesSeen(t)'
  BY <1>2 DEF ServicesSeen
<1> QED BY <1>3, <1>4, <1>5

\* Outside of the loops their round does not matter.
LEMMA PathsGrow ==
  ASSUME BaseGrows, NEW s, s \notin (DirStep \cup FileStep), NEW i \in Nat, NEW legacy \in BOOLEAN,
         PathsSeen(s, i, legacy)
  PROVE  PathsSeen(s, i, legacy)'
<1>1. PICK n \in Nat : n - 1 <= 4
  BY SomeRound
<1>2. PathsSeen(s, n, legacy)
  BY DEF PathsSeen
<1>3. PathsSeen(s, n, legacy)'
  BY <1>1, <1>2, SeenGrows
<1> QED BY <1>3 DEF PathsSeen

LEMMA StartFirewallStays == ASSUME IInv, JInv, NEW p \in Proc, StartFirewall(p) PROVE JInv'
<1>1. pc[p] = "start" /\ UNCHANGED <<off, stateVars>>
  BY DEF StartFirewall, Step
<1>2. /\ p \in Running /\ job[p] \in JobRecord /\ Types /\ base \in BaseRecord
      /\ AccountSeen("start") /\ PathsSeen("start", job[p].i, job[p].legacy) /\ ServicesSeen("start")
  BY <1>1, Installing
<1> DEFINE b == [base EXCEPT !.active = TRUE]
           changed == job[p].changed \/ ~base.active
           r == [job[p] EXCEPT !.changed = changed, !.found = Standing]
<1>3. b \in BaseRecord /\ (BaseIsRight => b = base) /\ base' = b
  BY <1>2, RightFields DEF BaseRecord, StartFirewall
<1>4. BaseGrows
  BY <1>2, <1>3, FieldsGrow DEF BaseRecord
<1>5. base'.active
  BY <1>2, <1>3 DEF BaseRecord
<1>6. job' = [job EXCEPT ![p] = r] /\ pc' = [pc EXCEPT ![p] = "verify host"]
  BY <1>2 DEF StartFirewall, Goto, Types
<1>7. changed \in BOOLEAN /\ Standing \in SUBSET HostPoint
  BY <1>2, StandingIsKnown DEF JobRecord
<1> HIDE DEF changed, b
<1>8. /\ r \in JobRecord /\ r.legacy = job[p].legacy /\ r.i = job[p].i /\ r.cmd = job[p].cmd /\ r.doc = job[p].doc
      /\ r.found = Standing
  BY <1>2, <1>7 DEF JobRecord
<1> HIDE DEF r
<1>9. PICK j \in JobRecord, i \in Nat, legacy \in BOOLEAN : j = r /\ i = job[p].i /\ legacy = job[p].legacy
  BY <1>2, <1>8 DEF JobRecord
<1>10. AccountSeen("verify host")' /\ ServicesSeen("verify host")'
  <2>1. AccountSeen("start")' /\ ServicesSeen("start")'
    BY <1>2, <1>4, SeenGrows
  <2>2. AccountSeen("verify host")'
    BY <2>1, VerifySeen
  <2> QED BY <1>5, <2>1, <2>2, LateServices
<1>11. PathsSeen("verify host", j.i, j.legacy)'
  <2>1. PathsSeen("start", i, legacy)
    BY <1>2, <1>9
  <2>2. PathsSeen("start", i, legacy)'
    BY <1>4, <2>1, PathsGrow
  <2>3. PathsSeen("verify host", i, legacy)'
    BY <2>2, VerifySeen
  <2> QED BY <1>8, <1>9, <2>3
<1>12. "verify host" \in CheckStep \cup WorkStep \cup {"verify host"} /\ pc[p] \in CheckStep \cup WorkStep
  BY <1>1
<1> QED BY <1>1, <1>2, <1>4, <1>6, <1>8, <1>9, <1>10, <1>11, <1>12, InstallationStays

\* A verification or an observation goes on.
LEMMA VerifiesStay ==
  ASSUME IInv, JInv, NEW p \in Proc, NEW from \in VerifyStep \cup ObserveStep,
         NEW to \in VerifyStep \cup ObserveStep \cup {"ok"}, NEW ok, Verifies(p, from, to, ok),
         from \in VerifyStep => to \in VerifyStep \cup {"ok"},
         to = "ready" => job[p].cmd = "enroll",
         from \in ObserveStep => to \in {"observe rest", "ok"} /\ (to = "observe rest" => job[p].cmd = "prepare"),
         ok /\ to # "ok" => /\ to \in {"verify files", "verify runtime", "ready"} => HostLooked(job[p].found)
                            /\ to \in {"verify runtime", "ready"} => FilesLooked(job[p].found)
                            /\ to = "ready" => RuntimeLooked(job[p].found)
                            /\ to = "observe rest" => base.manager # "down" /\ job[p].found \cap FirstObservation = {}
  PROVE  JInv'
<1>1. /\ pc[p] = from /\ p \in Running /\ UNCHANGED <<off, stateVars>> /\ UNCHANGED base /\ BaseGrows
      /\ job' = [job EXCEPT ![p] = job[p]]
  BY SameBaseGrows DEF Verifies, Read, Step, Running, IInv, Types
<1>2. Types /\ job[p] \in JobRecord /\ Stage(p) /\ job[p].cmd \in Command
  BY <1>1 DEF IInv, JInv, Types, JobRecord
<1>3. CASE ~ok \/ to = "ok"
  <2>1. PICK l \in Ended : pc' = [pc EXCEPT ![p] = l]
    BY <1>3 DEF Verifies, Read, Goto
  <2> QED BY <1>1, <2>1, StageStays
<1>4. CASE ok /\ to # "ok"
  <2>1. pc' = [pc EXCEPT ![p] = to] /\ pc'[p] = to /\ job'[p] = job[p]
    BY <1>1, <1>2, <1>4 DEF Verifies, Read, Goto, Types
  <2>2. OfItsKind(p)'
    <3>1. OfItsKind(p) /\ (from \in VerifyStep => job[p].cmd \in BaseCommand)
      BY <1>1, <1>2, CommandAt DEF Stage
    <3>2. CASE from \in VerifyStep
      <4>1. to \in VerifyStep /\ (to = "ready" => job[p].cmd = "enroll")
        BY <1>4, <3>2
      <4>2. job[p].cmd \in {"install", "verify", "enroll"}
        BY <3>1, <3>2 DEF BaseCommand
      <4> QED BY <2>1, <4>1, <4>2 DEF OfItsKind
    <3>3. CASE from \in ObserveStep
      <4>1. to = "observe rest" /\ job[p].cmd = "prepare"
        BY <1>4, <3>3
      <4> QED BY <2>1, <4>1 DEF OfItsKind
    <3> QED BY <3>2, <3>3
  <2>3. Admits(p)' /\ Found(p)'
    BY <1>1, <1>2, <2>1 DEF Stage, Admits, Found, stateVars
  <2>4. SeenTo(p)'
    <3>1. CASE job[p].cmd # "install"
      BY <2>1, <3>1 DEF SeenTo
    <3>2. CASE job[p].cmd = "install"
      <4>1. from \in VerifyStep /\ to \in VerifyStep
        <5>1. from \in CheckStep \cup WorkStep \cup (VerifyStep \ {"ready"})
          BY <1>1, <1>2, <3>2 DEF Stage, OfItsKind
        <5> QED BY <1>4, <5>1
      <4>2. PICK i \in Nat, legacy \in BOOLEAN : i = job[p].i /\ legacy = job[p].legacy
        BY <1>2 DEF JobRecord
      <4>3. AccountSeen(from) /\ PathsSeen(from, i, legacy) /\ ServicesSeen(from)
        BY <1>1, <1>2, <3>2, <4>2 DEF Stage, SeenTo
      <4>4. AccountSeen(from)' /\ ServicesSeen(from)'
        BY <1>1, <4>2, <4>3, SeenGrows
      <4>5. PathsSeen(from, i, legacy)'
        BY <1>1, <4>1, <4>3, PathsGrow
      <4>6. AccountSeen(to)' /\ PathsSeen(to, i, legacy)' /\ ServicesSeen(to)'
        BY <4>1, <4>4, <4>5, VerifySeen
      <4> QED BY <2>1, <4>2, <4>6 DEF SeenTo
    <3> QED BY <3>1, <3>2
  <2>5. Looked(p)'
    <3>1. PICK found : found = job[p].found
      OBVIOUS
    <3>2. /\ to \in {"verify files", "verify runtime", "ready"} => HostLooked(found)'
          /\ to \in {"verify runtime", "ready"} => FilesLooked(found)'
          /\ to = "ready" => RuntimeLooked(found)'
          /\ to = "observe rest" => base'.manager # "down" /\ found \cap FirstObservation = {}
      BY <1>1, <1>4, <3>1, LookedGrows
    <3> QED BY <2>1, <3>1, <3>2 DEF Looked
  <2>6. Rooted(p)'
    BY <1>4, <2>1 DEF Rooted, PastRoot
  <2>7. Stage(p)'
    BY <2>2, <2>3, <2>4, <2>5, <2>6 DEF Stage
  <2> QED BY <1>1, <2>1, <2>7, StageStays
<1> QED BY <1>3, <1>4
\* What Clean() says of each point.
LEMMA CleanPoints ==
  ASSUME NEW s, NEW P, NEW h
  PROVE  Clean(s, P, h) <=> \A x \in P : <<s, x>> \notin h
BY DEF Clean

LEMMA NoPoint ==
  ASSUME NEW s, NEW P, NEW h, \A x \in P : <<s, x>> \notin h
  PROVE  h \cap ({s} \X P) = {}
OBVIOUS

\* The reads of a verification leave nothing out of what they look at.
LEMMA HostIsLookedAt ==
  ASSUME Platform, Dormant, Account, Subids
  PROVE  off \cap HostLook = {} /\ ~PrematureState /\ AccountIsThere
<1>1. /\ off \cap ({"platform"} \X PlatformFlaw) = {} /\ off \cap ({"authority"} \X AuthorityFlaw) = {}
      /\ off \cap ({"services"} \X DormantFlaw) = {} /\ ~PrematureState
  BY InspectionIsComplete
<1>2. Clean("account", {"identity", "groups", "group"}, off) /\ Clean("account", {"sudo"}, off)
  BY DEF Account, SudoAuthority
<1>3. Clean("subids", {"untrusted file", "own entry"}, off) /\ Clean("packages", {"key shape", "key packet"}, off)
  BY DEF Subids, Platform, SigningKey
<1>4. \A x \in {"identity", "groups", "group", "sudo"} : <<"account", x>> \notin off
  BY <1>2, CleanPoints
<1>5. /\ \A x \in {"untrusted file", "own entry"} : <<"subids", x>> \notin off
      /\ \A x \in {"key shape", "key packet"} : <<"packages", x>> \notin off
  BY <1>3, CleanPoints
<1>6. off \cap ({"account"} \X {"identity", "groups", "group", "sudo"}) = {}
  BY <1>4
<1>7. /\ off \cap ({"subids"} \X {"untrusted file", "own entry"}) = {}
      /\ off \cap ({"packages"} \X {"key shape", "key packet"}) = {}
  BY <1>5, NoPoint
<1>8. off \cap HostLook = {}
  BY <1>1, <1>6, <1>7 DEF HostLook
<1>9. AccountIsThere
  BY DEF Account, Subids, AccountIsThere
<1> QED BY <1>1, <1>8, <1>9

LEMMA FilesAreLookedAt ==
  ASSUME Packages, \A f \in FileName : PublicFile(f), \A d \in BaseDirName : Directory(d),
         Xdg, Units("system"), base.masked, Units("user"), base.usermasked
  PROVE  off \cap FilesLook = {} /\ FilesAreThere
<1>1. /\ Clean("packages", {"pin"}, off) /\ Clean("packages", {"key shape", "key packet"}, off)
      /\ Clean("packages", {"identity", "nevra", "header", "signature", "verification"}, off)
      /\ Clean("packages", {"repository", "architecture"}, off) /\ Clean("packages", {"podman version"}, off)
      /\ Clean("packages", {"postgresql series"}, off)
      /\ Clean("packages", {"haproxy identity", "haproxy binary", "haproxy features"}, off)
  BY DEF Packages, Pinned, NativePackages, PackageHeader, SigningKey, AdmitPackage, PodmanVersion, PostgresqlPackage,
         HaproxyPackage
<1>2. \A x \in {"pin", "key shape", "key packet", "identity", "nevra", "header", "signature", "verification",
                   "repository", "architecture", "podman version", "postgresql series", "haproxy identity",
                   "haproxy binary", "haproxy features"} : <<"packages", x>> \notin off
  BY <1>1, CleanPoints
<1>3. off \cap ({"packages"} \X {"pin", "key shape", "key packet", "identity", "nevra", "header", "signature", "verification",
                   "repository", "architecture", "podman version", "postgresql series", "haproxy identity",
                   "haproxy binary", "haproxy features"}) = {}
  BY <1>2, NoPoint
<1>4. off \cap ({"file"} \X FileName) = {} /\ off \cap ({"dir"} \X BaseDirName) = {}
  BY DEF PublicFile, Directory
<1>5. /\ off \cap ({"xdg"} \X {"link", "directory"}) = {}
      /\ off \cap ({"system", "user"} \X {"unit active", "unit enabled"}) = {}
  <2>1. Clean("xdg", {"link", "directory"}, off)
    BY DEF Xdg
  <2>2. Clean("system", {"unit active", "unit enabled"}, off) /\ Clean("user", {"unit active", "unit enabled"}, off)
    BY DEF Units
  <2>3. off \cap ({"xdg"} \X {"link", "directory"}) = {}
    BY <2>1 DEF Clean
  <2>4. off \cap ({"system", "user"} \X {"unit active", "unit enabled"}) = {}
    BY <2>2 DEF Clean
  <2> QED BY <2>3, <2>4
<1>6. off \cap FilesLook = {}
  BY <1>3, <1>4, <1>5 DEF FilesLook
<1>7. FilesAreThere
  BY DEF FilesAreThere, Packages, Xdg, PublicFile, Directory
<1> QED BY <1>6, <1>7

LEMMA RuntimeIsLookedAt ==
  ASSUME base \in BaseRecord, LoadedWithRules, AccountIsThere, FilesAreThere,
         Labels, Runtime, base.linger, base.enabled, base.active, base.firewall,
         Clean("firewall", {"service state", "preview"}, off)
  PROVE  off \cap RuntimeLook = {} /\ BaseIsRight
<1>1. /\ Clean("runtime", {"search path", "graphroot", "container"}, off) /\ Clean("runtime", {"podman info"}, off)
      /\ Clean("runtime", {"rootful"}, off) /\ Clean("runtime", {"oci runtime", "network backend", "seccomp"}, off)
      /\ Clean("runtime", {"api socket"}, off) /\ Clean("runtime", {"remote service"}, off)
  BY DEF Runtime, PodmanShape, AdmitRuntime, RuntimeRootless, RuntimeEngine, RuntimeSockets, RuntimeLocality
<1>2. \A x \in {"search path", "graphroot", "container", "podman info", "rootful", "oci runtime",
                         "network backend", "seccomp", "api socket", "remote service"} : <<"runtime", x>> \notin off
  BY <1>1, CleanPoints
<1>3. off \cap ({"runtime"} \X {"search path", "graphroot", "container", "podman info", "rootful", "oci runtime",
                         "network backend", "seccomp", "api socket", "remote service"}) = {}
  BY <1>2, NoPoint
<1>4. off \cap ({"labels"} \X {"foreign rule", "drift"}) = {} /\ off \cap ({"firewall"} \X {"service state", "preview"}) = {}
  <2>1. Clean("labels", {"foreign rule", "drift"}, off)
    BY DEF Labels
  <2> QED BY <2>1 DEF Clean
<1>5. off \cap RuntimeLook = {}
  BY <1>3, <1>4 DEF RuntimeLook
<1>6. base.files = [f \in FileName |-> "right"] /\ base.dirs = [d \in BaseDirName |-> "right"]
  BY DEF BaseRecord, FilesAreThere
<1>7. /\ base.packages = 2 /\ base.account = "right" /\ base.label = "right" /\ base.manager = "right"
      /\ base.uid = TRUE /\ base.gid = TRUE /\ base.masked = TRUE /\ base.usermasked = TRUE /\ base.xdg = TRUE
      /\ base.loaded = TRUE /\ base.linger = TRUE /\ base.firewall = TRUE /\ base.enabled = TRUE /\ base.active = TRUE
  BY DEF BaseRecord, AccountIsThere, FilesAreThere, Labels, Runtime, LoadedWithRules
<1>8. BaseIsRight
  BY <1>6, <1>7 DEF BaseRecord, BaseIsRight
<1> QED BY <1>5, <1>8

LEMMA FirstIsObserved ==
  ASSUME FirstReads(off, base)
  PROVE  base.account = "right" /\ base.manager # "down" /\ off \cap FirstObservation = {}
<1>1. /\ Clean("observation", {"failed", "too large", "not decoded"}, off)
      /\ Clean("platform", {"automatic update"}, off) /\ Clean("preparation", {"dnf", "releasever"}, off)
      /\ Clean("platform", {"selinux mode", "selinux policy"}, off) /\ Clean("preparation", {"labels disabled"}, off)
      /\ Clean("platform", {"repository repeated", "repository foreign"}, off) /\ Clean("platform", {"cgroup"}, off)
      /\ Clean("preparation", {"digests", "digest repeated"}, off) /\ Clean("preparation", {"other fixture", "no fixture"}, off)
  BY DEF FirstReads, Observed, Updates, Selinux, Repositories, FixtureDigests, FixtureIdentity
<1>2. /\ Clean("runtime", {"podman info"}, off)
      /\ Clean("runtime", {"rootful"}, off) /\ Clean("runtime", {"oci runtime", "network backend", "seccomp"}, off)
      /\ Clean("runtime", {"api socket"}, off) /\ Clean("runtime", {"remote service"}, off)
      /\ Clean("packages", {"podman version"}, off)
  BY DEF FirstReads, PodmanShape, AdmitRuntime, RuntimeRootless, RuntimeEngine, RuntimeSockets, RuntimeLocality,
         PodmanVersion
<1>3. /\ \A x \in {"failed", "too large", "not decoded"} : <<"observation", x>> \notin off
      /\ \A x \in {"dnf", "releasever", "labels disabled", "digests", "digest repeated", "other fixture", "no fixture"} :
           <<"preparation", x>> \notin off
      /\ \A x \in {"automatic update", "selinux mode", "selinux policy", "repository repeated", "repository foreign",
                   "cgroup"} : <<"platform", x>> \notin off
  BY <1>1, CleanPoints
<1>4. /\ \A x \in {"podman info", "rootful", "oci runtime", "network backend", "seccomp", "api socket",
                         "remote service"} : <<"runtime", x>> \notin off
      /\ <<"packages", "podman version">> \notin off
  BY <1>2, CleanPoints
<1>5. off \cap FirstObservation = {}
  <2>1. off \cap ({"observation"} \X {"failed", "too large", "not decoded"}) = {}
    BY <1>3, NoPoint
  <2>2. off \cap ({"preparation"} \X {"dnf", "releasever", "labels disabled", "digests", "digest repeated", "other fixture", "no fixture"}) = {}
    BY <1>3, NoPoint
  <2>3. off \cap ({"platform"} \X {"automatic update", "selinux mode", "selinux policy", "repository repeated",
                          "repository foreign", "cgroup"}) = {}
    BY <1>3, NoPoint
  <2>4. off \cap ({"runtime"} \X {"podman info", "rootful", "oci runtime", "network backend", "seccomp", "api socket",
                         "remote service"}) = {}
    BY <1>4, NoPoint
  <2> QED BY <1>4, <2>1, <2>2, <2>3, <2>4, Zenon DEF FirstObservation
<1>6. base.account = "right" /\ base.manager # "down"
  BY DEF FirstReads, AdmitRuntime
<1> QED BY <1>5, <1>6

\* What a command knows of the deviations it found.
LEMMA FoundIsThere ==
  ASSUME JInv, NEW p \in Running
  PROVE  /\ job[p].found \subseteq off \cup {<<"authority", "state">>}
         /\ ~PrematureState => <<"authority", "state">> \notin job[p].found
BY DEF JInv, Stage, Found, PrematureState

LEMMA NotFound ==
  ASSUME NEW look, NEW found, found \subseteq off \cup {<<"authority", "state">>}, off \cap look = {},
         <<"authority", "state">> \notin look
  PROVE  found \cap look = {}
OBVIOUS

\* The production state is none of the deviations that a verification looks at.
LEMMA LooksAreOfTheHost ==
  /\ <<"authority", "state">> \notin HostLook /\ <<"authority", "state">> \notin FilesLook
  /\ <<"authority", "state">> \notin RuntimeLook /\ <<"authority", "state">> \notin FirstObservation
<1>1. <<"authority", "state">> \notin HostLook
  BY DEF HostLook, AuthorityFlaw
<1>2. <<"authority", "state">> \notin FilesLook
  BY DEF FilesLook
<1>3. <<"authority", "state">> \notin RuntimeLook
  BY DEF RuntimeLook
<1>4. <<"authority", "state">> \notin FirstObservation
  BY DEF FirstObservation
<1> QED BY <1>1, <1>2, <1>3, <1>4

LEMMA HostLooks ==
  ASSUME JInv, NEW p \in Running, Platform, Dormant, Account, Subids
  PROVE  HostLooked(job[p].found)
<1>1. PICK found : found = job[p].found
  OBVIOUS
<1>2. found \subseteq off \cup {<<"authority", "state">>} /\ <<"authority", "state">> \notin found
  BY <1>1, FoundIsThere, HostIsLookedAt
<1>3. found \cap HostLook = {}
  BY <1>2, HostIsLookedAt, LooksAreOfTheHost, NotFound
<1>4. OwnIdentities(found)
  BY <1>2, SubidsAreOwn DEF Subids
<1> QED BY <1>1, <1>2, <1>3, <1>4, HostIsLookedAt DEF HostLooked
LEMMA VerificationStays ==
  ASSUME IInv, JInv, NEW p \in Proc, VerifyHost(p) \/ VerifyFiles(p) \/ VerifyRuntime(p) \/ Ready(p)
  PROVE  JInv'
<1>1. CASE VerifyHost(p)
  <2>1. Verifies(p, "verify host", "verify files", Platform /\ Dormant /\ Account /\ Subids)
    BY <1>1 DEF VerifyHost
  <2>2. p \in Running
    BY <2>1 DEF Verifies, Read, Step, Running
  <2>3. Platform /\ Dormant /\ Account /\ Subids => HostLooked(job[p].found)
    BY <2>2, HostLooks
  <2> QED BY <2>1, <2>3, VerifiesStay
<1>2. CASE VerifyFiles(p)
  <2> DEFINE ok == /\ Packages /\ (\A f \in FileName : PublicFile(f)) /\ (\A d \in BaseDirName : Directory(d))
                   /\ Xdg /\ Units("system") /\ base.masked /\ Units("user") /\ base.usermasked
  <2>1. Verifies(p, "verify files", "verify runtime", ok)
    BY <1>2 DEF VerifyFiles
  <2>2. p \in Running /\ Stage(p) /\ pc[p] = "verify files"
    BY <2>1 DEF Verifies, Read, Step, Running, JInv
  <2>3. ok => FilesLooked(job[p].found)
    <3>1. HostLooked(job[p].found)
      BY <2>2 DEF Stage, Looked
    <3>2. job[p].found \subseteq off \cup {<<"authority", "state">>}
      BY <2>2, FoundIsThere
    <3>3. ok => off \cap FilesLook = {} /\ FilesAreThere
      BY FilesAreLookedAt
    <3>4. ok => job[p].found \cap FilesLook = {}
      BY <3>2, <3>3, LooksAreOfTheHost, NotFound
    <3> QED BY <3>3, <3>4 DEF FilesLooked
  <2>4. HostLooked(job[p].found)
    BY <2>2 DEF Stage, Looked
  <2> HIDE DEF ok
  <2> QED BY <2>1, <2>3, <2>4, VerifiesStay
<1>3. CASE VerifyRuntime(p)
  <2> DEFINE ok == /\ Labels /\ Runtime /\ base.linger /\ base.enabled /\ base.active /\ base.firewall
                   /\ Clean("firewall", {"service state", "preview"}, off)
  <2>1. PICK to \in {"ready", "ok"} :
          Verifies(p, "verify runtime", to, ok) /\ (to = "ready" => job[p].cmd = "enroll")
    BY <1>3 DEF VerifyRuntime
  <2>2. p \in Running /\ Stage(p) /\ pc[p] = "verify runtime" /\ LoadedWithRules /\ base \in BaseRecord
    BY <2>1 DEF Verifies, Read, Step, Running, JInv, IInv, Types
  <2>3. HostLooked(job[p].found) /\ FilesLooked(job[p].found)
    BY <2>2 DEF Stage, Looked
  <2>4. ok => RuntimeLooked(job[p].found)
    <3>1. job[p].found \subseteq off \cup {<<"authority", "state">>}
      BY <2>2, FoundIsThere
    <3>2. AccountIsThere /\ FilesAreThere
      BY <2>3 DEF HostLooked, FilesLooked
    <3>3. ok => off \cap RuntimeLook = {} /\ BaseIsRight
      BY <2>2, <3>2, RuntimeIsLookedAt
    <3>4. ok => job[p].found \cap RuntimeLook = {}
      BY <3>1, <3>3, LooksAreOfTheHost, NotFound
    <3> QED BY <3>3, <3>4 DEF RuntimeLooked
  <2> HIDE DEF ok
  <2> QED BY <2>1, <2>3, <2>4, VerifiesStay
<1>4. CASE Ready(p)
  <2>1. Verifies(p, "ready", "ok", Clean("ready", {"conformance", "artifacts"}, off))
    BY <1>4 DEF Ready
  <2> QED BY <2>1, VerifiesStay
<1> QED BY <1>1, <1>2, <1>3, <1>4

LEMMA ObservationStays ==
  ASSUME IInv, JInv, NEW p \in Proc, Observe(p) \/ ObserveRest(p) \/ ObserveNative(p)
  PROVE  JInv'
<1>1. CASE Observe(p)
  <2>1. Verifies(p, "observe", "observe rest", FirstReads(off, base))
    BY <1>1 DEF Observe
  <2>2. p \in Running /\ pc[p] = "observe" /\ Stage(p)
    BY <2>1 DEF Verifies, Read, Step, Running, JInv
  <2>3. job[p].cmd = "prepare"
    <3>1. job[p].cmd \in Command /\ OfItsKind(p) /\ p \in Proc
      BY <2>2 DEF IInv, Types, JobRecord, Stage
    <3> QED BY <2>2, <3>1, CommandAt
  <2>4. job[p].found \subseteq off \cup {<<"authority", "state">>}
    BY <2>2, FoundIsThere
  <2>5. FirstReads(off, base) => base.manager # "down" /\ job[p].found \cap FirstObservation = {}
    BY <2>4, FirstIsObserved, LooksAreOfTheHost, NotFound
  <2> QED BY <2>1, <2>3, <2>5, VerifiesStay
<1>2. CASE ObserveRest(p)
  <2>1. Verifies(p, "observe rest", "ok", LastReads(off, base, Selected, BothRanges, EffectiveIds))
    BY <1>2 DEF ObserveRest
  <2> QED BY <2>1, VerifiesStay
<1>3. CASE ObserveNative(p)
  <2>1. Verifies(p, "observe native", "ok", NativeAdmission(off, base))
    BY <1>3 DEF ObserveNative
  <2> QED BY <2>1, VerifiesStay
<1> QED BY <1>1, <1>2, <1>3

\* Every step of the installation, the verification and the preparation.
LEMMA InstallCommandStays == ASSUME IInv, JInv, NEW p \in Proc, InstallCommand(p) PROVE JInv'
BY InspectHostStays, DetectStays, AccountStays, AddSubgidStays, CheckDirectoryStays, MakeDirectoryStays,
   ChownDirectoryStays, CheckFileStays, OpenFileStays, WriteFileStays, LegacyStays, StoreStays, ManagerStays, FirewallStays, StartFirewallStays, VerificationStays,
   ObservationStays DEF InstallCommand
-----------------------------------------------------------------------------
(* The production state.                                                   *)

\* A step of a state command.
LEMMA StateStepStays ==
  ASSUME IInv, JInv, NEW p \in Proc, pc[p] \in StateStep, NEW l \in Ended \cup StateStep, NEW j \in JobRecord,
         pc' = [pc EXCEPT ![p] = l], job' = [job EXCEPT ![p] = j], UNCHANGED <<off, base>>, StateGrows,
         marker'.by # "none" \/ temp'.by # "none" => dirs'["srv"] = "right",
         j.cmd = job[p].cmd, j.doc = job[p].doc, j.found = job[p].found,
         l \notin Ended =>
           /\ l \in StateStep \ {"check", "initialize"}
           /\ job[p].cmd = "initialize" \/ (job[p].cmd = "publish" /\ l \in {"publish", "copy", "seal"})
           /\ PastRoot(l, j.i, j.cmd) => dirs'["srv"] = "right"
           /\ l \in {"create", "own"} => j.i \in DOMAIN StateDir
  PROVE  JInv'
<1>1. Types /\ p \in Running /\ Stage(p)
  BY DEF IInv, JInv, Running
<1>2. pc'[p] = l /\ job'[p] = j
  BY <1>1 DEF Types
<1>3. ASSUME l \notin Ended PROVE Stage(p)'
  <2>1. OfItsKind(p)'
    BY <1>2, <1>3 DEF OfItsKind
  <2>2. Admits(p)'
    BY <1>1, <1>2 DEF Stage, Admits
  <2>3. SeenTo(p)'
    BY <1>2, <1>3 DEF SeenTo
  <2>4. Found(p)'
    BY <1>1, <1>2 DEF Stage, Found, StateGrows
  <2>5. Looked(p)'
    BY <1>2, <1>3 DEF Looked
  <2>6. Rooted(p)'
    BY <1>2, <1>3 DEF Rooted
  <2> QED BY <2>1, <2>2, <2>3, <2>4, <2>5, <2>6 DEF Stage
<1> QED BY <1>3, SameBaseGrows, StagesStay

\* What a state command is at each of its steps.
LEMMA StateCommandAt ==
  ASSUME IInv, JInv, NEW p \in Proc, pc[p] \in StateStep
  PROVE  /\ Types /\ p \in Running /\ job[p] \in JobRecord /\ Stage(p)
         /\ pc[p] \notin {"publish", "copy", "seal", "check"} => job[p].cmd = "initialize"
         /\ pc[p] \in {"publish", "copy", "seal"} => job[p].cmd \in {"initialize", "publish"}
         /\ PastRoot(pc[p], job[p].i, job[p].cmd) => dirs["srv"] = "right"
         /\ pc[p] = "initialize" => job[p].i = 1
         /\ pc[p] \in {"create", "own"} => job[p].i \in DOMAIN StateDir
<1>1. Types /\ p \in Running /\ Stage(p)
  BY DEF IInv, JInv, Running
<1>2. job[p] \in JobRecord /\ job[p].cmd \in Command /\ OfItsKind(p) /\ Rooted(p)
  BY <1>1 DEF Types, JobRecord, Stage
<1>3. job[p].cmd \in {"initialize", "publish", "validate", "namespace"}
  BY <1>2, CommandAt
<1>4. pc[p] \notin {"publish", "copy", "seal", "check"} => job[p].cmd = "initialize"
  BY <1>2, CommandAt
<1>5. pc[p] \in {"publish", "copy", "seal"} => job[p].cmd \in {"initialize", "publish"}
  BY <1>2, <1>3 DEF OfItsKind
<1> QED BY <1>1, <1>2, <1>4, <1>5 DEF Rooted

\* A state command that only reads.
LEMMA ReadStays ==
  ASSUME IInv, JInv, NEW p \in Proc, NEW from \in StateStep, NEW to \in StateStep \cup {"ok"},
         NEW ok, Read(p, from, to, ok), UNCHANGED <<job, off, stateVars, base>>,
         to # "ok" =>
           /\ to \in StateStep \ {"check", "initialize"}
           /\ job[p].cmd = "initialize" \/ (job[p].cmd = "publish" /\ to = "copy")
           /\ PastRoot(to, job[p].i, job[p].cmd) => dirs["srv"] = "right"
           /\ to = "create" => job[p].i \in DOMAIN StateDir
           /\ to # "own"
  PROVE  JInv'
<1>1. pc[p] = from /\ Types /\ job[p] \in JobRecord
  BY StateCommandAt DEF Read, Step
<1>2. PICK l \in Ended \cup StateStep : pc' = [pc EXCEPT ![p] = l] /\ l \in {to, "refused"}
  BY DEF Read, Goto
<1>3. job' = [job EXCEPT ![p] = job[p]] /\ UNCHANGED <<off, base, dirs, marker, temp>> /\ StateGrows
  BY <1>1, SameStateGrows DEF Types, stateVars
<1>4. marker'.by # "none" \/ temp'.by # "none" => dirs'["srv"] = "right"
  BY <1>3 DEF JInv
<1>5. PICK j \in JobRecord : j = job[p]
  BY <1>1
<1>6. l \notin Ended =>
        /\ l \in StateStep \ {"check", "initialize"}
        /\ job[p].cmd = "initialize" \/ (job[p].cmd = "publish" /\ l \in {"publish", "copy", "seal"})
        /\ PastRoot(l, j.i, j.cmd) => dirs'["srv"] = "right"
        /\ l \in {"create", "own"} => j.i \in DOMAIN StateDir
  BY <1>2, <1>3, <1>5
<1> QED BY <1>1, <1>2, <1>3, <1>4, <1>5, <1>6, StateStepStays

LEMMA ValidateStays ==
  ASSUME IInv, JInv, NEW p \in Proc, UNCHANGED base,
         \/ InitializeStart(p) \/ InitializeAgain(p) \/ Validate(p) \/ StageMarker(p) \/ FinalValidate(p)
         \/ Publish(p) \/ ValidateCommand(p)
  PROVE  JInv'
<1>1. CASE InitializeStart(p)
  <2>1. PICK to \in {"again", "create"}, ok \in BOOLEAN :
          Read(p, "initialize", to, ok) /\ (to = "again" => marker.by # "none")
    <3>1. (~RetiredStorage /\ (marker.by # "none" => ~job[p].flag)) \in BOOLEAN
      OBVIOUS
    <3> QED BY <1>1, <3>1, Zenon DEF InitializeStart
  <2>2. pc[p] = "initialize"
    BY <2>1 DEF Read, Step
  <2>3. job[p].cmd = "initialize" /\ job[p].i = 1
    BY <2>2, StateCommandAt
  <2>4. PastRoot(to, job[p].i, job[p].cmd) => dirs["srv"] = "right"
    <3>1. CASE to = "again"
      BY <2>1, <3>1 DEF JInv
    <3>2. CASE to = "create"
      BY <2>3, <3>2 DEF PastRoot
    <3> QED BY <3>1, <3>2
  <2>5. job[p].i \in DOMAIN StateDir
    BY <2>3 DEF StateDir
  <2> QED BY <1>1, <2>1, <2>3, <2>4, <2>5, ReadStays DEF InitializeStart
<1>2. CASE InitializeAgain(p) \/ FinalValidate(p) \/ ValidateCommand(p)
  BY <1>2, ReadStays DEF InitializeAgain, FinalValidate, ValidateCommand
<1>3. CASE Validate(p)
  <2>1. pc[p] = "validate"
    BY <1>3 DEF Validate, Read, Step
  <2>2. job[p].cmd = "initialize" /\ dirs["srv"] = "right"
    BY <2>1, StateCommandAt DEF PastRoot
  <2> QED BY <1>3, <2>2, ReadStays DEF Validate
<1>4. CASE StageMarker(p)
  <2>1. pc[p] = "stage"
    BY <1>4 DEF StageMarker, Read, Step
  <2>2. job[p].cmd = "initialize" /\ dirs["srv"] = "right"
    BY <2>1, StateCommandAt DEF PastRoot
  <2> QED BY <1>4, <2>2, ReadStays DEF StageMarker
<1>5. CASE Publish(p)
  <2>1. pc[p] = "publish"
    BY <1>5 DEF Publish, Read, Step
  <2>2. job[p].cmd \in {"initialize", "publish"} /\ (job[p].cmd = "initialize" => dirs["srv"] = "right")
    BY <2>1, StateCommandAt DEF PastRoot
  <2>3. PastRoot("copy", job[p].i, job[p].cmd) => dirs["srv"] = "right"
    BY <2>2 DEF PastRoot
  <2> QED BY <1>5, <2>2, <2>3, ReadStays DEF Publish
<1> QED BY <1>1, <1>2, <1>3, <1>4, <1>5

\* A directory of the state; the first one is the root in /srv.
LEMMA DirectoryStays ==
  ASSUME IInv, JInv, NEW p \in Proc, UNCHANGED base, CreateDirectory(p) \/ OwnDirectory(p)
  PROVE  JInv'
<1>1. pc[p] \in {"create", "own"} /\ UNCHANGED <<off, secrets, marker, temp>>
  BY DEF CreateDirectory, OwnDirectory, Step
<1>2. /\ Types /\ p \in Running /\ job[p] \in JobRecord /\ job[p].cmd = "initialize" /\ job[p].i \in DOMAIN StateDir
      /\ pc[p] = "own" \/ job[p].i > 1 => dirs["srv"] = "right"
      /\ dirs \in [DirName -> {"absent", "torn", "right"}] /\ job[p].flag \in BOOLEAN
  <2>1. Types /\ p \in Running /\ job[p] \in JobRecord /\ job[p].cmd = "initialize" /\ job[p].i \in DOMAIN StateDir
        /\ (PastRoot(pc[p], job[p].i, job[p].cmd) => dirs["srv"] = "right")
    BY <1>1, StateCommandAt
  <2> QED BY <1>1, <2>1 DEF PastRoot, Types, JobRecord
<1>3. /\ Len(StateDir) = 4 /\ DOMAIN StateDir = 1 .. 4 /\ StateDir[1] = "srv" /\ "srv" \in DirName
      /\ \A i \in 2 .. 4 : StateDir[i] # "srv"
      /\ \A i \in 1 .. 4 : StateDir[i] \in DirName
  <2>1. Len(StateDir) = 4 /\ DOMAIN StateDir = 1 .. 4 /\ StateDir[1] = "srv" /\ 1 \in 1 .. 4
        /\ \A i \in 2 .. 4 : StateDir[i] # "srv"
    BY DEF StateDir
  <2> QED BY <2>1 DEF DirName
<1>4. PICK i \in 1 .. 4, d \in DirName : i = job[p].i /\ d = StateDir[i]
  BY <1>2, <1>3
<1> DEFINE next == IF i = 4 THEN (IF job[p].flag THEN "publish" ELSE "validate") ELSE "create"
           n == IF i = 4 THEN 1 ELSE i + 1
           m == IF d \in PlainDir THEN i + 1 ELSE i
           jn == [job[p] EXCEPT !.i = n]
           jm == [job[p] EXCEPT !.changed = TRUE, !.i = m]
\* What may become of it.
<1>5. \/ pc' = [pc EXCEPT ![p] = "refused"] /\ dirs' = dirs /\ (job' = job \/ job' = [job EXCEPT ![p] = jn])
      \/ pc' = [pc EXCEPT ![p] = next] /\ job' = [job EXCEPT ![p] = jn] /\ dirs' = dirs /\ dirs[d] = "right"
      \/ pc' = [pc EXCEPT ![p] = next] /\ job' = [job EXCEPT ![p] = jm] /\ d \in PlainDir /\ dirs' = [dirs EXCEPT ![d] = "right"]
      \/ pc' = [pc EXCEPT ![p] = "own"] /\ job' = [job EXCEPT ![p] = jm] /\ d \notin PlainDir /\ dirs' = [dirs EXCEPT ![d] = "torn"]
      \/ pc' = [pc EXCEPT ![p] = next] /\ job' = [job EXCEPT ![p] = jn] /\ dirs' = [dirs EXCEPT ![d] = "right"] /\ pc[p] = "own"
  <2>1. CASE OwnDirectory(p)
    BY <1>2, <1>3, <1>4, <2>1 DEF OwnDirectory, Goto, Types, Step
  <2>2. CASE CreateDirectory(p)
    <3>1. CASE Exists(d)
      BY <1>2, <1>3, <1>4, <2>2, <3>1 DEF CreateDirectory, Goto, Types, DirIsRight
    <3>2. CASE ~Exists(d)
      BY <1>2, <1>3, <1>4, <2>2, <3>2 DEF CreateDirectory, Goto, Types
    <3> QED BY <3>1, <3>2
  <2> QED BY <2>1, <2>2
<1>6. /\ n \in Nat /\ m \in Nat /\ next \in {"publish", "validate", "create"}
      /\ next = "create" => n \in 1 .. 4
      /\ next = "create" /\ d \in PlainDir => m \in 1 .. 4
      /\ d \notin PlainDir => m \in 1 .. 4 /\ i > 1
  <2>1. d \notin PlainDir => i > 1
    BY <1>3, <1>4 DEF PlainDir
  <2> QED BY <1>4, <2>1
<1> HIDE DEF n, m, next
<1>7. jn \in JobRecord /\ jn.cmd = job[p].cmd /\ jn.doc = job[p].doc /\ jn.found = job[p].found /\ jn.i = n
  BY <1>2, <1>6 DEF JobRecord
<1>8. jm \in JobRecord /\ jm.cmd = job[p].cmd /\ jm.doc = job[p].doc /\ jm.found = job[p].found /\ jm.i = m
  BY <1>2, <1>6 DEF JobRecord
<1> HIDE DEF jn, jm
<1>9. ASSUME NEW j \in JobRecord, NEW l \in Ended \cup {"publish", "validate", "create", "own"},
             j.cmd = job[p].cmd, j.doc = job[p].doc, j.found = job[p].found,
             pc' = [pc EXCEPT ![p] = l], job' = [job EXCEPT ![p] = j],
             dirs["srv"] = "right" => dirs'["srv"] = "right",
             l \in {"create", "own"} => j.i \in 1 .. 4,
             l \notin Ended => dirs'["srv"] = "right"
      PROVE  JInv'
  <2>1. StateGrows
    BY <1>1, <1>9 DEF StateGrows
  <2>2. marker'.by # "none" \/ temp'.by # "none" => dirs'["srv"] = "right"
    BY <1>1, <1>9 DEF JInv
  <2>3. l \in Ended \cup StateStep /\ (l \notin Ended => l \in StateStep \ {"check", "initialize"}) /\ pc[p] \in StateStep
    BY <1>1
  <2> QED BY <1>1, <1>2, <1>3, <1>9, <2>1, <2>2, <2>3, StateStepStays
<1>10. CASE pc' = [pc EXCEPT ![p] = "refused"] /\ dirs' = dirs /\ (job' = job \/ job' = [job EXCEPT ![p] = jn])
  <2>1. CASE job' = job
    <3>1. job' = [job EXCEPT ![p] = job[p]]
      BY <1>2, <2>1 DEF Types
    <3>2. PICK j \in JobRecord : j = job[p]
      BY <1>2
    <3> QED BY <1>9, <1>10, <3>1, <3>2
  <2>2. CASE job' = [job EXCEPT ![p] = jn]
    BY <1>7, <1>9, <1>10, <2>2
  <2> QED BY <1>10, <2>1, <2>2
<1>11. CASE pc' = [pc EXCEPT ![p] = next] /\ job' = [job EXCEPT ![p] = jn] /\ dirs' = dirs /\ dirs[d] = "right"
  <2>1. dirs'["srv"] = "right"
    <3>1. i = 1 \/ i > 1
      BY <1>4
    <3> QED BY <1>2, <1>3, <1>4, <1>11, <3>1
  <2> QED BY <1>6, <1>7, <1>9, <1>11, <2>1
<1>12. CASE pc' = [pc EXCEPT ![p] = next] /\ job' = [job EXCEPT ![p] = jm] /\ d \in PlainDir /\ dirs' = [dirs EXCEPT ![d] = "right"]
  <2>1. dirs'["srv"] = "right"
    BY <1>2, <1>3, <1>12 DEF PlainDir
  <2> QED BY <1>6, <1>8, <1>9, <1>12, <2>1
<1>13. CASE pc' = [pc EXCEPT ![p] = "own"] /\ job' = [job EXCEPT ![p] = jm] /\ d \notin PlainDir /\ dirs' = [dirs EXCEPT ![d] = "torn"]
  <2>1. dirs'["srv"] = "right"
    BY <1>2, <1>3, <1>4, <1>6, <1>13 DEF PlainDir
  <2> QED BY <1>6, <1>8, <1>9, <1>13, <2>1
<1>14. CASE pc' = [pc EXCEPT ![p] = next] /\ job' = [job EXCEPT ![p] = jn] /\ dirs' = [dirs EXCEPT ![d] = "right"] /\ pc[p] = "own"
  <2>1. dirs'["srv"] = "right"
    BY <1>2, <1>3, <1>14
  <2> QED BY <1>6, <1>7, <1>9, <1>14, <2>1
<1> QED BY <1>5, <1>10, <1>11, <1>12, <1>13, <1>14

\* The staged marker and the final one: only an initialization that is past the root makes one.
LEMMA MarkerStays ==
  ASSUME IInv, JInv, NEW p \in Proc, UNCHANGED base,
         OpenMarker(p) \/ WriteMarker(p) \/ OwnMarker(p) \/ RenameMarker(p)
  PROVE  JInv'
<1>1. pc[p] \in MarkerStep /\ UNCHANGED <<off, secrets, dirs, job>>
  BY DEF OpenMarker, WriteMarker, OwnMarker, RenameMarker, Step
<1>2. Types /\ job[p] \in JobRecord /\ job[p].cmd = "initialize" /\ dirs["srv"] = "right"
  BY <1>1, StateCommandAt DEF PastRoot
<1>3. PICK l \in {"write", "chown", "rename", "final", "refused"} : pc' = [pc EXCEPT ![p] = l]
  BY DEF OpenMarker, WriteMarker, OwnMarker, RenameMarker, Goto
<1>4. marker.by # "none" => marker'.by # "none"
  <2>1. \A f \in MarkerRecord : [f EXCEPT !.whole = TRUE].by = f.by
    BY DEF MarkerRecord
  <2> QED BY <1>2, <2>1 DEF OpenMarker, WriteMarker, OwnMarker, RenameMarker, Types
<1>5. StateGrows
  BY <1>1, <1>4 DEF StateGrows
<1>6. PICK j \in JobRecord : j = job[p] /\ job' = [job EXCEPT ![p] = j]
  BY <1>1, <1>2 DEF Types
<1>7. dirs'["srv"] = "right" /\ l \in Ended \cup StateStep /\ pc[p] \in StateStep /\ l \notin {"create", "own", "check", "initialize"}
  BY <1>1, <1>2
<1> QED BY <1>1, <1>2, <1>3, <1>5, <1>6, <1>7, StateStepStays

LEMMA CopySecretStays == ASSUME IInv, JInv, NEW p \in Proc, UNCHANGED base, CopySecret(p) PROVE JInv'
<1> DEFINE c == job[p].copied
           v == source[Len(c) + 1]
           r == [job[p] EXCEPT !.copied = Append(c, v)]
<1>1. pc[p] = "copy" /\ UNCHANGED <<off, stateVars>>
  BY DEF CopySecret, Step
<1>2. /\ Types /\ p \in Running /\ job[p] \in JobRecord /\ job[p].cmd \in {"initialize", "publish"}
      /\ job[p].cmd = "initialize" => dirs["srv"] = "right"
  BY <1>1, StateCommandAt DEF PastRoot
<1>3. PICK l \in {"refused", "seal", "copy"} : pc' = [pc EXCEPT ![p] = l]
  BY DEF CopySecret, Goto
<1>4. job' = [job EXCEPT ![p] = r]
  BY <1>2 DEF CopySecret, Types
<1>5. Append(c, v) \in Seq(Value)
  <2>1. c \in Seq(Value) /\ Len(c) \in Nat /\ Len(c) < 4
    <3>1. Len(SecretFile) = 4 /\ c \in Seq(Value)
      BY <1>2 DEF SecretFile, JobRecord
    <3> QED BY <1>1, <1>2, <3>1 DEF IInv, Each, Staged
  <2>2. v \in Value
    <3>1. DOMAIN SecretFile = 1 .. 4
      BY DEF SecretFile
    <3>2. Len(c) + 1 \in DOMAIN SecretFile
      BY <2>1, <3>1
    <3>3. source \in Sources
      BY <1>2 DEF Types
    <3> QED BY <3>2, <3>3 DEF Value
  <2> QED BY <2>1, <2>2
<1> HIDE DEF c, v
<1>6. r \in JobRecord /\ r.cmd = job[p].cmd /\ r.doc = job[p].doc /\ r.found = job[p].found /\ r.i = job[p].i
  BY <1>2, <1>5 DEF JobRecord
<1> HIDE DEF r
<1>7. PICK j \in JobRecord : j = r
  BY <1>6
<1>8. UNCHANGED <<dirs, marker, temp>> /\ StateGrows
  BY <1>1, SameStateGrows DEF stateVars
<1>9. (marker'.by # "none" \/ temp'.by # "none" => dirs'["srv"] = "right") /\ (PastRoot(l, j.i, j.cmd) => dirs'["srv"] = "right")
  BY <1>2, <1>6, <1>7, <1>8 DEF JInv, PastRoot
<1>10. l \in Ended \cup StateStep /\ pc[p] \in StateStep /\ l \notin {"create", "own", "check", "initialize"}
       /\ (l \notin Ended => l \in {"publish", "copy", "seal"})
  BY <1>1
<1> QED BY <1>1, <1>2, <1>3, <1>4, <1>6, <1>7, <1>8, <1>9, <1>10, StateStepStays

LEMMA RenameTreeStays == ASSUME IInv, JInv, NEW p \in Proc, UNCHANGED base, RenameTree(p) PROVE JInv'
<1> DEFINE done == Separate(job[p].copied) /\ secrets = NoTree
           r == [job[p] EXCEPT !.copied = <<>>, !.changed = done]
<1>1. pc[p] = "seal" /\ UNCHANGED <<off, dirs, marker, temp>>
  BY DEF RenameTree, Step
<1>2. /\ Types /\ p \in Running /\ job[p] \in JobRecord /\ job[p].cmd \in {"initialize", "publish"}
      /\ job[p].cmd = "initialize" => dirs["srv"] = "right"
  BY <1>1, StateCommandAt DEF PastRoot
<1>3. PICK l \in {"refused", "ok", "validate"} :
        pc' = [pc EXCEPT ![p] = l] /\ (l = "validate" => job[p].cmd # "publish")
  BY DEF RenameTree, Goto
<1>4. job' = [job EXCEPT ![p] = r] /\ done \in BOOLEAN
  BY <1>2 DEF RenameTree, Types
<1>5. secrets # NoTree => secrets' # NoTree
  BY DEF RenameTree
<1> HIDE DEF done
<1>6. r \in JobRecord /\ r.cmd = job[p].cmd /\ r.doc = job[p].doc /\ r.found = job[p].found /\ r.i = job[p].i
  BY <1>2, <1>4, NothingStaged DEF JobRecord
<1> HIDE DEF r
<1>7. PICK j \in JobRecord : j = r
  BY <1>6
<1>8. StateGrows
  BY <1>1, <1>5 DEF StateGrows
<1>9. (marker'.by # "none" \/ temp'.by # "none" => dirs'["srv"] = "right") /\ (PastRoot(l, j.i, j.cmd) => dirs'["srv"] = "right")
  BY <1>1, <1>2, <1>3, <1>6, <1>7 DEF JInv, PastRoot
<1>10. l \in Ended \cup StateStep /\ pc[p] \in StateStep /\ l \notin {"create", "own", "check", "initialize"}
       /\ (l \notin Ended => l = "validate" /\ job[p].cmd = "initialize")
  BY <1>1, <1>2, <1>3
<1> QED BY <1>1, <1>2, <1>3, <1>4, <1>6, <1>7, <1>8, <1>9, <1>10, StateStepStays

LEMMA StateCommandStays == ASSUME IInv, JInv, NEW p \in Proc, StateCommand(p), UNCHANGED base PROVE JInv'
BY ValidateStays, DirectoryStays, MarkerStays, CopySecretStays, RenameTreeStays DEF StateCommand
-----------------------------------------------------------------------------
(* The rest of the world.                                                  *)

LEMMA KillStays == ASSUME IInv, JInv, NEW p \in Proc, Kill(p) \/ (Interrupt(p) /\ UNCHANGED base) PROVE JInv'
<1>1. /\ pc' = [pc EXCEPT ![p] = "killed"] /\ job' = [job EXCEPT ![p] = [job[p] EXCEPT !.copied = <<>>]]
      /\ UNCHANGED <<off, dirs, secrets, source, base>>
      /\ marker' = Orphaned(marker, p) /\ temp' \in {NoFile, Orphaned(temp, p)}
  BY DEF Kill, Interrupt, Goto, IInv, Types
<1>2. /\ marker'.by = "none" <=> marker.by = "none"
      /\ temp'.by # "none" => temp.by # "none"
  <2>1. marker \in MarkerRecord /\ temp \in MarkerRecord
    BY DEF IInv, Types
  <2>2. marker'.by = "none" <=> marker.by = "none"
    BY <1>1, <2>1, OrphanedFile
  <2>3. Orphaned(temp, p).by = "none" <=> temp.by = "none"
    BY <2>1, OrphanedFile
  <2>4. NoFile.by = "none"
    BY DEF NoFile
  <2> QED BY <1>1, <2>2, <2>3, <2>4
<1>3. StateGrows /\ BaseGrows
  BY <1>1, <1>2, SameBaseGrows DEF StateGrows
<1>4. marker'.by # "none" \/ temp'.by # "none" => dirs'["srv"] = "right"
  BY <1>1, <1>2 DEF JInv
<1> QED BY <1>1, <1>3, <1>4, StagesStay

\* A reboot ends every command; what the base and the root in /srv hold stays on the disk.
LEMMA FailureStays == ASSUME IInv, JInv, NEW p \in Proc, CommandFails(p) PROVE JInv'
<1>1. /\ job' = [job EXCEPT ![p] = job[p]] /\ pc' = [pc EXCEPT ![p] = "refused"]
      /\ UNCHANGED <<off, stateVars>> /\ UNCHANGED base
  BY DEF IInv, Types, CommandFails, Goto
<1> QED BY <1>1, StageStays, SameBaseGrows

LEMMA RebootStays == ASSUME IInv, JInv, Reboot PROVE JInv'
<1>1. Types /\ base \in BaseRecord
  BY DEF IInv, Types
<1>2. Running' = {}
  <2>1. \A p \in Proc : pc'[p] \in {"idle", "killed"}
    BY DEF Reboot
  <2> QED BY <2>1 DEF Running
<1>3. base'.dirs = base.dirs /\ base'.files = base.files /\ base'.enabled = base.enabled /\ base'.loaded = TRUE
  <2> DEFINE m == IF ~base.linger THEN "down" ELSE IF base.files["user drop-in"] = "right" THEN "right" ELSE "stale"
             fw == base.firewall /\ base.enabled
  <2>1. base' = [base EXCEPT !.loaded = TRUE, !.active = base.enabled, !.firewall = fw, !.manager = m]
    BY DEF Reboot
  <2> HIDE DEF m, fw
  <2> QED BY <1>1, <2>1 DEF BaseRecord
<1>4. OldLayout' /\ LoadedWithRules'
  BY <1>3 DEF JInv, OldLayout, LoadedWithRules
<1>5. /\ marker'.by # "none" => marker.by # "none"
      /\ temp'.by # "none" => temp.by # "none"
  BY DEF Reboot
<1>6. dirs["srv"] = "right" => dirs'["srv"] = "right"
  <2>1. "srv" # "run" /\ "srv" \in DirName
    <3>1. 1 \in DOMAIN StateDir /\ StateDir[1] = "srv"
      BY DEF StateDir
    <3> QED BY <3>1 DEF DirName
  <2> QED BY <1>1, <2>1 DEF Types, Reboot
<1> QED BY <1>2, <1>4, <1>5, <1>6 DEF JInv

LEMMA WorldStays ==
  ASSUME IInv, JInv, UNCHANGED <<pc, job, base, dirs, secrets, marker, temp>>, off \subseteq off'
  PROVE  JInv'
<1>1. Types /\ \A p \in Running : Placed(p) /\ Stage(p)
  BY DEF IInv, JInv, Each
<1>2. BaseGrows /\ StateGrows
  BY SameBaseGrows DEF StateGrows
<1>3. ASSUME NEW p \in Running' PROVE Stage(p)'
  <2>1. p \in Proc /\ p \in Running /\ Placed(p) /\ Stage(p) /\ pc'[p] = pc[p] /\ job'[p] = job[p]
    BY <1>1, <1>3 DEF Running
  <2> QED BY <1>1, <1>2, <2>1, OtherStays
<1> QED BY <1>2, <1>3 DEF JInv, BaseGrows

LEMMA StagesAtFirst == Init => JInv
<1> SUFFICES ASSUME Init PROVE JInv
  OBVIOUS
<1>1. Running = {} /\ marker.by = "none" /\ temp.by = "none"
  BY DEF Init, CommandInit, StateInit, Running, NoFile
<1>2. OldLayout /\ LoadedWithRules
  <2>1. "home" \in BaseDirName /\ "home" # "config"
    BY AllPaths DEF BaseDir
  <2>2. CASE base = FreshBase
    BY <2>2 DEF FreshBase, OldLayout, LoadedWithRules
  <2>3. CASE base = LegacyBase
    BY <2>1, <2>3 DEF LegacyBase, OldLayout, LoadedWithRules
  <2> QED BY <2>2, <2>3 DEF Init
<1> QED BY <1>1, <1>2 DEF JInv
-----------------------------------------------------------------------------
(* New commands.                                                           *)

\* Where a command begins; two of them end at once.
Begins(cmd, to) ==
  /\ cmd \notin {"none", "plan", "facts"} \/ to = "ok"
  /\ to = "platform" <=> cmd = "install"
  /\ to = "verify host" <=> cmd \in {"verify", "enroll"}
  /\ to = "observe" <=> cmd = "prepare"
  /\ to = "observe native" <=> cmd = "native"
  /\ to = "initialize" <=> cmd = "initialize"
  /\ to = "publish" <=> cmd = "publish"
  /\ to = "check" <=> cmd \in {"validate", "namespace"}

LEMMA StartStays ==
  ASSUME IInv, JInv, NEW p \in Proc, NEW cmd, NEW doc, NEW flag \in BOOLEAN, NEW ok,
         NEW to \in {"platform", "verify host", "ok", "observe", "observe native", "initialize", "publish", "check"},
         Start(p, cmd, doc, flag, ok, to, Standing), UNCHANGED <<base, stateVars>>,
         Begins(cmd, to),
         ok => doc \subseteq Excusable(cmd)
  PROVE  JInv' /\ Admits(p)'
<1> DEFINE l == IF ok THEN to ELSE "refused"
           read == IF ok THEN doc ELSE {}
           r == [NoJob EXCEPT !.cmd = cmd, !.doc = read, !.flag = flag, !.stood = Standing, !.found = Standing]
<1>1. Types /\ pc' = [pc EXCEPT ![p] = l] /\ job' = [job EXCEPT ![p] = r] /\ UNCHANGED off
  BY DEF IInv, Start
<1>2. r.cmd = cmd /\ r.doc = read /\ r.found = Standing /\ r.i = 1 /\ r.legacy = FALSE /\ read \subseteq Excusable(cmd)
  BY DEF NoJob
<1>3. l \in {to, "refused"} /\ (l \notin Ended => l = to /\ to # "ok")
  OBVIOUS
<1> HIDE DEF l, r, read
<1>4. pc'[p] = l /\ job'[p] = r
  BY <1>1 DEF Types
<1>5. UNCHANGED <<off, marker, secrets, dirs>> /\ BaseGrows
  BY <1>1, SameBaseGrows DEF stateVars
<1>a. Admits(p)'
  BY <1>2, <1>4 DEF Admits
<1>6. ASSUME l \notin Ended PROVE Stage(p)'
  <2>1. l = to /\ to # "ok"
    BY <1>3, <1>6
  <2>2. OfItsKind(p)'
    <3>1. pc'[p] = to /\ job'[p].cmd = cmd
      BY <1>2, <1>4, <2>1
    <3> QED BY <2>1, <3>1 DEF OfItsKind, Begins
  <2>4. SeenTo(p)'
    <3>1. PICK i \in Nat, legacy \in BOOLEAN : i = r.i /\ legacy = r.legacy
      BY <1>2
    <3>2. CASE cmd # "install"
      BY <1>2, <1>4, <3>2 DEF SeenTo
    <3>3. CASE cmd = "install"
      <4>1. pc'[p] = "platform" /\ "platform" \in CheckStep
        BY <1>4, <2>1, <3>3 DEF Begins
      <4>2. AccountSeen("platform")' /\ PathsSeen("platform", i, legacy)' /\ ServicesSeen("platform")'
        BY <4>1, CheckSteps
      <4> QED BY <1>4, <3>1, <4>1, <4>2 DEF SeenTo
    <3> QED BY <3>2, <3>3
  <2>5. Found(p)'
    <3>1. Standing \subseteq off \cup {<<"authority", "state">>}
          /\ (<<"authority", "state">> \in Standing => marker.by # "none" \/ secrets # NoTree)
      BY StandingIsKnown DEF IInv
    <3> QED BY <1>2, <1>4, <1>5, <3>1 DEF Found
  <2>6. Looked(p)'
    BY <1>4, <2>1 DEF Looked
  <2>7. Rooted(p)'
    BY <1>2, <1>4, <2>1 DEF Rooted, PastRoot, Begins
  <2> QED BY <1>a, <2>2, <2>4, <2>5, <2>6, <2>7 DEF Stage
<1> QED BY <1>1, <1>a, <1>5, <1>6, StageStays


\* The readers of a document look at each of its points.
LEMMA DocumentIsRead ==
  ASSUME NEW d, NEW doc, ReadDocument(d, doc)
  PROVE  \A x \in DocumentFlaw : <<d, x>> \notin doc
<1>1. /\ Clean(d, {"unreadable", "too large", "not an object", "too deep"}, doc)
      /\ Clean(d, {"duplicate key", "key not scalar"}, doc)
      /\ Clean(d, {"recursive alias", "key not a string", "secret field", "image field", "credential"}, doc)
  BY DEF ReadDocument, Loader, ScanForbiddenInput
<1> QED BY <1>1, CleanPoints DEF DocumentFlaw

LEMMA InventoryIsRead ==
  ASSUME NEW doc, ReadDocument("inventory", doc), Inventory(doc)
  PROVE  \A x \in InventoryFlaw : <<"inventory", x>> \notin doc
<1>1. /\ Clean("inventory", {"field missing", "field unknown", "value", "format"}, doc)
      /\ Clean("inventory", {"hostname", "hostname loopback", "hostname numeric"}, doc)
      /\ Clean("inventory", {"address scoped", "address mapped", "address repeated"}, doc)
      /\ Clean("inventory", {"address reserved", "address shared", "address not private"}, doc)
      /\ Clean("inventory", {"subid count", "subid limit", "subid own"}, doc)
      /\ Clean("inventory", {"origins equal", "host is origin"}, doc)
  BY DEF Inventory, Schema, Hostname, Addresses, Address, SubordinateIds
<1>2. /\ Clean("inventory", {"origin scheme", "origin path", "origin port", "origin authority", "origin literal",
                             "origin unqualified", "origin reserved"}, doc)
      /\ Clean("inventory", {"path relative", "path traversal", "path temporary", "path length"}, doc)
      /\ Clean("inventory", {"path unmanaged", "path metadata", "path owner", "path repeated", "path nested"}, doc)
      /\ Clean("inventory", {"bytes floor", "inodes floor", "percent floor"}, doc)
  BY DEF Inventory, Origin, PathContracts, AbsolutePath, StorageRequirements
<1>3. \A x \in SchemaFlaw : <<"inventory", x>> \notin doc
  BY <1>1, CleanPoints DEF SchemaFlaw
<1>4. \A x \in DocumentFlaw : <<"inventory", x>> \notin doc
  BY DocumentIsRead
<1>5. \A x \in {"address scoped", "address mapped", "address repeated", "address reserved", "address shared",
          "address not private", "hostname", "hostname loopback", "hostname numeric", "origins equal", "host is origin",
          "subid count", "subid limit", "subid own"} : <<"inventory", x>> \notin doc
  BY <1>1, CleanPoints
<1>6. \A x \in {"origin scheme", "origin path", "origin port", "origin authority", "origin literal",
          "origin unqualified", "origin reserved", "path relative", "path traversal",
          "path temporary", "path length", "path unmanaged", "path metadata", "path owner",
          "path repeated", "path nested", "bytes floor", "inodes floor", "percent floor"} : <<"inventory", x>> \notin doc
  BY <1>2, CleanPoints
<1> QED BY <1>3, <1>4, <1>5, <1>6 DEF InventoryFlaw

LEMMA PlanIsRead ==
  ASSUME NEW doc, AdmitPlan(doc)
  PROVE  /\ \A x \in InventoryFlaw : <<"inventory", x>> \notin doc
         /\ \A x \in DocumentFlaw : <<"firewall", x>> \notin doc
         /\ \A x \in PlanFlaw : <<"plan", x>> \notin doc
<1>1. /\ ReadDocument("inventory", doc) /\ ReadDocument("firewall", doc) /\ Inventory(doc) /\ Clean("plan", PlanFlaw, doc)
  BY DEF AdmitPlan, Plan
<1>2. \A x \in PlanFlaw : <<"plan", x>> \notin doc
  BY <1>1, CleanPoints
<1>3. \A x \in DocumentFlaw : <<"firewall", x>> \notin doc
  BY <1>1, DocumentIsRead
<1> QED BY <1>1, <1>2, <1>3, InventoryIsRead

LEMMA FactsAreRead ==
  ASSUME NEW doc, AdmitFacts(doc)
  PROVE  /\ \A x \in InventoryFlaw : <<"inventory", x>> \notin doc
         /\ \A x \in FactsFlaw : <<"facts", x>> \notin doc
<1>1. /\ ReadDocument("inventory", doc) /\ Inventory(doc) /\ ReadDocument("facts", doc) /\ HostFacts(doc)
  BY DEF AdmitFacts
<1>2. \A x \in DocumentFlaw : <<"facts", x>> \notin doc
  BY <1>1, DocumentIsRead
<1>3. /\ Clean("facts", {"field missing", "field unknown", "value", "format"}, doc)
      /\ Clean("facts", {"not synthetic mode", "evidence class"}, doc)
      /\ Clean("facts", {"hostname", "hostname loopback", "hostname numeric"}, doc)
      /\ Clean("facts", {"other hostname", "architecture", "minor", "cpu"}, doc) /\ Clean("facts", {"certbot provenance"}, doc)
      /\ Clean("facts", {"kernel series", "kernel candidate", "kernel architecture"}, doc)
      /\ Clean("facts", {"mcs differs", "mcs not separate"}, doc) /\ Clean("facts", {"search path"}, doc)
  BY <1>1 DEF HostFacts, Schema, PlatformFacts, Hostname, TlsProvenance, KernelFacts, SelinuxFacts, RuntimeFacts, SearchPathFacts
<1>4. /\ Clean("facts", {"nevra", "podman version", "podman owner", "namespace account", "subid range",
                     "graphroot", "runroot"}, doc)
      /\ Clean("facts", {"path relative", "path traversal", "path temporary", "path length"}, doc)
      /\ Clean("facts", {"account"}, doc) /\ Clean("facts", {"address scoped", "address mapped", "address repeated"}, doc)
      /\ Clean("facts", {"public address", "private addresses"}, doc) /\ Clean("facts", {"tool missing"}, doc)
      /\ Clean("facts", {"other path", "owner", "mode", "mode contradicts", "access", "ancestry"}, doc)
  BY <1>1 DEF HostFacts, RuntimeFacts, AbsolutePath, AccountFacts, NetworkFacts, Address, ToolFacts, PathAccessFacts, PathAccess
<1>5. /\ Clean("facts", {"owner role", "xfs ftype", "ext4 ftype"}, doc)
      /\ Clean("facts", {"total above host", "free above total", "headroom", "percent contradicts"}, doc)
      /\ Clean("facts", {"resource floor"}, doc) /\ Clean("facts", {"postgresql storage", "postgresql above host"}, doc)
  BY <1>1 DEF HostFacts, FilesystemFacts, ResourceFacts, Headroom
<1>6. \A x \in SchemaFlaw : <<"facts", x>> \notin doc
  BY <1>3, CleanPoints DEF SchemaFlaw
<1>7. \A x \in {"not synthetic mode", "evidence class", "hostname", "hostname loopback", "hostname numeric",
          "other hostname", "architecture", "minor", "cpu", "certbot provenance", "kernel series",
          "kernel candidate", "kernel architecture", "mcs differs", "mcs not separate", "search path"} : <<"facts", x>> \notin doc
  BY <1>3, CleanPoints
<1>8. \A x \in {"nevra", "podman version", "podman owner", "namespace account", "subid range", "graphroot",
          "runroot", "path relative", "path traversal", "path temporary", "path length", "account",
          "address scoped", "address mapped", "address repeated", "public address",
          "private addresses", "tool missing", "other path", "owner", "mode", "mode contradicts",
          "access", "ancestry"} : <<"facts", x>> \notin doc
  BY <1>4, CleanPoints
<1>9. \A x \in {"owner role", "xfs ftype", "ext4 ftype", "total above host",
          "free above total", "headroom", "percent contradicts", "resource floor",
          "postgresql storage", "postgresql above host"} : <<"facts", x>> \notin doc
  BY <1>5, CleanPoints
<1> QED BY <1>1, <1>2, <1>6, <1>7, <1>8, <1>9, InventoryIsRead DEF FactsFlaw

\* A document with at most one flaw that its reader looks at has none when it is admitted.
LEMMA NoFlaw ==
  ASSUME NEW F, NEW doc \in OneFlaw(F), \A f \in F : f \notin doc
  PROVE  doc = {}
BY DEF OneFlaw

LEMMA PlanDocuments ==
  ASSUME NEW doc \in PlanDocument, AdmitInstallation(doc)
  PROVE  doc = {}
<1> DEFINE F == {"administrator"} \X AdministratorFlaw \cup {"inventory"} \X InventoryFlaw
                  \cup {"firewall"} \X DocumentFlaw \cup {"plan"} \X PlanFlaw
<1>1. \A x \in AdministratorFlaw : <<"administrator", x>> \notin doc
  BY CleanPoints DEF AdmitInstallation
<1>2. /\ \A x \in InventoryFlaw : <<"inventory", x>> \notin doc
      /\ \A x \in DocumentFlaw : <<"firewall", x>> \notin doc
      /\ \A x \in PlanFlaw : <<"plan", x>> \notin doc
  BY PlanIsRead DEF AdmitInstallation
<1>3. \A f \in F : f \notin doc
  BY <1>1, <1>2
<1>4. doc \in OneFlaw(F)
  BY DEF PlanDocument
<1> QED BY <1>3, <1>4, NoFlaw

\* A mere validation does not demand to be root.
LEMMA StateDocuments ==
  ASSUME NEW doc \in StateDocument, NEW cmd, AdmitStateCommand(cmd, doc)
  PROVE  doc \subseteq Excusable(cmd)
<1> DEFINE F == {"contract"} \X ContractFlaw \cup {"command"} \X CommandFlaw
<1>1. \A x \in ContractFlaw : <<"contract", x>> \notin doc
  BY CleanPoints DEF AdmitStateCommand, Contract
<1>2. PICK kept : kept = IF Unprivileged(cmd) THEN {"not root"} ELSE {}
  OBVIOUS
<1>3. \A x \in CommandFlaw \ kept : <<"command", x>> \notin doc
  BY <1>2, CleanPoints DEF AdmitStateCommand
<1>4. \A f \in F \ Excusable(cmd) : f \notin doc
  <2> SUFFICES ASSUME NEW f \in F, f \notin Excusable(cmd), f \in doc PROVE FALSE
    OBVIOUS
  <2>1. PICK x \in CommandFlaw : f = <<"command", x>>
    BY <1>1
  <2>2. x \in kept
    BY <1>3, <2>1
  <2>3. Unprivileged(cmd) /\ x = "not root"
    BY <1>2, <2>2
  <2> QED BY <2>1, <2>3 DEF Excusable
<1>5. doc \in OneFlaw(F)
  BY DEF StateDocument
<1>6. doc = {} \/ \E f \in F : doc = {f}
  BY <1>5 DEF OneFlaw
<1> QED BY <1>4, <1>6

LEMMA StartsStay ==
  ASSUME IInv, JInv, NEW p \in Proc,
         \/ StartInstall(p) \/ StartVerify(p) \/ StartPlan(p) \/ StartFacts(p) \/ StartState(p)
         \/ StartPreparation(p) \/ StartNative(p)
  PROVE  JInv' /\ Admits(p)'
<1>1. CASE StartInstall(p)
  <2>1. PICK doc \in PlanDocument : Start(p, "install", doc, BaseIsRight, AdmitInstallation(doc), "platform", Standing)
    BY <1>1 DEF StartInstall
  <2>2. AdmitInstallation(doc) => doc \subseteq Excusable("install")
    BY PlanDocuments
  <2>3. UNCHANGED <<base, stateVars>>
    BY <1>1 DEF StartInstall
  <2>4. BaseIsRight \in BOOLEAN
    BY DEF BaseIsRight
  <2> QED BY <2>1, <2>2, <2>3, <2>4, StartStays DEF Begins
<1>2. CASE StartVerify(p)
  <2>1. PICK doc \in PlanDocument, cmd \in {"verify", "enroll"} :
          Start(p, cmd, doc, FALSE, AdmitInstallation(doc), "verify host", Standing)
    BY <1>2 DEF StartVerify
  <2>2. AdmitInstallation(doc) => doc \subseteq Excusable(cmd)
    BY PlanDocuments
  <2>3. UNCHANGED <<base, stateVars>>
    BY <1>2 DEF StartVerify
  <2> QED BY <2>1, <2>2, <2>3, StartStays DEF Begins
<1>3. CASE StartPlan(p)
  <2>1. PICK doc \in OneFlaw({"inventory"} \X InventoryFlaw \cup {"plan"} \X PlanFlaw) :
          Start(p, "plan", doc, FALSE, AdmitPlan(doc), "ok", Standing)
    BY <1>3 DEF StartPlan
  <2>2. AdmitPlan(doc) => doc \subseteq Excusable("plan")
    <3> SUFFICES ASSUME AdmitPlan(doc) PROVE doc = {}
      OBVIOUS
    <3>1. \A f \in {"inventory"} \X InventoryFlaw \cup {"plan"} \X PlanFlaw : f \notin doc
      BY PlanIsRead
    <3> QED BY <3>1, NoFlaw
  <2>3. UNCHANGED <<base, stateVars>>
    BY <1>3 DEF StartPlan
  <2> QED BY <2>1, <2>2, <2>3, StartStays DEF Begins
<1>4. CASE StartFacts(p)
  <2>1. PICK doc \in OneFlaw({"inventory"} \X InventoryFlaw \cup {"facts"} \X FactsFlaw) :
          Start(p, "facts", doc, FALSE, AdmitFacts(doc), "ok", Standing)
    BY <1>4 DEF StartFacts
  <2>2. AdmitFacts(doc) => doc \subseteq Excusable("facts")
    <3> SUFFICES ASSUME AdmitFacts(doc) PROVE doc = {}
      OBVIOUS
    <3>1. \A f \in {"inventory"} \X InventoryFlaw \cup {"facts"} \X FactsFlaw : f \notin doc
      BY FactsAreRead
    <3> QED BY <3>1, NoFlaw
  <2>3. UNCHANGED <<base, stateVars>>
    BY <1>4 DEF StartFacts
  <2> QED BY <2>1, <2>2, <2>3, StartStays DEF Begins
<1>5. CASE StartState(p)
  <2>1. PICK cmd, to :
          \E doc \in StateDocument, flag \in BOOLEAN :
            /\ cmd \in {"initialize", "publish", "validate", "namespace"}
            /\ to = IF cmd \in {"initialize", "publish"} THEN cmd ELSE "check"
            /\ Start(p, cmd, doc, flag, AdmitStateCommand(cmd, doc), to, Standing)
    BY <1>5 DEF StartState
  <2>2. PICK doc \in StateDocument, flag \in BOOLEAN :
          Start(p, cmd, doc, flag, AdmitStateCommand(cmd, doc), to, Standing)
    BY <2>1
  <2>3. Begins(cmd, to) /\ to \in {"initialize", "publish", "check"}
    BY <2>1 DEF Begins
  <2>4. AdmitStateCommand(cmd, doc) => doc \subseteq Excusable(cmd)
    BY StateDocuments
  <2>5. UNCHANGED <<base, stateVars>>
    BY <1>5 DEF StartState
  <2> QED BY <2>2, <2>3, <2>4, <2>5, StartStays
<1>6. CASE StartPreparation(p)
  <2>1. PICK doc \in OneFlaw({"run"} \X RunFlaw) :
          Start(p, "prepare", doc, FALSE, AdmitRun("prepare", doc), "observe", Standing)
    BY <1>6 DEF StartPreparation
  <2>2. AdmitRun("prepare", doc) => doc \subseteq Excusable("prepare")
    <3> SUFFICES ASSUME AdmitRun("prepare", doc) PROVE doc = {}
      OBVIOUS
    <3>1. \A f \in {"run"} \X RunFlaw : f \notin doc
      BY DEF AdmitRun, Clean
    <3> QED BY <3>1, NoFlaw
  <2>3. UNCHANGED <<base, stateVars>>
    BY <1>6 DEF StartPreparation
  <2> QED BY <2>1, <2>2, <2>3, StartStays DEF Begins
<1>7. CASE StartNative(p)
  <2>1. PICK doc \in OneFlaw({"run"} \X NativeRunFlaw) :
          Start(p, "native", doc, FALSE, AdmitRun("native", doc), "observe native", Standing)
    BY <1>7 DEF StartNative
  <2>2. AdmitRun("native", doc) => doc \subseteq Excusable("native")
    <3> SUFFICES ASSUME AdmitRun("native", doc) PROVE doc = {}
      OBVIOUS
    <3>1. \A f \in {"run"} \X NativeRunFlaw : f \notin doc
      BY DEF AdmitRun, Clean
    <3> QED BY <3>1, NoFlaw
  <2>3. UNCHANGED <<base, stateVars>>
    BY <1>7 DEF StartNative
  <2> QED BY <2>1, <2>2, <2>3, StartStays DEF Begins
<1> QED BY <1>1, <1>2, <1>3, <1>4, <1>5, <1>6, <1>7

LEMMA StagesNext == IInv /\ JInv /\ [Next]_baseVars => JInv'
<1> SUFFICES ASSUME IInv, JInv, [Next]_baseVars PROVE JInv'
  OBVIOUS
<1>1. CASE UNCHANGED baseVars
  BY <1>1, WorldStays DEF baseVars, commandVars, stateVars
<1>2. CASE Reboot
  BY <1>2, RebootStays
<1>3. CASE Deviate(StateFlaw \cup BaseFlaw \cup PreparationFlaw) /\ UNCHANGED <<base, stateVars>>
  <2>1. off \subseteq off' /\ UNCHANGED <<pc, job, base, dirs, secrets, marker, temp>>
    BY <1>3 DEF Deviate, stateVars
  <2> QED BY <2>1, WorldStays
<1>4. CASE ReplaceSource /\ UNCHANGED base
  <2>1. off \subseteq off' /\ UNCHANGED <<pc, job, base, dirs, secrets, marker, temp>>
    BY <1>4 DEF ReplaceSource
  <2> QED BY <2>1, WorldStays
<1>5. ASSUME NEW p \in Proc,
             \/ StartInstall(p) \/ StartVerify(p) \/ StartPlan(p) \/ StartFacts(p) \/ StartState(p)
             \/ StartPreparation(p) \/ StartNative(p)
             \/ InstallCommand(p) \/ CommandFails(p) \/ Kill(p)
             \/ (StateCommand(p) /\ UNCHANGED base) \/ (Interrupt(p) /\ UNCHANGED base)
      PROVE  JInv'
  BY <1>5, StartsStay, InstallCommandStays, FailureStays, KillStays, StateCommandStays
<1> QED BY <1>1, <1>2, <1>3, <1>4, <1>5 DEF Next

LEMMA BothInvariants == Spec => [](IInv /\ JInv)
BY InvInit, StagesAtFirst, InvNext, StagesNext, PTL DEF Spec
-----------------------------------------------------------------------------
(* A step of a command moves no other one.                                 *)

LEMMA InstallMovesOne ==
  ASSUME Types, NEW q \in Proc, InstallCommand(q), NEW p \in Proc \ {q}
  PROVE  pc'[p] = pc[p] /\ job'[p] = job[p]
<1>1. ASSUME NEW from, NEW to, NEW ok, Read(q, from, to, ok) PROVE pc'[p] = pc[p]
  BY <1>1 DEF Read, Goto, Types
<1>2. ASSUME NEW from, NEW to, NEW changes, NEW b, Install(q, from, to, changes, b) PROVE pc'[p] = pc[p] /\ job'[p] = job[p]
  BY <1>2 DEF Install, Goto, Did, Types
<1>3. ASSUME NEW from, NEW why, Refuses(q, from, why) PROVE pc'[p] = pc[p] /\ job'[p] = job[p]
  BY <1>3 DEF Refuses, Goto, Types
<1>4. ASSUME NEW from, NEW to, NEW ok, Verifies(q, from, to, ok) PROVE pc'[p] = pc[p] /\ job'[p] = job[p]
  BY <1>1, <1>4 DEF Verifies
<1>5. CASE InspectHost(q) \/ Detect(q)
  BY <1>1, <1>5 DEF InspectHost, Detect, Types
<1>6. CASE Mask(q) \/ InstallPackages(q) \/ FindAccount(q) \/ CreateGroup(q) \/ CreateUser(q) \/ AddSubuid(q)
  BY <1>2, <1>3, <1>6 DEF Mask, InstallPackages, FindAccount, CreateGroup, CreateUser, AddSubuid
<1>7. CASE AddSubgid(q)
  BY <1>7 DEF AddSubgid, Goto, Types
<1>8. CASE MakeDirectory(q)
  <2>1. PICK next : JobAfterDirectory(q) = [job EXCEPT ![q] = next]
    BY DEF JobAfterDirectory
  <2>2. CASE Refuses(q, "make dir", BaseDirExists(BaseDir[job[q].i]))
    BY <1>3, <2>2
  <2>3. CASE ~Refuses(q, "make dir", BaseDirExists(BaseDir[job[q].i]))
    <3>1. PICK k \in {job, JobAfterDirectory(q)} :
            (\E l : Goto(q, l)) /\ job' = [k EXCEPT ![q].changed = TRUE, ![q].counted = TRUE]
      BY <1>8, <2>3 DEF MakeDirectory
    <3>2. k[p] = job[p] /\ DOMAIN k = Proc
      BY <2>1 DEF Types
    <3>3. job'[p] = job[p]
      BY <3>1, <3>2
    <3> QED BY <3>1, <3>3 DEF Goto, Types
  <2> QED BY <2>2, <2>3
<1>9. CASE CheckDirectory(q) \/ ChownDirectory(q) \/ CheckFile(q) \/ WriteFile(q)
  BY <1>9 DEF CheckDirectory, ChownDirectory, CheckFile, WriteFile, JobAfterDirectory, Goto, Types
<1>14. CASE OpenFile(q) \/ RemoveLegacy(q) \/ LinkXdg(q) \/ AddRule(q)
  BY <1>2, <1>3, <1>14 DEF OpenFile, RemoveLegacy, LinkXdg, AddRule
<1>10. CASE CheckLegacy(q) \/ TransferLegacy(q) \/ SetUpXdg(q) \/ Reload(q) \/ LabelStorage(q) \/ Restorecon(q)
  BY <1>2, <1>3, <1>10 DEF CheckLegacy, TransferLegacy, SetUpXdg, Reload, LabelStorage, Restorecon
<1>11. CASE EnableLinger(q) \/ StartManager(q) \/ MaskUser(q) \/ ApplyFirewall(q) \/ EnableFirewall(q)
  BY <1>2, <1>3, <1>11 DEF EnableLinger, StartManager, MaskUser, ApplyFirewall, EnableFirewall
<1>12. CASE StartFirewall(q)
  BY <1>12 DEF StartFirewall, Goto, Types
<1>13. CASE VerifyHost(q) \/ VerifyFiles(q) \/ VerifyRuntime(q) \/ Ready(q) \/ Observe(q) \/ ObserveRest(q) \/ ObserveNative(q)
  BY <1>4, <1>13 DEF VerifyHost, VerifyFiles, VerifyRuntime, Ready, Observe, ObserveRest, ObserveNative
<1> QED BY <1>5, <1>6, <1>7, <1>8, <1>9, <1>10, <1>11, <1>12, <1>13, <1>14 DEF InstallCommand

LEMMA StateMovesOne ==
  ASSUME Types, NEW q \in Proc, StateCommand(q), NEW p \in Proc \ {q}
  PROVE  pc'[p] = pc[p] /\ job'[p] = job[p]
<1>1. ASSUME NEW from, NEW to, NEW ok, Read(q, from, to, ok), job' = job PROVE pc'[p] = pc[p] /\ job'[p] = job[p]
  BY <1>1 DEF Read, Goto, Types
<1>2. CASE InitializeStart(q) \/ InitializeAgain(q) \/ Validate(q) \/ StageMarker(q) \/ FinalValidate(q)
           \/ Publish(q) \/ ValidateCommand(q)
  BY <1>1, <1>2 DEF InitializeStart, InitializeAgain, Validate, StageMarker, FinalValidate, Publish, ValidateCommand
<1>3. CASE CreateDirectory(q)
  BY <1>3 DEF CreateDirectory, Goto, Types
<1>4. CASE OwnDirectory(q) \/ OpenMarker(q) \/ WriteMarker(q) \/ OwnMarker(q) \/ RenameMarker(q)
  BY <1>4 DEF OwnDirectory, OpenMarker, WriteMarker, OwnMarker, RenameMarker, Goto, Types
<1>5. CASE CopySecret(q) \/ RenameTree(q)
  BY <1>5 DEF CopySecret, RenameTree, Goto, Types
<1> QED BY <1>2, <1>3, <1>4, <1>5 DEF StateCommand

LEMMA StartMovesOne ==
  ASSUME Types, NEW q \in Proc, NEW p \in Proc \ {q},
         \/ StartInstall(q) \/ StartVerify(q) \/ StartPlan(q) \/ StartFacts(q) \/ StartState(q)
         \/ StartPreparation(q) \/ StartNative(q)
  PROVE  pc'[p] = pc[p] /\ job'[p] = job[p]
<1>1. ASSUME NEW cmd, NEW doc, NEW flag, NEW ok, NEW to, Start(q, cmd, doc, flag, ok, to, Standing)
      PROVE  pc'[p] = pc[p] /\ job'[p] = job[p]
  BY <1>1 DEF Start, Types
<1> QED BY <1>1 DEF StartInstall, StartVerify, StartPlan, StartFacts, StartState, StartPreparation, StartNative

\* A running command that ends in a step which is not a reboot has made that step itself.
LEMMA ItsOwnStep ==
  ASSUME Types, [Next]_baseVars, NEW p \in Proc, pc'[p] \in {"ok", "refused"},
         pc'[p] # pc[p] \/ job'[p] # job[p]
  PROVE  \/ StartInstall(p) \/ StartVerify(p) \/ StartPlan(p) \/ StartFacts(p) \/ StartState(p)
         \/ StartPreparation(p) \/ StartNative(p)
         \/ InstallCommand(p) \/ CommandFails(p) \/ (StateCommand(p) /\ UNCHANGED base)
<1>1. ~UNCHANGED baseVars /\ ~ReplaceSource /\ ~Deviate(StateFlaw \cup BaseFlaw \cup PreparationFlaw)
  BY DEF baseVars, commandVars, ReplaceSource, Deviate
<1>2. ~Reboot
  BY DEF Reboot
<1>3. ASSUME NEW q \in Proc, Kill(q) \/ Interrupt(q) PROVE pc'[q] = "killed" /\ \A r \in Proc \ {q} : pc'[r] = pc[r] /\ job'[r] = job[r]
  BY <1>3 DEF Kill, Interrupt, Goto, Types
<1>4. ASSUME NEW q \in Proc, Kill(q) \/ Interrupt(q) PROVE FALSE
  BY <1>3, <1>4
<1>5. PICK q \in Proc : \/ StartInstall(q) \/ StartVerify(q) \/ StartPlan(q) \/ StartFacts(q) \/ StartState(q)
                        \/ StartPreparation(q) \/ StartNative(q)
                        \/ InstallCommand(q) \/ CommandFails(q) \/ (StateCommand(q) /\ UNCHANGED base)
  BY <1>1, <1>2, <1>4 DEF Next
<1>7. CommandFails(q) => \A r \in Proc \ {q} : pc'[r] = pc[r] /\ job'[r] = job[r]
  BY DEF CommandFails, Goto, Types
<1>6. q = p
  BY <1>5, <1>7, InstallMovesOne, StateMovesOne, StartMovesOne
<1> QED BY <1>5, <1>6
-----------------------------------------------------------------------------
(* What an installation is refused for.                                    *)

\* Nothing that an administrator would have to see to.
Untouched == off = {} /\ ~PrematureState /\ ~Torn

LEMMA AllIsClean == ASSUME Untouched, NEW s, NEW points PROVE Clean(s, points, off)
BY DEF Untouched, Clean

LEMMA NothingCollides == ASSUME Untouched, NEW k PROVE ~Collides(k)
<1>1. OtherRanges(k) = {} /\ EffectiveIds = {}
  BY DEF Untouched, OtherRanges, EffectiveIds
<1>2. PICK s : s = SetToSeq(OtherRanges(k))
  OBVIOUS
<1>3. s \in Seq({})
  BY <1>1, <1>2, FS_EmptySet, SequenceOfSet
<1>4. s \in Seq(IdPair) /\ Len(s) = 0
  <2>1. Len(s) = 0
    <3>1. Len(s) \in Nat /\ \A n \in 1 .. Len(s) : s[n] \in {}
      BY <1>3
    <3> QED BY <3>1
  <2> QED BY <1>3, <2>1
<1> DEFINE w == s \o <<Selected, Selected>>
           Same(r) == r[1] = Selected[1] /\ r[1] + r[2] = Selected[1] + Selected[2]
<1>5. DOMAIN w = 1 .. 2 /\ w[1] = Selected /\ w[2] = Selected
  <2>1. Selected \in IdPair
    BY DEF Selected, IdPair
  <2> QED BY <1>4, <2>1
<1>6. \A n \in DOMAIN w : Same(w[n])
  BY <1>5
<1>7. {n \in DOMAIN w : Same(w[n])} = 1 .. 2
  BY <1>5, <1>6
<1>8. Cardinality(1 .. 2) = 2
  <2>1. \A n \in Nat : Cardinality(1 .. n) = n
    BY FS_Interval
  <2> QED BY <2>1
<1>9. SubidsIndependent(Selected, w, EffectiveIds)
  <2> HIDE DEF w
  <2>1. \A n \in EffectiveIds : FALSE
    BY <1>1
  <2> QED BY <1>6, <1>7, <1>8, <2>1 DEF SubidsIndependent
<1> QED BY <1>2, <1>9 DEF Collides

LEMMA HostIsClean == ASSUME Untouched PROVE Platform /\ Dormant
<1>1. Platform
  BY AllIsClean DEF Untouched, Platform, Environment, AdmitPlatform, OsRelease, Repositories, SigningKey, NoAuthority
<1> QED BY <1>1, AllIsClean DEF Dormant

\* Of the states of a file or a directory only a few are not torn.
LEMMA PathsAreWhole ==
  ASSUME Types, OldLayout, Untouched
  PROVE  /\ \A f \in FileName : FileExists(f) => PublicFile(f)
         /\ \A d \in BaseDirName : BaseDirExists(d) => base.dirs[d] \in {"legacy", "right"}
         /\ \A d \in BaseDirName : base.dirs[d] = "right" => Directory(d)
         /\ \A f \in FileName : base.files[f] = "right" => PublicFile(f)
         /\ Legacy => LegacyIsExact
<1>1. /\ base \in BaseRecord /\ off = {}
      /\ \A f \in FileName : base.files[f] # "partial"
      /\ \A d \in BaseDirName : base.dirs[d] \notin {"torn", "half"}
  BY DEF Types, Untouched, Torn
<1>2. \A f \in FileName : FileExists(f) => PublicFile(f)
  BY <1>1 DEF BaseRecord, FileExists, PublicFile
<1>3. \A d \in BaseDirName : BaseDirExists(d) => base.dirs[d] \in {"legacy", "right"}
  BY <1>1 DEF BaseRecord, BaseDirExists
<1>4. \A d \in BaseDirName : base.dirs[d] = "right" => Directory(d)
  BY <1>1 DEF Directory
<1>5. \A f \in FileName : base.files[f] = "right" => PublicFile(f)
  BY <1>1 DEF PublicFile
<1>6. Legacy => LegacyIsExact
  <2>1. "config" \in BaseDirName /\ "home" \in BaseDirName
    BY AllPaths DEF BaseDir
  <2>2. Legacy => base.dirs["home"] = "right"
    BY <2>1 DEF Legacy, OldLayout
  <2> QED BY <1>4, <2>1, <2>2, AllIsClean DEF LegacyIsExact
<1> QED BY <1>2, <1>3, <1>4, <1>5, <1>6

\* The steps of an installation before the account has its runtime.
LEMMA EarlyIsNotRefused ==
  ASSUME IInv, JInv, Untouched, NEW p \in Running, job[p].cmd = "install", ~Taken(p),
         \/ InspectHost(p) \/ Detect(p) \/ Mask(p) \/ InstallPackages(p) \/ FindAccount(p) \/ CreateGroup(p)
         \/ CreateUser(p) \/ AddSubuid(p) \/ AddSubgid(p)
  PROVE  pc'[p] # "refused"
<1>1. Types /\ OldLayout /\ base \in BaseRecord /\ p \in Proc
  BY DEF IInv, JInv, Types, Running
<1>2. ASSUME NEW from, NEW to, NEW changes, NEW b, Install(p, from, to, changes, b) PROVE pc'[p] = to
  BY <1>1, <1>2 DEF Install, Goto, Types
<1>3. CASE InspectHost(p)
  BY <1>1, <1>3, HostIsClean DEF InspectHost, Read, Goto, Types
<1>4. CASE Detect(p)
  <2>1. \A d \in BaseDirName : BaseDirExists(d) /\ ~(Legacy /\ d = "config") => Directory(d)
    BY <1>1, PathsAreWhole DEF Legacy, OldLayout
  <2>2. Pinned
    BY AllIsClean DEF Pinned
  <2>3. pc' = [pc EXCEPT ![p] = "mask"]
    BY <1>1, <1>4, <2>1, <2>2, PathsAreWhole DEF Detect, Read, Goto
  <2> QED BY <1>1, <2>3 DEF Types
<1>5. CASE Mask(p) \/ InstallPackages(p)
  BY <1>2, <1>5, AllIsClean DEF Mask, InstallPackages, Refuses, Units
<1>6. CASE FindAccount(p)
  <2>1. Available /\ (base.account = "right" => Account)
    BY AllIsClean DEF Available, Account, SudoAuthority
  <2> QED BY <1>2, <1>6, <2>1 DEF FindAccount, Refuses
<1>9. CASE CreateGroup(p) \/ CreateUser(p)
  BY <1>2, <1>9, AllIsClean DEF CreateGroup, CreateUser, Refuses
<1>7. CASE AddSubuid(p)
  BY <1>2, <1>7, AllIsClean, NothingCollides DEF AddSubuid, Refuses
<1>8. CASE AddSubgid(p)
  BY <1>1, <1>8, AllIsClean, NothingCollides DEF AddSubgid, Goto, Types
<1> QED BY <1>3, <1>4, <1>5, <1>6, <1>7, <1>8, <1>9

\* The steps over its files and directories.
LEMMA PathsAreNotRefused ==
  ASSUME IInv, JInv, Untouched, NEW p \in Running, job[p].cmd = "install", ~Taken(p),
         \/ CheckDirectory(p) \/ MakeDirectory(p) \/ ChownDirectory(p) \/ CheckFile(p) \/ OpenFile(p) \/ WriteFile(p)
         \/ CheckLegacy(p) \/ RemoveLegacy(p) \/ TransferLegacy(p) \/ SetUpXdg(p) \/ LinkXdg(p) \/ Reload(p)
  PROVE  pc'[p] # "refused"
<1>1. Types /\ OldLayout /\ base \in BaseRecord /\ p \in Proc /\ job[p] \in JobRecord /\ Placed(p)
  BY DEF IInv, JInv, Types, Running, Each
<1>2. PathsSeen(pc[p], job[p].i, job[p].legacy)
  BY DEF JInv, Stage, SeenTo
<1>3. ASSUME NEW from, NEW to, NEW changes, NEW b, Install(p, from, to, changes, b) PROVE pc'[p] = to
  BY <1>1, <1>3 DEF Install, Goto, Types
<1>4. "config" \in BaseDirName /\ "storage" \in FileName
  BY AllPaths DEF BaseDir, File
<1>5. CASE CheckDirectory(p)
  <2>1. pc[p] = "dirs" /\ job[p].i \in 1 .. 4
    BY <1>1, <1>5, Loops DEF CheckDirectory, Step, Placed
  <2>2. PICK d \in BaseDirName : d = BaseDir[job[p].i]
    BY <2>1, Loops, NextDirectory
  <2>3. BaseDirExists(d) => Directory(d) \/ (d = "config" /\ job[p].legacy)
    <3>1. base.dirs[d] = "legacy" => d = "config"
      BY <1>1 DEF OldLayout
    <3>2. base.dirs["config"] = "legacy" => job[p].legacy
      BY <1>2, <2>1 DEF PathsSeen
    <3> QED BY <1>1, <3>1, <3>2, PathsAreWhole
  <2>4. PICK l \in {"files", "dirs", "make dir"} : pc' = [pc EXCEPT ![p] = l]
    BY <1>5, <2>2, <2>3 DEF CheckDirectory, AfterDirectory, Goto
  <2> QED BY <1>1, <2>4 DEF Types
<1>11. CASE MakeDirectory(p)
  <2>1. pc[p] = "make dir" => ~BaseDirExists(BaseDir[job[p].i])
    BY DEF Taken, BaseDirExists, Untouched
  <2>2. PICK l \in {"files", "dirs", "chown dir"} : pc' = [pc EXCEPT ![p] = l]
    BY <1>11, <2>1 DEF MakeDirectory, Refuses, Step, AfterDirectory, Goto
  <2> QED BY <1>1, <2>2 DEF Types
<1>6. CASE ChownDirectory(p) \/ WriteFile(p)
  BY <1>1, <1>6 DEF ChownDirectory, WriteFile, Goto, AfterDirectory, AfterFile, Types
<1>12. CASE OpenFile(p)
  <2>1. pc[p] = "open file" => ~FileExists(File[job[p].i])
    BY DEF Taken, FileExists, Untouched
  <2> QED BY <1>3, <1>12, <2>1 DEF OpenFile, Refuses, Step
<1>7. CASE CheckFile(p)
  <2>1. pc[p] = "files" /\ job[p].i \in 1 .. 4
    BY <1>1, <1>7, Loops DEF CheckFile, Step, Placed
  <2>2. PICK f \in FileName : f = File[job[p].i]
    BY <2>1, AllPaths
  <2>3. FileExists(f) => PublicFile(f)
    BY <1>1, PathsAreWhole
  <2> QED BY <1>1, <1>7, <2>2, <2>3 DEF CheckFile, Goto, AfterFile, Types
<1>8. CASE CheckLegacy(p)
  <2>1. pc[p] = "repair"
    BY <1>8 DEF CheckLegacy, Refuses, Install, Step
  <2>2. base.files["storage"] = "right"
    BY <1>2, <1>4, <2>1 DEF PathsSeen, ToMask, ToPackages, ToAccount, ToUid, ToGid, ToDirectories, ToFiles
  <2>3. PublicFile("storage") /\ (Legacy => LegacyIsExact)
    BY <1>1, <1>4, <2>2, PathsAreWhole
  <2> QED BY <1>3, <1>8, <2>3 DEF CheckLegacy, Refuses
<1>9. CASE TransferLegacy(p) \/ Reload(p)
  BY <1>3, <1>9 DEF TransferLegacy, Reload
<1>10. CASE SetUpXdg(p)
  <2>1. pc[p] = "xdg"
    BY <1>10 DEF SetUpXdg, Refuses, Install, Step
  <2>2. Passed("config", job[p].legacy) /\ base.dirs["config"] # "legacy"
    BY <1>2, <1>4, <2>1 DEF PathsSeen, ToMask, ToPackages, ToAccount, ToUid, ToGid, ToDirectories, ToFiles, ToRepair
  <2>3. base.dirs["config"] = "right"
    BY <1>4, <2>2 DEF Passed, Untouched, Torn
  <2>4. Directory("config")
    BY <1>1, <1>4, <2>3, PathsAreWhole
  <2> QED BY <1>3, <1>10, <2>4, AllIsClean DEF SetUpXdg, Refuses
<1>13. CASE RemoveLegacy(p) \/ LinkXdg(p)
  BY <1>3, <1>13 DEF RemoveLegacy, LinkXdg, Refuses
<1> QED BY <1>5, <1>6, <1>7, <1>8, <1>9, <1>10, <1>11, <1>12, <1>13

\* The steps over its services.
LEMMA ServicesAreNotRefused ==
  ASSUME IInv, JInv, Untouched, NEW p \in Running, job[p].cmd = "install", ~Taken(p),
         \/ LabelStorage(p) \/ AddRule(p) \/ Restorecon(p) \/ EnableLinger(p) \/ StartManager(p) \/ MaskUser(p) \/ ApplyFirewall(p)
         \/ EnableFirewall(p) \/ StartFirewall(p)
  PROVE  pc'[p] # "refused"
<1>1. Types /\ base \in BaseRecord /\ p \in Proc
  BY DEF IInv, Types, Running
<1>2. ASSUME NEW from, NEW to, NEW changes, NEW b, Install(p, from, to, changes, b) PROVE pc'[p] = to
  BY <1>1, <1>2 DEF Install, Goto, Types
<1>3. CASE LabelStorage(p)
  <2>1. base.label \in {"none", "right"}
    BY <1>1 DEF BaseRecord, Untouched, Torn
  <2>2. Labels \/ (base.label = "none" /\ Clean("labels", {"foreign rule", "populated store"}, off))
    BY <2>1, AllIsClean DEF Labels
  <2> QED BY <1>2, <1>3, <2>2 DEF LabelStorage, Refuses
<1>7. CASE AddRule(p)
  BY <1>2, <1>7 DEF AddRule, Refuses
<1>4. CASE Restorecon(p) \/ MaskUser(p) \/ EnableFirewall(p)
  BY <1>2, <1>4, AllIsClean DEF Restorecon, MaskUser, EnableFirewall, Refuses, Units
<1>5. CASE EnableLinger(p) \/ StartManager(p) \/ ApplyFirewall(p)
  BY <1>2, <1>5 DEF EnableLinger, StartManager, ApplyFirewall
<1>6. CASE StartFirewall(p)
  BY <1>1, <1>6 DEF StartFirewall, Goto, Types
<1> QED BY <1>3, <1>4, <1>5, <1>6, <1>7

\* The verification of an installation, which has seen to everything that it looks at.
LEMMA VerificationIsNotRefused ==
  ASSUME IInv, JInv, Untouched, NEW p \in Running, job[p].cmd = "install",
         VerifyHost(p) \/ VerifyFiles(p) \/ VerifyRuntime(p) \/ Ready(p)
  PROVE  pc'[p] # "refused"
<1>1. Types /\ OldLayout /\ base \in BaseRecord /\ p \in Proc
  BY DEF IInv, JInv, Types, Running
<1>2. AccountSeen(pc[p]) /\ PathsSeen(pc[p], job[p].i, job[p].legacy) /\ ServicesSeen(pc[p])
  BY DEF JInv, Stage, SeenTo
<1>3. ASSUME NEW from \in VerifyStep, NEW to, to # "refused", NEW ok, Verifies(p, from, to, ok), ok PROVE pc'[p] # "refused"
  BY <1>1, <1>3 DEF Verifies, Read, Goto, Types
<1>4. pc[p] \in VerifyStep
  BY DEF VerifyHost, VerifyFiles, VerifyRuntime, Ready, Verifies, Read, Step
<1>5. /\ base.masked /\ base.packages = 2 /\ base.account = "right" /\ base.uid /\ base.gid
  BY <1>2, <1>4 DEF AccountSeen, ToMask, ToPackages, ToAccount, ToUid, ToGid
<1>6. /\ \A f \in FileName : base.files[f] = "right"
      /\ \A d \in BaseDirName : Passed(d, job[p].legacy)
      /\ base.dirs["config"] = "right" /\ base.xdg
  BY <1>2, <1>4 DEF PathsSeen, ToMask, ToPackages, ToAccount, ToUid, ToGid, ToDirectories, ToFiles, ToRepair, ToXdg, ToLink
<1>7. /\ base.label = "right" /\ base.linger /\ base.manager # "down" /\ base.usermasked /\ base.firewall
      /\ base.enabled /\ base.active
  BY <1>2, <1>4 DEF ServicesSeen, ToMask, ToPackages, ToAccount, ToUid, ToGid, ToDirectories, ToFiles, ToRepair, ToXdg,
     ToLink, ToLabels, ToLinger, ToManager, ToUserMask, ToFirewall, ToEnable, ToStart
<1>8. CASE VerifyHost(p)
  <2>1. Account /\ Subids
    BY <1>5, AllIsClean, NothingCollides DEF Account, SudoAuthority, Subids
  <2> QED BY <1>3, <1>8, <2>1, HostIsClean DEF VerifyHost
<1>9. CASE VerifyFiles(p)
  <2>1. \A d \in BaseDirName : base.dirs[d] = "right"
    BY <1>6 DEF Passed
  <2>2. (\A f \in FileName : PublicFile(f)) /\ (\A d \in BaseDirName : Directory(d))
    BY <1>1, <1>6, <2>1, PathsAreWhole
  <2>3. Packages
    BY <1>5, AllIsClean DEF Packages, Pinned, NativePackages, PackageHeader, OsRelease, SigningKey, AdmitPackage,
       PodmanVersion, PostgresqlPackage, HaproxyPackage
  <2>4. "config" \in BaseDirName
    BY AllPaths DEF BaseDir
  <2>5. Xdg /\ Units("system") /\ Units("user")
    BY <1>6, <2>2, <2>4, AllIsClean DEF Xdg, Units
  <2> DEFINE ok == /\ Packages /\ (\A f \in FileName : PublicFile(f)) /\ (\A d \in BaseDirName : Directory(d))
                   /\ Xdg /\ Units("system") /\ base.masked /\ Units("user") /\ base.usermasked
  <2>6. ok
    BY <1>5, <1>7, <2>2, <2>3, <2>5
  <2>7. Verifies(p, "verify files", "verify runtime", ok)
    BY <1>9 DEF VerifyFiles
  <2> HIDE DEF ok
  <2> QED BY <1>3, <2>6, <2>7
<1>10. CASE VerifyRuntime(p)
  <2>1. base.manager = "right"
    BY <1>1, <1>7 DEF BaseRecord, Untouched, Torn
  <2>2. Labels /\ Runtime
    BY <1>7, <2>1, AllIsClean DEF Labels, Runtime, PodmanShape, AdmitRuntime, RuntimeRootless, RuntimeEngine,
       RuntimeSockets, RuntimeLocality, PodmanVersion
  <2>3. PICK to \in {"ready", "ok"} :
          Verifies(p, "verify runtime", to,
                   /\ Labels /\ Runtime /\ base.linger /\ base.enabled /\ base.active /\ base.firewall
                   /\ Clean("firewall", {"service state", "preview"}, off))
    BY <1>10 DEF VerifyRuntime
  <2> QED BY <1>3, <1>7, <2>2, <2>3, AllIsClean
<1>11. CASE Ready(p)
  BY <1>3, <1>11, AllIsClean DEF Ready
<1> QED BY <1>8, <1>9, <1>10, <1>11
\* Where a state command stands.
LEMMA StateCommandSteps == ASSUME NEW p \in Proc, StateCommand(p) PROVE pc[p] \in StateStep
BY DEF StateCommand, InitializeStart, InitializeAgain, Validate, StageMarker, FinalValidate, Publish, ValidateCommand,
   CreateDirectory, OwnDirectory, OpenMarker, WriteMarker, OwnMarker, RenameMarker, CopySecret, RenameTree, Read, Step

LEMMA InstallCommandSteps == ASSUME NEW p \in Proc, InstallCommand(p) PROVE pc[p] \in InstallStep
BY DEF InstallCommand, InspectHost, Detect, Mask, InstallPackages, FindAccount, CreateGroup, CreateUser, AddSubuid,
   AddSubgid, CheckDirectory, MakeDirectory, ChownDirectory, CheckFile, OpenFile, WriteFile, CheckLegacy, RemoveLegacy,
   TransferLegacy, SetUpXdg, LinkXdg, Reload, LabelStorage, AddRule, Restorecon,
   EnableLinger, StartManager, MaskUser, ApplyFirewall, EnableFirewall, StartFirewall, VerifyHost, VerifyFiles,
   VerifyRuntime, Ready, Observe, ObserveRest, ObserveNative, Verifies, Install, Refuses, Read, Step

\* An installation is refused only for a deviation of the host, for production state, for an
\* item that a killed or concurrent run left torn, for a command that failed, or because
\* another installation has made an item between this one's check and its exclusive
\* creation: everything else that such runs leave is completed by the next one
\* (install_public_base, account, publish, directory, storage_labels).
THEOREM OnlyTornRefuses == Spec => OnlyTornIsRefused
<1> DEFINE A == \A p \in Proc :
                  job[p].cmd = "install" /\ pc[p] \notin Ended /\ pc'[p] = "refused" =>
                    off # {} \/ PrematureState \/ Torn \/ Taken(p) \/ CommandFails(p)
<1>1. IInv /\ JInv /\ [Next]_baseVars => A
  <2> SUFFICES ASSUME IInv, JInv, [Next]_baseVars, NEW p \in Proc,
                      job[p].cmd = "install", pc[p] \notin Ended, pc'[p] = "refused", Untouched,
                      ~Taken(p), ~CommandFails(p)
               PROVE  FALSE
    BY DEF Untouched
  <2>1. p \in Running /\ Types /\ OfItsKind(p)
    BY DEF Running, IInv, JInv, Stage
  <2>2. pc[p] \in CheckStep \cup WorkStep \cup (VerifyStep \ {"ready"})
    BY <2>1 DEF OfItsKind
  <2>3. \/ StartInstall(p) \/ StartVerify(p) \/ StartPlan(p) \/ StartFacts(p) \/ StartState(p)
        \/ StartPreparation(p) \/ StartNative(p)
        \/ InstallCommand(p) \/ StateCommand(p)
    BY <2>1, ItsOwnStep
  <2>4. ~(\/ StartInstall(p) \/ StartVerify(p) \/ StartPlan(p) \/ StartFacts(p) \/ StartState(p)
          \/ StartPreparation(p) \/ StartNative(p))
    <3>1. ASSUME NEW cmd, NEW doc, NEW flag, NEW ok, NEW to, Start(p, cmd, doc, flag, ok, to, Standing) PROVE FALSE
      BY <3>1 DEF Start
    <3> QED BY <3>1 DEF StartInstall, StartVerify, StartPlan, StartFacts, StartState, StartPreparation, StartNative
  <2>5. ~StateCommand(p)
    <3>1. StateCommand(p) => pc[p] \in StateStep
      BY StateCommandSteps
    <3> QED BY <2>2, <3>1
  <2>6. ~Observe(p) /\ ~ObserveRest(p) /\ ~ObserveNative(p)
    BY <2>2 DEF Observe, ObserveRest, ObserveNative, Verifies, Read, Step
  <2> QED BY <2>1, <2>3, <2>4, <2>5, <2>6, EarlyIsNotRefused, PathsAreNotRefused, ServicesAreNotRefused,
             VerificationIsNotRefused DEF InstallCommand
<1>2. [][A]_baseVars <=> OnlyTornIsRefused
  BY DEF OnlyTornIsRefused
<1> HIDE DEF A
<1> QED BY <1>1, <1>2, BothInvariants, PTL DEF Spec
-----------------------------------------------------------------------------
(* What a command that ends well has seen.                                 *)

\* What a step of a running command that reports success can be.
LEMMA LastSteps ==
  ASSUME Types, NEW p \in Proc, pc[p] \notin Ended, pc'[p] = "ok",
         InstallCommand(p) \/ (StateCommand(p) /\ UNCHANGED base)
  PROVE  \/ VerifyRuntime(p) \/ Ready(p) \/ ObserveRest(p) \/ ObserveNative(p)
         \/ ((InitializeAgain(p) \/ FinalValidate(p)) /\ UNCHANGED base)
         \/ (RenameTree(p) /\ job[p].cmd = "publish") \/ ValidateCommand(p)
<1>1. ASSUME NEW from, NEW to, NEW changes, NEW b, Install(p, from, to, changes, b) PROVE pc'[p] = to
  BY <1>1 DEF Install, Goto, Types
<1>2. ASSUME NEW from, NEW reason, Refuses(p, from, reason) PROVE pc'[p] = "refused"
  BY <1>2 DEF Refuses, Goto, Types
<1>3. ~InspectHost(p) /\ ~Detect(p) /\ ~VerifyHost(p) /\ ~VerifyFiles(p) /\ ~Observe(p)
  BY DEF InspectHost, Detect, VerifyHost, VerifyFiles, Observe, Verifies, Read, Goto, Types
<1>4. ~Mask(p) /\ ~InstallPackages(p) /\ ~FindAccount(p) /\ ~CreateGroup(p) /\ ~CreateUser(p) /\ ~AddSubuid(p)
  BY <1>1, <1>2 DEF Mask, InstallPackages, FindAccount, CreateGroup, CreateUser, AddSubuid
<1>5. ~AddSubgid(p) /\ ~CheckDirectory(p) /\ ~ChownDirectory(p) /\ ~CheckFile(p) /\ ~WriteFile(p) /\ ~StartFirewall(p)
  BY DEF AddSubgid, CheckDirectory, ChownDirectory, CheckFile, WriteFile, StartFirewall, AfterDirectory, AfterFile,
     Goto, Types
<1>12. ~MakeDirectory(p)
  BY <1>2 DEF MakeDirectory, AfterDirectory, Goto, Types
<1>13. ~OpenFile(p) /\ ~RemoveLegacy(p) /\ ~LinkXdg(p) /\ ~AddRule(p)
  BY <1>1, <1>2 DEF OpenFile, RemoveLegacy, LinkXdg, AddRule
<1>6. ~CheckLegacy(p) /\ ~TransferLegacy(p) /\ ~SetUpXdg(p) /\ ~Reload(p) /\ ~LabelStorage(p) /\ ~Restorecon(p)
  BY <1>1, <1>2 DEF CheckLegacy, TransferLegacy, SetUpXdg, Reload, LabelStorage, Restorecon
<1>7. ~EnableLinger(p) /\ ~StartManager(p) /\ ~MaskUser(p) /\ ~ApplyFirewall(p) /\ ~EnableFirewall(p)
  BY <1>1, <1>2 DEF EnableLinger, StartManager, MaskUser, ApplyFirewall, EnableFirewall
<1>8. ~InitializeStart(p) /\ ~Validate(p) /\ ~StageMarker(p) /\ ~Publish(p)
  BY DEF InitializeStart, Validate, StageMarker, Publish, Read, Goto, Types
<1>9. ~CreateDirectory(p) /\ ~OwnDirectory(p) /\ ~CopySecret(p)
  BY DEF CreateDirectory, OwnDirectory, CopySecret, Goto, Types
<1>10. ~OpenMarker(p) /\ ~WriteMarker(p) /\ ~OwnMarker(p) /\ ~RenameMarker(p)
  BY DEF OpenMarker, WriteMarker, OwnMarker, RenameMarker, Goto, Types
<1>11. RenameTree(p) => job[p].cmd = "publish"
  BY DEF RenameTree, Goto, Types
<1> QED BY <1>3, <1>4, <1>5, <1>6, <1>7, <1>8, <1>9, <1>10, <1>11, <1>12, <1>13 DEF InstallCommand, StateCommand

\* The documents of such a command stay those that it has admitted.
LEMMA LastStepsAdmit ==
  ASSUME Types, NEW p \in Proc, Admits(p),
         \/ VerifyRuntime(p) \/ Ready(p) \/ ObserveRest(p) \/ ObserveNative(p)
         \/ InitializeAgain(p) \/ FinalValidate(p) \/ RenameTree(p) \/ ValidateCommand(p)
  PROVE  Admits(p)'
<1>1. CASE RenameTree(p)
  <2>1. PICK done : job' = [job EXCEPT ![p].copied = <<>>, ![p].changed = done]
    BY <1>1 DEF RenameTree
  <2>2. job[p] \in JobRecord
    BY DEF Types
  <2>3. job'[p].doc = job[p].doc /\ job'[p].cmd = job[p].cmd
    BY <2>1, <2>2 DEF Types, JobRecord
  <2> QED BY <2>3 DEF Admits
<1>2. CASE ~RenameTree(p)
  <2>1. job' = job
    BY <1>2 DEF VerifyRuntime, Ready, ObserveRest, ObserveNative, Verifies, InitializeAgain, FinalValidate, ValidateCommand
  <2> QED BY <2>1 DEF Admits
<1> QED BY <1>1, <1>2

\* A deviation of one subject and one point.
LEMMA OnlyPoint == ASSUME NEW s, NEW x, NEW f, f \in {s} \X {x} PROVE f = <<s, x>>
OBVIOUS

\* A verification looks for every deviation of the base that is not harmless.
LEMMA AllIsLookedFor ==
  ASSUME NEW f \in BaseFlaw, f \notin Harmless, f \notin {"ready"} \X {"conformance", "artifacts"}
  PROVE  f \in HostLook \cup FilesLook \cup RuntimeLook
<1>1. CASE f \in {"platform"} \X PlatformFlaw \cup {"authority"} \X AuthorityFlaw \cup {"services"} \X DormantFlaw
  BY <1>1 DEF HostLook
<1>2. CASE f \in {"file"} \X FileName \cup {"dir"} \X BaseDirName
  BY <1>2 DEF FilesLook
<1>3. CASE f \in {"packages"} \X {"pin", "key shape", "key packet", "identity", "nevra", "header", "signature",
                          "verification", "repository", "architecture", "podman version", "postgresql series",
                          "haproxy identity", "haproxy binary", "haproxy features"}
  BY <1>3 DEF FilesLook
<1>4. CASE f \in {"account"} \X {"uid taken", "gid taken", "group", "identity", "groups", "sudo"}
  <2>1. f \notin {"account"} \X {"uid taken", "gid taken"}
    BY DEF Harmless
  <2>2. f \in {"account"} \X {"identity", "groups", "group", "sudo"}
    BY <1>4, <2>1
  <2> QED BY <2>2 DEF HostLook
<1>5. CASE f \in {"subids"} \X {"untrusted file", "own entry"}
  BY <1>5 DEF HostLook
<1>6. CASE f \in {"xdg"} \X {"link", "directory"} \cup {"system", "user"} \X {"unit active", "unit enabled"}
  BY <1>6 DEF FilesLook
<1>7. CASE f \in {"labels"} \X {"foreign rule", "drift", "populated store"}
  <2>1. f # <<"labels", "populated store">>
    BY DEF Harmless
  <2>2. f \notin {"labels"} \X {"populated store"}
    BY <2>1, OnlyPoint, Zenon
  <2>3. f \in {"labels"} \X {"foreign rule", "drift"}
    BY <1>7, <2>2
  <2> QED BY <2>3 DEF RuntimeLook
<1>8. CASE f \in {"runtime"} \X {"search path", "graphroot", "container", "podman info", "rootful", "oci runtime",
                         "network backend", "seccomp", "api socket", "remote service"}
                   \cup {"firewall"} \X {"service state", "preview"}
  BY <1>8 DEF RuntimeLook
<1>9. f \notin {"legacy"} \X {"entries", "masks", "storage"} \cup {"uid", "gid"} \X DOMAIN RangeOf \cup {"id"} \X DOMAIN IdOf
  BY DEF Harmless
<1> QED BY <1>1, <1>2, <1>3, <1>4, <1>5, <1>6, <1>7, <1>8, <1>9, Zenon DEF BaseFlaw

LEMMA NothingIsOverlooked ==
  ASSUME NEW found, HostLooked(found), FilesLooked(found), RuntimeLooked(found), NEW cmd,
         cmd = "enroll" => found \cap ({"ready"} \X {"conformance", "artifacts"}) = {}
  PROVE  Admissible(cmd, found)
<1>1. ASSUME NEW f \in found, f \in BaseFlaw, f \notin Harmless, 
             cmd = "enroll" \/ f \notin {"ready"} \X {"conformance", "artifacts"}
      PROVE  FALSE
  <2>1. f \notin {"ready"} \X {"conformance", "artifacts"}
    BY <1>1
  <2>2. f \in HostLook \cup FilesLook \cup RuntimeLook
    BY <1>1, <2>1, AllIsLookedFor
  <2> QED BY <1>1, <2>2 DEF HostLooked, FilesLooked, RuntimeLooked
<1>2. found \cap (BaseFlaw \ (Harmless \cup IF cmd = "enroll" THEN {} ELSE {"ready"} \X {"conformance", "artifacts"})) = {}
  BY <1>1
<1> QED BY <1>2 DEF HostLooked, Admissible

LEMMA BaseIsTrue ==
  ASSUME IInv, JInv, NEW p \in Running, VerifyRuntime(p) \/ Ready(p), pc'[p] = "ok"
  PROVE  BaseIsRight' /\ Admissible(job[p].cmd, job[p].found)
<1>1. /\ Types /\ p \in Proc /\ Stage(p) /\ LoadedWithRules /\ base \in BaseRecord
      /\ job[p].cmd \in Command /\ OfItsKind(p)
  BY DEF JInv, IInv, Types, Running, Stage, JobRecord
<1>2. UNCHANGED base
  BY DEF VerifyRuntime, Ready, Verifies
<1>3. PICK found : found = job[p].found
  OBVIOUS
<1>4. found \subseteq off \cup {<<"authority", "state">>}
  BY <1>3, FoundIsThere
<1>5. CASE VerifyRuntime(p)
  <2> DEFINE ok == /\ Labels /\ Runtime /\ base.linger /\ base.enabled /\ base.active /\ base.firewall
                   /\ Clean("firewall", {"service state", "preview"}, off)
  <2>1. PICK to : Verifies(p, "verify runtime", to, ok) /\ to = IF job[p].cmd = "enroll" THEN "ready" ELSE "ok"
    BY <1>5 DEF VerifyRuntime
  <2>2. pc[p] = "verify runtime" /\ pc'[p] = IF ok THEN to ELSE "refused"
    BY <1>1, <2>1 DEF Verifies, Read, Step, Goto, Types
  <2>3. HostLooked(found) /\ FilesLooked(found)
    BY <1>1, <1>3, <2>2 DEF Stage, Looked
  <2>4. ok /\ job[p].cmd # "enroll"
    BY <2>1, <2>2
  <2>5. off \cap RuntimeLook = {} /\ BaseIsRight
    <3>1. AccountIsThere /\ FilesAreThere
      BY <2>3 DEF HostLooked, FilesLooked
    <3> QED BY <1>1, <2>4, <3>1, RuntimeIsLookedAt
  <2>6. RuntimeLooked(found)
    BY <1>4, <2>5, LooksAreOfTheHost, NotFound DEF RuntimeLooked
  <2>7. Admissible(job[p].cmd, found)
    BY <2>3, <2>4, <2>6, NothingIsOverlooked
  <2> QED BY <1>2, <1>3, <2>5, <2>7 DEF BaseIsRight
<1>6. CASE Ready(p)
  <2>1. pc[p] = "ready" /\ Clean("ready", {"conformance", "artifacts"}, off)
    BY <1>1, <1>6 DEF Ready, Verifies, Read, Step, Goto, Types
  <2>2. HostLooked(found) /\ FilesLooked(found) /\ RuntimeLooked(found)
    BY <1>1, <1>3, <2>1 DEF Stage, Looked
  <2>3. found \cap ({"ready"} \X {"conformance", "artifacts"}) = {}
    <3>1. \A x \in {"conformance", "artifacts"} : <<"ready", x>> \notin found
      BY <1>4, <2>1, CleanPoints
    <3> QED BY <3>1, NoPoint
  <2>4. Admissible(job[p].cmd, found)
    BY <2>2, <2>3, NothingIsOverlooked
  <2> QED BY <1>2, <1>3, <2>2, <2>4 DEF RuntimeLooked, BaseIsRight
<1> QED BY <1>5, <1>6
-----------------------------------------------------------------------------
(* The evidence of a prepared host, and an initialization.                 *)

\* What the rest of an observation admits none of.
LastObservation ==
  {"observation"} \X {"failed", "too large", "not decoded"} \cup {"platform"} \X {"os release", "minor", "architecture"}
    \cup {"preparation"} \X {"graphroot outside home", "cpu count", "memory", "disk", "cloud identity",
                             "cloud credentials", "quadlets writable"}
    \cup {"account"} \X {"identity", "groups", "sudo"} \cup {"subids"} \X {"own entry"}
    \cup {"packages"} \X {"key shape", "key packet", "identity", "nevra", "header", "signature", "verification",
                          "repository", "architecture", "podman version"}
    \cup {"runtime"} \X {"graphroot", "api socket"}

LEMMA LastIsObserved ==
  ASSUME LastReads(off, base, Selected, BothRanges, EffectiveIds)
  PROVE  /\ base.account = "right" /\ base.packages = 2 /\ base.uid /\ base.gid /\ base.linger
         /\ SubidsIndependent(Selected, BothRanges, EffectiveIds)
         /\ off \cap LastObservation = {}
<1>1. /\ Observed(off) /\ Guest(off) /\ OwnSubids(off, base) /\ Graphroot(off) /\ Hardware(off)
      /\ PreparedPackages(off, base) /\ RuntimeSockets(off) /\ CloudIdentity(off)
      /\ ServiceAccount(off, base, Selected, BothRanges, EffectiveIds)
  BY DEF LastReads
<1>2. /\ base.account = "right" /\ base.packages = 2 /\ base.uid /\ base.gid /\ base.linger
      /\ SubidsIndependent(Selected, BothRanges, EffectiveIds)
  BY <1>1 DEF OwnSubids, PreparedPackages, ServiceAccount
<1>3. /\ Clean("observation", {"failed", "too large", "not decoded"}, off)
      /\ Clean("platform", {"os release", "minor"}, off) /\ Clean("platform", {"architecture"}, off)
      /\ Clean("subids", {"own entry"}, off)
      /\ Clean("runtime", {"graphroot"}, off) /\ Clean("runtime", {"api socket"}, off)
  BY <1>1 DEF Observed, Guest, OsRelease, OwnSubids, Graphroot, RuntimeSockets
<1>4. /\ Clean("preparation", {"graphroot outside home"}, off) /\ Clean("preparation", {"cpu count", "memory", "disk"}, off)
      /\ Clean("preparation", {"cloud identity", "cloud credentials"}, off)
      /\ Clean("preparation", {"quadlets writable"}, off)
      /\ Clean("account", {"identity", "groups"}, off) /\ Clean("account", {"sudo"}, off)
  BY <1>1 DEF Graphroot, Hardware, CloudIdentity, ServiceAccount, SudoAuthority
<1>5. /\ Clean("packages", {"identity", "nevra", "header", "signature", "verification"}, off)
      /\ Clean("packages", {"key shape", "key packet"}, off) /\ Clean("packages", {"repository", "architecture"}, off)
      /\ Clean("packages", {"podman version"}, off)
  BY <1>1 DEF PreparedPackages, NativePackages, PackageHeader, SigningKey, AdmitPackage, PodmanVersion
<1>6. /\ \A x \in {"failed", "too large", "not decoded"} : <<"observation", x>> \notin off
      /\ \A x \in {"os release", "minor", "architecture"} : <<"platform", x>> \notin off
      /\ \A x \in {"own entry"} : <<"subids", x>> \notin off
      /\ \A x \in {"graphroot", "api socket"} : <<"runtime", x>> \notin off
  BY <1>3, CleanPoints
<1>7. /\ \A x \in {"graphroot outside home", "cpu count", "memory", "disk", "cloud identity",
                   "cloud credentials", "quadlets writable"} : <<"preparation", x>> \notin off
      /\ \A x \in {"identity", "groups", "sudo"} : <<"account", x>> \notin off
  BY <1>4, CleanPoints
<1>8. \A x \in {"key shape", "key packet", "identity", "nevra", "header", "signature", "verification",
                "repository", "architecture", "podman version"} : <<"packages", x>> \notin off
  BY <1>5, CleanPoints
<1>9. /\ off \cap ({"observation"} \X {"failed", "too large", "not decoded"}) = {}
      /\ off \cap ({"platform"} \X {"os release", "minor", "architecture"}) = {}
      /\ off \cap ({"subids"} \X {"own entry"}) = {}
      /\ off \cap ({"runtime"} \X {"graphroot", "api socket"}) = {}
  BY <1>6, NoPoint
<1>10. /\ off \cap ({"preparation"} \X {"graphroot outside home", "cpu count", "memory", "disk", "cloud identity",
                             "cloud credentials", "quadlets writable"}) = {}
       /\ off \cap ({"account"} \X {"identity", "groups", "sudo"}) = {}
  BY <1>7, NoPoint
<1>11. off \cap ({"packages"} \X {"key shape", "key packet", "identity", "nevra", "header", "signature", "verification",
                          "repository", "architecture", "podman version"}) = {}
  BY <1>8, NoPoint
<1>12. off \cap LastObservation = {}
  BY <1>9, <1>10, <1>11, Zenon DEF LastObservation
<1> QED BY <1>2, <1>12

LEMMA Points == ASSUME NEW s, NEW P, NEW h, h \cap ({s} \X P) = {} PROVE \A x \in P : <<s, x>> \notin h
OBVIOUS

\* What an observation has to find, it finds in one of its two parts.
LEMMA AllIsObserved ==
  ASSUME NEW found, found \cap FirstObservation = {}, found \cap LastObservation = {}
  PROVE  found \cap (PreparationFlaw
           \cup {"platform"} \X (PlatformFlaw \ {"secret environment", "cpu", "hostname", "management peer"})
           \cup {"account"} \X {"identity", "groups", "sudo"} \cup {<<"subids", "own entry">>}
           \cup {"packages"} \X {"key shape", "key packet", "identity", "nevra", "header", "signature", "verification",
                                 "repository", "architecture", "podman version"}
           \cup {"runtime"} \X {"graphroot", "podman info", "rootful", "oci runtime", "network backend", "seccomp",
                                "api socket", "remote service"}) = {}
<1>1. found \cap ({"observation"} \X {"failed", "too large", "not decoded"}) = {}
  BY DEF FirstObservation
<1>2. found \cap ({"preparation"} \X {"dnf", "releasever", "labels disabled", "graphroot outside home", "digests",
                             "digest repeated", "other fixture", "no fixture", "cpu count", "memory", "disk",
                             "cloud identity", "cloud credentials", "quadlets writable"}) = {}
  <2>1. found \cap ({"preparation"} \X {"dnf", "releasever", "labels disabled",
                                "digests", "digest repeated", "other fixture", "no fixture"}) = {}
    BY DEF FirstObservation
  <2>2. found \cap ({"preparation"} \X {"graphroot outside home", "cpu count", "memory", "disk", "cloud identity",
                             "cloud credentials", "quadlets writable"}) = {}
    BY DEF LastObservation
  <2>3. \A x \in {"dnf", "releasever", "labels disabled",
                  "digests", "digest repeated", "other fixture", "no fixture"} : <<"preparation", x>> \notin found
    BY <2>1, Points
  <2>4. \A x \in {"graphroot outside home", "cpu count", "memory", "disk", "cloud identity",
                  "cloud credentials", "quadlets writable"} : <<"preparation", x>> \notin found
    BY <2>2, Points
  <2>5. \A x \in {"dnf", "releasever", "labels disabled", "graphroot outside home", "digests",
                  "digest repeated", "other fixture", "no fixture", "cpu count", "memory", "disk",
                  "cloud identity", "cloud credentials", "quadlets writable"} : <<"preparation", x>> \notin found
    BY <2>3, <2>4
  <2> QED BY <2>5, NoPoint
<1>3. found \cap ({"platform"} \X (PlatformFlaw \ {"secret environment", "cpu", "hostname", "management peer"})) = {}
  <2>1. found \cap ({"platform"} \X {"automatic update", "selinux mode", "selinux policy", "repository repeated",
                          "repository foreign", "cgroup"}) = {}
    BY DEF FirstObservation
  <2>2. found \cap ({"platform"} \X {"os release", "minor", "architecture"}) = {}
    BY DEF LastObservation
  <2>3. \A x \in {"automatic update", "selinux mode", "selinux policy", "repository repeated",
                  "repository foreign", "cgroup"} : <<"platform", x>> \notin found
    BY <2>1, Points
  <2>4. \A x \in {"os release", "minor", "architecture"} : <<"platform", x>> \notin found
    BY <2>2, Points
  <2>5. \A x \in PlatformFlaw \ {"secret environment", "cpu", "hostname", "management peer"} : <<"platform", x>> \notin found
    BY <2>3, <2>4 DEF PlatformFlaw
  <2> QED BY <2>5, NoPoint
<1>4. /\ found \cap ({"account"} \X {"identity", "groups", "sudo"}) = {} /\ found \cap ({"subids"} \X {"own entry"}) = {}
      /\ found \cap ({"packages"} \X {"key shape", "key packet", "identity", "nevra", "header", "signature", "verification",
                                 "repository", "architecture", "podman version"}) = {}
  BY DEF LastObservation
<1>5. found \cap ({"runtime"} \X {"graphroot", "podman info", "rootful", "oci runtime", "network backend", "seccomp",
                                "api socket", "remote service"}) = {}
  <2>1. found \cap ({"runtime"} \X {"podman info", "rootful", "oci runtime", "network backend", "seccomp", "api socket",
                         "remote service"}) = {}
    BY DEF FirstObservation
  <2>2. found \cap ({"runtime"} \X {"graphroot", "api socket"}) = {}
    BY DEF LastObservation
  <2>3. \A x \in {"podman info", "rootful", "oci runtime", "network backend", "seccomp", "api socket",
                  "remote service"} : <<"runtime", x>> \notin found
    BY <2>1, Points
  <2>4. \A x \in {"graphroot", "api socket"} : <<"runtime", x>> \notin found
    BY <2>2, Points
  <2>5. \A x \in {"graphroot", "podman info", "rootful", "oci runtime", "network backend", "seccomp",
                  "api socket", "remote service"} : <<"runtime", x>> \notin found
    BY <2>3, <2>4
  <2> QED BY <2>5, NoPoint
<1>6. <<"subids", "own entry">> \notin found
  <2>1. <<"subids", "own entry">> \in {"subids"} \X {"own entry"}
    OBVIOUS
  <2> QED BY <1>4, <2>1
<1>7. found \cap PreparationFlaw = {}
  BY <1>1, <1>2, Zenon DEF PreparationFlaw
<1>8. found \cap {<<"subids", "own entry">>} = {}
  BY <1>6, Zenon
<1> QED BY <1>3, <1>4, <1>5, <1>7, <1>8, Zenon

LEMMA PreparationIsTrue ==
  ASSUME IInv, JInv, NEW p \in Running, ObserveRest(p), pc'[p] = "ok"
  PROVE  Prepared(job[p].found)
<1>1. Types /\ p \in Proc /\ Stage(p)
  BY DEF JInv, IInv, Running
<1>2. pc[p] = "observe rest" /\ LastReads(off, base, Selected, BothRanges, EffectiveIds)
  BY <1>1 DEF ObserveRest, Verifies, Read, Step, Goto, Types
<1>3. PICK found : found = job[p].found
  OBVIOUS
<1>4. base.manager # "down" /\ found \cap FirstObservation = {}
  BY <1>1, <1>2, <1>3 DEF Stage, Looked
<1>5. found \subseteq off \cup {<<"authority", "state">>}
  BY <1>3, FoundIsThere
<1>6. <<"authority", "state">> \notin LastObservation
  BY DEF LastObservation
<1>7. /\ base.account = "right" /\ base.packages = 2 /\ base.uid /\ base.gid /\ base.linger
      /\ SubidsIndependent(Selected, BothRanges, EffectiveIds)
      /\ off \cap LastObservation = {}
  BY <1>2, LastIsObserved
<1>8. found \cap LastObservation = {}
  BY <1>5, <1>6, <1>7, NotFound
<1>9. OwnIdentities(found)
  BY <1>5, <1>7, BothAreOwn
<1> QED BY <1>3, <1>4, <1>7, <1>8, <1>9, AllIsObserved DEF Prepared

\* An initialization ends with a validation, and is past the root in /srv by then.
LEMMA InitializationIsTrue ==
  ASSUME IInv, JInv, NEW p \in Running, InitializeAgain(p) \/ FinalValidate(p), pc'[p] = "ok"
  PROVE  /\ marker'.whole /\ marker'.owned /\ secrets' # NoTree
         /\ \A d \in DirName : dirs'[d] = "right"
         /\ job[p].found \cap ({"state"} \X {"retired storage", "redirected ancestry", "marker"}
                                \cup {"secrets"} \X SecretFlaw \cup {"dir"} \X Layout) = {}
<1>1. Types /\ p \in Proc
  BY DEF IInv, Running
<1>2. pc[p] \in {"again", "final"} /\ ValidateProduction("host", TRUE, TRUE) /\ UNCHANGED <<marker, secrets, dirs>>
  BY <1>1 DEF InitializeAgain, FinalValidate, Read, Step, Goto, Types, stateVars
<1>3. dirs["srv"] = "right"
  BY <1>1, <1>2, StateCommandAt DEF PastRoot
<1>4. /\ ~RetiredStorage /\ \A d \in Layout \cup {"run"} : DirIsRight(d)
      /\ SecretDeliveries("host", TRUE) /\ MarkerIsRight
  BY <1>2 DEF ValidateProduction
<1>5. marker.whole /\ marker.owned /\ secrets # NoTree
  BY <1>4 DEF MarkerIsRight, SecretDeliveries
<1>6. \A d \in DirName : dirs[d] = "right"
  <2>1. \A d \in Layout \cup {"run"} : dirs[d] = "right"
    BY <1>4 DEF DirIsRight
  <2>2. DirName \subseteq Layout \cup {"run", "srv"}
    <3>1. DOMAIN StateDir = 1 .. 4 /\ \A i \in 1 .. 4 : StateDir[i] \in Layout \cup {"run", "srv"}
      BY DEF StateDir, Layout
    <3> QED BY <3>1 DEF DirName
  <2> QED BY <1>3, <2>1, <2>2
<1>7. PICK found : found = job[p].found
  OBVIOUS
<1>8. found \subseteq off \cup {<<"authority", "state">>}
  BY <1>7, FoundIsThere
<1>9. \A d \in Layout : <<"dir", d>> \notin off
  BY <1>4 DEF DirIsRight
<1>10. /\ Clean("state", {"retired storage", "redirected ancestry"}, off) /\ Clean("state", {"marker"}, off)
       /\ Clean("secrets", SecretFlaw, off)
  BY <1>4 DEF RetiredStorage, MarkerIsRight, SecretDeliveries
<1>11. /\ \A x \in {"retired storage", "redirected ancestry", "marker"} : <<"state", x>> \notin found
       /\ \A x \in SecretFlaw : <<"secrets", x>> \notin found
       /\ \A x \in Layout : <<"dir", x>> \notin found
  BY <1>8, <1>9, <1>10, CleanPoints
<1>12. /\ found \cap ({"state"} \X {"retired storage", "redirected ancestry", "marker"}) = {}
       /\ found \cap ({"secrets"} \X SecretFlaw) = {} /\ found \cap ({"dir"} \X Layout) = {}
  BY <1>11, NoPoint
<1>13. found \cap ({"state"} \X {"retired storage", "redirected ancestry", "marker"}
                   \cup {"secrets"} \X SecretFlaw \cup {"dir"} \X Layout) = {}
  BY <1>12, Zenon
<1> QED BY <1>2, <1>5, <1>6, <1>7, <1>13

\* A command that reports success has admitted flawless documents.  An installation or a
\* verification that succeeds stands on a finished base and has overlooked no deviation that
\* was there when its verification began; the same holds of the evidence of a prepared host,
\* and an initialization leaves a whole marker, layout and tree of secrets
\* (verify_public_base, admit_for_enrollment, normalize_and_admit, initialize_production).
THEOREM SuccessIsTrue == Spec => VerifiedIsTrue
<1> DEFINE A == \A p \in Proc :
       pc'[p] = "ok" /\ (pc[p] # "ok" \/ job'[p] # job[p]) =>
         /\ job'[p].doc \subseteq IF Unprivileged(job'[p].cmd) THEN {<<"command", "not root">>} ELSE {}
         /\ job[p].cmd \in {"install", "verify", "enroll"} /\ pc[p] \notin Ended =>
              BaseIsRight' /\ Admissible(job[p].cmd, job[p].found)
         /\ job[p].cmd = "prepare" /\ pc[p] \notin Ended => Prepared(job[p].found)
         /\ job[p].cmd = "initialize" /\ pc[p] \notin Ended =>
              /\ marker'.whole /\ marker'.owned /\ secrets' # NoTree
              /\ \A d \in DirName : dirs'[d] = "right"
              /\ job[p].found \cap ({"state"} \X {"retired storage", "redirected ancestry", "marker"}
                                     \cup {"secrets"} \X SecretFlaw \cup {"dir"} \X Layout) = {}
<1>1. IInv /\ JInv /\ [Next]_baseVars => A
  <2> SUFFICES ASSUME IInv, JInv, [Next]_baseVars, NEW p \in Proc,
                      pc'[p] = "ok", pc[p] # "ok" \/ job'[p] # job[p]
               PROVE  /\ Admits(p)'
                      /\ job[p].cmd \in {"install", "verify", "enroll"} /\ pc[p] \notin Ended =>
                           BaseIsRight' /\ Admissible(job[p].cmd, job[p].found)
                      /\ job[p].cmd = "prepare" /\ pc[p] \notin Ended => Prepared(job[p].found)
                      /\ job[p].cmd = "initialize" /\ pc[p] \notin Ended =>
                           /\ marker'.whole /\ marker'.owned /\ secrets' # NoTree
                           /\ \A d \in DirName : dirs'[d] = "right"
                           /\ job[p].found \cap ({"state"} \X {"retired storage", "redirected ancestry", "marker"}
                                                  \cup {"secrets"} \X SecretFlaw \cup {"dir"} \X Layout) = {}
    BY DEF Admits, Excusable
  <2>1. Types
    BY DEF IInv
  <2>2. \/ StartInstall(p) \/ StartVerify(p) \/ StartPlan(p) \/ StartFacts(p) \/ StartState(p)
        \/ StartPreparation(p) \/ StartNative(p)
        \/ InstallCommand(p) \/ (StateCommand(p) /\ UNCHANGED base)
    <3>1. ~CommandFails(p)
      BY <2>1 DEF CommandFails, Goto, Types
    <3> QED BY <2>1, <3>1, ItsOwnStep
  <2>3. CASE \/ StartInstall(p) \/ StartVerify(p) \/ StartPlan(p) \/ StartFacts(p) \/ StartState(p)
             \/ StartPreparation(p) \/ StartNative(p)
    <3>1. ASSUME NEW cmd, NEW doc, NEW flag, NEW ok, NEW to, Start(p, cmd, doc, flag, ok, to, Standing)
          PROVE  pc[p] \in Ended
      BY <3>1 DEF Start
    <3>2. pc[p] \in Ended
      BY <2>3, <3>1 DEF StartInstall, StartVerify, StartPlan, StartFacts, StartState, StartPreparation, StartNative
    <3> QED BY <2>3, <3>2, StartsStay
  <2>4. CASE InstallCommand(p) \/ (StateCommand(p) /\ UNCHANGED base)
    <3>1. pc[p] \notin Ended
      <4>1. StateCommand(p) => pc[p] \in StateStep
        BY StateCommandSteps
      <4>2. InstallCommand(p) => pc[p] \in InstallStep
        BY InstallCommandSteps
      <4> QED BY <2>4, <4>1, <4>2
    <3>2. p \in Running /\ Stage(p) /\ job[p].cmd \in Command /\ OfItsKind(p)
      BY <2>1, <3>1 DEF Running, JInv, Stage, Types, JobRecord
    <3>3. \/ VerifyRuntime(p) \/ Ready(p) \/ ObserveRest(p) \/ ObserveNative(p)
          \/ ((InitializeAgain(p) \/ FinalValidate(p)) /\ UNCHANGED base)
          \/ (RenameTree(p) /\ job[p].cmd = "publish") \/ ValidateCommand(p)
      BY <2>1, <2>4, <3>1, LastSteps
    <3>4. Admits(p)'
      BY <2>1, <3>2, <3>3, LastStepsAdmit DEF Stage
    <3>5. CASE VerifyRuntime(p) \/ Ready(p)
      <4>1. pc[p] \in VerifyStep
        BY <3>5 DEF VerifyRuntime, Ready, Verifies, Read, Step
      <4>2. job[p].cmd \in BaseCommand
        BY <3>2, <4>1, CommandAt
      <4> QED BY <3>2, <3>4, <3>5, <4>2, BaseIsTrue DEF BaseCommand
    <3>6. CASE ObserveRest(p)
      <4>1. job[p].cmd = "prepare"
        BY <3>2, <3>6, CommandAt DEF ObserveRest, Verifies, Read, Step
      <4> QED BY <3>2, <3>4, <3>6, <4>1, PreparationIsTrue
    <3>7. CASE ObserveNative(p)
      <4>1. job[p].cmd = "native"
        BY <3>2, <3>7, CommandAt DEF ObserveNative, Verifies, Read, Step
      <4> QED BY <3>4, <4>1
    <3>8. CASE InitializeAgain(p) \/ FinalValidate(p)
      <4>1. pc[p] \in {"again", "final"}
        BY <3>8 DEF InitializeAgain, FinalValidate, Read, Step
      <4>2. job[p].cmd = "initialize"
        BY <3>2, <4>1, CommandAt
      <4> QED BY <3>2, <3>4, <3>8, <4>2, InitializationIsTrue
    <3>9. CASE RenameTree(p) /\ job[p].cmd = "publish"
      BY <3>4, <3>9
    <3>10. CASE ValidateCommand(p)
      <4>1. job[p].cmd \in {"validate", "namespace"}
        BY <3>2, <3>10, CommandAt DEF ValidateCommand, Read, Step
      <4> QED BY <3>4, <4>1
    <3> QED BY <3>3, <3>5, <3>6, <3>7, <3>8, <3>9, <3>10
  <2> QED BY <2>2, <2>3, <2>4
<1>2. [][A]_baseVars <=> VerifiedIsTrue
  BY DEF VerifiedIsTrue
<1> HIDE DEF A
<1> QED BY <1>1, <1>2, BothInvariants, PTL DEF Spec
=============================================================================
