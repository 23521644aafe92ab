---------------------------- MODULE HostFirewall ----------------------------
(***************************************************************************)
(* The host firewall helper: scripts/host-firewall.py and its contract     *)
(* scripts/host_firewall_contract.py.                                      *)
(*                                                                         *)
(* Processes run --apply, --restore, --check, --add and --remove against   *)
(* the kernel's table inet secpal_host and the file accepted.json, under   *)
(* one state lock.  A network is the set of addresses it covers; a policy  *)
(* is what the generated rules depend on: the configuration and, when      *)
(* PROTECTED, the origin prefixes.  A reboot loses the table and keeps     *)
(* what is durable; any nft call and any system call can fail, and a       *)
(* helper can be killed while its nft child goes on.                       *)
(***************************************************************************)
EXTENDS Integers, FiniteSets

CONSTANTS
  Proc,          \* helper processes
  Addr,          \* addresses of peers
  Uplink,        \* interface names
  Configs,       \* the configurations an administrator installs
  Publications,  \* the prefix documents that become the accepted LKG
  Ttl,           \* requested decision lifetimes
  MaxDecisions,  \* capacity of the remediation set
  MaxOrphans,    \* nft children that may outlive their helper at a time
  NoProc, NoAddr, NoDoc, NoValue, NoPolicy

Configuration == [mode : {"DIRECT", "PROTECTED"},
                  management : SUBSET Addr \ {{}}, uplinks : SUBSET Uplink \ {{}}]
Document == [version : Nat, content : SUBSET Addr \ {{}}]

ASSUME InputsAssumption == Configs \subseteq Configuration /\ Publications \subseteq Document
ASSUME NumbersAssumption == /\ Ttl \subseteq Nat \ {0} /\ MaxDecisions \in Nat /\ MaxOrphans \in Nat
ASSUME NoneAssumption ==
  /\ NoProc \notin Proc /\ NoAddr \notin Addr /\ NoDoc \notin Document
  /\ NoValue \notin [config : Configuration, prefixes : Document \cup {NoDoc}]
  /\ NoPolicy \notin [config : Configuration, origin : SUBSET Addr]

VARIABLES
  table,      \* the kernel table's policy
  banned,     \* its remediation set: the timeout of each address, 0 without a decision
  file,       \* accepted.json
  fileD,      \* its durable copy
  lock,       \* holder of the state lock
  pc,         \* per process: the next step, or the exit status
  job,        \* per process: the command and what it decided
  orphans,    \* batches of nft children whose helper was killed
  lkg,        \* the accepted origin prefixes
  confirmed   \* the value of the last apply that exited with 0

store == <<file, fileD, confirmed>>
vars  == <<table, banned, file, fileD, lock, pc, job, orphans, lkg, confirmed>>

Doc0   == Publications \cup {NoDoc}
Value  == [config : Configs, prefixes : Doc0]
Policy == [config : Configs, origin : SUBSET Addr]
Kind   == {"apply", "create", "reload", "restore", "check", "add", "remove"}
Job    == [kind : Kind, value : Value \cup {NoValue}, peer : Addr \cup {NoAddr}, ttl : Ttl \cup {0}]
Exit   == {"none", "ok", "error", "uncertain"}
Step   == Exit \cup {"lock", "admit", "commit", "readback", "replace", "sync"}

Idle == [kind |-> "check", value |-> NoValue, peer |-> NoAddr, ttl |-> 0]

\* _source(): the prefixes count in PROTECTED mode only.
Origin(v) == IF v.config.mode = "PROTECTED" THEN v.prefixes.content ELSE {}

\* policy(), as generated, read back and compared by _same().
PolicyOf(v) == [config |-> v.config, origin |-> Origin(v)]

\* Addresses that remediation() refuses under a value.
Protected(v) == v.config.management \cup Origin(v)

\* admit_successor(): b may follow a.
Covers(b, a) == \/ b.version > a.version
                \/ b.version = a.version /\ b.content = a.content

Decisions == {x \in Addr : banned[x] # 0}

\* _admit_decisions(): nothing banned is protected, and the set is bounded.
AdmitDecisions(v) == Decisions \cap Protected(v) = {} /\ Cardinality(Decisions) <= MaxDecisions

\* Mutant: a reload may withdraw management networks.
AnyTransition(prev, c) == prev # NoValue => prev.config.uplinks \subseteq c.uplinks

\* _management_transition(): neither management nor uplinks shrink.
ManagementTransition(prev, c) ==
  prev # NoValue => /\ prev.config.uplinks \subseteq c.uplinks
                    /\ prev.config.management \subseteq c.management

-----------------------------------------------------------------------------
(* Steps of a process.                                                     *)

Goto(p, l) == pc' = [pc EXCEPT ![p] = l]

\* The command exits and its lock is released with its descriptor.
Return(p, e) ==
  /\ Goto(p, e)
  /\ job' = [job EXCEPT ![p] = Idle]
  /\ lock' = IF lock = p THEN NoProc ELSE lock

\* The next step with what was decided.
Decide(p, l, j) == Goto(p, l) /\ job' = [job EXCEPT ![p] = j] /\ UNCHANGED lock

\* main(): apply reads the desired configuration and, when PROTECTED, the accepted
\* prefixes before it takes the lock.
Call(p, j) ==
  /\ pc[p] \in Exit
  /\ Goto(p, "lock")
  /\ job' = [job EXCEPT ![p] = j]
  /\ UNCHANGED <<table, banned, store, lock, orphans, lkg>>

Apply(p, c) ==
  /\ c.mode = "PROTECTED" => lkg # NoDoc
  /\ Call(p, [Idle EXCEPT !.kind = "apply",
                !.value = [config |-> c, prefixes |-> IF c.mode = "PROTECTED" THEN lkg ELSE NoDoc]])

Restore(p) == Call(p, [Idle EXCEPT !.kind = "restore"])
Check(p) == Call(p, Idle)

Remediate(p, k, x, t) ==
  Call(p, [Idle EXCEPT !.kind = k, !.peer = x, !.ttl = IF k = "add" THEN t ELSE 0])

\* _state_lock(): polls until the deadline.
StateLock(p) ==
  /\ pc[p] = "lock"
  /\ \/ lock = NoProc /\ lock' = p /\ Goto(p, "admit") /\ UNCHANGED job
     \/ Return(p, "error")
  /\ UNCHANGED <<table, banned, store, orphans, lkg>>

\* Mutant: DIRECT forgets the last publication.
ForgetfulCandidate(v, prev) == v

\* The value apply() wants, given the accepted one: DIRECT keeps its prefixes.
Candidate(v, prev) ==
  IF v.config.mode = "DIRECT" /\ prev # NoValue THEN [v EXCEPT !.prefixes = prev.prefixes] ELSE v

\* What apply() requires of the accepted value before it looks at the kernel.
Admissible(v, prev) ==
  /\ ManagementTransition(prev, v.config)
  /\ prev # NoValue /\ prev.prefixes # NoDoc /\ v.prefixes # NoDoc => Covers(v.prefixes, prev.prefixes)

\* Mutant: decisions are admitted by the policy that is being replaced.
LateDecisions(v, prev) ==
  IF table = NoPolicy THEN "create"
  ELSE IF table = PolicyOf(v) THEN "apply"
  ELSE IF prev # NoValue /\ table = PolicyOf(prev) /\ AdmitDecisions(prev) THEN "reload"
  ELSE "refuse"

\* Mutant: the table must be the accepted one even when it is already the desired one.
PriorFirst(v, prev) ==
  IF table = NoPolicy THEN "create"
  ELSE IF ~AdmitDecisions(v) \/ prev = NoValue \/ table # PolicyOf(prev) THEN "refuse"
  ELSE IF table = PolicyOf(v) THEN "apply"
  ELSE "reload"

\* What apply() makes of the kernel table: the batch it commits, "apply" when the
\* table is already the desired one and only the file is missing, or a refusal.
Plan(v, prev) ==
  IF table = NoPolicy THEN "create"
  ELSE IF ~AdmitDecisions(v) THEN "refuse"
  ELSE IF table = PolicyOf(v) THEN "apply"
  ELSE IF prev # NoValue /\ table = PolicyOf(prev) THEN "reload"
  ELSE "refuse"

\* apply() up to the commit.
AdmitApply(p) ==
  /\ pc[p] = "admit" /\ job[p].kind = "apply"
  /\ \/ /\ Admissible(job[p].value, file)
        /\ LET v == Candidate(job[p].value, file)
               k == Plan(v, file)
           IN /\ k # "refuse"
              /\ Decide(p, IF k = "apply" THEN "replace" ELSE "commit",
                        [job[p] EXCEPT !.kind = k, !.value = v])
     \/ Return(p, "error")
  /\ UNCHANGED <<table, banned, store, orphans, lkg>>

\* restore() up to the commit: an existing table is only compared.
AdmitRestore(p) ==
  /\ pc[p] = "admit" /\ job[p].kind = "restore"
  /\ \/ /\ file # NoValue
        /\ Decide(p, IF table = NoPolicy THEN "commit" ELSE "readback",
                  [job[p] EXCEPT !.value = file])
     \/ Return(p, "error")
  /\ UNCHANGED <<table, banned, store, orphans, lkg>>

\* The table is the accepted one, with admitted decisions.
Effective == file # NoValue /\ table = PolicyOf(file) /\ AdmitDecisions(file)

AdmitCheck(p) ==
  /\ pc[p] = "admit" /\ job[p].kind = "check"
  /\ \/ Effective /\ Return(p, "ok")
     \/ Return(p, "error")
  /\ UNCHANGED <<table, banned, store, orphans, lkg>>

\* remediate() up to the commit.
AdmitRemediate(p) ==
  /\ pc[p] = "admit" /\ job[p].kind \in {"add", "remove"}
  /\ \/ /\ Effective /\ job[p].peer \notin Protected(file)
        /\ Decide(p, "commit", [job[p] EXCEPT !.value = file])
     \/ Return(p, "error")
  /\ UNCHANGED <<table, banned, store, orphans, lkg>>

\* What nft makes of a batch, all or nothing: create needs the table to be absent,
\* everything else needs it; a full set takes no further element.
Executes(j) ==
  \/ /\ j.kind \in {"create", "restore"} /\ table = NoPolicy
     /\ table' = PolicyOf(j.value) /\ banned' = [x \in Addr |-> 0]
  \/ /\ j.kind = "reload" /\ table # NoPolicy
     /\ table' = PolicyOf(j.value) /\ UNCHANGED banned
  \/ /\ j.kind \in {"add", "remove"} /\ table # NoPolicy
     /\ j.kind = "add" => Cardinality(Decisions \ {j.peer}) < MaxDecisions
     /\ banned' = [banned EXCEPT ![j.peer] = j.ttl] /\ UNCHANGED table

\* validate() and commit(): the batch is refused, or it executes and is acknowledged,
\* or the outcome stays unknown; the read-back decides in every case.
Commit(p) ==
  /\ pc[p] = "commit"
  /\ \/ Executes(job[p]) /\ Goto(p, "readback") /\ UNCHANGED <<job, lock>>
     \/ Goto(p, "readback") /\ UNCHANGED <<table, banned, job, lock>>
     \/ Return(p, "error") /\ UNCHANGED <<table, banned>>
  /\ UNCHANGED <<store, orphans, lkg>>

\* The kernel shows what the batch was for.
Desired(j) == IF j.kind \in {"add", "remove"} THEN banned[j.peer] = j.ttl
                                              ELSE table = PolicyOf(j.value)

\* Mutant: an acknowledged commit is not read back.
TrustAcknowledgement(p) ==
  /\ pc[p] = "readback"
  /\ \/ IF job[p].kind \in {"create", "reload"} THEN Goto(p, "replace") /\ UNCHANGED <<job, lock>>
                                                ELSE Return(p, "ok")
     \/ Return(p, "error")
  /\ UNCHANGED <<table, banned, store, orphans, lkg>>

\* _commit_policy() and remediate() after the commit, _admit_decisions() included.
ReadBack(p) ==
  /\ pc[p] = "readback"
  /\ \/ /\ Desired(job[p]) /\ AdmitDecisions(job[p].value)
        /\ IF job[p].kind \in {"create", "reload"} THEN Goto(p, "replace") /\ UNCHANGED <<job, lock>>
                                                   ELSE Return(p, "ok")
     \/ Return(p, "error")
  /\ UNCHANGED <<table, banned, store, orphans, lkg>>

\* _save() up to os.replace().
Replace(p) ==
  /\ pc[p] = "replace"
  /\ \/ file' = job[p].value /\ Goto(p, "sync") /\ UNCHANGED <<job, lock>>
     \/ Return(p, "error") /\ UNCHANGED file
  /\ UNCHANGED <<table, banned, fileD, orphans, lkg, confirmed>>

\* Its directory sync; a failure reports CommitStateUncertain.
Sync(p) ==
  /\ pc[p] = "sync"
  /\ \/ fileD' = file /\ confirmed' = job[p].value /\ Return(p, "ok")
     \/ Return(p, "uncertain") /\ UNCHANGED <<fileD, confirmed>>
  /\ UNCHANGED <<table, banned, file, orphans, lkg>>

-----------------------------------------------------------------------------
(* The environment.                                                        *)

\* A helper is killed; its nft child may still be running, without the lock.
Kill(p) ==
  /\ pc[p] \notin Exit
  /\ \/ UNCHANGED orphans
     \/ /\ pc[p] = "commit" /\ Cardinality(orphans) < MaxOrphans
        /\ orphans' = orphans \cup {job[p]}
  /\ Return(p, "none")
  /\ UNCHANGED <<table, banned, store, lkg>>

\* The child ends, with its batch executed or not.
OrphanEnds(j) ==
  /\ orphans' = orphans \ {j}
  /\ Executes(j) \/ UNCHANGED <<table, banned>>
  /\ UNCHANGED <<store, lock, pc, job, lkg>>

\* The host reboots: the ruleset is gone.
Reboot ==
  /\ table' = NoPolicy /\ banned' = [x \in Addr |-> 0]
  /\ file' = fileD
  /\ lock' = NoProc /\ orphans' = {}
  /\ pc' = [p \in Proc |-> "none"] /\ job' = [p \in Proc |-> Idle]
  /\ UNCHANGED <<fileD, lkg, confirmed>>

\* The filesystem writes its log by itself.
Flush ==
  /\ fileD' = file
  /\ UNCHANGED <<table, banned, file, lock, pc, job, orphans, lkg, confirmed>>

\* A decision times out.
Expire(x) ==
  /\ banned' = [banned EXCEPT ![x] = 0]
  /\ UNCHANGED <<table, store, lock, pc, job, orphans, lkg>>

\* The prefix owner accepts a successor.
AcceptPrefixes(d) ==
  /\ lkg # NoDoc => Covers(d, lkg)
  /\ lkg' = d
  /\ UNCHANGED <<table, banned, store, lock, pc, job, orphans>>

-----------------------------------------------------------------------------
Init ==
  /\ table = NoPolicy /\ banned = [x \in Addr |-> 0]
  /\ file = NoValue /\ fileD = NoValue
  /\ lock = NoProc /\ orphans = {}
  /\ pc = [p \in Proc |-> "none"] /\ job = [p \in Proc |-> Idle]
  /\ lkg = NoDoc /\ confirmed = NoValue

Start(p) ==
  \/ \E c \in Configs : Apply(p, c)
  \/ Restore(p) \/ Check(p)
  \/ \E x \in Addr, t \in Ttl : Remediate(p, "add", x, t)
  \/ \E x \in Addr : Remediate(p, "remove", x, 0)

Run(p) ==
  \/ StateLock(p) \/ AdmitApply(p) \/ AdmitRestore(p) \/ AdmitCheck(p) \/ AdmitRemediate(p)
  \/ Commit(p) \/ ReadBack(p) \/ Replace(p) \/ Sync(p)

Next ==
  \/ \E p \in Proc : Start(p) \/ Run(p) \/ Kill(p)
  \/ \E j \in orphans : OrphanEnds(j)
  \/ \E x \in Addr : Expire(x)
  \/ \E d \in Publications : AcceptPrefixes(d)
  \/ Reboot \/ Flush

Spec == Init /\ [][Next]_vars

-----------------------------------------------------------------------------
(* Properties.                                                             *)

\* Every variable has its type.
TypeOK ==
  /\ table \in Policy \cup {NoPolicy} /\ banned \in [Addr -> Ttl \cup {0}]
  /\ file \in Value \cup {NoValue} /\ fileD \in Value \cup {NoValue}
  /\ lock \in Proc \cup {NoProc} /\ orphans \subseteq Job
  /\ pc \in [Proc -> Step] /\ job \in [Proc -> Job]
  /\ lkg \in Doc0 /\ confirmed \in Value \cup {NoValue}

\* _management_transition(): "Never remove currently authorized management networks
\* during a reload", whatever was committed, killed or left unsaved before.
ManagementKept ==
  [][table # NoPolicy /\ table' # NoPolicy =>
       /\ table.config.management \subseteq table'.config.management
       /\ table.config.uplinks \subseteq table'.config.uplinks]_vars

\* "Management and current CloudFront Origin peer addresses cannot be banned": no
\* decision on an address that the policy in force protects, although decisions
\* outlive the reloads that make their address protected.
ProtectedNotBanned ==
  table # NoPolicy => Decisions \cap (table.config.management \cup table.origin) = {}

\* The authority of v includes that of w.
Includes(v, w) ==
  /\ w.config.management \subseteq v.config.management
  /\ w.config.uplinks \subseteq v.config.uplinks
  /\ w.prefixes # NoDoc => v.prefixes # NoDoc /\ Covers(v.prefixes, w.prefixes)

\* What an apply that exited with 0 granted survives kills, reboots, mode changes
\* and late batches in accepted.json and its durable copy: management and uplinks
\* never shrink, and no publication rolls back on the way through DIRECT.
AuthoritySurvives ==
  confirmed # NoValue =>
    \A v \in {file, fileD} : v # NoValue /\ Includes(v, confirmed)

\* Every table in force later grants it too, the one restored at boot included, and
\* is not PROTECTED by an older publication.
TableKeepsAuthority ==
  confirmed # NoValue /\ table # NoPolicy =>
    /\ confirmed.config.management \subseteq table.config.management
    /\ confirmed.config.uplinks \subseteq table.config.uplinks
    /\ table.config.mode = "PROTECTED" /\ confirmed.prefixes # NoDoc =>
         \E d \in Publications : table.origin = d.content /\ Covers(d, confirmed.prefixes)

\* apply "Authoritative kernel read-back must exactly match": when apply exits with
\* 0, the table in force is the policy of the durable accepted value.
SuccessIsEnforced ==
  [][\A p \in Proc : pc[p] = "sync" /\ pc'[p] = "ok" => table = PolicyOf(fileD')]_vars

\* No command is running and the table in force is not the accepted one.
Unsaved == lock = NoProc /\ table # NoPolicy /\ (file = NoValue \/ table # PolicyOf(file))

\* Some apply would be admitted, with the prefixes accepted by now.
ApplyIsOpen ==
  \E c \in Configs :
    /\ c.mode = "PROTECTED" => lkg # NoDoc
    /\ LET v == [config |-> c, prefixes |-> IF c.mode = "PROTECTED" THEN lkg ELSE NoDoc]
       IN Admissible(v, file) /\ Plan(Candidate(v, file), file) # "refuse"

\* An apply that was interrupted between the kernel commit and the accepted file can
\* be repeated as long as its inputs are still the current ones, whatever bans,
\* failures and kills came in between.
RepeatIsAdmitted ==
  Unsaved /\ (table.config.mode = "PROTECTED" => lkg # NoDoc /\ lkg.content = table.origin)
    => ApplyIsOpen

\* "If the kernel committed but accepted-file publication was interrupted, a
\* subsequent normal --apply can persist the exact independently verified desired
\* policy": without the condition on the inputs.
Reconcilable == Unsaved => ApplyIsOpen
=============================================================================
