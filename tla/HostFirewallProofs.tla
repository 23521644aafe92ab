------------------------- MODULE HostFirewallProofs -------------------------
(***************************************************************************)
(* Proofs about HostFirewall for every set of helpers, addresses, uplinks, *)
(* configurations, publications and lifetimes, and for any number of nft   *)
(* children that outlive their helper.                                     *)
(***************************************************************************)
EXTENDS HostFirewall, FiniteSetTheorems, TLAPS

-----------------------------------------------------------------------------
(* The inductive invariant.                                                *)

\* A value whose policy can be generated: PROTECTED comes with its prefixes.
Sound(v) == v \in Value /\ (v.config.mode = "PROTECTED" => v.prefixes # NoDoc)

\* v may replace the accepted value w.
Follows(v, w) == w # NoValue => Includes(v, w)

\* What nft can be given.
Batch(j) ==
  /\ j \in Job
  /\ j.kind \in {"create", "reload", "restore", "add", "remove"}
  /\ j.kind \in {"create", "reload", "restore"} => Sound(j.value)
  /\ j.kind \in {"add", "remove"} => j.peer \in Addr
  /\ j.kind = "remove" => j.ttl = 0

\* A helper at step l with job j has what the step needs.
Fits(l, j) ==
  /\ l \in {"lock", "admit"} =>
       /\ j.kind \notin {"create", "reload"}
       /\ j.kind = "apply" => Sound(j.value) /\ (j.value.config.mode = "DIRECT" => j.value.prefixes = NoDoc)
       /\ j.kind \in {"add", "remove"} => j.peer \in Addr
       /\ j.kind = "remove" => j.ttl = 0
  /\ l \in {"commit", "readback"} => Batch(j)
  /\ l \in {"commit", "readback"} /\ j.kind \in {"create", "reload"} => Follows(j.value, file)
  /\ l = "replace" => Sound(j.value) /\ Follows(j.value, file)
  /\ l = "sync" => Sound(j.value) /\ j.value = file

JobsFit == \A p \in Proc : Fits(pc[p], job[p])

\* Whoever works on the table or the file holds the lock.
LockIsHeld == \A p \in Proc : pc[p] \notin Exit \cup {"lock"} => lock = p

OrphansFit == \A j \in orphans : Batch(j)

FilesAreSound == \A v \in {file, fileD} : v # NoValue => Sound(v)

IInv ==
  /\ TypeOK
  /\ LockIsHeld
  /\ JobsFit
  /\ OrphansFit
  /\ FilesAreSound
  /\ AuthoritySurvives

-----------------------------------------------------------------------------
(* Lemmas.                                                                 *)

LEMMA Names ==
  /\ NoDoc \notin Publications /\ NoValue \notin Value /\ NoPolicy \notin Policy
  /\ Exit \subseteq Step
  /\ {"lock", "admit", "commit", "readback", "replace", "sync"} \subseteq Step
  /\ Exit \cap {"lock", "admit", "commit", "readback", "replace", "sync"} = {}
<1>1. NoDoc \notin Publications
  BY NoneAssumption, InputsAssumption
<1>2. NoValue \notin Value
  BY NoneAssumption, InputsAssumption DEF Value, Doc0
<1>3. NoPolicy \notin Policy
  BY NoneAssumption, InputsAssumption DEF Policy
<1> QED BY <1>1, <1>2, <1>3 DEF Exit, Step

\* The policy of a sound value is a policy.
LEMMA PolicyType == ASSUME NEW v, Sound(v) PROVE PolicyOf(v) \in Policy
<1>1. v.config \in Configs /\ v.prefixes \in Doc0
  BY DEF Sound, Value
<1>2. Origin(v) \in SUBSET Addr
  BY <1>1, InputsAssumption DEF Sound, Origin, Doc0, Document
<1> QED BY <1>1, <1>2 DEF PolicyOf, Policy

LEMMA CoversTransitive ==
  ASSUME NEW x \in Publications, NEW y \in Publications, NEW z \in Publications,
         Covers(x, y), Covers(y, z)
  PROVE  Covers(x, z)
<1>1. x.version \in Nat /\ y.version \in Nat /\ z.version \in Nat
  BY InputsAssumption DEF Document
<1> QED BY <1>1 DEF Covers

LEMMA IncludesReflexive == ASSUME NEW v \in Value PROVE Includes(v, v)
BY DEF Includes, Covers

\* Authority is inherited.
LEMMA IncludesTransitive ==
  ASSUME NEW u \in Value, NEW v \in Value, NEW w \in Value, Includes(u, v), Includes(v, w)
  PROVE  Includes(u, w)
<1>1. u.prefixes \in Doc0 /\ v.prefixes \in Doc0 /\ w.prefixes \in Doc0
  BY DEF Value
<1>2. w.prefixes # NoDoc => u.prefixes # NoDoc /\ Covers(u.prefixes, w.prefixes)
  BY <1>1, CoversTransitive DEF Includes, Doc0
<1> QED BY <1>2 DEF Includes

\* What a helper that exits leaves behind.
LEMMA ReturnEffect ==
  ASSUME TypeOK, NEW p \in Proc, NEW e \in Exit, Return(p, e)
  PROVE  /\ pc' \in [Proc -> Step] /\ job' \in [Proc -> Job]
         /\ lock' \in Proc \cup {NoProc}
         /\ pc'[p] = e
         /\ \A q \in Proc : q # p => pc'[q] = pc[q] /\ job'[q] = job[q]
         /\ \A q \in Proc : q # p /\ lock = q => lock' = q
<1>1. Idle \in Job
  BY DEF Idle, Job, Kind
<1> QED BY <1>1, Names DEF TypeOK, Return, Goto

\* What a helper that goes on leaves behind.
LEMMA DecideEffect ==
  ASSUME TypeOK, NEW p \in Proc, NEW l \in Step, NEW j \in Job, Decide(p, l, j)
  PROVE  /\ pc' \in [Proc -> Step] /\ job' \in [Proc -> Job] /\ lock' = lock
         /\ pc'[p] = l /\ job'[p] = j
         /\ \A q \in Proc : q # p => pc'[q] = pc[q] /\ job'[q] = job[q]
BY DEF TypeOK, Decide, Goto

LEMMA FitsExit == ASSUME NEW e \in Exit, NEW j PROVE Fits(e, j)
BY DEF Fits, Exit

\* A helper that exits, with the files as they are, keeps the invariant.
LEMMA ReturnKeeps ==
  ASSUME IInv, NEW p \in Proc, NEW e \in Exit, Return(p, e),
         UNCHANGED <<table, banned, store, lkg>>, orphans' \subseteq Job, OrphansFit'
  PROVE  IInv'
<1>1. TypeOK
  BY DEF IInv
<1>2. TypeOK'
  BY <1>1, ReturnEffect DEF TypeOK, store
<1>3. LockIsHeld'
  BY <1>1, ReturnEffect DEF IInv, LockIsHeld
<1>4. JobsFit'
  <2>1. \A q \in Proc : Fits(pc[q], job[q])
    BY DEF IInv, JobsFit
  <2>2. \A q \in Proc : Fits(pc'[q], job'[q])
    BY <1>1, <2>1, ReturnEffect, FitsExit
  <2> QED BY <2>2 DEF JobsFit, Fits, Batch, Sound, Follows, store
<1>5. FilesAreSound' /\ AuthoritySurvives'
  BY DEF IInv, FilesAreSound, AuthoritySurvives, store
<1> QED BY <1>2, <1>3, <1>4, <1>5 DEF IInv

\* A helper that holds the lock and decides on its next step keeps the invariant.
LEMMA DecideKeeps ==
  ASSUME IInv, NEW p \in Proc, NEW l \in Step, NEW j \in Job, Decide(p, l, j), Fits(l, j),
         pc[p] \notin Exit \cup {"lock"},
         table' \in Policy \cup {NoPolicy}, banned' \in [Addr -> Ttl \cup {0}],
         UNCHANGED <<store, orphans, lkg>>
  PROVE  IInv'
<1>1. TypeOK
  BY DEF IInv
<1>2. TypeOK'
  BY <1>1, DecideEffect DEF TypeOK, store
<1>3. LockIsHeld'
  BY <1>1, DecideEffect DEF IInv, LockIsHeld
<1>4. JobsFit'
  <2>1. \A q \in Proc : Fits(pc'[q], job'[q])
    BY <1>1, DecideEffect DEF IInv, JobsFit
  <2> QED BY <2>1 DEF JobsFit, Fits, Batch, Sound, Follows, store
<1>5. OrphansFit' /\ FilesAreSound' /\ AuthoritySurvives'
  BY DEF IInv, OrphansFit, FilesAreSound, AuthoritySurvives, store
<1> QED BY <1>2, <1>3, <1>4, <1>5 DEF IInv

\* Going on with the same job.
LEMMA GotoDecides ==
  ASSUME TypeOK, NEW p \in Proc, NEW l, Goto(p, l), UNCHANGED <<job, lock>>
  PROVE  Decide(p, l, job[p]) /\ job[p] \in Job
BY DEF TypeOK, Decide

\* What executing a batch leaves behind.
LEMMA ExecutesEffect ==
  ASSUME TypeOK, NEW j, Batch(j), Executes(j)
  PROVE  table' \in Policy \cup {NoPolicy} /\ banned' \in [Addr -> Ttl \cup {0}]
<1>1. j \in Job /\ j.ttl \in Ttl \cup {0}
  BY DEF Batch, Job
<1>2. CASE j.kind \in {"create", "restore"} /\ table' = PolicyOf(j.value) /\ banned' = [x \in Addr |-> 0]
  BY <1>2, PolicyType DEF Batch
<1>3. CASE j.kind = "reload" /\ table' = PolicyOf(j.value) /\ UNCHANGED banned
  BY <1>3, PolicyType DEF Batch, TypeOK
<1>4. CASE /\ j.kind \in {"add", "remove"} /\ UNCHANGED table
           /\ banned' = [banned EXCEPT ![j.peer] = j.ttl]
  BY <1>1, <1>4 DEF TypeOK
<1> QED BY <1>2, <1>3, <1>4 DEF Executes

-----------------------------------------------------------------------------
(* The invariant is inductive.                                             *)

LEMMA InvInit == Init => IInv
<1> SUFFICES ASSUME Init PROVE IInv
  OBVIOUS
<1>1. TypeOK
  <2>1. Idle \in Job
    BY DEF Idle, Job, Kind
  <2> QED BY <2>1 DEF Init, TypeOK, Step, Exit, Doc0
<1>2. LockIsHeld /\ JobsFit
  BY FitsExit DEF Init, LockIsHeld, JobsFit, Exit
<1>3. OrphansFit /\ FilesAreSound /\ AuthoritySurvives
  BY DEF Init, OrphansFit, FilesAreSound, AuthoritySurvives
<1> QED BY <1>1, <1>2, <1>3 DEF IInv

LEMMA CallKeeps ==
  ASSUME IInv, NEW p \in Proc, NEW j \in Job, Call(p, j), Fits("lock", j)
  PROVE  IInv'
<1>1. TypeOK /\ UNCHANGED <<table, banned, store, lock, orphans, lkg>>
  BY DEF IInv, Call
<1>2. Decide(p, "lock", j)
  BY <1>1 DEF Call, Decide
<1>3. /\ pc' \in [Proc -> Step] /\ job' \in [Proc -> Job] /\ lock' = lock
      /\ pc'[p] = "lock" /\ job'[p] = j
      /\ \A q \in Proc : q # p => pc'[q] = pc[q] /\ job'[q] = job[q]
  BY <1>1, <1>2, DecideEffect, Names
<1>4. TypeOK'
  BY <1>1, <1>3 DEF TypeOK, store
<1>5. LockIsHeld'
  BY <1>3 DEF IInv, LockIsHeld
<1>6. JobsFit'
  <2>1. \A q \in Proc : Fits(pc'[q], job'[q])
    BY <1>3 DEF IInv, JobsFit
  <2> QED BY <1>1, <2>1 DEF JobsFit, Fits, Batch, Sound, Follows, store
<1>7. OrphansFit' /\ FilesAreSound' /\ AuthoritySurvives'
  BY <1>1 DEF IInv, OrphansFit, FilesAreSound, AuthoritySurvives, store
<1> QED BY <1>4, <1>5, <1>6, <1>7 DEF IInv

LEMMA StartKeeps == ASSUME IInv, NEW p \in Proc, Start(p) PROVE IInv'
<1>1. Idle \in Job /\ Fits("lock", Idle)
  BY DEF Idle, Job, Kind, Fits
<1>2. ASSUME NEW c \in Configs, Apply(p, c) PROVE IInv'
  <2> DEFINE v == [config |-> c, prefixes |-> IF c.mode = "PROTECTED" THEN lkg ELSE NoDoc]
             j == [Idle EXCEPT !.kind = "apply", !.value = v]
  <2>1. lkg \in Doc0 /\ c.mode \in {"DIRECT", "PROTECTED"}
    BY InputsAssumption DEF IInv, TypeOK, Configuration
  <2>2. Sound(v) /\ (v.config.mode = "DIRECT" => v.prefixes = NoDoc)
    BY <1>2, <2>1 DEF Apply, Sound, Value, Doc0
  <2>3. j \in Job /\ j.kind = "apply" /\ j.value = v
    BY <2>2 DEF Idle, Job, Kind, Sound
  <2>4. Fits("lock", j)
    BY <2>2, <2>3 DEF Fits
  <2>5. Call(p, j)
    BY <1>2 DEF Apply
  <2> HIDE DEF j
  <2> QED BY <2>3, <2>4, <2>5, CallKeeps
<1>3. CASE Restore(p)
  <2>1. [Idle EXCEPT !.kind = "restore"] \in Job /\ Fits("lock", [Idle EXCEPT !.kind = "restore"])
    BY DEF Idle, Job, Kind, Fits
  <2> QED BY <1>3, <2>1, CallKeeps DEF Restore
<1>4. CASE Check(p)
  BY <1>1, <1>4, CallKeeps DEF Check
<1>5. ASSUME NEW k \in {"add", "remove"}, NEW x \in Addr, NEW t \in Ttl \cup {0}, Remediate(p, k, x, t)
      PROVE  IInv'
  <2> DEFINE j == [Idle EXCEPT !.kind = k, !.peer = x, !.ttl = IF k = "add" THEN t ELSE 0]
  <2>1. j \in Job /\ j.kind = k /\ j.peer = x
    BY DEF Idle, Job, Kind
  <2>2. Fits("lock", j)
    BY <2>1 DEF Fits
  <2>3. Call(p, j)
    BY <1>5 DEF Remediate
  <2> HIDE DEF j
  <2> QED BY <2>1, <2>2, <2>3, CallKeeps
<1> QED BY <1>2, <1>3, <1>4, <1>5 DEF Start

LEMMA LockKeeps == ASSUME IInv, NEW p \in Proc, StateLock(p) PROVE IInv'
<1>1. TypeOK /\ pc[p] = "lock" /\ UNCHANGED <<table, banned, store, orphans, lkg>>
  BY DEF IInv, StateLock
<1>2. CASE Return(p, "error")
  <2>1. OrphansFit' /\ orphans' \subseteq Job
    BY <1>1 DEF IInv, OrphansFit, TypeOK
  <2> QED BY <1>1, <1>2, <2>1, ReturnKeeps DEF Exit
<1>3. CASE lock = NoProc /\ lock' = p /\ Goto(p, "admit") /\ UNCHANGED job
  <2>1. /\ pc' \in [Proc -> Step] /\ pc'[p] = "admit"
        /\ \A q \in Proc : q # p => pc'[q] = pc[q]
    BY <1>1, <1>3, Names DEF TypeOK, Goto
  <2>2. TypeOK'
    BY <1>1, <1>3, <2>1 DEF TypeOK, store
  <2>3. \A q \in Proc : pc[q] \in Exit \cup {"lock"}
    BY <1>3, NoneAssumption DEF IInv, LockIsHeld
  <2>4. LockIsHeld'
    BY <1>3, <2>1, <2>3 DEF LockIsHeld
  <2>5. JobsFit'
    <3>1. Fits("admit", job[p])
      BY <1>1 DEF IInv, JobsFit, Fits
    <3>2. \A q \in Proc : Fits(pc'[q], job'[q])
      BY <1>3, <2>1, <3>1 DEF IInv, JobsFit
    <3> QED BY <1>1, <3>2 DEF JobsFit, Fits, Batch, Sound, Follows, store
  <2>6. OrphansFit' /\ FilesAreSound' /\ AuthoritySurvives'
    BY <1>1 DEF IInv, OrphansFit, FilesAreSound, AuthoritySurvives, store
  <2> QED BY <2>2, <2>4, <2>5, <2>6 DEF IInv
<1> QED BY <1>2, <1>3 DEF StateLock

\* What apply() wants includes what is accepted, in either mode.
LEMMA CandidateFollows ==
  ASSUME NEW v, NEW w, Sound(v), v.config.mode = "DIRECT" => v.prefixes = NoDoc,
         w # NoValue => Sound(w), Admissible(v, w)
  PROVE  Sound(Candidate(v, w)) /\ Follows(Candidate(v, w), w)
<1>1. v \in Value /\ v.config.mode \in {"DIRECT", "PROTECTED"}
  BY InputsAssumption DEF Sound, Value, Configuration
<1>2. CASE w = NoValue
  <2>1. Candidate(v, w) = v
    BY <1>2 DEF Candidate
  <2> QED BY <1>2, <2>1 DEF Follows
<1>3. CASE w # NoValue /\ v.config.mode = "DIRECT"
  <2> DEFINE c == Candidate(v, w)
  <2>1. w \in Value
    BY <1>3 DEF Sound
  <2>2. c = [v EXCEPT !.prefixes = w.prefixes]
    BY <1>3 DEF Candidate
  <2>3. c \in Value /\ c.config = v.config /\ c.prefixes = w.prefixes
    BY <1>1, <2>1, <2>2 DEF Value
  <2>4. Covers(w.prefixes, w.prefixes)
    BY DEF Covers
  <2>5. Sound(c) /\ Includes(c, w)
    BY <1>3, <2>3, <2>4 DEF Sound, Includes, Admissible, ManagementTransition
  <2> QED BY <2>5 DEF Follows
<1>4. CASE w # NoValue /\ v.config.mode = "PROTECTED"
  <2>1. Candidate(v, w) = v
    BY <1>4 DEF Candidate
  <2>2. Includes(v, w)
    BY <1>4 DEF Sound, Includes, Admissible, ManagementTransition
  <2> QED BY <2>1, <2>2 DEF Follows
<1> QED BY <1>1, <1>2, <1>3, <1>4

\* The same as ReturnKeeps when nothing else changes.
LEMMA ErrorKeeps ==
  ASSUME IInv, NEW p \in Proc, NEW e \in Exit, Return(p, e),
         UNCHANGED <<table, banned, store, orphans, lkg>>
  PROVE  IInv'
<1>1. OrphansFit' /\ orphans' \subseteq Job
  BY DEF IInv, OrphansFit, TypeOK
<1> QED BY <1>1, ReturnKeeps

LEMMA AdmitApplyKeeps == ASSUME IInv, NEW p \in Proc, AdmitApply(p) PROVE IInv'
<1>1. /\ TypeOK /\ pc[p] = "admit" /\ job[p].kind = "apply"
      /\ UNCHANGED <<table, banned, store, orphans, lkg>>
  BY DEF IInv, AdmitApply
<1>2. CASE Return(p, "error")
  BY <1>1, <1>2, ErrorKeeps DEF Exit
<1>3. CASE ~Return(p, "error")
  <2> DEFINE v == Candidate(job[p].value, file)
             k == Plan(v, file)
             j == [job[p] EXCEPT !.kind = k, !.value = v]
             l == IF k = "apply" THEN "replace" ELSE "commit"
  <2>1. Admissible(job[p].value, file) /\ k # "refuse" /\ Decide(p, l, j)
    BY <1>3 DEF AdmitApply
  <2>2. /\ Sound(job[p].value)
        /\ job[p].value.config.mode = "DIRECT" => job[p].value.prefixes = NoDoc
    BY <1>1 DEF IInv, JobsFit, Fits
  <2>3. Sound(v) /\ Follows(v, file)
    BY <2>1, <2>2, CandidateFollows DEF IInv, FilesAreSound
  <2>4. k \in {"create", "apply", "reload"}
    BY <2>1 DEF Plan
  <2>5. job[p] \in Job
    BY <1>1 DEF TypeOK
  <2> HIDE DEF v, k
  <2>6. j \in Job /\ j.kind = k /\ j.value = v
    BY <2>3, <2>4, <2>5 DEF Job, Kind, Sound
  <2>7. Fits(l, j) /\ l \in Step
    BY <2>3, <2>4, <2>6 DEF Fits, Batch, Step
  <2> HIDE DEF j, l
  <2>8. table' \in Policy \cup {NoPolicy} /\ banned' \in [Addr -> Ttl \cup {0}]
    BY <1>1 DEF TypeOK
  <2>9. pc[p] \notin Exit \cup {"lock"}
    BY <1>1 DEF Exit
  <2> QED BY <1>1, <2>1, <2>6, <2>7, <2>8, <2>9, DecideKeeps
<1> QED BY <1>2, <1>3

LEMMA AdmitRestoreKeeps == ASSUME IInv, NEW p \in Proc, AdmitRestore(p) PROVE IInv'
<1>1. /\ TypeOK /\ pc[p] = "admit" /\ job[p].kind = "restore"
      /\ UNCHANGED <<table, banned, store, orphans, lkg>>
  BY DEF IInv, AdmitRestore
<1>2. CASE Return(p, "error")
  BY <1>1, <1>2, ErrorKeeps DEF Exit
<1>3. CASE ~Return(p, "error")
  <2> DEFINE j == [job[p] EXCEPT !.value = file]
             l == IF table = NoPolicy THEN "commit" ELSE "readback"
  <2>1. file # NoValue /\ Decide(p, l, j)
    BY <1>3 DEF AdmitRestore
  <2>2. Sound(file)
    BY <2>1 DEF IInv, FilesAreSound
  <2>3. j \in Job /\ j.kind = "restore" /\ j.value = file
    BY <1>1, <2>2 DEF TypeOK, Job, Sound
  <2>4. Fits(l, j) /\ l \in Step
    BY <2>2, <2>3 DEF Fits, Batch, Step
  <2> HIDE DEF j, l
  <2>5. table' \in Policy \cup {NoPolicy} /\ banned' \in [Addr -> Ttl \cup {0}]
    BY <1>1 DEF TypeOK
  <2>6. pc[p] \notin Exit \cup {"lock"}
    BY <1>1 DEF Exit
  <2> QED BY <1>1, <2>1, <2>3, <2>4, <2>5, <2>6, DecideKeeps
<1> QED BY <1>2, <1>3

LEMMA AdmitRemediateKeeps == ASSUME IInv, NEW p \in Proc, AdmitRemediate(p) PROVE IInv'
<1>1. /\ TypeOK /\ pc[p] = "admit" /\ job[p].kind \in {"add", "remove"}
      /\ UNCHANGED <<table, banned, store, orphans, lkg>>
  BY DEF IInv, AdmitRemediate
<1>2. CASE Return(p, "error")
  BY <1>1, <1>2, ErrorKeeps DEF Exit
<1>3. CASE ~Return(p, "error")
  <2> DEFINE j == [job[p] EXCEPT !.value = file]
  <2>1. Decide(p, "commit", j)
    BY <1>3 DEF AdmitRemediate
  <2>2. job[p].peer \in Addr /\ (job[p].kind = "remove" => job[p].ttl = 0)
    BY <1>1 DEF IInv, JobsFit, Fits
  <2>3. j \in Job /\ j.kind \in {"add", "remove"} /\ j.peer \in Addr /\ (j.kind = "remove" => j.ttl = 0)
    BY <1>1, <2>2 DEF TypeOK, Job
  <2>4. Fits("commit", j) /\ "commit" \in Step
    BY <2>3 DEF Fits, Batch, Step
  <2> HIDE DEF j
  <2>5. table' \in Policy \cup {NoPolicy} /\ banned' \in [Addr -> Ttl \cup {0}]
    BY <1>1 DEF TypeOK
  <2>6. pc[p] \notin Exit \cup {"lock"}
    BY <1>1 DEF Exit
  <2> QED BY <1>1, <2>1, <2>3, <2>4, <2>5, <2>6, DecideKeeps
<1> QED BY <1>2, <1>3

LEMMA CommitKeeps == ASSUME IInv, NEW p \in Proc, Commit(p) PROVE IInv'
<1>1. TypeOK /\ pc[p] = "commit" /\ UNCHANGED <<store, orphans, lkg>>
  BY DEF IInv, Commit
<1>2. CASE Return(p, "error") /\ UNCHANGED <<table, banned>>
  BY <1>1, <1>2, ErrorKeeps DEF Exit
<1>3. CASE Goto(p, "readback") /\ UNCHANGED <<job, lock>> /\ (Executes(job[p]) \/ UNCHANGED <<table, banned>>)
  <2>1. Decide(p, "readback", job[p]) /\ job[p] \in Job
    BY <1>1, <1>3, GotoDecides
  <2>2. Fits("commit", job[p])
    BY <1>1 DEF IInv, JobsFit
  <2>3. Fits("readback", job[p]) /\ Batch(job[p])
    BY <2>2 DEF Fits
  <2>4. table' \in Policy \cup {NoPolicy} /\ banned' \in [Addr -> Ttl \cup {0}]
    BY <1>1, <1>3, <2>3, ExecutesEffect DEF TypeOK
  <2>5. pc[p] \notin Exit \cup {"lock"} /\ "readback" \in Step
    BY <1>1 DEF Exit, Step
  <2> QED BY <1>1, <2>1, <2>3, <2>4, <2>5, DecideKeeps
<1> QED BY <1>2, <1>3 DEF Commit

LEMMA ReadBackKeeps == ASSUME IInv, NEW p \in Proc, ReadBack(p) PROVE IInv'
<1>1. TypeOK /\ pc[p] = "readback" /\ UNCHANGED <<table, banned, store, orphans, lkg>>
  BY DEF IInv, ReadBack
<1>2. CASE Return(p, "error") \/ Return(p, "ok")
  BY <1>1, <1>2, ErrorKeeps DEF Exit
<1>3. CASE job[p].kind \in {"create", "reload"} /\ Goto(p, "replace") /\ UNCHANGED <<job, lock>>
  <2>1. Decide(p, "replace", job[p]) /\ job[p] \in Job
    BY <1>1, <1>3, GotoDecides
  <2>2. Fits("readback", job[p])
    BY <1>1 DEF IInv, JobsFit
  <2>3. Fits("replace", job[p])
    BY <1>3, <2>2 DEF Fits, Batch
  <2>4. table' \in Policy \cup {NoPolicy} /\ banned' \in [Addr -> Ttl \cup {0}]
    BY <1>1 DEF TypeOK
  <2>5. pc[p] \notin Exit \cup {"lock"} /\ "replace" \in Step
    BY <1>1 DEF Exit, Step
  <2> QED BY <1>1, <2>1, <2>3, <2>4, <2>5, DecideKeeps
<1> QED BY <1>2, <1>3 DEF ReadBack

LEMMA ReplaceKeeps == ASSUME IInv, NEW p \in Proc, Replace(p) PROVE IInv'
<1>1. TypeOK /\ pc[p] = "replace" /\ UNCHANGED <<table, banned, fileD, orphans, lkg, confirmed>>
  BY DEF IInv, Replace
<1>2. CASE Return(p, "error") /\ UNCHANGED file
  BY <1>1, <1>2, ErrorKeeps DEF Exit, store
<1>3. CASE file' = job[p].value /\ Goto(p, "sync") /\ UNCHANGED <<job, lock>>
  <2>1. Sound(job[p].value) /\ Follows(job[p].value, file)
    BY <1>1 DEF IInv, JobsFit, Fits
  <2>2. /\ pc' \in [Proc -> Step] /\ pc'[p] = "sync"
        /\ \A q \in Proc : q # p => pc'[q] = pc[q]
    BY <1>1, <1>3, Names DEF TypeOK, Goto
  <2>3. file' \in Value /\ file' # NoValue
    BY <1>3, <2>1, Names DEF Sound
  <2>4. TypeOK'
    BY <1>1, <1>3, <2>2, <2>3 DEF TypeOK
  <2>5. \A q \in Proc : q # p => pc[q] \in Exit \cup {"lock"}
    BY <1>1 DEF IInv, LockIsHeld, Exit
  <2>6. LockIsHeld'
    BY <1>1, <1>3, <2>2, <2>5 DEF IInv, LockIsHeld, Exit
  <2>7. JobsFit'
    <3>1. ASSUME NEW q \in Proc, q # p PROVE Fits(pc[q], job[q])'
      BY <1>3, <2>2, <2>5, <3>1 DEF IInv, JobsFit, Fits, Exit, Sound
    <3>2. Fits(pc[p], job[p])'
      BY <1>3, <2>1, <2>2 DEF Fits, Sound
    <3> QED BY <3>1, <3>2 DEF JobsFit
  <2>8. OrphansFit' /\ FilesAreSound'
    BY <1>1, <1>3, <2>1 DEF IInv, OrphansFit, FilesAreSound
  <2>9. AuthoritySurvives'
    <3> SUFFICES ASSUME confirmed # NoValue
                 PROVE  \A v \in {file', fileD} : v # NoValue /\ Includes(v, confirmed)
      BY <1>1 DEF AuthoritySurvives
    <3>1. file # NoValue /\ Includes(file, confirmed) /\ fileD # NoValue /\ Includes(fileD, confirmed)
      BY DEF IInv, AuthoritySurvives
    <3>2. file \in Value /\ confirmed \in Value
      BY <1>1, <3>1 DEF TypeOK
    <3>3. Includes(file', confirmed)
      BY <1>3, <2>1, <2>3, <3>1, <3>2, IncludesTransitive DEF Follows
    <3> QED BY <2>3, <3>1, <3>3
  <2> QED BY <2>4, <2>6, <2>7, <2>8, <2>9 DEF IInv
<1> QED BY <1>2, <1>3 DEF Replace

LEMMA SyncKeeps == ASSUME IInv, NEW p \in Proc, Sync(p) PROVE IInv'
<1>1. TypeOK /\ pc[p] = "sync" /\ UNCHANGED <<table, banned, file, orphans, lkg>>
  BY DEF IInv, Sync
<1>2. CASE Return(p, "uncertain") /\ UNCHANGED <<fileD, confirmed>>
  BY <1>1, <1>2, ErrorKeeps DEF Exit, store
<1>3. CASE fileD' = file /\ confirmed' = job[p].value /\ Return(p, "ok")
  <2>1. Sound(file) /\ job[p].value = file
    BY <1>1 DEF IInv, JobsFit, Fits
  <2>2. file \in Value /\ file # NoValue
    BY <2>1, Names DEF Sound
  <2>3. /\ pc' \in [Proc -> Step] /\ job' \in [Proc -> Job]
        /\ lock' \in Proc \cup {NoProc}
        /\ pc'[p] = "ok"
        /\ \A q \in Proc : q # p => pc'[q] = pc[q] /\ job'[q] = job[q]
        /\ \A q \in Proc : q # p /\ lock = q => lock' = q
    BY <1>1, <1>3, ReturnEffect DEF Exit
  <2>4. TypeOK'
    BY <1>1, <1>3, <2>1, <2>2, <2>3 DEF TypeOK
  <2>5. LockIsHeld'
    BY <2>3 DEF IInv, LockIsHeld, Exit
  <2>6. JobsFit'
    <3>1. \A q \in Proc : Fits(pc'[q], job'[q])
      BY <2>3, FitsExit DEF IInv, JobsFit, Exit
    <3> QED BY <1>1, <3>1 DEF JobsFit, Fits, Batch, Sound, Follows
  <2>7. OrphansFit' /\ FilesAreSound'
    BY <1>1, <1>3, <2>1 DEF IInv, OrphansFit, FilesAreSound
  <2>8. AuthoritySurvives'
    BY <1>1, <1>3, <2>1, <2>2, IncludesReflexive DEF AuthoritySurvives
  <2> QED BY <2>4, <2>5, <2>6, <2>7, <2>8 DEF IInv
<1> QED BY <1>2, <1>3 DEF Sync

LEMMA KillKeeps == ASSUME IInv, NEW p \in Proc, Kill(p) PROVE IInv'
<1>1. UNCHANGED <<table, banned, store, lkg>> /\ Return(p, "none")
  BY DEF Kill
<1>2. orphans' \subseteq orphans \cup {job[p]} /\ (orphans' # orphans => pc[p] = "commit")
  BY DEF Kill
<1>3. pc[p] = "commit" => Batch(job[p])
  BY DEF IInv, JobsFit, Fits
<1>4. \A j \in orphans' : Batch(j)
  BY <1>2, <1>3 DEF IInv, OrphansFit
<1>5. orphans' \subseteq Job /\ OrphansFit'
  BY <1>4 DEF OrphansFit, Batch, Sound
<1> QED BY <1>1, <1>5, ReturnKeeps DEF Exit

\* Steps of the environment that leave helpers and files alone.
LEMMA KernelKeeps ==
  ASSUME IInv, UNCHANGED <<store, lock, pc, job>>, orphans' \subseteq orphans,
         table' \in Policy \cup {NoPolicy}, banned' \in [Addr -> Ttl \cup {0}], lkg' \in Doc0
  PROVE  IInv'
<1>1. TypeOK'
  BY DEF IInv, TypeOK, store
<1>2. LockIsHeld' /\ FilesAreSound' /\ AuthoritySurvives'
  BY DEF IInv, LockIsHeld, FilesAreSound, AuthoritySurvives, store
<1>3. JobsFit' /\ OrphansFit'
  BY DEF IInv, JobsFit, OrphansFit, Fits, Batch, Sound, Follows, store
<1> QED BY <1>1, <1>2, <1>3 DEF IInv

LEMMA OrphanKeeps == ASSUME IInv, NEW j \in orphans, OrphanEnds(j) PROVE IInv'
<1>1. Batch(j) /\ TypeOK
  BY DEF IInv, OrphansFit
<1>2. table' \in Policy \cup {NoPolicy} /\ banned' \in [Addr -> Ttl \cup {0}]
  BY <1>1, ExecutesEffect DEF OrphanEnds, TypeOK
<1>3. orphans' \subseteq orphans /\ UNCHANGED <<store, lock, pc, job, lkg>>
  BY DEF OrphanEnds
<1> QED BY <1>1, <1>2, <1>3, KernelKeeps DEF TypeOK

LEMMA RebootKeeps == ASSUME IInv, Reboot PROVE IInv'
<1>1. TypeOK'
  <2>1. Idle \in Job /\ "none" \in Step
    BY DEF Idle, Job, Kind, Step, Exit
  <2> QED BY <2>1 DEF Reboot, IInv, TypeOK
<1>2. LockIsHeld'
  BY DEF Reboot, LockIsHeld, Exit
<1>3. JobsFit' /\ OrphansFit'
  BY DEF Reboot, JobsFit, OrphansFit, Fits
<1>4. FilesAreSound' /\ AuthoritySurvives'
  BY DEF Reboot, IInv, FilesAreSound, AuthoritySurvives
<1> QED BY <1>1, <1>2, <1>3, <1>4 DEF IInv

LEMMA FlushKeeps == ASSUME IInv, Flush PROVE IInv'
<1>1. TypeOK'
  BY DEF Flush, IInv, TypeOK
<1>2. LockIsHeld' /\ OrphansFit'
  BY DEF Flush, IInv, LockIsHeld, OrphansFit
<1>3. JobsFit'
  BY DEF Flush, IInv, JobsFit, Fits, Follows
<1>4. FilesAreSound' /\ AuthoritySurvives'
  BY DEF Flush, IInv, FilesAreSound, AuthoritySurvives
<1> QED BY <1>1, <1>2, <1>3, <1>4 DEF IInv

LEMMA InvStep == IInv /\ [Next]_vars => IInv'
<1> SUFFICES ASSUME IInv, [Next]_vars PROVE IInv'
  OBVIOUS
<1>1. ASSUME NEW p \in Proc, Start(p) PROVE IInv'
  BY <1>1, StartKeeps
<1>2. ASSUME NEW p \in Proc, AdmitCheck(p) PROVE IInv'
  BY <1>2, ErrorKeeps DEF AdmitCheck, Exit
<1>3. ASSUME NEW p \in Proc, Run(p) PROVE IInv'
  BY <1>2, <1>3, LockKeeps, AdmitApplyKeeps, AdmitRestoreKeeps, AdmitRemediateKeeps, CommitKeeps,
     ReadBackKeeps, ReplaceKeeps, SyncKeeps DEF Run
<1>4. ASSUME NEW p \in Proc, Kill(p) PROVE IInv'
  BY <1>4, KillKeeps
<1>5. ASSUME NEW j \in orphans, OrphanEnds(j) PROVE IInv'
  BY <1>5, OrphanKeeps
<1>6. ASSUME NEW x \in Addr, Expire(x) PROVE IInv'
  <2>1. UNCHANGED <<table, store, lock, pc, job, orphans, lkg>>
    BY <1>6 DEF Expire
  <2>2. banned' \in [Addr -> Ttl \cup {0}]
    BY <1>6 DEF Expire, IInv, TypeOK
  <2> QED BY <2>1, <2>2, KernelKeeps DEF IInv, TypeOK
<1>7. ASSUME NEW d \in Publications, AcceptPrefixes(d) PROVE IInv'
  BY <1>7, KernelKeeps DEF AcceptPrefixes, IInv, TypeOK, Doc0
<1>8. CASE Reboot
  BY <1>8, RebootKeeps
<1>9. CASE Flush
  BY <1>9, FlushKeeps
<1>10. CASE UNCHANGED vars
  BY <1>10, KernelKeeps DEF vars, store, IInv, TypeOK
<1> QED BY <1>1, <1>3, <1>4, <1>5, <1>6, <1>7, <1>8, <1>9, <1>10 DEF Next

LEMMA Invariant == Spec => []IInv
BY InvInit, InvStep, PTL DEF Spec

-----------------------------------------------------------------------------
(* Theorems.                                                               *)

\* Every variable keeps its type.
THEOREM TypeCorrect == Spec => []TypeOK
BY Invariant, PTL DEF IInv

\* What an apply reported with exit status 0 survives in accepted.json and its
\* durable copy, through kills, reboots, mode changes and late nft children.
THEOREM AuthorityIsKept == Spec => []AuthoritySurvives
BY Invariant, PTL DEF IInv

-----------------------------------------------------------------------------
(* The kernel table, as long as no nft child outlives its helper.          *)

\* No nft child runs on after its helper was killed.
NoOrphans == orphans = {}

\* What a helper that holds the lock knows about the table.
TableFits(l, j) ==
  /\ l = "commit" /\ j.kind = "reload" =>
       file # NoValue /\ table = PolicyOf(file) /\ Decisions \cap Protected(j.value) = {}
  /\ l = "commit" /\ j.kind \in {"add", "remove"} =>
       file # NoValue /\ table = PolicyOf(file) /\ j.peer \notin Protected(file)
  /\ l = "commit" /\ j.kind = "restore" => file # NoValue /\ j.value = file
  /\ l \in {"replace", "sync"} => table = PolicyOf(j.value)

TablesFit == \A p \in Proc : TableFits(pc[p], job[p])

KInv == TablesFit /\ ProtectedNotBanned /\ TableKeepsAuthority

\* A policy grants what its value includes.
LEMMA PolicyKeeps ==
  ASSUME NEW v, NEW w \in Value, Sound(v), Includes(v, w)
  PROVE  /\ w.config.management \subseteq PolicyOf(v).config.management
         /\ w.config.uplinks \subseteq PolicyOf(v).config.uplinks
         /\ PolicyOf(v).config.mode = "PROTECTED" /\ w.prefixes # NoDoc =>
              \E d \in Publications : PolicyOf(v).origin = d.content /\ Covers(d, w.prefixes)
<1>1. v.prefixes \in Doc0 /\ PolicyOf(v).config = v.config /\ PolicyOf(v).origin = Origin(v)
  BY DEF Sound, Value, PolicyOf
<1>2. ASSUME v.config.mode = "PROTECTED", w.prefixes # NoDoc
      PROVE  v.prefixes \in Publications /\ Origin(v) = v.prefixes.content /\ Covers(v.prefixes, w.prefixes)
  BY <1>1, <1>2 DEF Sound, Includes, Origin, Doc0
<1> QED BY <1>1, <1>2 DEF Includes

\* A step of one helper that leaves table, decisions and files alone.
LEMMA LocalKeeps ==
  ASSUME KInv, NEW p \in Proc, UNCHANGED <<table, banned, file, confirmed>>,
         TableFits(pc'[p], job'[p]),
         \A q \in Proc : q # p => pc'[q] = pc[q] /\ job'[q] = job[q]
  PROVE  KInv'
<1>1. \A q \in Proc : TableFits(pc'[q], job'[q])
  BY DEF KInv, TablesFit
<1>2. TablesFit'
  BY <1>1 DEF TablesFit, TableFits, Decisions
<1>3. ProtectedNotBanned' /\ TableKeepsAuthority'
  BY DEF KInv, ProtectedNotBanned, TableKeepsAuthority, Decisions
<1> QED BY <1>2, <1>3 DEF KInv

LEMMA QuietKeeps ==
  ASSUME KInv, TypeOK, NEW p \in Proc, UNCHANGED <<table, banned, file, confirmed>>,
         \/ \E e \in Exit : Return(p, e)
         \/ Goto(p, "lock") /\ \E j : job' = [job EXCEPT ![p] = j]
         \/ Goto(p, "admit") /\ UNCHANGED job
         \/ Goto(p, "readback") /\ \E j : job' = [job EXCEPT ![p] = j]
  PROVE  KInv'
<1>1. /\ pc'[p] \in Exit \cup {"lock", "admit", "readback"}
      /\ \A q \in Proc : q # p => pc'[q] = pc[q] /\ job'[q] = job[q]
  BY DEF TypeOK, Return, Goto
<1>2. TableFits(pc'[p], job'[p])
  BY <1>1 DEF TableFits, Exit
<1> QED BY <1>1, <1>2, LocalKeeps

\* Only the lock holder is at a step that knows about the table.
LEMMA OthersWait ==
  ASSUME IInv, NEW p \in Proc, pc[p] \in {"admit", "commit", "readback", "replace", "sync"}
  PROVE  \A q \in Proc : q # p => pc[q] \in Exit \cup {"lock"}
BY DEF IInv, LockIsHeld, Exit

LEMMA TableAdmitApply == ASSUME IInv, KInv, NEW p \in Proc, AdmitApply(p) PROVE KInv'
<1>1. /\ TypeOK /\ pc[p] = "admit" /\ job[p].kind = "apply"
      /\ UNCHANGED <<table, banned, file, confirmed>>
  BY DEF IInv, AdmitApply, store
<1>2. CASE Return(p, "error")
  BY <1>1, <1>2, QuietKeeps DEF Exit
<1>3. CASE ~Return(p, "error")
  <2> DEFINE v == Candidate(job[p].value, file)
             k == Plan(v, file)
             j == [job[p] EXCEPT !.kind = k, !.value = v]
             l == IF k = "apply" THEN "replace" ELSE "commit"
  <2>1. k # "refuse" /\ Decide(p, l, j)
    BY <1>3 DEF AdmitApply
  <2>2. /\ k = "apply" => table = PolicyOf(v)
        /\ k = "reload" => file # NoValue /\ table = PolicyOf(file) /\ Decisions \cap Protected(v) = {}
        /\ k \in {"apply", "create", "reload"}
    BY <2>1 DEF Plan, AdmitDecisions
  <2>3. job[p] \in Job
    BY <1>1 DEF TypeOK
  <2> HIDE DEF v, k
  <2>4. j.kind = k /\ j.value = v
    BY <2>3 DEF Job
  <2>5. TableFits(l, j)
    BY <2>2, <2>4 DEF TableFits
  <2> HIDE DEF j, l
  <2>6. /\ pc'[p] = l /\ job'[p] = j
        /\ \A q \in Proc : q # p => pc'[q] = pc[q] /\ job'[q] = job[q]
    BY <1>1, <2>1 DEF TypeOK, Decide, Goto
  <2> QED BY <1>1, <2>5, <2>6, LocalKeeps
<1> QED BY <1>2, <1>3

LEMMA TableAdmitRestore == ASSUME IInv, KInv, NEW p \in Proc, AdmitRestore(p) PROVE KInv'
<1>1. /\ TypeOK /\ pc[p] = "admit" /\ job[p].kind = "restore"
      /\ UNCHANGED <<table, banned, file, confirmed>>
  BY DEF IInv, AdmitRestore, store
<1>2. CASE Return(p, "error")
  BY <1>1, <1>2, QuietKeeps DEF Exit
<1>3. CASE ~Return(p, "error")
  <2> DEFINE j == [job[p] EXCEPT !.value = file]
             l == IF table = NoPolicy THEN "commit" ELSE "readback"
  <2>1. file # NoValue /\ Decide(p, l, j)
    BY <1>3 DEF AdmitRestore
  <2>2. j.kind = "restore" /\ j.value = file
    BY <1>1 DEF TypeOK, Job
  <2>3. TableFits(l, j)
    BY <2>1, <2>2 DEF TableFits
  <2> HIDE DEF j, l
  <2>4. /\ pc'[p] = l /\ job'[p] = j
        /\ \A q \in Proc : q # p => pc'[q] = pc[q] /\ job'[q] = job[q]
    BY <1>1, <2>1 DEF TypeOK, Decide, Goto
  <2> QED BY <1>1, <2>3, <2>4, LocalKeeps
<1> QED BY <1>2, <1>3

LEMMA TableAdmitRemediate == ASSUME IInv, KInv, NEW p \in Proc, AdmitRemediate(p) PROVE KInv'
<1>1. /\ TypeOK /\ pc[p] = "admit" /\ job[p].kind \in {"add", "remove"}
      /\ UNCHANGED <<table, banned, file, confirmed>>
  BY DEF IInv, AdmitRemediate, store
<1>2. CASE Return(p, "error")
  BY <1>1, <1>2, QuietKeeps DEF Exit
<1>3. CASE ~Return(p, "error")
  <2> DEFINE j == [job[p] EXCEPT !.value = file]
  <2>1. Effective /\ job[p].peer \notin Protected(file) /\ Decide(p, "commit", j)
    BY <1>3 DEF AdmitRemediate
  <2>2. j.kind = job[p].kind /\ j.peer = job[p].peer
    BY <1>1 DEF TypeOK, Job
  <2>3. TableFits("commit", j)
    BY <1>1, <2>1, <2>2 DEF TableFits, Effective
  <2> HIDE DEF j
  <2>4. /\ pc'[p] = "commit" /\ job'[p] = j
        /\ \A q \in Proc : q # p => pc'[q] = pc[q] /\ job'[q] = job[q]
    BY <1>1, <2>1 DEF TypeOK, Decide, Goto
  <2> QED BY <1>1, <2>3, <2>4, LocalKeeps
<1> QED BY <1>2, <1>3

\* Executing a batch for which the helper knows the table.
LEMMA TableExecutes ==
  ASSUME IInv, KInv, NEW p \in Proc, pc[p] = "commit", Executes(job[p]), UNCHANGED <<file, confirmed>>
  PROVE  ProtectedNotBanned' /\ TableKeepsAuthority'
<1> DEFINE j == job[p]
<1>1. TypeOK /\ Batch(j) /\ TableFits("commit", j)
  BY DEF IInv, JobsFit, Fits, KInv, TablesFit
<1>2. /\ banned \in [Addr -> Ttl \cup {0}]
      /\ confirmed # NoValue => confirmed \in Value /\ file \in Value /\ Includes(file, confirmed)
  BY <1>1 DEF TypeOK, IInv, AuthoritySurvives
<1>3. j.kind \in {"create", "reload"} => Sound(j.value) /\ Follows(j.value, file)
  BY DEF IInv, JobsFit, Fits, Batch
<1> HIDE DEF j
<1>4. ASSUME j.kind \in {"create", "reload", "restore"}, table' = PolicyOf(j.value)
      PROVE  TableKeepsAuthority'
  <2> SUFFICES ASSUME confirmed # NoValue
               PROVE  /\ confirmed.config.management \subseteq table'.config.management
                      /\ confirmed.config.uplinks \subseteq table'.config.uplinks
                      /\ table'.config.mode = "PROTECTED" /\ confirmed.prefixes # NoDoc =>
                           \E d \in Publications : table'.origin = d.content /\ Covers(d, confirmed.prefixes)
    BY DEF TableKeepsAuthority
  <2>1. Sound(j.value) /\ j.value \in Value /\ file # NoValue
    BY <1>1, <1>2, <1>4, Names DEF Batch, Sound
  <2>2. Includes(j.value, confirmed)
    <3>1. CASE j.kind = "restore"
      BY <1>1, <1>2, <3>1 DEF TableFits
    <3>2. CASE j.kind \in {"create", "reload"}
      BY <1>2, <1>3, <2>1, <3>2, IncludesTransitive DEF Follows
    <3> QED BY <1>4, <3>1, <3>2
  <2> QED BY <1>2, <1>4, <2>1, <2>2, PolicyKeeps
<1>5. CASE j.kind \in {"create", "restore"} /\ table' = PolicyOf(j.value) /\ banned' = [x \in Addr |-> 0]
  <2>1. Decisions' = {}
    BY <1>5 DEF Decisions
  <2> QED BY <1>4, <1>5, <2>1 DEF ProtectedNotBanned
<1>6. CASE j.kind = "reload" /\ table' = PolicyOf(j.value) /\ UNCHANGED banned
  <2>1. Decisions' \cap Protected(j.value) = {}
    BY <1>1, <1>6 DEF TableFits, Decisions
  <2>2. table'.config.management \cup table'.origin = Protected(j.value)
    BY <1>6 DEF PolicyOf, Protected
  <2> QED BY <1>4, <1>6, <2>1, <2>2 DEF ProtectedNotBanned
<1>7. CASE /\ j.kind \in {"add", "remove"} /\ table # NoPolicy /\ UNCHANGED table
           /\ banned' = [banned EXCEPT ![j.peer] = j.ttl]
  <2>1. Decisions' \subseteq Decisions \cup {j.peer}
    BY <1>2, <1>7 DEF Decisions
  <2>2. table.config.management \cup table.origin = Protected(file) /\ j.peer \notin Protected(file)
    BY <1>1, <1>7 DEF TableFits, PolicyOf, Protected
  <2>3. ProtectedNotBanned'
    BY <1>7, <2>1, <2>2 DEF KInv, ProtectedNotBanned
  <2> QED BY <1>7, <2>3 DEF KInv, TableKeepsAuthority
<1> QED BY <1>5, <1>6, <1>7 DEF Executes, j

LEMMA TableCommit == ASSUME IInv, KInv, NEW p \in Proc, Commit(p) PROVE KInv'
<1>1. TypeOK /\ pc[p] = "commit" /\ UNCHANGED <<file, confirmed>>
  BY DEF IInv, Commit, store
<1>2. CASE Return(p, "error") /\ UNCHANGED <<table, banned>>
  BY <1>1, <1>2, QuietKeeps DEF Exit
<1>3. CASE Goto(p, "readback") /\ UNCHANGED <<table, banned, job>>
  <2>1. \E j : job' = [job EXCEPT ![p] = j]
    BY <1>1, <1>3 DEF TypeOK
  <2> QED BY <1>1, <1>3, <2>1, QuietKeeps
<1>4. CASE Executes(job[p]) /\ Goto(p, "readback") /\ UNCHANGED job
  <2>1. \A q \in Proc : pc'[q] \in Exit \cup {"lock", "readback"}
    BY <1>1, <1>4, OthersWait DEF Goto, TypeOK
  <2>2. TablesFit'
    BY <2>1 DEF TablesFit, TableFits, Exit
  <2> QED BY <1>1, <1>4, <2>2, TableExecutes DEF KInv
<1> QED BY <1>2, <1>3, <1>4 DEF Commit

LEMMA TableReadBack == ASSUME IInv, KInv, NEW p \in Proc, ReadBack(p) PROVE KInv'
<1>1. TypeOK /\ pc[p] = "readback" /\ UNCHANGED <<table, banned, file, confirmed>>
  BY DEF IInv, ReadBack, store
<1>2. CASE Return(p, "error") \/ Return(p, "ok")
  BY <1>1, <1>2, QuietKeeps DEF Exit
<1>3. CASE /\ Desired(job[p]) /\ job[p].kind \in {"create", "reload"}
           /\ Goto(p, "replace") /\ UNCHANGED job
  <2>1. pc'[p] = "replace" /\ \A q \in Proc : q # p => pc'[q] = pc[q]
    BY <1>1, <1>3 DEF Goto, TypeOK
  <2>2. TableFits("replace", job[p])
    BY <1>3 DEF Desired, TableFits
  <2> QED BY <1>1, <1>3, <2>1, <2>2, LocalKeeps
<1> QED BY <1>2, <1>3 DEF ReadBack

LEMMA TableReplace == ASSUME IInv, KInv, NEW p \in Proc, Replace(p) PROVE KInv'
<1>1. TypeOK /\ pc[p] = "replace" /\ UNCHANGED <<table, banned, confirmed>>
  BY DEF IInv, Replace
<1>2. CASE Return(p, "error") /\ UNCHANGED file
  BY <1>1, <1>2, QuietKeeps DEF Exit
<1>3. CASE Goto(p, "sync") /\ UNCHANGED job
  <2>1. pc'[p] = "sync" /\ \A q \in Proc : q # p => pc'[q] \in Exit \cup {"lock"}
    BY <1>1, <1>3, OthersWait DEF Goto, TypeOK
  <2>2. table = PolicyOf(job[p].value)
    BY <1>1 DEF KInv, TablesFit, TableFits
  <2>3. TablesFit'
    BY <1>1, <1>3, <2>1, <2>2 DEF TablesFit, TableFits, Exit
  <2>4. ProtectedNotBanned' /\ TableKeepsAuthority'
    BY <1>1 DEF KInv, ProtectedNotBanned, TableKeepsAuthority, Decisions
  <2> QED BY <2>3, <2>4 DEF KInv
<1> QED BY <1>2, <1>3 DEF Replace

LEMMA TableSync == ASSUME IInv, KInv, NEW p \in Proc, Sync(p) PROVE KInv'
<1>1. TypeOK /\ pc[p] = "sync" /\ UNCHANGED <<table, banned, file>>
  BY DEF IInv, Sync
<1>2. CASE Return(p, "uncertain") /\ UNCHANGED confirmed
  BY <1>1, <1>2, QuietKeeps DEF Exit
<1>3. CASE confirmed' = job[p].value /\ Return(p, "ok")
  <2>1. /\ pc'[p] = "ok"
        /\ \A q \in Proc : q # p => pc'[q] = pc[q] /\ job'[q] = job[q]
    BY <1>1, <1>3, ReturnEffect DEF Exit
  <2>2. \A q \in Proc : pc'[q] \in Exit \cup {"lock"}
    BY <1>1, <2>1, OthersWait DEF Exit
  <2>3. TablesFit'
    BY <2>2 DEF TablesFit, TableFits, Exit
  <2>4. table = PolicyOf(job[p].value) /\ Sound(job[p].value) /\ job[p].value \in Value
    BY <1>1 DEF KInv, TablesFit, TableFits, IInv, JobsFit, Fits, Sound
  <2>5. TableKeepsAuthority'
    <3>1. Includes(job[p].value, job[p].value)
      BY <2>4, IncludesReflexive
    <3> QED BY <1>1, <1>3, <2>4, <3>1, PolicyKeeps DEF TableKeepsAuthority
  <2>6. ProtectedNotBanned'
    BY <1>1 DEF KInv, ProtectedNotBanned, Decisions
  <2> QED BY <2>3, <2>5, <2>6 DEF KInv
<1> QED BY <1>2, <1>3 DEF Sync

LEMMA TableRun == ASSUME IInv, KInv, NEW p \in Proc, Run(p) PROVE KInv'
<1>1. TypeOK
  BY DEF IInv
<1>2. CASE StateLock(p)
  BY <1>1, <1>2, QuietKeeps DEF StateLock, store, Exit
<1>3. CASE AdmitCheck(p)
  BY <1>1, <1>3, QuietKeeps DEF AdmitCheck, store, Exit
<1> QED BY <1>2, <1>3, TableAdmitApply, TableAdmitRestore, TableAdmitRemediate, TableCommit,
           TableReadBack, TableReplace, TableSync DEF Run

LEMMA TableStart == ASSUME IInv, KInv, NEW p \in Proc, Start(p) PROVE KInv'
<1>1. \E j : Call(p, j)
  BY DEF Start, Apply, Restore, Check, Remediate
<1> QED BY <1>1, QuietKeeps DEF Call, store, IInv

LEMMA TableStep == IInv /\ KInv /\ NoOrphans /\ [Next]_vars => KInv'
<1> SUFFICES ASSUME IInv, KInv, NoOrphans, [Next]_vars PROVE KInv'
  OBVIOUS
<1>1. ASSUME NEW p \in Proc, Start(p) \/ Run(p) PROVE KInv'
  BY <1>1, TableRun, TableStart
<1>2. ASSUME NEW p \in Proc, Kill(p) PROVE KInv'
  BY <1>2, QuietKeeps DEF Kill, store, IInv, Exit
<1>3. ASSUME NEW x \in Addr, Expire(x) PROVE KInv'
  <2>1. UNCHANGED <<table, file, confirmed, pc, job>>
    BY <1>3 DEF Expire, store
  <2>2. Decisions' \subseteq Decisions
    BY <1>3 DEF Expire, Decisions, IInv, TypeOK
  <2>3. TablesFit'
    BY <2>1, <2>2 DEF KInv, TablesFit, TableFits
  <2> QED BY <2>1, <2>2, <2>3 DEF KInv, ProtectedNotBanned, TableKeepsAuthority
<1>4. CASE Reboot
  <2>1. TablesFit'
    BY <1>4 DEF Reboot, TablesFit, TableFits
  <2> QED BY <1>4, <2>1 DEF Reboot, KInv, ProtectedNotBanned, TableKeepsAuthority
<1>5. CASE UNCHANGED <<table, banned, file, confirmed, pc, job>>
  BY <1>5 DEF KInv, TablesFit, TableFits, ProtectedNotBanned, TableKeepsAuthority, Decisions
<1>6. CASE Flush \/ UNCHANGED vars \/ \E d \in Publications : AcceptPrefixes(d)
  BY <1>5, <1>6 DEF Flush, vars, AcceptPrefixes, store
<1> QED BY <1>1, <1>2, <1>3, <1>4, <1>6 DEF Next, NoOrphans

LEMMA TableInvariant == Spec /\ []NoOrphans => []KInv
<1>1. Init => KInv
  BY DEF Init, KInv, TablesFit, TableFits, ProtectedNotBanned, TableKeepsAuthority
<1> QED BY <1>1, TableStep, Invariant, PTL DEF Spec

\* As long as no nft child outlives its helper, no address that the policy in
\* force protects is ever banned.
THEOREM ProtectedIsNeverBanned == Spec /\ []NoOrphans => []ProtectedNotBanned
BY TableInvariant, PTL DEF KInv

\* And every table in force grants what was confirmed before.
THEOREM TableAlwaysKeepsAuthority == Spec /\ []NoOrphans => []TableKeepsAuthority
BY TableInvariant, PTL DEF KInv

\* Only a commit changes the table to another table, and then to a successor.
LEMMA StepKeepsManagement ==
  ASSUME IInv, KInv, NoOrphans, [Next]_vars, table # NoPolicy, table' # NoPolicy
  PROVE  /\ table.config.management \subseteq table'.config.management
         /\ table.config.uplinks \subseteq table'.config.uplinks
<1>1. ASSUME NEW p \in Proc, Commit(p), Executes(job[p])
      PROVE  /\ table.config.management \subseteq table'.config.management
             /\ table.config.uplinks \subseteq table'.config.uplinks
  <2>1. CASE job[p].kind = "reload"
    <3>1. pc[p] = "commit"
      BY <1>1 DEF Commit
    <3>2. file # NoValue /\ table = PolicyOf(file) /\ Includes(job[p].value, file)
      BY <2>1, <3>1 DEF KInv, TablesFit, TableFits, IInv, JobsFit, Fits, Follows
    <3>3. table' = PolicyOf(job[p].value)
      BY <1>1, <2>1 DEF Executes
    <3> QED BY <3>2, <3>3 DEF PolicyOf, Includes
  <2>2. CASE job[p].kind # "reload"
    BY <1>1, <2>2 DEF Executes
  <2> QED BY <2>1, <2>2
<1>2. \/ UNCHANGED table
      \/ Reboot
      \/ \E p \in Proc : Commit(p) /\ Executes(job[p])
  BY DEF Next, NoOrphans, Start, Apply, Restore, Check, Remediate, Call, Run, StateLock, AdmitApply,
         AdmitRestore, AdmitCheck, AdmitRemediate, Commit, ReadBack, Replace, Sync, Kill, Expire,
         AcceptPrefixes, Flush, vars
<1> QED BY <1>1, <1>2 DEF Reboot

\* And no reload ever withdraws a management network or an uplink.
THEOREM ManagementIsKept == Spec /\ []NoOrphans => ManagementKept
<1>1. IInv /\ KInv /\ NoOrphans /\ [Next]_vars =>
        [table # NoPolicy /\ table' # NoPolicy =>
           /\ table.config.management \subseteq table'.config.management
           /\ table.config.uplinks \subseteq table'.config.uplinks]_vars
  BY StepKeepsManagement
<1> QED BY <1>1, Invariant, TableInvariant, PTL DEF Spec, ManagementKept

\* And an apply exits with 0 only when the table in force is the durable value's.
THEOREM SuccessIsAlwaysEnforced == Spec /\ []NoOrphans => SuccessIsEnforced
<1>1. ASSUME IInv, KInv, NoOrphans, [Next]_vars, NEW p \in Proc, pc[p] = "sync", pc'[p] = "ok"
      PROVE  table = PolicyOf(fileD')
  <2>1. TypeOK /\ table = PolicyOf(job[p].value) /\ job[p].value = file
    BY <1>1 DEF KInv, TablesFit, TableFits, IInv, JobsFit, Fits
  <2>2. \A q \in Proc : pc[q] = "sync" => q = p
    BY <1>1 DEF IInv, LockIsHeld, Exit
  <2>3. ASSUME NEW q \in Proc, Start(q) \/ Run(q) \/ Kill(q), q # p PROVE pc'[p] = pc[p]
    BY <1>1, <2>1, <2>3 DEF TypeOK, Start, Apply, Restore, Check, Remediate, Call, Run, StateLock,
       AdmitApply, AdmitRestore, AdmitCheck, AdmitRemediate, Commit, ReadBack, Replace, Sync, Kill,
       Return, Decide, Goto
  <2>4. ~Start(p) /\ ~Kill(p)
    BY <1>1, <2>1 DEF TypeOK, Start, Apply, Restore, Check, Remediate, Call, Kill, Return, Goto, Exit
  <2>5. Run(p) => Sync(p)
    BY <1>1 DEF Run, StateLock, AdmitApply, AdmitRestore, AdmitCheck, AdmitRemediate, Commit,
       ReadBack, Replace
  <2>6. Sync(p)
    BY <1>1, <2>3, <2>4, <2>5 DEF Next, NoOrphans, Expire, AcceptPrefixes, Reboot, Flush, vars
  <2>7. CASE fileD' = file
    BY <2>1, <2>7
  <2>8. CASE Return(p, "uncertain")
    BY <1>1, <2>1, <2>8 DEF Return, Goto, TypeOK
  <2> QED BY <2>6, <2>7, <2>8 DEF Sync
<1>2. IInv /\ KInv /\ NoOrphans /\ [Next]_vars =>
        [\A p \in Proc : pc[p] = "sync" /\ pc'[p] = "ok" => table = PolicyOf(fileD')]_vars
  BY <1>1
<1> QED BY <1>2, Invariant, TableInvariant, PTL DEF Spec, SuccessIsEnforced

-----------------------------------------------------------------------------
(* What a repeated apply meets.                                            *)

\* Every prefix document in use was accepted before, and the current one covers it.
Covered(v) == v # NoValue /\ v.prefixes # NoDoc => lkg # NoDoc /\ Covers(lkg, v.prefixes)
PrefixesAreCovered == Covered(file) /\ Covered(fileD) /\ \A p \in Proc : Covered(job[p].value)

\* The remediation set never exceeds its capacity.
DecisionsAreFew == IsFiniteSet(Decisions) /\ Cardinality(Decisions) <= MaxDecisions

\* The table in force is a generated one and grants at least what accepted.json does.
TableGrants ==
  table # NoPolicy =>
    /\ table.config.mode = "DIRECT" => table.origin = {}
    /\ file # NoValue => /\ file.config.management \subseteq table.config.management
                         /\ file.config.uplinks \subseteq table.config.uplinks

\* An accepted successor covers what its predecessor covered.
LEMMA CoveredStays ==
  ASSUME TypeOK, NEW v \in Value \cup {NoValue}, Covered(v),
         lkg' = lkg \/ (lkg' \in Publications /\ (lkg # NoDoc => Covers(lkg', lkg)))
  PROVE  v # NoValue /\ v.prefixes # NoDoc => lkg' # NoDoc /\ Covers(lkg', v.prefixes)
<1> SUFFICES ASSUME v # NoValue, v.prefixes # NoDoc PROVE lkg' # NoDoc /\ Covers(lkg', v.prefixes)
  OBVIOUS
<1>1. lkg # NoDoc /\ Covers(lkg, v.prefixes)
  BY DEF Covered
<1>2. lkg \in Publications /\ v.prefixes \in Publications
  BY <1>1 DEF TypeOK, Value, Doc0
<1>3. CASE lkg' = lkg
  BY <1>1, <1>3
<1>4. CASE lkg' \in Publications /\ Covers(lkg', lkg)
  BY <1>1, <1>2, <1>4, CoversTransitive, Names
<1> QED BY <1>1, <1>3, <1>4

\* Where the values of a step come from.
LEMMA ValuesComeFrom ==
  ASSUME IInv, [Next]_vars
  PROVE  /\ lkg' = lkg \/ (lkg' \in Publications /\ (lkg # NoDoc => Covers(lkg', lkg)))
         /\ fileD' \in {fileD, file}
         /\ file' \in {file, fileD} \cup {job[p].value : p \in Proc}
         /\ \A p \in Proc : \/ job'[p].value \in {job[p].value, NoValue, file}
                            \/ job[p].value \in Value /\ job'[p].value = Candidate(job[p].value, file)
                            \/ lkg' = lkg /\ job'[p].value.prefixes \in {lkg, NoDoc}
<1> USE DEF store
<1>0. TypeOK
  BY DEF IInv
<1>1. ASSUME NEW q \in Proc, Start(q)
      PROVE  /\ UNCHANGED <<file, fileD, lkg>>
             /\ \A p \in Proc : \/ job'[p].value \in {job[p].value, NoValue}
                                \/ job'[p].value.prefixes \in {lkg, NoDoc}
  <2>1. ASSUME NEW j, Call(q, j), j.value = NoValue \/ j.value.prefixes \in {lkg, NoDoc}
        PROVE  /\ UNCHANGED <<file, fileD, lkg>>
               /\ \A p \in Proc : \/ job'[p].value \in {job[p].value, NoValue}
                                  \/ job'[p].value.prefixes \in {lkg, NoDoc}
    BY <1>0, <2>1 DEF Call, TypeOK
  <2>2. ASSUME NEW c \in Configs, Apply(q, c)
        PROVE  \E j : Call(q, j) /\ (j.value = NoValue \/ j.value.prefixes \in {lkg, NoDoc})
    <3> DEFINE v == [config |-> c, prefixes |-> IF c.mode = "PROTECTED" THEN lkg ELSE NoDoc]
               j == [Idle EXCEPT !.kind = "apply", !.value = v]
    <3>1. v.prefixes \in {lkg, NoDoc}
      OBVIOUS
    <3> HIDE DEF v
    <3>2. j.value = v
      BY DEF Idle
    <3> QED BY <2>2, <3>1, <3>2 DEF Apply, v
  <2>3. ASSUME ~\E c \in Configs : Apply(q, c) PROVE \E j : Call(q, j) /\ j.value = NoValue
    <3>1. Idle.value = NoValue /\ [Idle EXCEPT !.kind = "restore"].value = NoValue
      BY DEF Idle
    <3>2. \A k, x, t : [Idle EXCEPT !.kind = k, !.peer = x, !.ttl = IF k = "add" THEN t ELSE 0].value = NoValue
      BY DEF Idle
    <3>3. CASE Restore(q) \/ Check(q)
      BY <3>1, <3>3 DEF Restore, Check
    <3>4. ASSUME NEW k, NEW x, NEW t, Remediate(q, k, x, t) PROVE \E j : Call(q, j) /\ j.value = NoValue
      BY <3>2, <3>4 DEF Remediate
    <3> QED BY <1>1, <2>3, <3>3, <3>4 DEF Start
  <2> QED BY <2>1, <2>2, <2>3
<1>2. ASSUME NEW q \in Proc, Run(q) \/ Kill(q)
      PROVE  /\ UNCHANGED lkg /\ fileD' \in {fileD, file}
             /\ file' \in {file, job[q].value}
             /\ \A p \in Proc : \/ job'[p].value \in {job[p].value, NoValue, file}
                                \/ job[p].value \in Value /\ job'[p].value = Candidate(job[p].value, file)
  <2>1. job[q] \in Job /\ Idle.value = NoValue
    BY <1>0 DEF TypeOK, Idle
  <2>2. ASSUME NEW e, Return(q, e) PROVE \A p \in Proc : job'[p].value \in {job[p].value, NoValue}
    BY <1>0, <2>1, <2>2 DEF Return, TypeOK
  <2>3. CASE AdmitApply(q)
    <3>1. UNCHANGED <<file, fileD, lkg>>
      BY <2>3 DEF AdmitApply
    <3>2. CASE Return(q, "error")
      BY <2>2, <3>1, <3>2
    <3>3. CASE ~Return(q, "error")
      <4> DEFINE v == Candidate(job[q].value, file)
                 j == [job[q] EXCEPT !.kind = Plan(v, file), !.value = v]
      <4>1. job' = [job EXCEPT ![q] = j]
        BY <2>3, <3>3 DEF AdmitApply, Decide
      <4>2. j.value = v /\ job[q].value \in Value
        BY <2>1, <2>3 DEF Job, AdmitApply, IInv, JobsFit, Fits, Sound
      <4> HIDE DEF j
      <4> QED BY <1>0, <3>1, <4>1, <4>2 DEF TypeOK
    <3> QED BY <3>2, <3>3
  <2>4. CASE AdmitRestore(q) \/ AdmitRemediate(q)
    <3>1. UNCHANGED <<file, fileD, lkg>>
      BY <2>4 DEF AdmitRestore, AdmitRemediate
    <3>2. CASE Return(q, "error")
      BY <2>2, <3>1, <3>2
    <3>3. CASE ~Return(q, "error")
      <4> DEFINE j == [job[q] EXCEPT !.value = file]
      <4>1. job' = [job EXCEPT ![q] = j]
        BY <2>4, <3>3 DEF AdmitRestore, AdmitRemediate, Decide
      <4>2. j.value = file
        BY <2>1 DEF Job
      <4> HIDE DEF j
      <4> QED BY <1>0, <3>1, <4>1, <4>2 DEF TypeOK
    <3> QED BY <3>2, <3>3
  <2>5. CASE StateLock(q) \/ AdmitCheck(q) \/ Commit(q) \/ ReadBack(q) \/ Replace(q) \/ Sync(q) \/ Kill(q)
    <3>1. UNCHANGED lkg /\ fileD' \in {fileD, file} /\ file' \in {file, job[q].value}
      BY <2>5 DEF StateLock, AdmitCheck, Commit, ReadBack, Replace, Sync, Kill
    <3>2. UNCHANGED job \/ \E e : Return(q, e)
      BY <2>5 DEF StateLock, AdmitCheck, Commit, ReadBack, Replace, Sync, Kill
    <3> QED BY <2>2, <3>1, <3>2
  <2> QED BY <1>2, <2>3, <2>4, <2>5 DEF Run
<1>3. CASE \/ \E j \in orphans : OrphanEnds(j)
           \/ \E x \in Addr : Expire(x)
           \/ \E d \in Publications : AcceptPrefixes(d)
           \/ Flush \/ UNCHANGED vars
  BY <1>3 DEF OrphanEnds, Expire, AcceptPrefixes, Flush, vars
<1>4. CASE Reboot
  BY <1>4 DEF Reboot, Idle
<1> QED BY <1>1, <1>2, <1>3, <1>4 DEF Next

LEMMA CoveredStep == ASSUME IInv, PrefixesAreCovered, [Next]_vars PROVE PrefixesAreCovered'
<1>1. TypeOK /\ TypeOK'
  BY InvStep DEF IInv
<1>2. /\ lkg' = lkg \/ (lkg' \in Publications /\ (lkg # NoDoc => Covers(lkg', lkg)))
      /\ fileD' \in {fileD, file}
      /\ file' \in {file, fileD} \cup {job[p].value : p \in Proc}
  BY ValuesComeFrom
<1>3. /\ file \in Value \cup {NoValue} /\ fileD \in Value \cup {NoValue}
      /\ \A p \in Proc : job[p].value \in Value \cup {NoValue}
  BY <1>1 DEF TypeOK, Job
<1>4. Covered(file) /\ Covered(fileD) /\ \A p \in Proc : Covered(job[p].value)
  BY DEF PrefixesAreCovered
<1>5. \A v \in Value \cup {NoValue} : Covered(v) =>
        (v # NoValue /\ v.prefixes # NoDoc => lkg' # NoDoc /\ Covers(lkg', v.prefixes))
  BY <1>1, <1>2, CoveredStays
<1>6. ASSUME NEW p \in Proc PROVE Covered(job[p].value)'
  <2> DEFINE c == Candidate(job[p].value, file)
  <2>1. CASE job'[p].value \in {job[p].value, NoValue, file}
    BY <1>3, <1>4, <1>5, <2>1 DEF Covered
  <2>2. CASE job[p].value \in Value /\ job'[p].value = c
    <3>1. c = job[p].value \/ (c.prefixes = file.prefixes /\ file # NoValue)
      BY <2>2 DEF Candidate, Value
    <3>2. CASE c = job[p].value
      BY <2>1, <2>2, <3>2
    <3>3. CASE c.prefixes = file.prefixes /\ file # NoValue
      BY <1>3, <1>4, <1>5, <2>2, <3>3 DEF Covered
    <3> QED BY <3>1, <3>2, <3>3
  <2>3. CASE lkg' = lkg /\ job'[p].value.prefixes \in {lkg, NoDoc}
    BY <2>3 DEF Covered, Covers
  <2> QED BY <2>1, <2>2, <2>3, ValuesComeFrom
<1>7. Covered(file)' /\ Covered(fileD)'
  BY <1>2, <1>3, <1>4, <1>5 DEF Covered
<1> QED BY <1>6, <1>7 DEF PrefixesAreCovered

\* A batch keeps the remediation set within its capacity.
LEMMA ExecutesFew == ASSUME TypeOK, DecisionsAreFew, NEW j, Batch(j), Executes(j) PROVE DecisionsAreFew'
<1>1. CASE banned' = [x \in Addr |-> 0]
  <2>1. Decisions' = {}
    BY <1>1 DEF Decisions
  <2> QED BY <2>1, FS_EmptySet, NumbersAssumption DEF DecisionsAreFew
<1>2. CASE UNCHANGED banned
  BY <1>2 DEF DecisionsAreFew, Decisions
<1>3. CASE j.kind = "remove" /\ banned' = [banned EXCEPT ![j.peer] = j.ttl]
  <2>1. Decisions' \in SUBSET Decisions
    BY <1>3 DEF Batch, Decisions, TypeOK
  <2>2. IsFiniteSet(Decisions') /\ Cardinality(Decisions') <= Cardinality(Decisions)
    BY <2>1, FS_Subset DEF DecisionsAreFew
  <2>3. Cardinality(Decisions) \in Nat /\ Cardinality(Decisions') \in Nat
    BY <2>2, FS_CardinalityType DEF DecisionsAreFew
  <2> QED BY <2>2, <2>3, NumbersAssumption DEF DecisionsAreFew
<1>4. CASE /\ j.kind = "add" /\ Cardinality(Decisions \ {j.peer}) < MaxDecisions
           /\ banned' = [banned EXCEPT ![j.peer] = j.ttl]
  <2> DEFINE D == Decisions \ {j.peer}
             E == D \cup {j.peer}
  <2>1. Decisions' \in SUBSET E
    BY <1>4 DEF Decisions, TypeOK
  <2>2. IsFiniteSet(D) /\ Cardinality(D) \in Nat /\ Cardinality(D) < MaxDecisions
    BY <1>4, FS_RemoveElement, FS_CardinalityType DEF DecisionsAreFew
  <2>3. IsFiniteSet(E) /\ Cardinality(E) = Cardinality(D) + 1
    BY <2>2, FS_AddElement
  <2> HIDE DEF E
  <2>4. IsFiniteSet(Decisions') /\ Cardinality(Decisions') <= Cardinality(E)
    BY <2>1, <2>3, FS_Subset
  <2>5. Cardinality(Decisions') \in Nat
    BY <2>4, FS_CardinalityType
  <2> HIDE DEF D
  <2> QED BY <2>2, <2>3, <2>4, <2>5, NumbersAssumption DEF DecisionsAreFew
<1> QED BY <1>1, <1>2, <1>3, <1>4 DEF Executes

LEMMA FewStep == ASSUME IInv, DecisionsAreFew, [Next]_vars PROVE DecisionsAreFew'
<1>1. TypeOK
  BY DEF IInv
<1>2. CASE UNCHANGED banned
  BY <1>2 DEF DecisionsAreFew, Decisions
<1>3. ASSUME NEW p \in Proc, Commit(p), Executes(job[p]) PROVE DecisionsAreFew'
  <2>1. Batch(job[p])
    BY <1>3 DEF Commit, IInv, JobsFit, Fits
  <2> QED BY <1>1, <1>3, <2>1, ExecutesFew
<1>4. ASSUME NEW j \in orphans, Executes(j) PROVE DecisionsAreFew'
  BY <1>1, <1>4, ExecutesFew DEF IInv, OrphansFit
<1>5. ASSUME NEW x \in Addr, Expire(x) PROVE DecisionsAreFew'
  <2>1. Decisions' \in SUBSET Decisions
    BY <1>1, <1>5 DEF Expire, Decisions, TypeOK
  <2>2. IsFiniteSet(Decisions') /\ Cardinality(Decisions') <= Cardinality(Decisions)
    BY <2>1, FS_Subset DEF DecisionsAreFew
  <2>3. Cardinality(Decisions) \in Nat /\ Cardinality(Decisions') \in Nat
    BY <2>2, FS_CardinalityType DEF DecisionsAreFew
  <2> QED BY <2>2, <2>3, NumbersAssumption DEF DecisionsAreFew
<1>6. CASE Reboot
  <2>1. Decisions' = {}
    BY <1>6 DEF Reboot, Decisions
  <2> QED BY <2>1, FS_EmptySet, NumbersAssumption DEF DecisionsAreFew
<1>7. \/ UNCHANGED banned \/ Reboot
      \/ \E p \in Proc : Commit(p) /\ Executes(job[p])
      \/ \E j \in orphans : Executes(j)
      \/ \E x \in Addr : Expire(x)
  BY DEF Next, Start, Apply, Restore, Check, Remediate, Call, Run, StateLock, AdmitApply,
         AdmitRestore, AdmitCheck, AdmitRemediate, Commit, ReadBack, Replace, Sync, Kill, OrphanEnds,
         AcceptPrefixes, Flush, vars
<1> QED BY <1>2, <1>3, <1>4, <1>5, <1>6, <1>7

\* The policy of a sound value, in either mode.
LEMMA PolicyGrants ==
  ASSUME NEW v, Sound(v)
  PROVE  /\ PolicyOf(v).config = v.config
         /\ PolicyOf(v).config.mode = "DIRECT" => PolicyOf(v).origin = {}
BY DEF Sound, PolicyOf, Origin

LEMMA GrantsStep == ASSUME IInv, KInv, NoOrphans, TableGrants, [Next]_vars PROVE TableGrants'
<1>1. TypeOK
  BY DEF IInv
<1>2. CASE UNCHANGED <<table, file>>
  BY <1>2 DEF TableGrants
<1>3. CASE Reboot
  BY <1>3 DEF Reboot, TableGrants
<1>4. ASSUME NEW p \in Proc, Commit(p), Executes(job[p]), table' # table PROVE TableGrants'
  <2> DEFINE v == job[p].value
  <2>1. pc[p] = "commit" /\ file' = file /\ table' = PolicyOf(v) /\ job[p].kind \in {"create", "restore", "reload"}
    BY <1>4 DEF Commit, Executes, store
  <2>2. Sound(v) /\ (job[p].kind \in {"create", "reload"} => Follows(v, file))
    BY <2>1 DEF IInv, JobsFit, Fits, Batch
  <2>3. job[p].kind = "restore" => v = file
    BY <2>1 DEF KInv, TablesFit, TableFits
  <2> HIDE DEF v
  <2>4. PolicyOf(v).config = v.config /\ (PolicyOf(v).config.mode = "DIRECT" => PolicyOf(v).origin = {})
    BY <2>2, PolicyGrants
  <2>5. file # NoValue => /\ file.config.management \subseteq v.config.management
                          /\ file.config.uplinks \subseteq v.config.uplinks
    BY <2>1, <2>2, <2>3 DEF Follows, Includes
  <2> QED BY <2>1, <2>4, <2>5 DEF TableGrants
<1>5. ASSUME NEW p \in Proc, Replace(p), file' # file PROVE TableGrants'
  <2>1. pc[p] = "replace" /\ file' = job[p].value /\ table' = table
    BY <1>5 DEF Replace
  <2>2. table = PolicyOf(job[p].value) /\ Sound(job[p].value)
    BY <2>1 DEF KInv, TablesFit, TableFits, IInv, JobsFit, Fits
  <2> QED BY <2>1, <2>2, PolicyGrants DEF TableGrants
<1>6. \/ UNCHANGED <<table, file>> \/ Reboot
      \/ \E p \in Proc : Commit(p) /\ Executes(job[p]) /\ table' # table
      \/ \E p \in Proc : Replace(p) /\ file' # file
  BY DEF Next, NoOrphans, Start, Apply, Restore, Check, Remediate, Call, Run, StateLock, AdmitApply,
         AdmitRestore, AdmitCheck, AdmitRemediate, Commit, ReadBack, Replace, Sync, Kill, Expire,
         AcceptPrefixes, Flush, vars, store
<1> QED BY <1>2, <1>3, <1>4, <1>5, <1>6

RInv == PrefixesAreCovered /\ DecisionsAreFew /\ TableGrants

\* The apply that made the table in force is admitted again: the accepted value does not
\* exceed it, its prefixes are current, and what is banned meanwhile was admitted by it.
LEMMA ApplyStaysOpen == IInv /\ KInv /\ RInv => RepeatIsAdmitted
<1> SUFFICES ASSUME IInv, KInv, RInv, table # NoPolicy,
                    table.config.mode = "PROTECTED" => lkg # NoDoc /\ lkg.content = table.origin
             PROVE  ApplyIsOpen
  BY DEF RepeatIsAdmitted, Unsaved
<1> DEFINE c == table.config
           v == [config |-> c, prefixes |-> IF c.mode = "PROTECTED" THEN lkg ELSE NoDoc]
           w == Candidate(v, file)
<1>1. TypeOK /\ table \in Policy /\ c \in Configs /\ c.mode \in {"DIRECT", "PROTECTED"}
  BY InputsAssumption DEF IInv, TypeOK, Policy, Configuration
<1>2. file \in Value \cup {NoValue} /\ lkg \in Doc0
  BY <1>1 DEF TypeOK
<1>3. v.config = c /\ v.prefixes = IF c.mode = "PROTECTED" THEN lkg ELSE NoDoc
  OBVIOUS
<1> HIDE DEF v
<1>4. Admissible(v, file)
  <2>1. ManagementTransition(file, c)
    BY DEF RInv, TableGrants, ManagementTransition
  <2>2. file # NoValue /\ file.prefixes # NoDoc => Covers(lkg, file.prefixes)
    BY DEF RInv, PrefixesAreCovered, Covered
  <2> QED BY <1>3, <2>1, <2>2 DEF Admissible
<1>5. w.config = c /\ Origin(w) = table.origin
  <2>1. CASE c.mode = "PROTECTED"
    <3>1. w = v
      BY <1>3, <2>1 DEF Candidate
    <3> QED BY <1>3, <2>1, <3>1 DEF Origin
  <2>2. CASE c.mode = "DIRECT"
    <3>1. w.config = c
      BY <1>3, <2>2 DEF Candidate, v
    <3>2. table.origin = {}
      BY <2>2 DEF RInv, TableGrants
    <3> QED BY <2>2, <3>1, <3>2 DEF Origin
  <2> QED BY <1>1, <2>1, <2>2
<1>6. table = PolicyOf(w)
  BY <1>1, <1>5 DEF PolicyOf, Policy
<1>7. AdmitDecisions(w)
  <2>1. Decisions \cap (table.config.management \cup table.origin) = {}
    BY DEF KInv, ProtectedNotBanned
  <2> QED BY <1>5, <2>1 DEF AdmitDecisions, Protected, RInv, DecisionsAreFew
<1>8. Plan(w, file) # "refuse"
  BY <1>6, <1>7 DEF Plan
<1> QED BY <1>1, <1>4, <1>8 DEF ApplyIsOpen, v

\* And an apply that was interrupted between the kernel commit and accepted.json can be
\* repeated as long as its inputs are the current ones, whatever was banned, what failed and
\* who was killed in between.
THEOREM RepeatIsAlwaysAdmitted == Spec /\ []NoOrphans => []RepeatIsAdmitted
<1>1. Init => RInv
  <2> SUFFICES ASSUME Init PROVE RInv
    OBVIOUS
  <2>1. Decisions = {}
    BY DEF Init, Decisions
  <2>2. \A p \in Proc : job[p].value = NoValue
    BY DEF Init, Idle
  <2> QED BY <2>1, <2>2, FS_EmptySet, NumbersAssumption
          DEF Init, RInv, PrefixesAreCovered, Covered, DecisionsAreFew, TableGrants
<1>2. IInv /\ KInv /\ NoOrphans /\ RInv /\ [Next]_vars => RInv'
  BY CoveredStep, FewStep, GrantsStep DEF RInv
<1> QED BY <1>1, <1>2, ApplyStaysOpen, Invariant, TableInvariant, PTL DEF Spec
=============================================================================
