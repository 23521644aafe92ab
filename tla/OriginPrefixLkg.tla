-------------------------- MODULE OriginPrefixLkg --------------------------
(***************************************************************************)
(* The last-known-good CloudFront origin prefixes:                         *)
(* scripts/cloudfront-origin-prefix-lkg.py.                                *)
(*                                                                         *)
(* Processes run the commands fetch, candidate, accept and accepted on one *)
(* state directory with the files candidate.json and accepted-lkg.json.    *)
(* An operator reviews the document that `candidate` prints and later      *)
(* acknowledges its digest to `accept`.  A document is its publication     *)
(* version, its normalized prefixes and its retrieval time, and its digest *)
(* is the document itself.  Any call of the operating system can fail, a   *)
(* process can be killed and power can fail between any two steps.         *)
(***************************************************************************)
EXTENDS Integers

CONSTANTS
  Proc,      \* processes
  Content,   \* normalized prefix lists
  Published, \* the documents the source may serve, by retrieval time
  NoDoc,     \* no document
  NoProc,    \* nobody holds the lock
  MaxVersion,\* bound on publication versions (syncToken)
  MaxClock   \* bound on retrieval times

ASSUME NoDocAssumption == NoDoc \notin [version : Nat, content : Content, at : Nat]
ASSUME NoProcAssumption == NoProc \notin Proc
ASSUME PublishedAssumption ==
  Published \subseteq [version : 1 .. MaxVersion, content : Content, at : 1 .. MaxClock]
ASSUME BoundsAssumption == MaxVersion \in Nat \ {0} /\ MaxClock \in Nat \ {0}

VARIABLES
  dir,        \* the state directory exists
  dirD,       \* its entry is durable
  files,      \* candidate.json and accepted-lkg.json
  filesD,     \* the durable entries of the directory
  lock,       \* holder of the state lock
  pc,         \* per process: the next step, or the exit status
  op, doc,    \* per process: the command, and the document in hand
  replaced,   \* per process: os.replace() happened in this command
  clock,      \* retrieval time
  seen,       \* documents that operators have reviewed
  confirmed   \* the document of the last accept that exited with 0

stable == <<dir, dirD, files, filesD>>
local  == <<pc, op, doc, replaced>>
vars   == <<dir, dirD, files, filesD, lock, pc, op, doc, replaced, clock, seen,
            confirmed>>

Doc == [version : 1 .. MaxVersion, content : Content, at : 1 .. MaxClock]
Doc0 == Doc \cup {NoDoc}
Files == [cand : Doc0, lkg : Doc0]
Empty == [cand |-> NoDoc, lkg |-> NoDoc]

Command == {"fetch", "candidate", "accept", "accepted"}
Exit == {"none", "ok", "error", "uncertain"}
Step == Exit \cup {"dir", "lock", "read", "admit", "replace", "sync"}

\* b may follow a in accepted-lkg.json.
Covers(b, a) == \/ b.version > a.version
                \/ b.version = a.version /\ b.content = a.content

-----------------------------------------------------------------------------
(* Steps of a process.                                                     *)

Goto(p, l) == pc' = [pc EXCEPT ![p] = l]

\* The command exits; whatever it held is released with its descriptors.
Return(p, e) ==
  /\ Goto(p, e)
  /\ op' = [op EXCEPT ![p] = "accepted"] /\ doc' = [doc EXCEPT ![p] = NoDoc]
  /\ lock' = IF lock = p THEN NoProc ELSE lock

\* main(): fetch observes and normalizes the source before it takes the lock;
\* the source is whatever publication the network returns.
Call(p, c, d) ==
  /\ pc[p] \in Exit
  /\ c = "fetch" => d \in Doc /\ d \in Published /\ d.at = clock
  /\ c = "accept" => d \in seen
  /\ c \in {"candidate", "accepted"} => d = NoDoc
  /\ Goto(p, "dir")
  /\ op' = [op EXCEPT ![p] = c]
  /\ doc' = [doc EXCEPT ![p] = d]
  /\ replaced' = [replaced EXCEPT ![p] = FALSE]
  /\ UNCHANGED <<stable, lock, clock, seen, confirmed>>

\* Mutant: accept trusts that the directory entry is durable.
AssertUnsynced(p) ==
  /\ pc[p] = "dir"
  /\ \/ /\ dir \/ op[p] = "fetch"
        /\ dir' = TRUE /\ UNCHANGED dirD
        /\ Goto(p, "lock") /\ UNCHANGED <<op, doc, lock>>
     \/ ~dir /\ op[p] # "fetch" /\ Return(p, "error") /\ UNCHANGED <<dir, dirD>>
  /\ UNCHANGED <<files, filesD, replaced, clock, seen, confirmed>>

\* _assert_safe_directory(): fetch creates the directory, and both mutating
\* commands synchronize its entry each time, whoever created it.
AssertDirectory(p) ==
  /\ pc[p] = "dir"
  /\ \/ /\ dir \/ op[p] = "fetch"
        /\ dir' = TRUE
        /\ dirD' = (dirD \/ op[p] \in {"fetch", "accept"})
        /\ Goto(p, "lock") /\ UNCHANGED <<op, doc, lock>>
     \/ /\ \/ ~dir /\ op[p] # "fetch" /\ UNCHANGED dir
           \/ op[p] \in {"fetch", "accept"} /\ UNCHANGED dir
           \/ op[p] = "fetch" /\ dir' = TRUE
        /\ Return(p, "error") /\ UNCHANGED dirD
  /\ UNCHANGED <<files, filesD, replaced, clock, seen, confirmed>>

\* What a command does first under the lock.
Locked(c) == IF c = "fetch" THEN "replace" ELSE IF c = "accept" THEN "admit" ELSE "read"

\* _state_lock(): polls until the deadline.
StateLock(p) ==
  /\ pc[p] = "lock"
  /\ \/ /\ dir /\ lock = NoProc
        /\ lock' = p
        /\ Goto(p, Locked(op[p]))
        /\ UNCHANGED <<op, doc>>
     \/ Return(p, "error")
  /\ UNCHANGED <<stable, replaced, clock, seen, confirmed>>

\* read_candidate() and read_lkg(): an operator reviews what is printed.
ReadDocument(p) ==
  /\ pc[p] = "read"
  /\ LET d == IF op[p] = "candidate" THEN files.cand ELSE files.lkg
     IN \/ /\ d # NoDoc
           /\ seen' = IF op[p] = "candidate" THEN seen \cup {d} ELSE seen
           /\ Return(p, "ok")
        \/ Return(p, "error") /\ UNCHANGED seen
  /\ UNCHANGED <<stable, replaced, clock, confirmed>>

\* Mutant: whatever the candidate is by now is promoted.
AdmitAny(p) ==
  /\ pc[p] = "admit"
  /\ \/ /\ files.cand # NoDoc
        /\ files.lkg # NoDoc => Covers(files.cand, files.lkg)
        /\ doc' = [doc EXCEPT ![p] = files.cand]
        /\ Goto(p, "replace") /\ UNCHANGED <<op, lock>>
     \/ Return(p, "error")
  /\ UNCHANGED <<stable, replaced, clock, seen, confirmed>>

\* Mutant: the publication version is not compared.
AdmitRollback(p) ==
  /\ pc[p] = "admit"
  /\ \/ files.cand = doc[p] /\ Goto(p, "replace") /\ UNCHANGED <<op, doc, lock>>
     \/ Return(p, "error")
  /\ UNCHANGED <<stable, replaced, clock, seen, confirmed>>

\* accept_candidate() up to the write: admit_successor() on what both files hold
\* under the lock, then the acknowledged digest; reading may fail.
AdmitSuccessor(p) ==
  /\ pc[p] = "admit"
  /\ \/ /\ files.cand # NoDoc
        /\ files.lkg # NoDoc => Covers(files.cand, files.lkg)
        /\ files.cand = doc[p]
        /\ Goto(p, "replace") /\ UNCHANGED <<op, doc, lock>>
     \/ Return(p, "error")
  /\ UNCHANGED <<stable, replaced, clock, seen, confirmed>>

\* _atomic_write() up to os.replace(): any failure is definite.
Replace(p) ==
  /\ pc[p] = "replace"
  /\ \/ /\ files' = IF op[p] = "fetch" THEN [files EXCEPT !.cand = doc[p]]
                                       ELSE [files EXCEPT !.lkg = doc[p]]
        /\ replaced' = [replaced EXCEPT ![p] = TRUE]
        /\ Goto(p, "sync") /\ UNCHANGED <<op, doc, lock>>
     \/ Return(p, "error") /\ UNCHANGED <<files, replaced>>
  /\ UNCHANGED <<dir, dirD, filesD, clock, seen, confirmed>>

\* Mutant: a failed directory sync is an ordinary error.
SyncDefinite(p) ==
  /\ pc[p] = "sync"
  /\ \/ filesD' = files /\ Return(p, "ok") /\ confirmed' = IF op[p] = "accept" THEN doc[p] ELSE confirmed
     \/ Return(p, "error") /\ UNCHANGED <<filesD, confirmed>>
  /\ UNCHANGED <<dir, dirD, files, replaced, clock, seen>>

\* The directory sync that follows; its failure reports CommitStateUncertain.
Sync(p) ==
  /\ pc[p] = "sync"
  /\ \/ /\ filesD' = files /\ Return(p, "ok")
        /\ confirmed' = IF op[p] = "accept" THEN doc[p] ELSE confirmed
     \/ Return(p, "uncertain") /\ UNCHANGED <<filesD, confirmed>>
  /\ UNCHANGED <<dir, dirD, files, replaced, clock, seen>>

-----------------------------------------------------------------------------
(* The environment.                                                        *)

Kill(p) ==
  /\ pc[p] \notin Exit
  /\ Return(p, "none")
  /\ replaced' = [replaced EXCEPT ![p] = FALSE]
  /\ UNCHANGED <<stable, clock, seen, confirmed>>

\* Only durable entries of a durable directory survive; locks are gone.
PowerFail ==
  /\ dir' = dirD
  /\ files' = IF dirD THEN filesD ELSE Empty
  /\ filesD' = files'
  /\ lock' = NoProc
  /\ pc' = [p \in Proc |-> "none"] /\ op' = [p \in Proc |-> "accepted"]
  /\ doc' = [p \in Proc |-> NoDoc] /\ replaced' = [p \in Proc |-> FALSE]
  /\ UNCHANGED <<dirD, clock, seen, confirmed>>

\* The filesystem writes its log by itself.
Flush ==
  /\ \/ dirD' = dir /\ UNCHANGED filesD
     \/ filesD' = files /\ UNCHANGED dirD
  /\ UNCHANGED <<dir, files, lock, local, clock, seen, confirmed>>

Tick ==
  /\ clock < MaxClock
  /\ clock' = clock + 1
  /\ UNCHANGED <<stable, lock, local, seen, confirmed>>

-----------------------------------------------------------------------------
Init ==
  /\ dir = FALSE /\ dirD = FALSE
  /\ files = Empty /\ filesD = Empty
  /\ lock = NoProc
  /\ pc = [p \in Proc |-> "none"] /\ op = [p \in Proc |-> "accepted"]
  /\ doc = [p \in Proc |-> NoDoc]
  /\ replaced = [p \in Proc |-> FALSE]
  /\ clock = 1 /\ seen = {} /\ confirmed = NoDoc

Run(p) == \/ AssertDirectory(p) \/ StateLock(p) \/ ReadDocument(p) \/ AdmitSuccessor(p)
          \/ Replace(p) \/ Sync(p)

Next ==
  \/ \E p \in Proc : Run(p) \/ Kill(p)
  \/ \E p \in Proc, c \in Command, d \in Doc0 : Call(p, c, d)
  \/ PowerFail \/ Flush \/ Tick

Spec == Init /\ [][Next]_vars

-----------------------------------------------------------------------------
(* Properties.                                                             *)

\* Every variable has its type.
TypeOK ==
  /\ dir \in BOOLEAN /\ dirD \in BOOLEAN
  /\ files \in Files /\ filesD \in Files
  /\ lock \in Proc \cup {NoProc}
  /\ pc \in [Proc -> Step] /\ op \in [Proc -> Command] /\ doc \in [Proc -> Doc0]
  /\ replaced \in [Proc -> BOOLEAN]
  /\ clock \in 1 .. MaxClock /\ seen \subseteq Doc /\ confirmed \in Doc0

\* accept promotes "only the candidate explicitly acknowledged by digest": a fetch
\* between review and acknowledgement never gets its document accepted unseen.
OnlyReviewedAccepted == files.lkg # NoDoc => files.lkg \in seen

\* No command "would roll back the provider publication" nor replace it by
\* conflicting content, whichever commands ran since it was admitted; only a power
\* failure, which ends them all, may undo an unsynchronized replacement.
AcceptedMovesForward ==
  [][files.lkg # NoDoc /\ lock # NoProc /\ lock' = lock
       => files'.lkg # NoDoc /\ Covers(files'.lkg, files.lkg)]_vars

\* An accept that exited with 0 is never lost nor rolled back: whatever fails
\* afterwards, the file and its durable copy are that document or a successor.
AcceptanceSurvives ==
  confirmed # NoDoc =>
    /\ dir /\ dirD
    /\ \A f \in {files, filesD} : f.lkg # NoDoc /\ Covers(f.lkg, confirmed)

\* ContractError is "a definite pre-commit failure": a command that exits with 1
\* has not replaced a file; one that has replaced it exits with 0 or 2.
ErrorsAreDefinite ==
  \A p \in Proc : /\ pc[p] = "error" => ~replaced[p]
                  /\ pc[p] = "uncertain" => replaced[p]
=============================================================================
