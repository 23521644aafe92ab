----------------------- MODULE OriginPrefixLkgProofs -----------------------
(***************************************************************************)
(* Proofs about OriginPrefixLkg for every set of processes and contents    *)
(* and for every bound.                                                    *)
(***************************************************************************)
EXTENDS OriginPrefixLkg, TLAPS

-----------------------------------------------------------------------------
(* The inductive invariant.                                                *)

\* Whoever reads or writes the files holds the lock.
LockIsHeld ==
  \A p \in Proc : pc[p] \in {"read", "admit", "replace", "sync"} => lock = p

\* A step belongs to its command, and the command has the document it needs.
StepsFit ==
  \A p \in Proc :
    /\ pc[p] = "admit" => op[p] = "accept"
    /\ pc[p] \in {"replace", "sync"} => op[p] \in {"fetch", "accept"}
    /\ pc[p] \notin Exit /\ op[p] \in {"fetch", "accept"} => doc[p] \in Doc
    /\ pc[p] \notin Exit /\ op[p] = "accept" => doc[p] \in seen

\* An accept past its directory check relies on a durable directory.
DirectoryIsDurable ==
  /\ dirD => dir
  /\ \A p \in Proc :
       pc[p] \in {"lock", "admit", "replace", "sync"} /\ op[p] = "accept" => dirD

\* What an accept is about to write follows what is accepted; afterwards it is
\* what is accepted.
AcceptInHand ==
  \A p \in Proc : op[p] = "accept" =>
    /\ pc[p] = "replace" /\ files.lkg # NoDoc => Covers(doc[p], files.lkg)
    /\ pc[p] = "sync" => files.lkg = doc[p]

\* Both copies of the accepted document were reviewed.
BothReviewed ==
  /\ files.lkg # NoDoc => files.lkg \in seen
  /\ filesD.lkg # NoDoc => filesD.lkg \in seen

\* A command has replaced a file exactly when it is past its replacement.
ReplacedFits ==
  \A p \in Proc : /\ pc[p] \in {"dir", "lock", "read", "admit", "replace", "error"} => ~replaced[p]
                  /\ pc[p] \in {"sync", "uncertain"} => replaced[p]

IInv ==
  /\ TypeOK
  /\ LockIsHeld
  /\ StepsFit
  /\ DirectoryIsDurable
  /\ AcceptInHand
  /\ BothReviewed
  /\ AcceptanceSurvives

-----------------------------------------------------------------------------
(* Lemmas.                                                                 *)

LEMMA NoDocIsNoDoc == NoDoc \notin Doc
BY NoDocAssumption, BoundsAssumption DEF Doc

\* Following is transitive.
LEMMA CoversTransitive ==
  ASSUME NEW x \in Doc, NEW y \in Doc, NEW z \in Doc, Covers(x, y), Covers(y, z)
  PROVE  Covers(x, z)
BY BoundsAssumption DEF Covers, Doc

LEMMA CoversReflexive == \A x \in Doc : Covers(x, x)
BY BoundsAssumption DEF Covers, Doc

\* What a command that exits leaves behind.
LEMMA ReturnEffect ==
  ASSUME TypeOK, NEW p \in Proc, NEW e \in Exit, Return(p, e)
  PROVE  /\ pc' \in [Proc -> Step] /\ op' \in [Proc -> Command] /\ doc' \in [Proc -> Doc0]
         /\ lock' \in Proc \cup {NoProc}
         /\ pc'[p] = e
         /\ \A q \in Proc : q # p => pc'[q] = pc[q] /\ op'[q] = op[q] /\ doc'[q] = doc[q]
         /\ \A q \in Proc : q # p /\ lock = q => lock' = q
BY DEF TypeOK, Return, Goto, Step, Exit, Command, Doc0

\* What a step to another step leaves behind.
LEMMA GotoEffect ==
  ASSUME TypeOK, NEW p \in Proc, NEW l \in Step, Goto(p, l)
  PROVE  /\ pc' \in [Proc -> Step] /\ pc'[p] = l
         /\ \A q \in Proc : q # p => pc'[q] = pc[q]
BY DEF TypeOK, Goto

LEMMA StepNames ==
  /\ Exit \subseteq Step
  /\ {"dir", "lock", "read", "admit", "replace", "sync"} \subseteq Step
  /\ Exit \cap {"dir", "lock", "read", "admit", "replace", "sync"} = {}
BY DEF Exit, Step

\* A command that exits, with the files as they are, keeps the invariant.
LEMMA ReturnKeeps ==
  ASSUME IInv, NEW p \in Proc, NEW e \in Exit, Return(p, e),
         UNCHANGED <<stable, clock, confirmed>>, replaced' \in [Proc -> BOOLEAN],
         seen \subseteq seen', seen' \subseteq Doc
  PROVE  IInv'
<1>1. TypeOK
  BY DEF IInv
<1>2. TypeOK'
  BY <1>1, ReturnEffect DEF TypeOK, stable
<1>3. LockIsHeld' /\ StepsFit'
  BY <1>1, ReturnEffect DEF IInv, LockIsHeld, StepsFit, Exit
<1>4. DirectoryIsDurable' /\ AcceptInHand'
  BY <1>1, ReturnEffect DEF IInv, DirectoryIsDurable, AcceptInHand, Exit, stable
<1>5. BothReviewed' /\ AcceptanceSurvives'
  BY DEF IInv, BothReviewed, AcceptanceSurvives, stable
<1> QED BY <1>2, <1>3, <1>4, <1>5 DEF IInv

-----------------------------------------------------------------------------
(* The invariant is inductive.                                             *)

LEMMA InvInit == Init => IInv
<1> SUFFICES ASSUME Init PROVE IInv
  OBVIOUS
<1>1. TypeOK
  <2>1. files \in Files /\ filesD \in Files
    BY DEF Init, Files, Empty, Doc0
  <2>2. /\ pc \in [Proc -> Step] /\ op \in [Proc -> Command] /\ doc \in [Proc -> Doc0]
        /\ lock \in Proc \cup {NoProc} /\ seen \subseteq Doc /\ confirmed \in Doc0
    BY DEF Init, Step, Exit, Command, Doc0
  <2>3. replaced \in [Proc -> BOOLEAN] /\ dir \in BOOLEAN /\ dirD \in BOOLEAN
    BY DEF Init
  <2>4. clock \in 1 .. MaxClock
    BY BoundsAssumption DEF Init
  <2> QED BY <2>1, <2>2, <2>3, <2>4 DEF TypeOK
<1>2. LockIsHeld /\ StepsFit
  BY DEF Init, LockIsHeld, StepsFit, Exit
<1>3. DirectoryIsDurable /\ AcceptInHand
  BY DEF Init, DirectoryIsDurable, AcceptInHand
<1>4. BothReviewed /\ AcceptanceSurvives
  BY DEF Init, BothReviewed, AcceptanceSurvives, Empty
<1> QED BY <1>1, <1>2, <1>3, <1>4 DEF IInv

LEMMA CallKeeps ==
  ASSUME IInv, NEW p \in Proc, NEW c \in Command, NEW d \in Doc0, Call(p, c, d)
  PROVE  IInv'
<1>1. TypeOK /\ Goto(p, "dir") /\ UNCHANGED <<stable, lock, clock, seen, confirmed>>
  BY DEF IInv, Call
<1>2. /\ op' \in [Proc -> Command] /\ op'[p] = c
      /\ doc' \in [Proc -> Doc0] /\ doc'[p] = d
      /\ \A q \in Proc : q # p => op'[q] = op[q] /\ doc'[q] = doc[q]
  BY <1>1 DEF Call, TypeOK
<1>3. replaced' \in [Proc -> BOOLEAN]
  BY <1>1 DEF Call, TypeOK
<1>4. /\ c = "fetch" => d \in Doc
      /\ c = "accept" => d \in seen
  BY DEF Call
<1>5. seen \subseteq Doc
  BY <1>1 DEF TypeOK
<1>6. pc' \in [Proc -> Step] /\ pc'[p] = "dir" /\ \A q \in Proc : q # p => pc'[q] = pc[q]
  BY <1>1, GotoEffect, StepNames
<1>7. TypeOK'
  BY <1>1, <1>2, <1>3, <1>6 DEF TypeOK, stable
<1>8. LockIsHeld' /\ StepsFit'
  BY <1>1, <1>2, <1>4, <1>5, <1>6 DEF IInv, LockIsHeld, StepsFit, Exit
<1>9. DirectoryIsDurable' /\ AcceptInHand'
  BY <1>1, <1>2, <1>6 DEF IInv, DirectoryIsDurable, AcceptInHand, stable
<1>10. BothReviewed' /\ AcceptanceSurvives'
  BY <1>1 DEF IInv, BothReviewed, AcceptanceSurvives, stable
<1> QED BY <1>7, <1>8, <1>9, <1>10 DEF IInv

LEMMA DirectoryKeeps ==
  ASSUME IInv, NEW p \in Proc, AssertDirectory(p)
  PROVE  IInv'
<1>1. TypeOK /\ UNCHANGED <<files, filesD, replaced, clock, seen, confirmed>>
  BY DEF IInv, AssertDirectory
<1>2. dir' \in BOOLEAN /\ dirD' \in BOOLEAN /\ (dir => dir') /\ (dirD => dirD') /\ (dirD' => dir')
  <2>1. dir \in BOOLEAN /\ dirD \in BOOLEAN /\ (dirD => dir)
    BY DEF IInv, DirectoryIsDurable, TypeOK
  <2>2. CASE dir' = TRUE /\ dirD' = (dirD \/ op[p] \in {"fetch", "accept"})
    BY <2>1, <2>2
  <2>3. CASE dirD' = dirD /\ (dir' = dir \/ dir' = TRUE)
    BY <2>1, <2>3
  <2> QED BY <2>2, <2>3 DEF AssertDirectory
<1>3. BothReviewed' /\ AcceptanceSurvives'
  BY <1>1, <1>2 DEF IInv, BothReviewed, AcceptanceSurvives
<1>4. CASE Return(p, "error")
  <2>1. TypeOK'
    BY <1>1, <1>2, <1>4, ReturnEffect DEF TypeOK, Exit
  <2>2. LockIsHeld' /\ StepsFit'
    BY <1>1, <1>4, ReturnEffect DEF IInv, LockIsHeld, StepsFit, Exit
  <2>3. DirectoryIsDurable' /\ AcceptInHand'
    BY <1>1, <1>2, <1>4, ReturnEffect DEF IInv, DirectoryIsDurable, AcceptInHand, Exit
  <2> QED BY <1>3, <2>1, <2>2, <2>3 DEF IInv
<1>5. CASE /\ Goto(p, "lock") /\ UNCHANGED <<op, doc, lock>>
           /\ dirD' = (dirD \/ op[p] \in {"fetch", "accept"})
  <2>1. pc' \in [Proc -> Step] /\ pc'[p] = "lock" /\ \A q \in Proc : q # p => pc'[q] = pc[q]
    BY <1>1, <1>5, GotoEffect, StepNames
  <2>2. TypeOK'
    BY <1>1, <1>2, <1>5, <2>1 DEF TypeOK
  <2>3. pc[p] = "dir"
    BY DEF AssertDirectory
  <2>4. LockIsHeld' /\ StepsFit'
    BY <1>1, <1>5, <2>1, <2>3 DEF IInv, LockIsHeld, StepsFit, Exit
  <2>5. DirectoryIsDurable' /\ AcceptInHand'
    BY <1>1, <1>2, <1>5, <2>1 DEF IInv, DirectoryIsDurable, AcceptInHand
  <2> QED BY <1>3, <2>2, <2>4, <2>5 DEF IInv
<1> QED BY <1>4, <1>5 DEF AssertDirectory

LEMMA LockKeeps ==
  ASSUME IInv, NEW p \in Proc, StateLock(p)
  PROVE  IInv'
<1>1. TypeOK /\ pc[p] = "lock" /\ UNCHANGED <<stable, replaced, clock, seen, confirmed>>
  BY DEF IInv, StateLock
<1>2. CASE Return(p, "error")
  BY <1>1, <1>2, ReturnKeeps DEF Exit, TypeOK
<1>3. ASSUME NEW l \in {"replace", "admit", "read"}, Goto(p, l), lock = NoProc, lock' = p,
             UNCHANGED <<op, doc>>,
             l = "replace" => op[p] = "fetch", l = "admit" => op[p] = "accept"
      PROVE  IInv'
  <2>1. pc' \in [Proc -> Step] /\ pc'[p] = l /\ \A q \in Proc : q # p => pc'[q] = pc[q]
    BY <1>1, <1>3, GotoEffect, StepNames
  <2>2. TypeOK'
    BY <1>1, <1>3, <2>1 DEF TypeOK, stable
  <2>3. \A q \in Proc : pc[q] \notin {"read", "admit", "replace", "sync"}
    BY <1>3, NoProcAssumption DEF IInv, LockIsHeld
  <2>4. LockIsHeld' /\ StepsFit'
    BY <1>1, <1>3, <2>1, <2>3 DEF IInv, LockIsHeld, StepsFit, Exit
  <2>5. DirectoryIsDurable' /\ AcceptInHand'
    BY <1>1, <1>3, <2>1, <2>3 DEF IInv, DirectoryIsDurable, AcceptInHand, stable
  <2>6. BothReviewed' /\ AcceptanceSurvives'
    BY <1>1 DEF IInv, BothReviewed, AcceptanceSurvives, stable
  <2> QED BY <2>2, <2>4, <2>5, <2>6 DEF IInv
<1> QED BY <1>2, <1>3 DEF StateLock, Locked

LEMMA ReadKeeps ==
  ASSUME IInv, NEW p \in Proc, ReadDocument(p)
  PROVE  IInv'
<1>1. TypeOK /\ UNCHANGED <<stable, replaced, clock, confirmed>>
  BY DEF IInv, ReadDocument
<1>2. seen \subseteq seen' /\ seen' \subseteq Doc
  BY <1>1 DEF ReadDocument, TypeOK, Files, Doc0
<1>3. \E e \in Exit : Return(p, e)
  BY DEF ReadDocument, Exit
<1>4. replaced' \in [Proc -> BOOLEAN]
  BY <1>1 DEF TypeOK
<1> QED BY <1>1, <1>2, <1>3, <1>4, ReturnKeeps

LEMMA AdmitKeeps ==
  ASSUME IInv, NEW p \in Proc, AdmitSuccessor(p)
  PROVE  IInv'
<1>1. TypeOK /\ pc[p] = "admit" /\ UNCHANGED <<stable, replaced, clock, seen, confirmed>>
  BY DEF IInv, AdmitSuccessor
<1>2. CASE Return(p, "error")
  BY <1>1, <1>2, ReturnKeeps DEF Exit, TypeOK
<1>3. CASE /\ files.cand = doc[p] /\ (files.lkg # NoDoc => Covers(files.cand, files.lkg))
           /\ Goto(p, "replace") /\ UNCHANGED <<op, doc, lock>>
  <2>1. pc' \in [Proc -> Step] /\ pc'[p] = "replace" /\ \A q \in Proc : q # p => pc'[q] = pc[q]
    BY <1>1, <1>3, GotoEffect, StepNames
  <2>2. TypeOK'
    BY <1>1, <1>3, <2>1 DEF TypeOK, stable
  <2>3. LockIsHeld' /\ StepsFit'
    BY <1>1, <1>3, <2>1 DEF IInv, LockIsHeld, StepsFit, Exit
  <2>4. DirectoryIsDurable' /\ AcceptInHand'
    BY <1>1, <1>3, <2>1 DEF IInv, DirectoryIsDurable, AcceptInHand, stable
  <2>5. BothReviewed' /\ AcceptanceSurvives'
    BY <1>1 DEF IInv, BothReviewed, AcceptanceSurvives, stable
  <2> QED BY <2>2, <2>3, <2>4, <2>5 DEF IInv
<1> QED BY <1>2, <1>3 DEF AdmitSuccessor

LEMMA ReplaceKeeps ==
  ASSUME IInv, NEW p \in Proc, Replace(p)
  PROVE  IInv'
<1>1. TypeOK /\ pc[p] = "replace" /\ UNCHANGED <<dir, dirD, filesD, clock, seen, confirmed>>
  BY DEF IInv, Replace
<1>2. CASE Return(p, "error") /\ UNCHANGED <<files, replaced>>
  BY <1>1, <1>2, ReturnKeeps DEF Exit, TypeOK, stable
<1>3. CASE /\ files' = IF op[p] = "fetch" THEN [files EXCEPT !.cand = doc[p]]
                                          ELSE [files EXCEPT !.lkg = doc[p]]
           /\ replaced' = [replaced EXCEPT ![p] = TRUE]
           /\ Goto(p, "sync") /\ UNCHANGED <<op, doc, lock>>
  <2>1. pc' \in [Proc -> Step] /\ pc'[p] = "sync" /\ \A q \in Proc : q # p => pc'[q] = pc[q]
    BY <1>1, <1>3, GotoEffect, StepNames
  <2>2. doc[p] \in Doc /\ op[p] \in {"fetch", "accept"} /\ (op[p] = "accept" => doc[p] \in seen)
    BY <1>1 DEF IInv, StepsFit, Exit
  <2>3. files' \in Files /\ files'.lkg = IF op[p] = "accept" THEN doc[p] ELSE files.lkg
    BY <1>1, <1>3, <2>2 DEF TypeOK, Files, Doc0
  <2>4. replaced' \in [Proc -> BOOLEAN]
    BY <1>1, <1>3 DEF TypeOK
  <2>5. TypeOK'
    BY <1>1, <1>3, <2>1, <2>3, <2>4 DEF TypeOK
  <2>6. \A q \in Proc : q # p => pc[q] \notin {"read", "admit", "replace", "sync"}
    BY <1>1 DEF IInv, LockIsHeld
  <2>7. LockIsHeld' /\ StepsFit'
    BY <1>1, <1>3, <2>1 DEF IInv, LockIsHeld, StepsFit, Exit
  <2>8. DirectoryIsDurable' /\ AcceptInHand'
    BY <1>1, <1>3, <2>1, <2>3, <2>6 DEF IInv, DirectoryIsDurable, AcceptInHand
  <2>9. BothReviewed'
    BY <1>1, <2>2, <2>3 DEF IInv, BothReviewed
  <2>10. AcceptanceSurvives'
    <3> SUFFICES ASSUME confirmed # NoDoc
                 PROVE  /\ dir /\ dirD
                        /\ files'.lkg # NoDoc /\ Covers(files'.lkg, confirmed)
                        /\ filesD.lkg # NoDoc /\ Covers(filesD.lkg, confirmed)
      BY <1>1 DEF AcceptanceSurvives
    <3>1. /\ dir /\ dirD
          /\ files.lkg # NoDoc /\ Covers(files.lkg, confirmed)
          /\ filesD.lkg # NoDoc /\ Covers(filesD.lkg, confirmed)
      BY DEF IInv, AcceptanceSurvives
    <3>2. files.lkg \in Doc /\ confirmed \in Doc
      BY <1>1, <3>1 DEF TypeOK, Files, Doc0
    <3>3. CASE op[p] = "accept"
      <4>1. Covers(doc[p], files.lkg)
        BY <1>1, <3>1, <3>3 DEF IInv, AcceptInHand
      <4>2. Covers(doc[p], confirmed)
        BY <2>2, <3>1, <3>2, <4>1, CoversTransitive
      <4> QED BY <2>2, <2>3, <3>1, <3>3, <4>2, NoDocIsNoDoc
    <3>4. CASE op[p] # "accept"
      BY <2>3, <3>1, <3>4
    <3> QED BY <3>3, <3>4
  <2> QED BY <2>5, <2>7, <2>8, <2>9, <2>10 DEF IInv
<1> QED BY <1>2, <1>3 DEF Replace

LEMMA SyncKeeps ==
  ASSUME IInv, NEW p \in Proc, Sync(p)
  PROVE  IInv'
<1>1. TypeOK /\ pc[p] = "sync" /\ UNCHANGED <<dir, dirD, files, replaced, clock, seen>>
  BY DEF IInv, Sync
<1>2. CASE Return(p, "uncertain") /\ UNCHANGED <<filesD, confirmed>>
  BY <1>1, <1>2, ReturnKeeps DEF Exit, TypeOK, stable
<1>3. CASE /\ filesD' = files /\ Return(p, "ok")
           /\ confirmed' = IF op[p] = "accept" THEN doc[p] ELSE confirmed
  <2>1. op[p] = "accept" => doc[p] \in Doc /\ files.lkg = doc[p] /\ dirD /\ dir
    BY <1>1 DEF IInv, StepsFit, AcceptInHand, DirectoryIsDurable, Exit
  <2>2. TypeOK'
    BY <1>1, <1>3, <2>1, ReturnEffect DEF TypeOK, Exit, Doc0
  <2>3. LockIsHeld' /\ StepsFit'
    BY <1>1, <1>3, ReturnEffect DEF IInv, LockIsHeld, StepsFit, Exit
  <2>4. DirectoryIsDurable' /\ AcceptInHand'
    BY <1>1, <1>3, ReturnEffect DEF IInv, DirectoryIsDurable, AcceptInHand, Exit
  <2>5. BothReviewed'
    BY <1>1, <1>3 DEF IInv, BothReviewed
  <2>6. AcceptanceSurvives'
    <3>1. CASE op[p] = "accept"
      BY <1>1, <1>3, <2>1, <3>1, CoversReflexive, NoDocIsNoDoc DEF AcceptanceSurvives
    <3>2. CASE op[p] # "accept"
      BY <1>1, <1>3, <3>2 DEF IInv, AcceptanceSurvives
    <3> QED BY <3>1, <3>2
  <2> QED BY <2>2, <2>3, <2>4, <2>5, <2>6 DEF IInv
<1> QED BY <1>2, <1>3 DEF Sync

LEMMA PowerKeeps == ASSUME IInv, PowerFail PROVE IInv'
<1>1. TypeOK'
  BY DEF IInv, PowerFail, TypeOK, Files, Empty, Doc0, Step, Exit, Command
<1>2. LockIsHeld' /\ StepsFit'
  BY DEF PowerFail, LockIsHeld, StepsFit, Exit
<1>3. DirectoryIsDurable' /\ AcceptInHand'
  BY DEF PowerFail, DirectoryIsDurable, AcceptInHand
<1>4. BothReviewed' /\ AcceptanceSurvives'
  BY DEF IInv, PowerFail, BothReviewed, AcceptanceSurvives, Empty
<1> QED BY <1>1, <1>2, <1>3, <1>4 DEF IInv

LEMMA InvStep == IInv /\ [Next]_vars => IInv'
<1> SUFFICES ASSUME IInv, [Next]_vars PROVE IInv'
  OBVIOUS
<1>1. ASSUME NEW p \in Proc, Run(p) PROVE IInv'
  BY <1>1, DirectoryKeeps, LockKeeps, ReadKeeps, AdmitKeeps, ReplaceKeeps, SyncKeeps DEF Run
<1>2. ASSUME NEW p \in Proc, Kill(p) PROVE IInv'
  <2>1. replaced' \in [Proc -> BOOLEAN] /\ seen' \subseteq Doc
    BY <1>2 DEF Kill, IInv, TypeOK
  <2> QED BY <1>2, <2>1, ReturnKeeps DEF Kill, Exit
<1>3. ASSUME NEW p \in Proc, NEW c \in Command, NEW d \in Doc0, Call(p, c, d) PROVE IInv'
  BY <1>3, CallKeeps
<1>4. CASE PowerFail
  BY <1>4, PowerKeeps
<1>5. CASE Flush
  <2>1. TypeOK'
    BY <1>5 DEF IInv, Flush, TypeOK, local
  <2>2. LockIsHeld' /\ StepsFit' /\ DirectoryIsDurable' /\ AcceptInHand'
    BY <1>5 DEF IInv, Flush, LockIsHeld, StepsFit, DirectoryIsDurable, AcceptInHand, local
  <2>3. BothReviewed' /\ AcceptanceSurvives'
    BY <1>5 DEF IInv, Flush, BothReviewed, AcceptanceSurvives, DirectoryIsDurable
  <2> QED BY <2>1, <2>2, <2>3 DEF IInv
<1>6. CASE Tick
  <2>1. TypeOK'
    BY <1>6, BoundsAssumption DEF IInv, Tick, TypeOK, stable, local
  <2> QED BY <1>6, <2>1 DEF IInv, Tick, LockIsHeld, StepsFit, DirectoryIsDurable, AcceptInHand,
                            BothReviewed, AcceptanceSurvives, stable, local
<1>7. CASE UNCHANGED vars
  <2>1. TypeOK'
    BY <1>7 DEF IInv, TypeOK, vars
  <2> QED BY <1>7, <2>1 DEF IInv, vars, LockIsHeld, StepsFit, DirectoryIsDurable, AcceptInHand,
                            BothReviewed, AcceptanceSurvives
<1> QED BY <1>1, <1>2, <1>3, <1>4, <1>5, <1>6, <1>7 DEF Next

LEMMA Invariant == Spec => []IInv
BY InvInit, InvStep, PTL DEF Spec

-----------------------------------------------------------------------------
(* Theorems.                                                               *)

\* Every variable keeps its type.
THEOREM TypeCorrect == Spec => []TypeOK
BY Invariant, PTL DEF IInv

\* accept_candidate() only ever promotes a document an operator has reviewed.
THEOREM OnlyReviewedIsAccepted == Spec => []OnlyReviewedAccepted
<1>1. IInv => OnlyReviewedAccepted
  BY DEF IInv, BothReviewed, OnlyReviewedAccepted
<1> QED BY <1>1, Invariant, PTL

\* An acceptance that was reported with exit status 0 survives every later
\* command, failure, kill and power failure.
THEOREM AcceptanceIsDurable == Spec => []AcceptanceSurvives
BY Invariant, PTL DEF IInv

\* No step of a command moves the accepted document back or to conflicting
\* content: admit_successor() ran under the lock that is still held.
LEMMA StepMovesForward ==
  ASSUME IInv, [Next]_vars, files.lkg # NoDoc, lock # NoProc, lock' = lock
  PROVE  files'.lkg # NoDoc /\ Covers(files'.lkg, files.lkg)
<1>1. files.lkg \in Doc
  BY DEF IInv, TypeOK, Files, Doc0
<1>2. ASSUME NEW p \in Proc, Replace(p), ~UNCHANGED files
      PROVE  files'.lkg # NoDoc /\ Covers(files'.lkg, files.lkg)
  <2>1. pc[p] = "replace" /\ op[p] \in {"fetch", "accept"} /\ doc[p] \in Doc
    BY <1>2 DEF Replace, IInv, StepsFit, Exit
  <2>2. CASE op[p] = "fetch"
    <3>1. files'.lkg = files.lkg
      BY <1>2, <2>2 DEF Replace, IInv, TypeOK, Files
    <3> QED BY <1>1, <3>1, CoversReflexive
  <2>3. CASE op[p] = "accept"
    <3>1. files'.lkg = doc[p]
      BY <1>2, <2>3 DEF Replace, IInv, TypeOK, Files
    <3>2. Covers(doc[p], files.lkg)
      BY <2>1, <2>3 DEF IInv, AcceptInHand
    <3> QED BY <2>1, <3>1, <3>2, NoDocIsNoDoc
  <2> QED BY <2>1, <2>2, <2>3
<1>3. CASE UNCHANGED files
  BY <1>1, <1>3, CoversReflexive
<1>4. (\E p \in Proc : Replace(p)) \/ UNCHANGED files \/ PowerFail
  BY DEF Next, Run, Kill, Call, AssertDirectory, StateLock, ReadDocument, AdmitSuccessor,
         Sync, Flush, Tick, stable, vars
<1>5. ~PowerFail
  BY DEF PowerFail
<1> QED BY <1>2, <1>3, <1>4, <1>5

\* The accepted publication only moves forward under the lock.
THEOREM AcceptedOnlyMovesForward == Spec => AcceptedMovesForward
<1>1. IInv /\ [Next]_vars =>
        [files.lkg # NoDoc /\ lock # NoProc /\ lock' = lock
           => files'.lkg # NoDoc /\ Covers(files'.lkg, files.lkg)]_vars
  BY StepMovesForward
<1> QED BY <1>1, Invariant, PTL DEF Spec, AcceptedMovesForward

\* Exit status 1 is a definite failure, exit status 2 a committed replacement.
THEOREM ErrorsAreAlwaysDefinite == Spec => []ErrorsAreDefinite
<1>1. Init => ReplacedFits
  BY DEF Init, ReplacedFits
<1>2. ASSUME IInv, ReplacedFits, [Next]_vars PROVE ReplacedFits'
  <2>1. pc \in [Proc -> Step] /\ replaced \in [Proc -> BOOLEAN]
    BY <1>2 DEF IInv, TypeOK
  <2>2. ASSUME NEW p \in Proc, NEW c \in Command, NEW d \in Doc0, Call(p, c, d)
        PROVE  ReplacedFits'
    BY <1>2, <2>1, <2>2 DEF Call, Goto, ReplacedFits
  <2>3. ASSUME NEW p \in Proc, AssertDirectory(p) \/ StateLock(p) \/ AdmitSuccessor(p)
        PROVE  ReplacedFits'
    BY <1>2, <2>1, <2>3 DEF AssertDirectory, StateLock, AdmitSuccessor, Locked, Return, Goto,
                            ReplacedFits
  <2>4. ASSUME NEW p \in Proc, ReadDocument(p) PROVE ReplacedFits'
    BY <1>2, <2>1, <2>4 DEF ReadDocument, Return, Goto, ReplacedFits
  <2>5. ASSUME NEW p \in Proc, Replace(p) PROVE ReplacedFits'
    BY <1>2, <2>1, <2>5 DEF Replace, Return, Goto, ReplacedFits
  <2>6. ASSUME NEW p \in Proc, Sync(p) PROVE ReplacedFits'
    BY <1>2, <2>1, <2>6 DEF Sync, Return, Goto, ReplacedFits
  <2>7. ASSUME NEW p \in Proc, Kill(p) PROVE ReplacedFits'
    BY <1>2, <2>1, <2>7 DEF Kill, Return, Goto, ReplacedFits
  <2>8. CASE PowerFail
    BY <2>8 DEF PowerFail, ReplacedFits
  <2>9. CASE Flush \/ Tick \/ UNCHANGED vars
    BY <1>2, <2>9 DEF Flush, Tick, vars, local, ReplacedFits
  <2> QED BY <1>2, <2>2, <2>3, <2>4, <2>5, <2>6, <2>7, <2>8, <2>9 DEF Next, Run
<1>3. ReplacedFits => ErrorsAreDefinite
  BY DEF ReplacedFits, ErrorsAreDefinite
<1> QED BY <1>1, <1>2, <1>3, Invariant, PTL DEF Spec
=============================================================================
