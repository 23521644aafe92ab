-------------------- MODULE WorkloadQualificationProofs --------------------
(***************************************************************************)
(* Proofs about WorkloadQualification and the QuadletFixture it uses, for  *)
(* any set of units and instances, any number of client calls and faults   *)
(* and any roles.  The first part is about the fixture alone: whatever the *)
(* qualification does to it is a step of the client or of a service.       *)
(***************************************************************************)
EXTENDS WorkloadQualification, FiniteSetTheorems, WellFoundedInduction, TLAPS

-----------------------------------------------------------------------------
(* The inductive invariant of the fixture.                                 *)

AnyInstance == Instances \cup {NoInstance}
Placement == AnyInstance \X Units
RequestRecord == [id : Nat, instance : AnyInstance, off : SUBSET RequestFlaw]
InstallPc == {"idle", "stop", "lock", "parse", "check", "record", "write", "roll back", "publish"}
RemovePc == {"idle", "lock", "parse", "check", "unlink", "stop", "stop rejected", "publish"}
Verdict == {"none", "installed", "removed", "rejected", "retrying"}
ServiceRecord == [pc : InstallPc \cup RemovePc, todo : SUBSET Placement, req : RequestRecord,
                  verdict : Verdict]
ActiveRecord == [state : {"none", "installing", "active", "removing"}, instance : AnyInstance]
ResultRecord == [id : Nat, result : Verdict]
ClientRecord == [pc : {"idle", "waiting", "accepted", "refused"}, op : Operation \cup {"none"},
                 id : Nat, instance : AnyInstance]

FixtureTypes ==
  /\ request \in [Operation -> RequestRecord]
  /\ trigger \in [Operation -> BOOLEAN]
  /\ service \in [Operation -> ServiceRecord]
  /\ service["install"].pc \in InstallPc /\ service["remove"].pc \in RemovePc
  /\ lock \in Operation \cup {"none"}
  /\ active \in ActiveRecord
  /\ files \subseteq Placement /\ temps \subseteq Placement
  /\ result \in [Operation -> ResultRecord]
  /\ client \in ClientRecord
  /\ calls \in Nat

\* operation_lock(): who reads or changes the disk holds the lock.
Locked ==
  /\ service["install"].pc \in {"parse", "check", "record", "write", "roll back"} => lock = "install"
  /\ service["remove"].pc \in {"parse", "check", "unlink", "stop"} => lock = "remove"

\* The state file covers what is on disk, and without one nothing is; what an interrupted
\* write left is no unit.
Covered ==
  /\ files \subseteq Of(active.instance) /\ temps \subseteq Of(active.instance)
  /\ active = NotActive => files = {} /\ temps = {}
  /\ active.state = "none" => active = NotActive
  /\ active.state = "active" => files = Of(active.instance)
  /\ files \cap temps = {}

\* Where the two services stand when they change the disk.
InstallWorks ==
  LET s == service["install"] IN
  /\ s.pc = "record" => active = NotActive
  /\ s.pc \in {"write", "roll back"} =>
       /\ active = [state |-> "installing", instance |-> s.req.instance]
       /\ temps = {}
  /\ s.pc = "write" => s.todo = Of(s.req.instance) \ files
  /\ s.pc = "roll back" => s.todo = files
  /\ s.pc # "publish" => s.verdict = "none"
  /\ s.verdict = "installed" =>
       /\ lock = "install"
       /\ active = [state |-> "active", instance |-> s.req.instance]
RemoveWorks ==
  LET s == service["remove"] IN
  s.pc = "unlink" =>
    /\ active = [state |-> "removing", instance |-> s.req.instance]
    /\ s.todo = files /\ temps = {}

\* The path unit of the installation is stopped before its first write and never started
\* again: there is one installation.
Spent == ~trigger["install"] /\ service["install"].pc \in {"idle", "publish"}
InstallsOnce ==
  /\ service["install"].pc \in InstallPc \ {"idle", "stop", "publish"} => ~trigger["install"]
  /\ active # NotActive =>
       /\ ~trigger["install"]
       /\ service["install"].pc \in {"idle", "write", "roll back", "publish"}

\* Nothing is installed and nothing will be.
Gone == Spent /\ active = NotActive
RemovedIsGone ==
  \/ service["remove"].verdict = "removed"
  \/ result["remove"].result = "removed"
  \/ client.pc = "accepted" /\ client.op = "remove"
  => Gone

\* An identity is used once, and an installation works on the instance the client named.
Identities ==
  /\ \A o \in Operation : request[o].id <= calls /\ service[o].req.id <= calls /\ result[o].id <= calls
  /\ client.id <= calls
  /\ client.pc \in {"waiting", "accepted"} => client.op \in Operation /\ client.id # NoId
  /\ client.pc \in {"waiting", "accepted"} /\ client.op = "install" =>
       /\ request["install"].id = client.id => request["install"].instance = client.instance
       /\ service["install"].req.id = client.id /\ service["install"].verdict # "rejected"
            => service["install"].req.instance = client.instance

\* What an installing client has been told, or may be told, is so until a removal is asked for.
InstalledIsKept ==
  /\ client.pc \in {"waiting", "accepted"} /\ client.op = "install"
  /\ client.pc = "waiting" => result["install"] = [id |-> client.id, result |-> "installed"]
  => \/ request["remove"] # NoRequest
     \/ /\ active = [state |-> "active", instance |-> client.instance]
        /\ service["remove"].pc \notin {"check", "unlink", "stop"}

FInv == FixtureTypes /\ Locked /\ Covered /\ InstallWorks /\ RemoveWorks /\ InstallsOnce /\ RemovedIsGone
          /\ Identities /\ InstalledIsKept

\* Everything the qualification does to the fixture; the client can leave at any moment,
\* and what happens elsewhere leaves the fixture as it is.
ClientLeaves ==
  /\ client' \in {client, IdleClient}
  /\ UNCHANGED <<request, trigger, service, lock, active, files, temps, result, calls>>
FixtureNext ==
  \/ ServiceStep
  \/ ClientStep
  \/ \E o \in Operation, i \in Instances, flaws \in SUBSET RequestFlaw : StageRequest(o, i, flaws)
  \/ \E o \in Operation, i \in Instances : StageFails(o, i)
  \/ ClientLeaves

-----------------------------------------------------------------------------
(* The fixture, action by action.                                          *)

\* A request without an identity, and no request, is none of a client's.
LEMMA RequestFacts ==
  /\ NoRequest \in RequestRecord /\ NoRequest.id = 0
  /\ IdleService \in ServiceRecord /\ IdleClient \in ClientRecord
  /\ NotActive \in ActiveRecord
BY DEF NoRequest, Request, RequestRecord, IdleService, ServiceRecord, IdleClient, ClientRecord, NotActive,
       ActiveRecord, NoId, NoInstance, AnyInstance, InstallPc, RemovePc, Verdict, Operation

\* Both path units and both services start idle: the initial state.
LEMMA FixtureInitially == FixtureInit => FInv
<1> SUFFICES ASSUME FixtureInit PROVE FInv
  OBVIOUS
<1> USE RequestFacts DEF FixtureInit
<1>1. FixtureTypes
  BY DEF FixtureTypes, Operation, NoResult, ResultRecord, Verdict, NoId, IdleService, InstallPc, RemovePc
<1>2. Locked /\ InstallWorks /\ RemoveWorks
  BY DEF Locked, InstallWorks, RemoveWorks, IdleService, Operation
<1>3. Covered /\ InstallsOnce
  BY DEF Covered, InstallsOnce, NotActive, IdleService, Operation, InstallPc
<1>4. RemovedIsGone /\ InstalledIsKept
  BY DEF RemovedIsGone, InstalledIsKept, IdleService, IdleClient, NoResult, Operation
<1>5. Identities
  BY DEF Identities, IdleService, IdleClient, NoResult, Operation, NoId
<1> QED
  BY <1>1, <1>2, <1>3, <1>4, <1>5 DEF FInv

\* The client's exit, whoever caused it.
LEMMA ClientLeavesStep == FInv /\ ClientLeaves => FInv'
<1> SUFFICES ASSUME FInv, ClientLeaves PROVE FInv'
  OBVIOUS
<1> USE RequestFacts DEF FInv, ClientLeaves
<1>1. FixtureTypes' /\ Locked' /\ Covered' /\ InstallWorks' /\ RemoveWorks' /\ InstallsOnce'
  BY DEF FixtureTypes, Locked, Covered, InstallWorks, RemoveWorks, InstallsOnce
<1>2. RemovedIsGone' /\ InstalledIsKept'
  BY DEF RemovedIsGone, InstalledIsKept, IdleClient, Gone, Spent
<1>3. Identities'
  BY DEF Identities, IdleClient, NoId, FixtureTypes, RequestRecord, ServiceRecord
<1> QED
  BY <1>1, <1>2, <1>3

LEMMA StageRequestStep ==
  ASSUME FInv, NEW o \in Operation, NEW i \in Instances, NEW flaws \in SUBSET RequestFlaw,
         StageRequest(o, i, flaws)
  PROVE  FInv'
<1> USE RequestFacts DEF FInv
<1>0. /\ client.pc = "idle" /\ calls' = calls + 1
      /\ IF request[o] = NoRequest
         THEN /\ request' = [request EXCEPT ![o] = Request(calls + 1, i, flaws)]
              /\ client' = [pc |-> "waiting", op |-> o, id |-> calls + 1, instance |-> i]
         ELSE /\ request' = [request EXCEPT ![o] = NoRequest]
              /\ client' = [pc |-> "refused", op |-> o, id |-> NoId, instance |-> i]
      /\ UNCHANGED <<trigger, fired, service, lock, active, files, temps, changed, result>>
  BY DEF StageRequest
<1>1. calls \in Nat /\ Request(calls + 1, i, flaws) \in RequestRecord /\ Request(calls + 1, i, flaws).id = calls + 1
      /\ Request(calls + 1, i, flaws).instance = i
  BY DEF FixtureTypes, Request, RequestRecord, AnyInstance
<1>2. FixtureTypes'
  BY <1>0, <1>1 DEF FixtureTypes, ClientRecord, AnyInstance, Operation, NoId
<1>3. Locked' /\ Covered' /\ InstallWorks' /\ RemoveWorks' /\ InstallsOnce'
  BY <1>0 DEF Locked, Covered, InstallWorks, RemoveWorks, InstallsOnce
<1>4. RemovedIsGone'
  BY <1>0 DEF RemovedIsGone, Gone, Spent
<1>5. Identities'
  BY <1>0, <1>1 DEF Identities, NoId, FixtureTypes, RequestRecord, ServiceRecord, ResultRecord, Operation
<1>6. InstalledIsKept'
  BY <1>0, <1>1 DEF InstalledIsKept, Identities, FixtureTypes, ResultRecord, Operation
<1> QED
  BY <1>2, <1>3, <1>4, <1>5, <1>6

LEMMA StageFailsStep ==
  ASSUME FInv, NEW o \in Operation, NEW i \in Instances, StageFails(o, i)
  PROVE  FInv'
<1> USE RequestFacts DEF FInv
<1>0. /\ calls' = calls + 1
      /\ client' = [pc |-> "refused", op |-> o, id |-> NoId, instance |-> i]
      /\ request' = [request EXCEPT ![o] = NoRequest]
      /\ UNCHANGED <<trigger, fired, service, lock, active, files, temps, changed, result>>
  BY DEF StageFails
<1>2. FixtureTypes'
  BY <1>0 DEF FixtureTypes, ClientRecord, AnyInstance, Operation, NoId
<1>3. Locked' /\ Covered' /\ InstallWorks' /\ RemoveWorks' /\ InstallsOnce'
  BY <1>0 DEF Locked, Covered, InstallWorks, RemoveWorks, InstallsOnce
<1>4. RemovedIsGone' /\ InstalledIsKept'
  BY <1>0 DEF RemovedIsGone, Gone, Spent, InstalledIsKept
<1>5. Identities'
  BY <1>0 DEF Identities, NoId, FixtureTypes, RequestRecord, ServiceRecord, ResultRecord, Operation
<1> QED
  BY <1>2, <1>3, <1>4, <1>5

LEMMA ClientStepStep == FInv /\ ClientStep => FInv'
<1> SUFFICES ASSUME FInv, ClientStep PROVE FInv'
  OBVIOUS
<1> USE RequestFacts DEF FInv
<1>0. PICK pc \in {"accepted", "refused"} :
        /\ client.pc = "waiting"
        /\ client' = [client EXCEPT !.pc = pc]
        /\ request' \in {request, [request EXCEPT ![client.op] = NoRequest]}
        /\ pc = "accepted" => /\ result[client.op].id = client.id
                              /\ result[client.op].result = Expected(client.op)
        /\ UNCHANGED <<trigger, fired, service, lock, active, files, temps, changed, result, calls>>
  <2>1. CASE ReadResult
    <3> DEFINE pc == IF result[client.op].result = Expected(client.op) THEN "accepted" ELSE "refused"
    <3> pc \in {"accepted", "refused"}
      OBVIOUS
    <3> QED
      BY <2>1 DEF ReadResult, Answered
  <2>2. CASE WaitExpires
    BY <2>2 DEF WaitExpires
  <2>3. CASE ClientKilled
    BY <2>3 DEF ClientKilled
  <2> QED
    BY <2>1, <2>2, <2>3 DEF ClientStep
<1>1. client.op \in Operation /\ client \in ClientRecord
  BY <1>0 DEF Identities, FixtureTypes
<1>2. /\ client'.pc = pc /\ client'.op = client.op /\ client'.id = client.id
      /\ client'.instance = client.instance /\ client' \in ClientRecord
  BY <1>0, <1>1 DEF ClientRecord
<1>3. FixtureTypes'
  BY <1>0, <1>1, <1>2 DEF FixtureTypes
<1>4. Locked' /\ Covered' /\ InstallWorks' /\ RemoveWorks' /\ InstallsOnce'
  BY <1>0 DEF Locked, Covered, InstallWorks, RemoveWorks, InstallsOnce
<1>5. RemovedIsGone'
  BY <1>0, <1>1, <1>2 DEF RemovedIsGone, Gone, Spent, Expected
<1>6. Identities'
  BY <1>0, <1>1, <1>2 DEF Identities, NoId, FixtureTypes, RequestRecord, ServiceRecord, ResultRecord, Operation
<1>7. InstalledIsKept'
  <2>1. result["install"] \in ResultRecord
    BY DEF FixtureTypes, Operation
  <2>2. CASE client.op = "install" /\ pc = "accepted"
    <3>1. result["install"] = [id |-> client.id, result |-> "installed"]
      BY <1>0, <2>1, <2>2 DEF ResultRecord, Expected
    <3>2. request'["remove"] = request["remove"]
      BY <1>0, <1>1, <2>2 DEF FixtureTypes, Operation
    <3> QED
      BY <1>0, <1>2, <2>2, <3>1, <3>2 DEF InstalledIsKept
  <2>3. CASE ~(client.op = "install" /\ pc = "accepted")
    BY <1>0, <1>2, <2>3 DEF InstalledIsKept
  <2> QED
    BY <2>2, <2>3
<1> QED
  BY <1>3, <1>4, <1>5, <1>6, <1>7

\* One of the services changes its place and at most the fields named; the other stays.
LEMMA ServiceMoves ==
  ASSUME FixtureTypes, NEW o \in Operation, NEW s \in ServiceRecord, service' = [service EXCEPT ![o] = s],
         o = "install" => s.pc \in InstallPc, o = "remove" => s.pc \in RemovePc
  PROVE  /\ service' \in [Operation -> ServiceRecord]
         /\ service'["install"].pc \in InstallPc /\ service'["remove"].pc \in RemovePc
         /\ service'[o] = s
         /\ \A p \in Operation : p # o => service'[p] = service[p]
BY DEF FixtureTypes, Operation

\* A rejection: the service and the lock, with everything else as it was.
LEMMA RaisedIsHarmless ==
  ASSUME FInv, NEW o \in Operation, NEW id \in Nat, id <= calls, Raised(o, id),
         o = "install" => service[o].verdict # "installed" /\ (service[o].pc # "roll back" \/ active' = NotActive),
         UNCHANGED <<request, trigger, files, result, client, calls>>, temps' \subseteq temps,
         active' = active \/ (o = "install" /\ active' = NotActive /\ service[o].pc = "roll back" /\ files = {})
  PROVE  FInv'
<1> USE DEF FInv
<1> DEFINE pc == IF o = "remove" THEN "stop rejected" ELSE "publish"
           s == [service[o] EXCEPT !.pc = pc, !.verdict = "rejected", !.req.id = id]
<1>0. service[o] \in ServiceRecord /\ service[o].req \in RequestRecord
  BY DEF FixtureTypes, ServiceRecord
<1>1. s \in ServiceRecord /\ s.pc = pc /\ s.verdict = "rejected" /\ s.req.id = id /\ s.todo = service[o].todo
      /\ s.req.instance = service[o].req.instance
  BY <1>0 DEF ServiceRecord, RequestRecord, InstallPc, RemovePc, Verdict
<1>2. service' = [service EXCEPT ![o] = s] /\ lock' = IF lock = o THEN "none" ELSE lock
  BY DEF Raised, FixtureTypes
<1> HIDE DEF s
<1>3. /\ service' \in [Operation -> ServiceRecord]
      /\ service'["install"].pc \in InstallPc /\ service'["remove"].pc \in RemovePc
      /\ service'[o] = s
      /\ \A p \in Operation : p # o => service'[p] = service[p]
  BY <1>1, <1>2, ServiceMoves DEF InstallPc, RemovePc
<1>4. FixtureTypes'
  BY <1>2, <1>3, RequestFacts DEF FixtureTypes
<1>5. Locked' /\ RemoveWorks'
  BY <1>1, <1>2, <1>3 DEF Locked, RemoveWorks, Operation
<1>6. Covered'
  <2>1. CASE active' = active
    BY <2>1 DEF Covered
  <2>2. CASE active' # active
    <3>1. active' = NotActive /\ files = {} /\ temps = {} /\ NotActive.state = "none"
      BY <2>2 DEF InstallWorks, NotActive
    <3> QED
      BY <3>1 DEF Covered
  <2> QED
    BY <2>1, <2>2
<1>7. InstallWorks'
  BY <1>1, <1>2, <1>3 DEF InstallWorks, Operation, Locked
<1>8. InstallsOnce'
  BY <1>1, <1>2, <1>3 DEF InstallsOnce, Operation, InstallPc
<1>9. RemovedIsGone'
  BY <1>1, <1>2, <1>3 DEF RemovedIsGone, Gone, Spent, Operation, InstallWorks, NotActive
<1>10. Identities'
  BY <1>1, <1>2, <1>3 DEF Identities, Operation
<1>11. InstalledIsKept'
  <2>1. service'["remove"].pc \in {"check", "unlink", "stop"} => service["remove"].pc = service'["remove"].pc
    BY <1>1, <1>3 DEF Operation
  <2>2. CASE active' = active
    BY <2>1, <2>2 DEF InstalledIsKept
  <2>3. CASE active' # active
    <3>1. active = [state |-> "installing", instance |-> service["install"].req.instance]
      BY <2>3 DEF InstallWorks
    <3>2. active # [state |-> "active", instance |-> client.instance]
      BY <3>1
    <3> QED
      BY <3>2 DEF InstalledIsKept
  <2> QED
    BY <2>2, <2>3
<1> QED
  BY <1>4, <1>5, <1>6, <1>7, <1>8, <1>9, <1>10, <1>11

LEMMA FireStep ==
  ASSUME FInv, NEW o \in Operation, Fire(o)
  PROVE  FInv'
<1> USE DEF FInv
<1>0. trigger[o] /\ service[o].pc = "idle" /\ UNCHANGED <<request, lock, active, files, temps, result, client, calls>>
  BY DEF Fire
<1>1. CASE service' = service
  <2>1. /\ trigger' \in [Operation -> BOOLEAN]
        /\ \A p \in Operation : trigger'[p] => trigger[p]
    BY <1>0, <1>1 DEF Fire, FixtureTypes, Operation
  <2>2. FixtureTypes' /\ Locked' /\ Covered' /\ InstallWorks' /\ RemoveWorks'
    BY <1>0, <1>1, <2>1 DEF FixtureTypes, Locked, Covered, InstallWorks, RemoveWorks
  <2>3. InstallsOnce' /\ RemovedIsGone' /\ Identities' /\ InstalledIsKept'
    BY <1>0, <1>1, <2>1 DEF InstallsOnce, RemovedIsGone, Gone, Spent, Identities, InstalledIsKept, Operation
  <2> QED
    BY <2>2, <2>3
<1>2. CASE service' # service
  <2> DEFINE s == [service[o] EXCEPT !.pc = IF o = "install" THEN "stop" ELSE "lock"]
  <2>1. service[o] \in ServiceRecord
    BY DEF FixtureTypes
  <2>2. s \in ServiceRecord /\ s.pc = (IF o = "install" THEN "stop" ELSE "lock") /\ s.verdict = service[o].verdict
        /\ s.req = service[o].req
    BY <2>1 DEF ServiceRecord, InstallPc, RemovePc
  <2>3. service' = [service EXCEPT ![o] = s] /\ trigger' = trigger
    BY <1>2 DEF Fire, FixtureTypes
  <2> HIDE DEF s
  <2>4. /\ service' \in [Operation -> ServiceRecord]
        /\ service'["install"].pc \in InstallPc /\ service'["remove"].pc \in RemovePc
        /\ service'[o] = s
        /\ \A p \in Operation : p # o => service'[p] = service[p]
    BY <2>2, <2>3, ServiceMoves DEF InstallPc, RemovePc
  <2>5. FixtureTypes' /\ Covered'
    BY <1>0, <2>3, <2>4 DEF FixtureTypes, Covered
  <2>6. Locked' /\ RemoveWorks' /\ InstallWorks'
    BY <1>0, <2>2, <2>4 DEF Locked, RemoveWorks, InstallWorks, Operation
  <2>7. InstallsOnce'
    BY <1>0, <2>2, <2>3, <2>4 DEF InstallsOnce, Operation, InstallPc
  <2>8. RemovedIsGone' /\ Identities'
    BY <1>0, <2>2, <2>3, <2>4 DEF RemovedIsGone, Gone, Spent, Identities, Operation
  <2>9. InstalledIsKept'
    BY <1>0, <2>2, <2>4 DEF InstalledIsKept, Operation
  <2> QED
    BY <2>5, <2>6, <2>7, <2>8, <2>9
<1> QED
  BY <1>1, <1>2

LEMMA StopInstallTriggerStep == FInv /\ StopInstallTrigger => FInv'
<1> SUFFICES ASSUME FInv, StopInstallTrigger PROVE FInv'
  OBVIOUS
<1> USE DEF FInv
<1>0. service["install"].pc = "stop" /\ UNCHANGED <<request, active, files, temps, result, client, calls>>
  BY DEF StopInstallTrigger, Step
<1>1. CASE Raised("install", NoId) /\ UNCHANGED trigger
  <2>1. service["install"].verdict # "installed"
    BY <1>0 DEF InstallWorks
  <2>2. NoId \in Nat /\ NoId <= calls /\ "install" \in Operation
    BY DEF NoId, FixtureTypes, Operation
  <2> QED
    BY <1>0, <1>1, <2>1, <2>2, RaisedIsHarmless
<1>2. CASE /\ Step("install", "stop", "lock")
           /\ trigger' = [trigger EXCEPT !["install"] = FALSE]
           /\ UNCHANGED lock
  <2> DEFINE s == [service["install"] EXCEPT !.pc = "lock"]
  <2>1. service["install"] \in ServiceRecord /\ "install" \in Operation
    BY DEF FixtureTypes, Operation
  <2>2. s \in ServiceRecord /\ s.pc = "lock" /\ s.verdict = service["install"].verdict /\ s.req = service["install"].req
    BY <2>1 DEF ServiceRecord, InstallPc, RemovePc
  <2>3. service' = [service EXCEPT !["install"] = s]
    BY <1>2 DEF Step, FixtureTypes
  <2> HIDE DEF s
  <2>4. /\ service' \in [Operation -> ServiceRecord]
        /\ service'["install"].pc \in InstallPc /\ service'["remove"].pc \in RemovePc
        /\ service'["install"] = s
        /\ \A p \in Operation : p # "install" => service'[p] = service[p]
    BY <2>1, <2>2, <2>3, ServiceMoves DEF InstallPc, RemovePc
  <2>5. trigger' \in [Operation -> BOOLEAN] /\ ~trigger'["install"]
    BY <1>2, <2>1 DEF FixtureTypes
  <2>6. FixtureTypes' /\ Covered'
    BY <1>0, <1>2, <2>4, <2>5 DEF FixtureTypes, Covered
  <2>7. Locked' /\ RemoveWorks' /\ InstallWorks'
    BY <1>0, <1>2, <2>2, <2>4 DEF Locked, RemoveWorks, InstallWorks, Operation
  <2>8. InstallsOnce'
    BY <1>0, <2>2, <2>4, <2>5 DEF InstallsOnce, Operation, InstallPc
  <2>9. RemovedIsGone' /\ Identities'
    BY <1>0, <2>2, <2>4, <2>5 DEF RemovedIsGone, Gone, Spent, Identities, Operation
  <2>10. InstalledIsKept'
    BY <1>0, <2>2, <2>4 DEF InstalledIsKept, Operation
  <2> QED
    BY <2>6, <2>7, <2>8, <2>9, <2>10
<1> QED
  BY <1>1, <1>2 DEF StopInstallTrigger

LEMMA OperationLockStep ==
  ASSUME FInv, NEW o \in Operation, OperationLock(o)
  PROVE  FInv'
<1> USE DEF FInv
<1>0. service[o].pc = "lock" /\ UNCHANGED <<request, trigger, active, files, temps, result, client, calls>>
  BY DEF OperationLock
<1>1. CASE Raised(o, NoId)
  <2>1. o = "install" => service[o].verdict # "installed"
    BY <1>0 DEF InstallWorks
  <2>2. NoId \in Nat /\ NoId <= calls
    BY DEF NoId, FixtureTypes
  <2> QED
    BY <1>0, <1>1, <2>1, <2>2, RaisedIsHarmless
<1>2. CASE lock = "none" /\ lock' = o /\ Step(o, "lock", "parse")
  <2> DEFINE s == [service[o] EXCEPT !.pc = "parse"]
  <2>1. service[o] \in ServiceRecord
    BY DEF FixtureTypes
  <2>2. s \in ServiceRecord /\ s.pc = "parse" /\ s.verdict = service[o].verdict /\ s.req = service[o].req
    BY <2>1 DEF ServiceRecord, InstallPc, RemovePc
  <2>3. service' = [service EXCEPT ![o] = s]
    BY <1>2 DEF Step, FixtureTypes
  <2> HIDE DEF s
  <2>4. /\ service' \in [Operation -> ServiceRecord]
        /\ service'["install"].pc \in InstallPc /\ service'["remove"].pc \in RemovePc
        /\ service'[o] = s
        /\ \A p \in Operation : p # o => service'[p] = service[p]
    BY <2>1, <2>2, <2>3, ServiceMoves DEF InstallPc, RemovePc
  <2>5. FixtureTypes' /\ Covered'
    BY <1>0, <1>2, <2>4 DEF FixtureTypes, Covered
  <2>6. Locked' /\ RemoveWorks' /\ InstallWorks'
    BY <1>0, <1>2, <2>2, <2>4 DEF Locked, RemoveWorks, InstallWorks, Operation
  <2>7. InstallsOnce'
    BY <1>0, <2>2, <2>4 DEF InstallsOnce, Operation, InstallPc
  <2>8. RemovedIsGone' /\ Identities'
    BY <1>0, <2>2, <2>4 DEF RemovedIsGone, Gone, Spent, Identities, Operation
  <2>9. InstalledIsKept'
    BY <1>0, <2>2, <2>4 DEF InstalledIsKept, Operation
  <2> QED
    BY <2>5, <2>6, <2>7, <2>8, <2>9
<1> QED
  BY <1>1, <1>2 DEF OperationLock

LEMMA ParseRequestStep ==
  ASSUME FInv, NEW o \in Operation, ParseRequest(o)
  PROVE  FInv'
<1> USE DEF FInv
<1>0. service[o].pc = "parse" /\ UNCHANGED <<request, trigger, active, files, temps, result, client, calls>>
  BY DEF ParseRequest
<1>1. CASE Raised(o, IF "ready file" \in request[o].off THEN NoId ELSE request[o].id)
  <2> DEFINE id == IF "ready file" \in request[o].off THEN NoId ELSE request[o].id
  <2>1. o = "install" => service[o].verdict # "installed"
    BY <1>0 DEF InstallWorks
  <2>2. id \in Nat /\ id <= calls
    <3>1. request[o].id \in Nat /\ request[o].id <= calls
      BY DEF FixtureTypes, RequestRecord, Identities
    <3>2. NoId \in Nat /\ NoId <= calls
      BY DEF NoId, FixtureTypes
    <3> QED
      BY <3>1, <3>2
  <2>3. Raised(o, id)
    BY <1>1
  <2> HIDE DEF id
  <2> QED
    BY <1>0, <2>1, <2>2, <2>3, RaisedIsHarmless
<1>2. CASE /\ request[o] # NoRequest
           /\ service' = [service EXCEPT ![o].pc = "check", ![o].req = request[o]] /\ UNCHANGED lock
  <2> DEFINE s == [service[o] EXCEPT !.pc = "check", !.req = request[o]]
  <2>1. service[o] \in ServiceRecord /\ request[o] \in RequestRecord
    BY DEF FixtureTypes
  <2>2. s \in ServiceRecord /\ s.pc = "check" /\ s.verdict = service[o].verdict /\ s.req = request[o]
    BY <2>1 DEF ServiceRecord, InstallPc, RemovePc
  <2>3. service' = [service EXCEPT ![o] = s]
    BY <1>2 DEF FixtureTypes
  <2> HIDE DEF s
  <2>4. /\ service' \in [Operation -> ServiceRecord]
        /\ service'["install"].pc \in InstallPc /\ service'["remove"].pc \in RemovePc
        /\ service'[o] = s
        /\ \A p \in Operation : p # o => service'[p] = service[p]
    BY <2>1, <2>2, <2>3, ServiceMoves DEF InstallPc, RemovePc
  <2>5. FixtureTypes' /\ Covered'
    BY <1>0, <1>2, <2>4 DEF FixtureTypes, Covered
  <2>6. Locked' /\ RemoveWorks' /\ InstallWorks'
    BY <1>0, <1>2, <2>2, <2>4 DEF Locked, RemoveWorks, InstallWorks, Operation
  <2>7. InstallsOnce'
    BY <1>0, <2>2, <2>4 DEF InstallsOnce, Operation, InstallPc
  <2>8. RemovedIsGone' /\ Identities'
    BY <1>0, <2>2, <2>4 DEF RemovedIsGone, Gone, Spent, Identities, Operation
  <2>9. InstalledIsKept'
    BY <1>0, <1>2, <2>2, <2>4 DEF InstalledIsKept, Operation
  <2> QED
    BY <2>5, <2>6, <2>7, <2>8, <2>9
<1> QED
  BY <1>1, <1>2 DEF ParseRequest

LEMMA CheckInstallStep == FInv /\ CheckInstall => FInv'
<1> SUFFICES ASSUME FInv, CheckInstall PROVE FInv'
  OBVIOUS
<1> USE DEF FInv
<1>0. service["install"].pc = "check" /\ "install" \in Operation
      /\ UNCHANGED <<request, trigger, active, files, temps, result, client, calls>>
  BY DEF CheckInstall, Operation
<1>01. service["install"] \in ServiceRecord
  BY DEF FixtureTypes, Operation
<1>1. CASE Raised("install", service["install"].req.id)
  <2>1. service["install"].verdict # "installed"
    BY <1>0 DEF InstallWorks
  <2>2. service["install"].req.id \in Nat /\ service["install"].req.id <= calls
    BY <1>0, <1>01 DEF ServiceRecord, RequestRecord, Identities
  <2> QED
    BY <1>0, <1>1, <2>1, <2>2, RaisedIsHarmless
<1>2. CASE /\ active = NotActive
           /\ service' = [service EXCEPT !["install"].pc = "record"] /\ UNCHANGED lock
  <2> DEFINE s == [service["install"] EXCEPT !.pc = "record"]
  <2>2. s \in ServiceRecord /\ s.pc = "record" /\ s.verdict = service["install"].verdict
        /\ s.req = service["install"].req
    BY <1>01 DEF ServiceRecord, InstallPc, RemovePc
  <2>3. service' = [service EXCEPT !["install"] = s]
    BY <1>2 DEF FixtureTypes
  <2> HIDE DEF s
  <2>4. /\ service' \in [Operation -> ServiceRecord]
        /\ service'["install"].pc \in InstallPc /\ service'["remove"].pc \in RemovePc
        /\ service'["install"] = s
        /\ \A p \in Operation : p # "install" => service'[p] = service[p]
    BY <1>0, <2>2, <2>3, ServiceMoves DEF InstallPc, RemovePc
  <2>5. FixtureTypes' /\ Covered'
    BY <1>0, <1>2, <2>4 DEF FixtureTypes, Covered
  <2>6. Locked' /\ RemoveWorks' /\ InstallWorks'
    BY <1>0, <1>2, <2>2, <2>4 DEF Locked, RemoveWorks, InstallWorks, Operation
  <2>7. InstallsOnce'
    BY <1>0, <1>2, <2>2, <2>4 DEF InstallsOnce, Operation, InstallPc
  <2>8. RemovedIsGone' /\ Identities'
    BY <1>0, <2>2, <2>4 DEF RemovedIsGone, Gone, Spent, Identities, Operation
  <2>9. InstalledIsKept'
    BY <1>0, <2>2, <2>4 DEF InstalledIsKept, Operation
  <2> QED
    BY <2>5, <2>6, <2>7, <2>8, <2>9
<1> QED
  BY <1>1, <1>2 DEF CheckInstall

LEMMA RecordInstallingStep == FInv /\ RecordInstalling => FInv'
<1> SUFFICES ASSUME FInv, RecordInstalling PROVE FInv'
  OBVIOUS
<1> USE DEF FInv
<1> DEFINE i == service["install"].req.instance
           s == [service["install"] EXCEPT !.pc = "write", !.todo = Of(i)]
<1>0. /\ service["install"].pc = "record" /\ "install" \in Operation
      /\ active' = [state |-> "installing", instance |-> i]
      /\ UNCHANGED <<request, trigger, lock, files, temps, result, client, calls>>
  BY DEF RecordInstalling, Operation
<1>1. service["install"] \in ServiceRecord /\ i \in AnyInstance
  BY DEF FixtureTypes, Operation, ServiceRecord, RequestRecord
<1>2. /\ s \in ServiceRecord /\ s.pc = "write" /\ s.verdict = service["install"].verdict
      /\ s.req = service["install"].req /\ s.todo = Of(i)
  BY <1>1 DEF ServiceRecord, InstallPc, RemovePc, Of, Placement
<1>3. service' = [service EXCEPT !["install"] = s]
  BY DEF FixtureTypes, RecordInstalling
<1> HIDE DEF s
<1>4. /\ service' \in [Operation -> ServiceRecord]
      /\ service'["install"].pc \in InstallPc /\ service'["remove"].pc \in RemovePc
      /\ service'["install"] = s
      /\ \A p \in Operation : p # "install" => service'[p] = service[p]
  BY <1>0, <1>2, <1>3, ServiceMoves DEF InstallPc, RemovePc
<1>5. active = NotActive /\ files = {} /\ temps = {} /\ lock = "install"
  BY <1>0 DEF InstallWorks, Covered, Locked
<1>6. active' \in ActiveRecord /\ active'.state = "installing" /\ active'.instance = i
  BY <1>0, <1>1 DEF ActiveRecord
<1>7. FixtureTypes' /\ Covered'
  BY <1>0, <1>4, <1>5, <1>6 DEF FixtureTypes, Covered
<1>8. Locked' /\ InstallWorks'
  BY <1>0, <1>2, <1>4, <1>5 DEF Locked, InstallWorks, Operation
<1>9. RemoveWorks'
  BY <1>0, <1>4, <1>5 DEF RemoveWorks, Operation, Locked
<1>10. InstallsOnce'
  BY <1>0, <1>2, <1>4 DEF InstallsOnce, InstallPc
<1>11. RemovedIsGone'
  BY <1>0, <1>4 DEF RemovedIsGone, Gone, Spent, Operation
<1>12. Identities'
  BY <1>0, <1>2, <1>4 DEF Identities, Operation
<1>13. InstalledIsKept'
  <2>1. active # [state |-> "active", instance |-> client.instance]
    BY <1>5 DEF NotActive
  <2> QED
    BY <1>0, <2>1 DEF InstalledIsKept
<1> QED
  BY <1>7, <1>8, <1>9, <1>10, <1>11, <1>12, <1>13

LEMMA WriteUnitStep == FInv /\ WriteUnit => FInv'
<1> SUFFICES ASSUME FInv, WriteUnit PROVE FInv'
  OBVIOUS
<1> USE DEF FInv
<1> DEFINE i == service["install"].req.instance
<1>0. /\ service["install"].pc = "write" /\ "install" \in Operation
      /\ UNCHANGED <<request, trigger, lock, temps, result, client, calls>>
  BY DEF WriteUnit, Operation
<1>1. service["install"] \in ServiceRecord /\ i \in AnyInstance
  BY DEF FixtureTypes, Operation, ServiceRecord, RequestRecord
<1>2. /\ active = [state |-> "installing", instance |-> i] /\ temps = {} /\ lock = "install"
      /\ service["install"].todo = Of(i) \ files /\ ~trigger["install"]
      /\ service["install"].verdict = "none" /\ service["remove"].pc \notin {"parse", "check", "unlink", "stop"}
  BY <1>0 DEF InstallWorks, Locked, InstallsOnce, InstallPc
<1>3. files \subseteq Of(i) /\ Of(i) \subseteq Placement /\ active.state = "installing" /\ active.instance = i
      /\ active # NotActive
  BY <1>1, <1>2 DEF Covered, Of, Placement, NotActive
<1>4. CASE \E u \in service["install"].todo :
             /\ files' = files \cup {u}
             /\ service' = [service EXCEPT !["install"].todo = @ \ {u}]
             /\ UNCHANGED active
  <2>1. PICK u \in service["install"].todo :
             /\ files' = files \cup {u}
             /\ service' = [service EXCEPT !["install"].todo = @ \ {u}]
             /\ UNCHANGED active
    BY <1>4
  <2> DEFINE s == [service["install"] EXCEPT !.todo = @ \ {u}]
  <2>2. /\ s \in ServiceRecord /\ s.pc = "write" /\ s.verdict = service["install"].verdict
        /\ s.req = service["install"].req /\ s.todo = service["install"].todo \ {u}
    BY <1>0, <1>1 DEF ServiceRecord
  <2>3. service' = [service EXCEPT !["install"] = s]
    BY <2>1 DEF FixtureTypes
  <2> HIDE DEF s
  <2>4. /\ service' \in [Operation -> ServiceRecord]
        /\ service'["install"].pc \in InstallPc /\ service'["remove"].pc \in RemovePc
        /\ service'["install"] = s
        /\ \A p \in Operation : p # "install" => service'[p] = service[p]
    BY <1>0, <2>2, <2>3, ServiceMoves DEF InstallPc, RemovePc
  <2>5. FixtureTypes'
    BY <1>0, <1>2, <1>3, <2>1, <2>4 DEF FixtureTypes
  <2>6. Covered'
    BY <1>0, <1>2, <1>3, <2>1 DEF Covered, Of
  <2>7. Locked' /\ InstallWorks'
    BY <1>0, <1>2, <2>1, <2>2, <2>4 DEF Locked, InstallWorks, Operation
  <2>8. RemoveWorks' /\ InstallsOnce'
    BY <1>0, <1>2, <2>2, <2>4 DEF RemoveWorks, Operation, InstallsOnce
  <2>9. RemovedIsGone' /\ Identities'
    BY <1>0, <1>2, <2>2, <2>4 DEF RemovedIsGone, Gone, Spent, Operation, Identities
  <2>10. InstalledIsKept'
    BY <1>0, <2>1, <2>4 DEF InstalledIsKept, Operation
  <2> QED
    BY <2>5, <2>6, <2>7, <2>8, <2>9, <2>10
<1>5. CASE /\ service["install"].todo = {}
           /\ active' = [active EXCEPT !.state = "active", !.instance = service["install"].req.instance]
           /\ service' = [service EXCEPT !["install"].pc = "publish", !["install"].verdict = "installed"]
           /\ UNCHANGED files
  <2> DEFINE s == [service["install"] EXCEPT !.pc = "publish", !.verdict = "installed"]
  <2>2. /\ s \in ServiceRecord /\ s.pc = "publish" /\ s.verdict = "installed"
        /\ s.req = service["install"].req
    BY <1>0, <1>1 DEF ServiceRecord, InstallPc, Verdict
  <2>3. service' = [service EXCEPT !["install"] = s]
    BY <1>5 DEF FixtureTypes
  <2> HIDE DEF s
  <2>4. /\ service' \in [Operation -> ServiceRecord]
        /\ service'["install"].pc \in InstallPc /\ service'["remove"].pc \in RemovePc
        /\ service'["install"] = s
        /\ \A p \in Operation : p # "install" => service'[p] = service[p]
    BY <1>0, <2>2, <2>3, ServiceMoves DEF InstallPc, RemovePc
  <2>5. active' = [state |-> "active", instance |-> i] /\ files = Of(i)
    BY <1>2, <1>3, <1>5
  <2>6. active' \in ActiveRecord /\ active'.state = "active" /\ active'.instance = i
    BY <2>5, <1>1 DEF ActiveRecord
  <2>7. FixtureTypes'
    BY <1>0, <1>5, <2>4, <2>6 DEF FixtureTypes
  <2>8. Covered'
    BY <1>0, <1>2, <1>5, <2>5, <2>6 DEF Covered, NotActive
  <2>9. Locked' /\ InstallWorks'
    BY <1>0, <1>2, <2>5, <2>2, <2>4 DEF Locked, InstallWorks, Operation
  <2>10. RemoveWorks' /\ InstallsOnce'
    BY <1>0, <1>2, <2>2, <2>4 DEF RemoveWorks, Operation, InstallsOnce
  <2>11. RemovedIsGone' /\ Identities'
    BY <1>0, <1>2, <1>3, <2>2, <2>4 DEF RemovedIsGone, Gone, Spent, Operation, Identities
  <2>12. InstalledIsKept'
    <3>1. active # [state |-> "active", instance |-> client.instance]
      BY <1>3
    <3> QED
      BY <1>0, <3>1 DEF InstalledIsKept
  <2> QED
    BY <2>7, <2>8, <2>9, <2>10, <2>11, <2>12
<1> QED
  BY <1>4, <1>5 DEF WriteUnit

LEMMA WriteFailsStep == FInv /\ WriteFails => FInv'
<1> SUFFICES ASSUME FInv, WriteFails PROVE FInv'
  OBVIOUS
<1> USE DEF FInv
<1> DEFINE i == service["install"].req.instance
           s == [service["install"] EXCEPT !.pc = "roll back", !.todo = files \cap Of(i)]
<1>0. /\ service["install"].pc = "write" /\ "install" \in Operation
      /\ UNCHANGED <<request, trigger, lock, active, files, temps, result, client, calls>>
  BY DEF WriteFails, Operation
<1>1. service["install"] \in ServiceRecord /\ i \in AnyInstance /\ files \subseteq Placement
  BY DEF FixtureTypes, Operation, ServiceRecord, RequestRecord
<1>2. /\ s \in ServiceRecord /\ s.pc = "roll back" /\ s.verdict = service["install"].verdict
      /\ s.req = service["install"].req /\ s.todo = files \cap Of(i)
  BY <1>1 DEF ServiceRecord, InstallPc, RemovePc
<1>3. service' = [service EXCEPT !["install"] = s]
  BY DEF FixtureTypes, WriteFails
<1> HIDE DEF s
<1>4. /\ service' \in [Operation -> ServiceRecord]
      /\ service'["install"].pc \in InstallPc /\ service'["remove"].pc \in RemovePc
      /\ service'["install"] = s
      /\ \A p \in Operation : p # "install" => service'[p] = service[p]
  BY <1>0, <1>2, <1>3, ServiceMoves DEF InstallPc, RemovePc
<1>5. active.instance = i /\ files \subseteq Of(i)
  BY <1>0 DEF InstallWorks, Covered
<1>6. FixtureTypes' /\ Covered'
  BY <1>0, <1>4 DEF FixtureTypes, Covered
<1>7. Locked' /\ InstallWorks'
  BY <1>0, <1>2, <1>4, <1>5 DEF Locked, InstallWorks, Operation
<1>8. RemoveWorks' /\ InstallsOnce'
  BY <1>0, <1>2, <1>4 DEF RemoveWorks, Operation, InstallsOnce, InstallPc
<1>9. RemovedIsGone' /\ Identities'
  BY <1>0, <1>2, <1>4 DEF RemovedIsGone, Gone, Spent, Operation, Identities
<1>10. InstalledIsKept'
  BY <1>0, <1>4 DEF InstalledIsKept, Operation
<1> QED
  BY <1>6, <1>7, <1>8, <1>9, <1>10

LEMMA RollBackStep == FInv /\ RollBack => FInv'
<1> SUFFICES ASSUME FInv, RollBack PROVE FInv'
  OBVIOUS
<1> USE DEF FInv
<1>0. /\ service["install"].pc = "roll back" /\ "install" \in Operation
      /\ UNCHANGED <<request, trigger, temps, result, client, calls>>
  BY DEF RollBack, Operation
<1>1. service["install"] \in ServiceRecord /\ service["install"].req \in RequestRecord
  BY DEF FixtureTypes, Operation, ServiceRecord
<1>2. /\ active.state = "installing" /\ temps = {} /\ service["install"].todo = files
      /\ service["install"].verdict = "none" /\ service["remove"].pc \notin {"parse", "check", "unlink", "stop"}
      /\ active # NotActive
  <2>1. active = [state |-> "installing", instance |-> service["install"].req.instance]
    BY <1>0 DEF InstallWorks
  <2>2. active.state = "installing" /\ active # NotActive
    BY <2>1 DEF NotActive
  <2> QED
    BY <1>0, <2>2 DEF InstallWorks, Locked
<1>3. CASE \E u \in service["install"].todo :
             /\ files' = files \ {u} /\ changed' = changed \ {u}
             /\ service' = [service EXCEPT !["install"].todo = @ \ {u}]
             /\ UNCHANGED <<active, lock>>
  <2>1. PICK u \in service["install"].todo :
             /\ files' = files \ {u}
             /\ service' = [service EXCEPT !["install"].todo = @ \ {u}]
             /\ UNCHANGED <<active, lock>>
    BY <1>3
  <2> DEFINE s == [service["install"] EXCEPT !.todo = @ \ {u}]
  <2>2. /\ s \in ServiceRecord /\ s.pc = "roll back" /\ s.verdict = service["install"].verdict
        /\ s.req = service["install"].req /\ s.todo = service["install"].todo \ {u}
    BY <1>0, <1>1 DEF ServiceRecord
  <2>3. service' = [service EXCEPT !["install"] = s]
    BY <2>1 DEF FixtureTypes
  <2> HIDE DEF s
  <2>4. /\ service' \in [Operation -> ServiceRecord]
        /\ service'["install"].pc \in InstallPc /\ service'["remove"].pc \in RemovePc
        /\ service'["install"] = s
        /\ \A p \in Operation : p # "install" => service'[p] = service[p]
    BY <1>0, <2>2, <2>3, ServiceMoves DEF InstallPc, RemovePc
  <2>5. FixtureTypes'
    BY <1>0, <2>1, <2>4 DEF FixtureTypes
  <2>6. Covered'
    BY <1>0, <1>2, <2>1 DEF Covered
  <2>7. Locked' /\ InstallWorks'
    BY <1>0, <1>2, <2>1, <2>2, <2>4 DEF Locked, InstallWorks, Operation
  <2>8. RemoveWorks' /\ InstallsOnce'
    BY <1>0, <1>2, <2>1, <2>2, <2>4 DEF RemoveWorks, Operation, InstallsOnce
  <2>9. RemovedIsGone' /\ Identities'
    BY <1>0, <1>2, <2>2, <2>4 DEF RemovedIsGone, Gone, Spent, Operation, Identities
  <2>10. InstalledIsKept'
    BY <1>0, <2>1, <2>4 DEF InstalledIsKept, Operation
  <2> QED
    BY <2>5, <2>6, <2>7, <2>8, <2>9, <2>10
<1>4. CASE /\ service["install"].todo = {} /\ active' = NotActive
           /\ Raised("install", service["install"].req.id) /\ UNCHANGED files
  <2>1. service["install"].req.id \in Nat /\ service["install"].req.id <= calls
    BY <1>0, <1>1 DEF RequestRecord, Identities
  <2>2. files = {}
    BY <1>2, <1>4
  <2> QED
    BY <1>0, <1>2, <1>4, <2>1, <2>2, RaisedIsHarmless
<1> QED
  BY <1>3, <1>4 DEF RollBack

LEMMA CheckRemoveStep == FInv /\ CheckRemove => FInv'
<1> SUFFICES ASSUME FInv, CheckRemove PROVE FInv'
  OBVIOUS
<1> USE DEF FInv
<1> DEFINE i == service["remove"].req.instance
           ours == active # NotActive /\ active.instance = i
<1>0. /\ service["remove"].pc = "check" /\ "remove" \in Operation
      /\ temps' = IF ours THEN temps \ Of(i) ELSE temps
      /\ UNCHANGED <<request, trigger, files, result, client, calls>>
  BY DEF CheckRemove, Operation, WithoutInterrupted
<1>1. service["remove"] \in ServiceRecord /\ i \in AnyInstance /\ files \subseteq Placement
      /\ service["remove"].req.id \in Nat /\ service["remove"].req.id <= calls
  BY <1>0 DEF FixtureTypes, Operation, ServiceRecord, RequestRecord, Identities
<1>2. CASE Raised("remove", service["remove"].req.id) /\ UNCHANGED active
  <2>1. temps' \subseteq temps
    BY <1>0
  <2> QED
    BY <1>0, <1>1, <1>2, <2>1, RaisedIsHarmless
<1>3. CASE /\ ours
           /\ service' = [service EXCEPT !["remove"].pc = "unlink", !["remove"].todo = files \cap Of(i)]
           /\ active' = [active EXCEPT !.state = "removing"]
           /\ UNCHANGED lock
  <2> DEFINE s == [service["remove"] EXCEPT !.pc = "unlink", !.todo = files \cap Of(i)]
  <2>2. /\ s \in ServiceRecord /\ s.pc = "unlink" /\ s.verdict = service["remove"].verdict
        /\ s.req = service["remove"].req /\ s.todo = files \cap Of(i)
    BY <1>1 DEF ServiceRecord, RemovePc
  <2>3. service' = [service EXCEPT !["remove"] = s]
    BY <1>3 DEF FixtureTypes
  <2> HIDE DEF s
  <2>4. /\ service' \in [Operation -> ServiceRecord]
        /\ service'["install"].pc \in InstallPc /\ service'["remove"].pc \in RemovePc
        /\ service'["remove"] = s
        /\ \A p \in Operation : p # "remove" => service'[p] = service[p]
    BY <1>0, <2>2, <2>3, ServiceMoves DEF InstallPc, RemovePc
  <2>5. /\ active' \in ActiveRecord /\ active' = [state |-> "removing", instance |-> i]
        /\ active'.state = "removing" /\ active'.instance = i
    BY <1>3 DEF ActiveRecord, FixtureTypes
  <2>6. files \cap Of(i) = files /\ temps' = {} /\ files \subseteq Of(i)
    BY <1>0, <1>3 DEF Covered
  <2>7. lock = "remove" /\ service["install"].pc \notin {"parse", "check", "record", "write", "roll back"}
        /\ service["install"].verdict # "installed"
    BY <1>0 DEF Locked, InstallWorks
  <2>8. FixtureTypes'
    BY <1>0, <1>3, <2>4, <2>5, <2>6 DEF FixtureTypes
  <2>9. Covered'
    BY <1>0, <2>5, <2>6 DEF Covered, NotActive
  <2>10. Locked' /\ RemoveWorks'
    BY <1>0, <1>3, <2>2, <2>4, <2>5, <2>6 DEF Locked, RemoveWorks, Operation
  <2>11. InstallWorks' /\ InstallsOnce'
    BY <1>0, <1>3, <2>4, <2>7 DEF InstallWorks, InstallsOnce, Operation
  <2>12. RemovedIsGone' /\ Identities'
    BY <1>0, <1>3, <2>2, <2>4 DEF RemovedIsGone, Gone, Operation, Identities
  <2>13. InstalledIsKept'
    BY <1>0 DEF InstalledIsKept
  <2> QED
    BY <2>8, <2>9, <2>10, <2>11, <2>12, <2>13
<1> QED
  BY <1>2, <1>3 DEF CheckRemove

LEMMA UnlinkStep == FInv /\ Unlink => FInv'
<1> SUFFICES ASSUME FInv, Unlink PROVE FInv'
  OBVIOUS
<1> USE DEF FInv
<1> DEFINE i == service["remove"].req.instance
<1>0. /\ service["remove"].pc = "unlink" /\ "remove" \in Operation
      /\ UNCHANGED <<request, trigger, lock, temps, result, client, calls>>
  BY DEF Unlink, Operation
<1>1. service["remove"] \in ServiceRecord
  BY DEF FixtureTypes, Operation
<1>2. /\ active = [state |-> "removing", instance |-> i] /\ temps = {} /\ service["remove"].todo = files
      /\ lock = "remove" /\ service["install"].pc \notin {"parse", "check", "record", "write", "roll back"}
      /\ service["install"].verdict # "installed"
  BY <1>0 DEF RemoveWorks, Locked, InstallWorks
<1>3. active.state = "removing" /\ active.instance = i /\ active # NotActive
  BY <1>2 DEF NotActive
<1>4. CASE \E u \in service["remove"].todo :
             /\ files' = files \ {u} /\ changed' = changed \ {u}
             /\ service' = [service EXCEPT !["remove"].todo = @ \ {u}]
             /\ UNCHANGED active
  <2>1. PICK u \in service["remove"].todo :
             /\ files' = files \ {u}
             /\ service' = [service EXCEPT !["remove"].todo = @ \ {u}]
             /\ UNCHANGED active
    BY <1>4
  <2> DEFINE s == [service["remove"] EXCEPT !.todo = @ \ {u}]
  <2>2. /\ s \in ServiceRecord /\ s.pc = "unlink" /\ s.verdict = service["remove"].verdict
        /\ s.req = service["remove"].req /\ s.todo = service["remove"].todo \ {u}
    BY <1>0, <1>1 DEF ServiceRecord
  <2>3. service' = [service EXCEPT !["remove"] = s]
    BY <2>1 DEF FixtureTypes
  <2> HIDE DEF s
  <2>4. /\ service' \in [Operation -> ServiceRecord]
        /\ service'["install"].pc \in InstallPc /\ service'["remove"].pc \in RemovePc
        /\ service'["remove"] = s
        /\ \A p \in Operation : p # "remove" => service'[p] = service[p]
    BY <1>0, <2>2, <2>3, ServiceMoves DEF InstallPc, RemovePc
  <2>5. FixtureTypes'
    BY <1>0, <2>1, <2>4 DEF FixtureTypes
  <2>6. Covered'
    BY <1>0, <1>2, <1>3, <2>1 DEF Covered
  <2>7. Locked' /\ RemoveWorks'
    BY <1>0, <1>2, <2>1, <2>2, <2>4 DEF Locked, RemoveWorks, Operation
  <2>8. InstallWorks' /\ InstallsOnce'
    BY <1>0, <1>2, <2>1, <2>4 DEF InstallWorks, InstallsOnce, Operation
  <2>9. RemovedIsGone' /\ Identities'
    BY <1>0, <1>3, <2>2, <2>4 DEF RemovedIsGone, Gone, Spent, Operation, Identities
  <2>10. InstalledIsKept'
    BY <1>0 DEF InstalledIsKept
  <2> QED
    BY <2>5, <2>6, <2>7, <2>8, <2>9, <2>10
<1>5. CASE /\ service["remove"].todo = {} /\ active' = NotActive
           /\ service' = [service EXCEPT !["remove"].pc = "stop", !["remove"].verdict = "removed"]
           /\ UNCHANGED files
  <2> DEFINE s == [service["remove"] EXCEPT !.pc = "stop", !.verdict = "removed"]
  <2>2. s \in ServiceRecord /\ s.pc = "stop" /\ s.verdict = "removed" /\ s.req = service["remove"].req
    BY <1>0, <1>1 DEF ServiceRecord, RemovePc, Verdict
  <2>3. service' = [service EXCEPT !["remove"] = s]
    BY <1>5 DEF FixtureTypes
  <2> HIDE DEF s
  <2>4. /\ service' \in [Operation -> ServiceRecord]
        /\ service'["install"].pc \in InstallPc /\ service'["remove"].pc \in RemovePc
        /\ service'["remove"] = s
        /\ \A p \in Operation : p # "remove" => service'[p] = service[p]
    BY <1>0, <2>2, <2>3, ServiceMoves DEF InstallPc, RemovePc
  <2>5. FixtureTypes'
    BY <1>0, <1>5, <2>4, RequestFacts DEF FixtureTypes
  <2>6. files = {} /\ NotActive.state = "none"
    BY <1>2, <1>5 DEF NotActive
  <2>7. Covered'
    BY <1>0, <1>2, <1>5, <2>6 DEF Covered
  <2>8. Locked' /\ RemoveWorks'
    BY <1>0, <1>2, <2>2, <2>4 DEF Locked, RemoveWorks, Operation
  <2>9. InstallWorks' /\ InstallsOnce'
    BY <1>0, <1>2, <1>5, <2>4 DEF InstallWorks, InstallsOnce, Operation
  <2>10. Gone'
    BY <1>0, <1>2, <1>3, <1>5, <2>4 DEF Gone, Spent, InstallsOnce, Operation
  <2>11. Identities' /\ RemovedIsGone'
    BY <1>0, <2>2, <2>4, <2>10 DEF Identities, Operation, RemovedIsGone
  <2>12. InstalledIsKept'
    BY <1>0 DEF InstalledIsKept
  <2> QED
    BY <2>5, <2>7, <2>8, <2>9, <2>11, <2>12
<1> QED
  BY <1>4, <1>5 DEF Unlink

LEMMA UnlinkFailsStep == FInv /\ UnlinkFails => FInv'
<1> SUFFICES ASSUME FInv, UnlinkFails PROVE FInv'
  OBVIOUS
<1> USE DEF FInv
<1> DEFINE s == [service["remove"] EXCEPT !.pc = "publish", !.verdict = "retrying"]
<1>0. /\ service["remove"].pc = "unlink" /\ "remove" \in Operation /\ lock' = "none"
      /\ UNCHANGED <<request, trigger, active, files, temps, result, client, calls>>
  BY DEF UnlinkFails, Operation
<1>1. service["remove"] \in ServiceRecord
  BY DEF FixtureTypes, Operation
<1>2. s \in ServiceRecord /\ s.pc = "publish" /\ s.verdict = "retrying" /\ s.req = service["remove"].req
  BY <1>1 DEF ServiceRecord, RemovePc, Verdict
<1>3. service' = [service EXCEPT !["remove"] = s]
  BY DEF FixtureTypes, UnlinkFails
<1> HIDE DEF s
<1>4. /\ service' \in [Operation -> ServiceRecord]
      /\ service'["install"].pc \in InstallPc /\ service'["remove"].pc \in RemovePc
      /\ service'["remove"] = s
      /\ \A p \in Operation : p # "remove" => service'[p] = service[p]
  BY <1>0, <1>2, <1>3, ServiceMoves DEF InstallPc, RemovePc
<1>5. FixtureTypes' /\ Covered'
  BY <1>0, <1>4 DEF FixtureTypes, Covered
<1>6. Locked' /\ InstallWorks' /\ RemoveWorks'
  BY <1>0, <1>2, <1>4 DEF Locked, InstallWorks, RemoveWorks, Operation
<1>7. InstallsOnce' /\ RemovedIsGone' /\ Identities'
  BY <1>0, <1>2, <1>4 DEF Operation, InstallsOnce, RemovedIsGone, Gone, Spent, Identities
<1>8. InstalledIsKept'
  BY <1>0, <1>2, <1>4 DEF InstalledIsKept, Operation
<1> QED
  BY <1>5, <1>6, <1>7, <1>8

LEMMA StopRemoveTriggerStep == FInv /\ StopRemoveTrigger => FInv'
<1> SUFFICES ASSUME FInv, StopRemoveTrigger PROVE FInv'
  OBVIOUS
<1> USE DEF FInv
<1>0. /\ service["remove"].pc \in {"stop", "stop rejected"} /\ "remove" \in Operation
      /\ UNCHANGED <<request, active, files, temps, result, client, calls>>
  BY DEF StopRemoveTrigger, Operation
<1>1. service["remove"] \in ServiceRecord
  BY DEF FixtureTypes, Operation
<1>2. \E pc \in {"stop rejected", "publish"}, v \in {service["remove"].verdict, "rejected"} :
        /\ service' = [service EXCEPT !["remove"].pc = pc, !["remove"].verdict = v]
        /\ trigger' \in {trigger, [trigger EXCEPT !["remove"] = FALSE]}
        /\ lock' \in {lock, IF lock = "remove" THEN "none" ELSE lock}
  <2>1. CASE /\ trigger' = [trigger EXCEPT !["remove"] = FALSE]
             /\ service' = [service EXCEPT !["remove"].pc = "publish"]
             /\ UNCHANGED lock
    <3>1. service' = [service EXCEPT !["remove"].pc = "publish", !["remove"].verdict = service["remove"].verdict]
      BY <1>1, <2>1 DEF FixtureTypes, ServiceRecord
    <3> QED
      BY <2>1, <3>1
  <2>2. CASE /\ service' = [service EXCEPT !["remove"].pc =
                         IF @ = "stop" THEN "stop rejected" ELSE "publish",
                                      !["remove"].verdict = "rejected"]
             /\ lock' = IF lock = "remove" THEN "none" ELSE lock
             /\ UNCHANGED trigger
    <3> DEFINE pc == IF service["remove"].pc = "stop" THEN "stop rejected" ELSE "publish"
    <3>1. pc \in {"stop rejected", "publish"}
      OBVIOUS
    <3>2. service' = [service EXCEPT !["remove"].pc = pc, !["remove"].verdict = "rejected"]
      BY <2>2
    <3> HIDE DEF pc
    <3> QED
      BY <2>2, <3>1, <3>2
  <2> QED
    BY <2>1, <2>2 DEF StopRemoveTrigger
<1>3. PICK pc \in {"stop rejected", "publish"}, v \in {service["remove"].verdict, "rejected"} :
        /\ service' = [service EXCEPT !["remove"].pc = pc, !["remove"].verdict = v]
        /\ trigger' \in {trigger, [trigger EXCEPT !["remove"] = FALSE]}
        /\ lock' \in {lock, IF lock = "remove" THEN "none" ELSE lock}
  BY <1>2
<1> DEFINE s == [service["remove"] EXCEPT !.pc = pc, !.verdict = v]
<1>4. s \in ServiceRecord /\ s.pc = pc /\ s.verdict = v /\ s.req = service["remove"].req
  BY <1>1 DEF ServiceRecord, RemovePc, Verdict
<1>5. service' = [service EXCEPT !["remove"] = s]
  BY <1>3 DEF FixtureTypes
<1> HIDE DEF s
<1>6. /\ service' \in [Operation -> ServiceRecord]
      /\ service'["install"].pc \in InstallPc /\ service'["remove"].pc \in RemovePc
      /\ service'["remove"] = s
      /\ \A p \in Operation : p # "remove" => service'[p] = service[p]
  BY <1>0, <1>4, <1>5, ServiceMoves DEF InstallPc, RemovePc
<1>7. trigger' \in [Operation -> BOOLEAN] /\ trigger'["install"] = trigger["install"]
  BY <1>3 DEF FixtureTypes, Operation
<1>8. lock' \in Operation \cup {"none"} /\ (lock = "install" => lock' = "install")
  BY <1>3 DEF FixtureTypes
<1>9. FixtureTypes' /\ Covered'
  BY <1>0, <1>6, <1>7, <1>8 DEF FixtureTypes, Covered
<1>10. Locked' /\ InstallWorks' /\ RemoveWorks'
  BY <1>0, <1>4, <1>6, <1>8 DEF Locked, InstallWorks, RemoveWorks, Operation
<1>11. InstallsOnce' /\ RemovedIsGone' /\ Identities'
  BY <1>0, <1>4, <1>6, <1>7 DEF Operation, InstallsOnce, RemovedIsGone, Gone, Spent, Identities
<1>12. InstalledIsKept'
  BY <1>0, <1>4, <1>6 DEF InstalledIsKept, Operation
<1> QED
  BY <1>9, <1>10, <1>11, <1>12

\* The service ends, having published its answer or not.
LEMMA PublishResultStep ==
  ASSUME FInv, NEW o \in Operation, PublishResult(o)
  PROVE  FInv'
<1> USE DEF FInv
<1>0. /\ service[o].pc = "publish" /\ service' = [service EXCEPT ![o] = IdleService]
      /\ lock' = IF lock = o THEN "none" ELSE lock
      /\ result' \in {result, [result EXCEPT ![o] = [id |-> service[o].req.id, result |-> service[o].verdict]]}
      /\ UNCHANGED <<request, trigger, active, files, temps, client, calls>>
  BY DEF PublishResult
<1>1. service[o] \in ServiceRecord /\ service[o].req.id \in Nat /\ service[o].req.id <= calls
  BY DEF FixtureTypes, ServiceRecord, RequestRecord, Identities
<1>2. IdleService.pc = "idle" /\ IdleService.verdict = "none" /\ IdleService.req = NoRequest
  BY DEF IdleService
<1>3. /\ service' \in [Operation -> ServiceRecord]
      /\ service'["install"].pc \in InstallPc /\ service'["remove"].pc \in RemovePc
      /\ service'[o] = IdleService
      /\ \A p \in Operation : p # o => service'[p] = service[p]
  BY <1>0, <1>2, RequestFacts, ServiceMoves DEF InstallPc, RemovePc
<1>4. /\ result' \in [Operation -> ResultRecord]
      /\ \A p \in Operation :
           \/ result'[p] = result[p]
           \/ p = o /\ result'[p] = [id |-> service[o].req.id, result |-> service[o].verdict]
  BY <1>0, <1>1 DEF FixtureTypes, ResultRecord, ServiceRecord
<1>5. FixtureTypes' /\ Covered'
  BY <1>0, <1>3, <1>4 DEF FixtureTypes, Covered
<1>6. Locked' /\ RemoveWorks' /\ InstallWorks'
  BY <1>0, <1>2, <1>3 DEF Locked, RemoveWorks, InstallWorks, Operation
<1>7. InstallsOnce'
  BY <1>0, <1>2, <1>3 DEF InstallsOnce, Operation, InstallPc
<1>8. RemovedIsGone'
  <2>1. Gone => Gone'
    BY <1>0, <1>2, <1>3 DEF Gone, Spent, Operation
  <2>2. result'["remove"].result = "removed" =>
          result["remove"].result = "removed" \/ service["remove"].verdict = "removed"
    BY <1>4 DEF Operation
  <2>3. service'["remove"].verdict = "removed" => service["remove"].verdict = "removed"
    BY <1>2, <1>3 DEF Operation
  <2> QED
    BY <1>0, <2>1, <2>2, <2>3 DEF RemovedIsGone
<1>9. Identities'
  <2>1. \A p \in Operation : result'[p].id <= calls
    BY <1>1, <1>4 DEF Identities
  <2>2. \A p \in Operation : service'[p].req.id <= calls
    BY <1>2, <1>3, RequestFacts DEF Identities, FixtureTypes
  <2>3. service'["install"].req.id = client.id /\ client.id # NoId => service'["install"] = service["install"]
    BY <1>2, <1>3, RequestFacts DEF NoId, Operation
  <2> QED
    BY <1>0, <2>1, <2>2, <2>3 DEF Identities
<1>10. InstalledIsKept'
  <2> SUFFICES ASSUME client.pc \in {"waiting", "accepted"}, client.op = "install",
                      client.pc = "waiting" => result'["install"] = [id |-> client.id, result |-> "installed"],
                      request["remove"] = NoRequest
               PROVE  /\ active = [state |-> "active", instance |-> client.instance]
                      /\ service'["remove"].pc \notin {"check", "unlink", "stop"}
    BY <1>0 DEF InstalledIsKept
  <2>1. service["remove"].pc \notin {"check", "unlink", "stop"} =>
          service'["remove"].pc \notin {"check", "unlink", "stop"}
    BY <1>2, <1>3 DEF Operation
  <2>2. CASE client.pc = "waiting" => result["install"] = [id |-> client.id, result |-> "installed"]
    BY <2>1, <2>2 DEF InstalledIsKept
  <2>3. CASE client.pc = "waiting" /\ result'["install"] # result["install"]
    <3>1. o = "install" /\ result'["install"] = [id |-> service["install"].req.id, result |-> service["install"].verdict]
      BY <1>4, <2>3 DEF Operation
    <3>2. service["install"].req.id = client.id /\ service["install"].verdict = "installed"
      BY <2>3, <3>1
    <3>3. service["install"].req.instance = client.instance
      BY <2>3, <3>2 DEF Identities
    <3>4. active = [state |-> "active", instance |-> client.instance] /\ lock = "install"
      BY <3>2, <3>3 DEF InstallWorks
    <3> QED
      BY <2>1, <3>4 DEF Locked
  <2> QED
    BY <2>2, <2>3
<1> QED
  BY <1>5, <1>6, <1>7, <1>8, <1>9, <1>10

LEMMA ServiceKilledStep ==
  ASSUME FInv, NEW o \in Operation, ServiceKilled(o)
  PROVE  FInv'
<1> USE DEF FInv
<1>0. /\ service' = [service EXCEPT ![o] = IdleService]
      /\ lock' = IF lock = o THEN "none" ELSE lock
      /\ UNCHANGED <<request, trigger, active, files, result, client, calls>>
  BY DEF ServiceKilled
<1>1. service[o] \in ServiceRecord
  BY DEF FixtureTypes
<1>2. IdleService.pc = "idle" /\ IdleService.verdict = "none" /\ IdleService.req = NoRequest
  BY DEF IdleService
<1>3. /\ service' \in [Operation -> ServiceRecord]
      /\ service'["install"].pc \in InstallPc /\ service'["remove"].pc \in RemovePc
      /\ service'[o] = IdleService
      /\ \A p \in Operation : p # o => service'[p] = service[p]
  BY <1>0, <1>2, RequestFacts, ServiceMoves DEF InstallPc, RemovePc
<1>4. temps' = temps \/ (/\ o = "install" /\ service[o].pc = "write"
                        /\ \E u \in service[o].todo : temps' = temps \cup {u})
  BY DEF ServiceKilled, Temporaries, FixtureTypes, Operation, RemovePc
<1>5. temps' # temps =>
        /\ temps' \subseteq Of(active.instance) /\ files \cap temps' = {} /\ active # NotActive
        /\ o = "install" /\ lock = "install"
  <2> SUFFICES ASSUME temps' # temps
               PROVE  /\ temps' \subseteq Of(active.instance) /\ files \cap temps' = {} /\ active # NotActive
                      /\ o = "install" /\ lock = "install"
    OBVIOUS
  <2>1. PICK u \in service["install"].todo : temps' = temps \cup {u}
    BY <1>4
  <2>2. o = "install" /\ service["install"].pc = "write"
    BY <1>4
  <2>3. /\ active = [state |-> "installing", instance |-> service["install"].req.instance]
        /\ temps = {} /\ service["install"].todo = Of(service["install"].req.instance) \ files
        /\ lock = "install"
    BY <2>2 DEF InstallWorks, Locked
  <2>4. active.instance = service["install"].req.instance /\ active # NotActive
    BY <2>3 DEF NotActive
  <2> QED
    BY <2>1, <2>2, <2>3, <2>4
<1>6. temps' \subseteq Placement
  <2>1. active.instance \in AnyInstance /\ temps \subseteq Placement
    BY DEF FixtureTypes, ActiveRecord
  <2> QED
    BY <1>5, <2>1 DEF Of, Placement
<1>7. FixtureTypes'
  BY <1>0, <1>3, <1>6 DEF FixtureTypes
<1>8. Covered'
  BY <1>0, <1>5 DEF Covered
<1>9. Locked' /\ RemoveWorks' /\ InstallWorks'
  <2>1. Locked'
    BY <1>0, <1>2, <1>3 DEF Locked, Operation
  <2>2. RemoveWorks'
    BY <1>0, <1>2, <1>3, <1>5 DEF Locked, RemoveWorks, Operation
  <2>3. InstallWorks'
    BY <1>0, <1>2, <1>3, <1>5 DEF Locked, InstallWorks, Operation
  <2> QED
    BY <2>1, <2>2, <2>3
<1>10. InstallsOnce'
  BY <1>0, <1>2, <1>3 DEF InstallsOnce, Operation, InstallPc
<1>11. RemovedIsGone'
  BY <1>0, <1>2, <1>3 DEF RemovedIsGone, Gone, Spent, Operation
<1>12. Identities'
  <2>1. \A p \in Operation : service'[p].req.id <= calls
    BY <1>2, <1>3, RequestFacts DEF Identities, FixtureTypes
  <2>2. service'["install"].req.id = client.id /\ client.id # NoId => service'["install"] = service["install"]
    BY <1>2, <1>3, RequestFacts DEF NoId, Operation
  <2> QED
    BY <1>0, <2>1, <2>2 DEF Identities
<1>13. InstalledIsKept'
  BY <1>0, <1>2, <1>3 DEF InstalledIsKept, Operation
<1> QED
  BY <1>7, <1>8, <1>9, <1>10, <1>11, <1>12, <1>13

\* The fixture keeps its invariant whatever the client, the services and systemd do.
LEMMA FixtureStep == FInv /\ FixtureNext => FInv'
<1> SUFFICES ASSUME FInv, FixtureNext PROVE FInv'
  OBVIOUS
<1>1. CASE ClientStep \/ ClientLeaves
  BY <1>1, ClientStepStep, ClientLeavesStep
<1>2. CASE \E o \in Operation, i \in Instances, flaws \in SUBSET RequestFlaw : StageRequest(o, i, flaws)
  BY <1>2, StageRequestStep
<1>3. CASE \E o \in Operation, i \in Instances : StageFails(o, i)
  BY <1>3, StageFailsStep
<1>4. CASE ServiceStep
  <2>1. CASE \/ StopInstallTrigger \/ CheckInstall \/ RecordInstalling \/ WriteUnit \/ WriteFails
             \/ RollBack \/ CheckRemove \/ Unlink \/ UnlinkFails \/ StopRemoveTrigger
    BY <2>1, StopInstallTriggerStep, CheckInstallStep, RecordInstallingStep, WriteUnitStep, WriteFailsStep,
       RollBackStep, CheckRemoveStep, UnlinkStep, UnlinkFailsStep, StopRemoveTriggerStep
  <2>2. CASE ChangeUnit
    BY <2>2, ClientLeavesStep DEF ChangeUnit, ClientLeaves
  <2>3. CASE \E o \in Operation : Fire(o) \/ OperationLock(o) \/ ParseRequest(o) \/ PublishResult(o)
                                    \/ ServiceKilled(o)
    BY <2>3, FireStep, OperationLockStep, ParseRequestStep, PublishResultStep, ServiceKilledStep
  <2> QED
    BY <1>4, <2>1, <2>2, <2>3 DEF ServiceStep
<1> QED
  BY <1>1, <1>2, <1>3, <1>4 DEF FixtureNext

-----------------------------------------------------------------------------
(* The fixture within the qualification.                                   *)

\* Every step of the qualification is one of the fixture.
LEMMA QualificationUsesFixture == [Next]_vars => FixtureNext
<1> SUFFICES ASSUME [Next]_vars PROVE FixtureNext
  OBVIOUS
<1>1. CASE \/ UNCHANGED vars \/ PrepareHost \/ Interrupted \/ PhaseFails \/ NormalizationReads
           \/ StopExistingUnits \/ ReplaceManagerEnvironment \/ DaemonReload \/ StartTarget \/ Collect
  <2>1. ClientLeaves
    BY <1>1 DEF vars, fixtureVars, PrepareHost, Interrupted, PhaseFails, NormalizationReads, StopExistingUnits,
       ReplaceManagerEnvironment, DaemonReload, StartTarget, Collect, Trusted, ClientLeaves
  <2> QED
    BY <2>1 DEF FixtureNext
<1>2. CASE \/ TargetRemovesResources \/ TargetReturns \/ TargetEnds \/ TargetActivates \/ Deviate \/ Mend
           \/ Assemble \/ AlterEvidence \/ ValidateEvidence
  <2>1. ClientLeaves
    BY <1>2 DEF fixtureVars, TargetRemovesResources, TargetReturns, TargetEnds, TargetActivates, Deviate, Mend,
       Assemble, AlterEvidence, ValidateEvidence, ClientLeaves
  <2> QED
    BY <2>1 DEF FixtureNext
<1>3. CASE TargetCalls
  <2>1. Instance \in Instances /\ {} \in SUBSET RequestFlaw /\ {"content"} \in SUBSET RequestFlaw
        /\ "install" \in Operation /\ "remove" \in Operation
    BY QualificationAssumption DEF RequestFlaw, Operation
  <2>2. CASE \E f \in {{}, {"content"}} : StageRequest("install", Instance, f)
    BY <2>1, <2>2 DEF FixtureNext
  <2>3. CASE StageRequest("remove", Instance, {}) \/ StageFails("install", Instance)
    BY <2>1, <2>3 DEF FixtureNext
  <2> QED
    BY <1>3, <2>2, <2>3 DEF TargetCalls
<1>4. CASE Installing
  BY <1>4 DEF Installing, FixtureNext
<1> QED
  BY <1>1, <1>2, <1>3, <1>4 DEF Next

\* The installer's services, their client and whatever kills them keep FInv, in every
\* qualification: quadlet-fixture-installer.py is left in a state it can go on from.
THEOREM FixtureHolds == Spec => []FInv
<1>1. Init => FInv
  BY FixtureInitially DEF Init
<1>2. FInv /\ [Next]_vars => FInv'
  BY FixtureStep, QualificationUsesFixture
<1> QED
  BY <1>1, <1>2, PTL DEF Spec

\* Whatever was killed when, the state file names the instance of every unit and of every
\* interrupted write on disk: remove() finds all of it.
THEOREM UnitsStayRecorded == Spec => []UnitsAreRecorded
<1>1. FInv => UnitsAreRecorded
  <2> SUFFICES ASSUME FInv, NEW u \in files \cup temps PROVE active.instance = u[1]
    BY DEF UnitsAreRecorded
  <2>1. u \in Of(active.instance)
    BY DEF FInv, Covered
  <2> QED
    BY <2>1 DEF Of
<1> QED
  BY <1>1, FixtureHolds, PTL

\* What wait_for_result() accepted is the truth about the disk, with any number of client
\* calls, kills and errors, until a removal is asked for.
THEOREM AnswersAreTrue == Spec => []AcceptedIsTrue
<1>1. FInv => AcceptedIsTrue
  <2> SUFFICES ASSUME FInv, client.pc = "accepted" PROVE AcceptedIsTrue
    BY DEF AcceptedIsTrue
  <2>1. client.op \in Operation
    BY DEF FInv, Identities
  <2>2. CASE client.op = "install"
    <3>1. CASE request["remove"] # NoRequest
      BY <2>2, <3>1 DEF AcceptedIsTrue
    <3>2. CASE active = [state |-> "active", instance |-> client.instance]
      <4>1. files = Of(client.instance)
        BY <3>2 DEF FInv, Covered
      <4> QED
        BY <2>2, <3>2, <4>1 DEF AcceptedIsTrue
    <3> QED
      BY <2>2, <3>1, <3>2 DEF FInv, InstalledIsKept
  <2>3. CASE client.op = "remove"
    <3>1. active = NotActive /\ files = {} /\ temps = {}
      BY <2>3 DEF FInv, RemovedIsGone, Gone, Covered
    <3> QED
      BY <2>3, <3>1 DEF AcceptedIsTrue
  <2> QED
    BY <2>1, <2>2, <2>3 DEF Operation
<1> QED
  BY <1>1, FixtureHolds, PTL

-----------------------------------------------------------------------------
(* The inductive invariant of the qualification.                           *)

ObsPhase == {"baseline", "live", "post"}
Window == {"baseline", "activation", "live", "post"}
Late == {"assemble", "validate", "done"}
AnyFlaw == Deviation \cup Foreign \cup ({"manager"} \X ManagerFlaw)
Thing == Foreign \cup ({"fixture"} \X (Owned \cup {"online"}))
SeenFlaw == AnyFlaw \cup ({"api"} \X {"user namespace"})
Observation == [complete : BOOLEAN, inventory : SUBSET Thing, controls : Nat, migrations : Nat, api : BOOLEAN,
                units : SUBSET Thing, jobs : SUBSET Thing, processes : SUBSET Thing,
                firstWork : SUBSET Thing, firstProcesses : SUBSET Thing,
                seen : SUBSET SeenFlaw, left : SUBSET {"units", "artifacts"}]

StepName == {"context", "inventory", "controls", "lifecycle", "work", "processes", "call", "wait", "stop",
             "generator", "replace", "prepared", "reload", "observed", "target", "services", "start",
             "activated", "search path", "work first", "processes first", "units", "generated", "runtime",
             "containers", "bindings", "networks", "resources", "owned units", "artifacts"}

HostTypes ==
  /\ phase \in Phases \cup Late \cup {"host"}
  /\ todo \in Seq(StepName)
  /\ status \in [Phases -> {"not run", "ok", "failed"}]
  /\ diagnostic \in [{"normalize live", "normalize cleanup"} -> {"none", "failed", "complete"}]
  /\ obs \in [ObsPhase -> Observation]
  /\ off \subseteq AnyFlaw /\ owned \subseteq Owned
  /\ online \in BOOLEAN /\ loaded \in BOOLEAN /\ migrations \in Nat /\ controls \in Nat
  /\ stood \in [Window -> SUBSET AnyFlaw] /\ met \in [Window -> SUBSET AnyFlaw]

\* The steps that are left are the last ones of the phase.
Paced ==
  phase \in Phases =>
    /\ Len(todo) \in 1 .. Len(Steps(phase))
    /\ \A j \in 1 .. Len(todo) : todo[j] = Steps(phase)[Len(Steps(phase)) - Len(todo) + j]

Pending == {todo[j] : j \in 1 .. Len(todo)}

\* A step of a phase has been taken, and the phase has not failed since.
Taken(p, s) == IF phase = p THEN s \notin Pending ELSE status[p] = "ok"

\* run_phases(): the phases come in their order, and before the first one has ended the
\* host has nothing of the workload.
Rank(p) ==
  CASE p = "host" -> 0 [] p = "baseline" -> 1 [] p = "prepare" -> 2 [] p = "normalize live" -> 3
    [] p = "live" -> 4 [] p = "cleanup" -> 5 [] p = "normalize cleanup" -> 6 [] p = "post" -> 7
    [] OTHER -> 8
InOrder ==
  /\ \A q \in Phases : Rank(phase) <= Rank(q) => status[q] = "not run"
  /\ phase \in {"host", "baseline"} => owned = {} /\ ~online

\* What stood throughout a window stands now, and what stands now was met.
Windows ==
  \A w \in Window : InWindow(w) => stood[w] \subseteq off /\ off \cap Foreign \subseteq met[w]

\* user_work_facts() and the like: what belongs to others is in the observation if it
\* stood throughout, and was met if it is in the observation.
Noted(p, k, found) ==
  /\ <<"foreign", k>> \in stood[p] => <<"foreign", k>> \in found
  /\ <<"foreign", k>> \in found => <<"foreign", k>> \in met[p]
OthersNoted ==
  \A p \in ObsPhase :
    /\ Taken(p, "inventory") => \A k \in {"container", "network", "volume"} : Noted(p, k, obs[p].inventory)
    /\ Taken(p, "work") => Noted(p, "unit", obs[p].units) /\ Noted(p, "job", obs[p].jobs)
    /\ Taken(p, "processes") => Noted(p, "process", obs[p].processes)
    /\ Taken(p, "lifecycle") => (<<"foreign", "api">> \in stood[p] => obs[p].api)

\* collect_live(): a deviation that stood throughout has made the observation incomplete
\* or is in it.
Shown(subjects) == {d \in stood["live"] : d[1] \in subjects} \subseteq obs["live"].seen
LiveJudged ==
  LET o == obs["live"]  s == stood["live"] IN
  /\ Taken("live", "context") => AdmitCollectionContext(s)
  /\ Taken("live", "units") => Shown({"unit"}) /\ (o.complete => CUnits(s))
  /\ Taken("live", "generated") => Shown(Kind) /\ (o.complete => CServices(s))
  /\ Taken("live", "runtime") => Shown({"runtime"}) /\ (o.complete => CRuntime(s))
  /\ Taken("live", "containers") => Shown(Role) /\ (o.complete => \A r \in Role : CContainer(r, s))
  /\ Taken("live", "bindings") => (o.complete => \A r \in Role : CBinding(r, s))
  /\ Taken("live", "networks") => (o.complete => CNetworks(s) /\ CAardvark(s))
  /\ Taken("live", "lifecycle") => (o.complete => CSockets(s)) /\ (~o.api => ~PodmanApi(s))
  /\ Taken("live", "work") =>
       Shown({"timers"}) /\ (o.complete => CWork(s, FALSE) /\ (Fixture("online") \in o.units => NetworkOnline(s)))
  /\ Taken("live", "processes") => Shown({"processes"}) /\ (o.complete => CProcesses(s))
  /\ Taken("live", "search path") => Shown({"manager"})

\* normalize_quadlet_runtime(): what stood throughout the activation has been admitted.
ActivationJudged ==
  LET s == stood["activation"] IN
  /\ Taken("normalize live", "generator") => EnvironmentGenerator(s)
  /\ Taken("normalize live", "prepared") => ManagerEnvironment(s)
  /\ Taken("normalize live", "target") => TargetActivation(s)
  /\ Taken("normalize live", "services") => ServiceActivation(s)

\* The installation cannot write any more.
Sealed ==
  /\ ~trigger["install"] /\ temps = {}
  /\ \/ service["install"].pc \in {"idle", "publish", "roll back"}
     \/ service["install"].pc = "write" /\ service["install"].todo = {}

\* The first observation has nothing of the workload, the live one all its units, and the
\* last one everything that is still there.
LeftNoted ==
  LET b == obs["baseline"]  l == obs["live"]  c == obs["post"] IN
  /\ Taken("baseline", "work") => Fixture("units") \notin b.units /\ Fixture("auxiliary") \notin b.units
  /\ Taken("baseline", "processes") =>
       Fixture("processes") \notin b.processes /\ Fixture("helpers") \notin b.processes
  /\ Taken("live", "units") /\ l.complete => Sealed
  /\ Taken("post", "lifecycle") => c.migrations = migrations
  /\ Taken("post", "inventory") => \A k \in owned \cap {"containers", "networks", "volumes"} : Fixture(k) \in c.inventory
  /\ Taken("post", "work") => \A k \in owned \cap {"units", "auxiliary"} : Fixture(k) \in c.units
  /\ Taken("post", "processes") => \A k \in owned \cap {"processes", "helpers"} : Fixture(k) \in c.processes
  /\ Taken("post", "artifacts") /\ loaded => "artifacts" \in c.left
  /\ Taken("post", "owned units") /\ Taken("live", "units") /\ l.complete => files = {} \/ "units" \in c.left

\* validate_document(): the verdict is that of the observations, which nothing changes any more.
VerdictHolds == Passed => phase = "done" /\ AllOk /\ WorkloadAdmission(ReadObservations)

QInv == /\ HostTypes /\ Paced /\ InOrder /\ Windows
        /\ OthersNoted /\ LiveJudged /\ ActivationJudged /\ LeftNoted /\ VerdictHolds

-----------------------------------------------------------------------------
(* The phases and their steps.                                             *)

LEMMA PhasesAre ==
  Phases = {"baseline", "prepare", "normalize live", "live", "cleanup", "normalize cleanup", "post"}
<1>1. DOMAIN PhaseOrder = {1, 2, 3, 4, 5, 6, 7}
  BY DEF PhaseOrder
<1>2. {PhaseOrder[i] : i \in {1, 2, 3, 4, 5, 6, 7}}
        = {PhaseOrder[1], PhaseOrder[2], PhaseOrder[3], PhaseOrder[4], PhaseOrder[5], PhaseOrder[6], PhaseOrder[7]}
  OBVIOUS
<1>3. /\ PhaseOrder[1] = "baseline" /\ PhaseOrder[2] = "prepare" /\ PhaseOrder[3] = "normalize live"
      /\ PhaseOrder[4] = "live" /\ PhaseOrder[5] = "cleanup" /\ PhaseOrder[6] = "normalize cleanup"
      /\ PhaseOrder[7] = "post"
  BY DEF PhaseOrder
<1> QED
  BY <1>1, <1>2, <1>3 DEF Phases

\* The orders of the phases that steps use.
LEMMA RanksGrow ==
  /\ Rank("host") < Rank("baseline") /\ Rank("baseline") < Rank("prepare") /\ Rank("baseline") < Rank("cleanup")
  /\ Rank("prepare") < Rank("normalize live") /\ Rank("prepare") < Rank("cleanup")
  /\ Rank("normalize live") < Rank("live") /\ Rank("normalize live") < Rank("cleanup")
  /\ Rank("live") < Rank("cleanup") /\ Rank("cleanup") < Rank("normalize cleanup")
  /\ Rank("normalize cleanup") < Rank("post") /\ Rank("post") < Rank("assemble")
BY DEF Rank

LEMMA LastRank ==
  /\ Rank("validate") = Rank("assemble") /\ Rank("done") = Rank("assemble")
  /\ Rank("baseline") < Rank("assemble") /\ Rank("prepare") < Rank("assemble")
  /\ Rank("normalize live") < Rank("assemble") /\ Rank("live") < Rank("assemble")
  /\ Rank("cleanup") < Rank("assemble") /\ Rank("normalize cleanup") < Rank("assemble")
  /\ Rank("post") < Rank("assemble")
BY DEF Rank

LEMMA BaselineSteps ==
  Steps("baseline") = <<"context", "inventory", "controls", "lifecycle", "work", "processes">>
BY DEF Steps
LEMMA PrepareSteps == Steps("prepare") = <<"call", "wait">>
BY DEF Steps
LEMMA NormalizeLiveSteps ==
  Steps("normalize live") =
         <<"context", "stop", "generator", "replace", "prepared", "reload", "observed", "target",
           "services", "start", "activated", "search path">>
BY DEF Steps
LEMMA LiveSteps ==
  Steps("live") =
         <<"context", "work first", "processes first", "units", "generated", "runtime", "containers",
           "bindings", "networks", "inventory", "lifecycle", "controls", "work", "processes",
           "search path">>
BY DEF Steps
LEMMA CleanupSteps == Steps("cleanup") = <<"resources", "call", "wait">>
BY DEF Steps
LEMMA NormalizeCleanupSteps ==
  Steps("normalize cleanup") = <<"context", "generator", "replace", "prepared", "reload", "observed", "search path">>
BY DEF Steps
LEMMA PostSteps ==
  Steps("post") = <<"context", "work first", "controls", "lifecycle", "processes first",
                    "owned units", "artifacts", "inventory", "work", "processes">>
BY DEF Steps

LEMMA BaselineLasts == Steps("baseline") \in Seq(StepName) /\ Len(Steps("baseline")) = 6
<1>1. <<"context", "inventory", "controls", "lifecycle", "work", "processes">> \in Seq(StepName)
  BY DEF StepName
<1>2. Len(<<"context", "inventory", "controls", "lifecycle", "work", "processes">>) = 6
  OBVIOUS
<1>3. Steps("baseline") \in Seq(StepName)
  BY <1>1, BaselineSteps
<1>4. Len(Steps("baseline")) = 6
  BY <1>2, BaselineSteps
<1> QED
  BY <1>3, <1>4
LEMMA PrepareLasts == Steps("prepare") \in Seq(StepName) /\ Len(Steps("prepare")) = 2
<1>1. <<"call", "wait">> \in Seq(StepName)
  BY DEF StepName
<1>2. Len(<<"call", "wait">>) = 2
  OBVIOUS
<1>3. Steps("prepare") \in Seq(StepName)
  BY <1>1, PrepareSteps
<1>4. Len(Steps("prepare")) = 2
  BY <1>2, PrepareSteps
<1> QED
  BY <1>3, <1>4
LEMMA NormalizeLiveLasts == Steps("normalize live") \in Seq(StepName) /\ Len(Steps("normalize live")) = 12
<1>1. <<"context", "stop", "generator", "replace", "prepared", "reload", "observed", "target",
         "services", "start", "activated", "search path">> \in Seq(StepName)
  BY DEF StepName
<1>2. Len(<<"context", "stop", "generator", "replace", "prepared", "reload", "observed", "target",
          "services", "start", "activated", "search path">>) = 12
  OBVIOUS
<1>3. Steps("normalize live") \in Seq(StepName)
  BY <1>1, NormalizeLiveSteps
<1>4. Len(Steps("normalize live")) = 12
  BY <1>2, NormalizeLiveSteps
<1> QED
  BY <1>3, <1>4
LEMMA LiveLasts == Steps("live") \in Seq(StepName) /\ Len(Steps("live")) = 15
<1>1. <<"context", "work first", "processes first", "units", "generated", "runtime", "containers",
         "bindings", "networks", "inventory", "lifecycle", "controls", "work", "processes",
         "search path">> \in Seq(StepName)
  BY DEF StepName
<1>2. Len(<<"context", "work first", "processes first", "units", "generated", "runtime", "containers",
          "bindings", "networks", "inventory", "lifecycle", "controls", "work", "processes",
          "search path">>) = 15
  OBVIOUS
<1>3. Steps("live") \in Seq(StepName)
  BY <1>1, LiveSteps
<1>4. Len(Steps("live")) = 15
  BY <1>2, LiveSteps
<1> QED
  BY <1>3, <1>4
LEMMA CleanupLasts == Steps("cleanup") \in Seq(StepName) /\ Len(Steps("cleanup")) = 3
<1>1. <<"resources", "call", "wait">> \in Seq(StepName)
  BY DEF StepName
<1>2. Len(<<"resources", "call", "wait">>) = 3
  OBVIOUS
<1>3. Steps("cleanup") \in Seq(StepName)
  BY <1>1, CleanupSteps
<1>4. Len(Steps("cleanup")) = 3
  BY <1>2, CleanupSteps
<1> QED
  BY <1>3, <1>4
LEMMA NormalizeCleanupLasts == Steps("normalize cleanup") \in Seq(StepName) /\ Len(Steps("normalize cleanup")) = 7
<1>1. <<"context", "generator", "replace", "prepared", "reload", "observed", "search path">> \in Seq(StepName)
  BY DEF StepName
<1>2. Len(<<"context", "generator", "replace", "prepared", "reload", "observed", "search path">>) = 7
  OBVIOUS
<1>3. Steps("normalize cleanup") \in Seq(StepName)
  BY <1>1, NormalizeCleanupSteps
<1>4. Len(Steps("normalize cleanup")) = 7
  BY <1>2, NormalizeCleanupSteps
<1> QED
  BY <1>3, <1>4
LEMMA PostLasts == Steps("post") \in Seq(StepName) /\ Len(Steps("post")) = 10
<1>1. <<"context", "work first", "controls", "lifecycle", "processes first", "owned units",
         "artifacts", "inventory", "work", "processes">> \in Seq(StepName)
  BY DEF StepName
<1>2. Len(<<"context", "work first", "controls", "lifecycle", "processes first", "owned units",
          "artifacts", "inventory", "work", "processes">>) = 10
  OBVIOUS
<1>3. Steps("post") \in Seq(StepName)
  BY <1>1, PostSteps
<1>4. Len(Steps("post")) = 10
  BY <1>2, PostSteps
<1> QED
  BY <1>3, <1>4

LEMMA StepsAreSteps ==
  ASSUME NEW p \in Phases
  PROVE  Steps(p) \in Seq(StepName) /\ Len(Steps(p)) \in Nat /\ Len(Steps(p)) >= 2
<1>1. CASE p = "baseline"
  <2>1. Steps(p) \in Seq(StepName)
    BY <1>1, BaselineLasts
  <2>2. Len(Steps(p)) = 6
    BY <1>1, BaselineLasts
  <2>3. Len(Steps(p)) \in Nat /\ Len(Steps(p)) >= 2
    BY <2>2
  <2> QED
    BY <2>1, <2>3
<1>2. CASE p = "prepare"
  <2>1. Steps(p) \in Seq(StepName)
    BY <1>2, PrepareLasts
  <2>2. Len(Steps(p)) = 2
    BY <1>2, PrepareLasts
  <2>3. Len(Steps(p)) \in Nat /\ Len(Steps(p)) >= 2
    BY <2>2
  <2> QED
    BY <2>1, <2>3
<1>3. CASE p = "normalize live"
  <2>1. Steps(p) \in Seq(StepName)
    BY <1>3, NormalizeLiveLasts
  <2>2. Len(Steps(p)) = 12
    BY <1>3, NormalizeLiveLasts
  <2>3. Len(Steps(p)) \in Nat /\ Len(Steps(p)) >= 2
    BY <2>2
  <2> QED
    BY <2>1, <2>3
<1>4. CASE p = "live"
  <2>1. Steps(p) \in Seq(StepName)
    BY <1>4, LiveLasts
  <2>2. Len(Steps(p)) = 15
    BY <1>4, LiveLasts
  <2>3. Len(Steps(p)) \in Nat /\ Len(Steps(p)) >= 2
    BY <2>2
  <2> QED
    BY <2>1, <2>3
<1>5. CASE p = "cleanup"
  <2>1. Steps(p) \in Seq(StepName)
    BY <1>5, CleanupLasts
  <2>2. Len(Steps(p)) = 3
    BY <1>5, CleanupLasts
  <2>3. Len(Steps(p)) \in Nat /\ Len(Steps(p)) >= 2
    BY <2>2
  <2> QED
    BY <2>1, <2>3
<1>6. CASE p = "normalize cleanup"
  <2>1. Steps(p) \in Seq(StepName)
    BY <1>6, NormalizeCleanupLasts
  <2>2. Len(Steps(p)) = 7
    BY <1>6, NormalizeCleanupLasts
  <2>3. Len(Steps(p)) \in Nat /\ Len(Steps(p)) >= 2
    BY <2>2
  <2> QED
    BY <2>1, <2>3
<1>7. CASE p = "post"
  <2>1. Steps(p) \in Seq(StepName)
    BY <1>7, PostLasts
  <2>2. Len(Steps(p)) = 10
    BY <1>7, PostLasts
  <2>3. Len(Steps(p)) \in Nat /\ Len(Steps(p)) >= 2
    BY <2>2
  <2> QED
    BY <2>1, <2>3
<1> QED
  BY PhasesAre, <1>1, <1>2, <1>3, <1>4, <1>5, <1>6, <1>7

\* What a step does to the phase, the steps left and the statuses.
Stays == UNCHANGED <<phase, todo, status>>
Goes == /\ phase \in Phases /\ todo # <<>> /\ Len(todo) # 1
        /\ phase' = phase /\ todo' = Tail(todo) /\ UNCHANGED status
Ends(outcome) ==
  /\ phase \in Phases /\ Ended(outcome)
  /\ outcome = "ok" => phase \in {"prepare", "cleanup"} \/ (todo # <<>> /\ Len(todo) = 1)
Jumps == /\ phase \in Phases \cup {"host"} /\ UNCHANGED status
         /\ \E q \in Phases \cup {"assemble"} : Begin(q) /\ Rank(phase) < Rank(q) /\ (q = "baseline" => phase = "host")
Leaves == /\ phase \in {"host", "assemble", "validate"} /\ phase' \in {"validate", "done"}
          /\ todo' \in {todo, <<>>} /\ UNCHANGED status
Outcome == {"ok", "failed"}
Moves == Stays \/ Goes \/ (\E outcome \in Outcome : Ends(outcome)) \/ Jumps \/ Leaves

LEMMA AdvanceMoves ==
  ASSUME Paced, HostTypes, phase \in Phases, Advance
  PROVE  Goes \/ Ends("ok")
<1>1. todo # <<>>
  <2> DEFINE n == Len(Steps(phase))
  <2>1. n \in Nat
    BY StepsAreSteps
  <2>2. Len(todo) \in 1 .. n /\ todo \in Seq(StepName)
    BY DEF Paced, HostTypes
  <2> HIDE DEF n
  <2> QED
    BY <2>1, <2>2
<1> QED
  BY <1>1 DEF Advance, Goes, Ends

LEMMA NormalizationMoves ==
  ASSUME Paced, HostTypes, phase \in {"normalize live", "normalize cleanup"},
         NormalizationGoesOn \/ NormalizationRejects
  PROVE  Goes \/ (\E outcome \in Outcome : Ends(outcome))
<1>1. phase \in Phases
  BY PhasesAre
<1>2. CASE NormalizationGoesOn
  BY <1>1, <1>2, AdvanceMoves DEF NormalizationGoesOn, Outcome
<1>3. CASE NormalizationRejects
  BY <1>1, <1>3 DEF NormalizationRejects, Ends, Outcome
<1> QED
  BY <1>2, <1>3

\* A step that reads goes on or rejects, by what it has read.
LEMMA NormalizationReadsMoves ==
  ASSUME NormalizationReads
  PROVE  /\ NormalizationGoesOn \/ NormalizationRejects
         /\ \/ NormalizationRejects
            \/ /\ AtStep("generator") => EnvironmentGenerator(off)
               /\ AtStep("prepared") => ManagerEnvironment(off)
               /\ AtStep("target") => TargetActivation(off)
               /\ AtStep("services") => ServiceActivation(off)
<1> DEFINE G == NormalizationGoesOn
           R == NormalizationRejects
<1>1. \/ AtStep("context") /\ Admit(AdmitCollectionContext(off))
      \/ AtStep("generator") /\ Admit(EnvironmentGenerator(off))
      \/ AtStep("prepared") /\ Admit(ManagerEnvironment(off))
      \/ AtStep("observed") /\ Admit(ManagerEnvironment(off))
      \/ AtStep("activated") /\ Admit(ManagerEnvironment(off))
      \/ AtStep("target") /\ Admit(loaded /\ TargetActivation(off))
      \/ AtStep("services") /\ Admit(loaded /\ ServiceActivation(off))
      \/ AtStep("search path") /\ Admit(SearchPaths(off))
  BY DEF NormalizationReads, AtStep
<1>2. \A s, r \in StepName : AtStep(s) /\ AtStep(r) => s = r
  BY DEF AtStep
<1>3. /\ Admit(AdmitCollectionContext(off)) => G \/ R
      /\ Admit(SearchPaths(off)) => G \/ R
  BY DEF Admit
<1>4. Admit(EnvironmentGenerator(off)) => (G /\ EnvironmentGenerator(off)) \/ R
  BY DEF Admit
<1>5. Admit(ManagerEnvironment(off)) => (G /\ ManagerEnvironment(off)) \/ R
  BY DEF Admit
<1>6. Admit(loaded /\ TargetActivation(off)) => (G /\ TargetActivation(off)) \/ R
  BY DEF Admit
<1>7. Admit(loaded /\ ServiceActivation(off)) => (G /\ ServiceActivation(off)) \/ R
  BY DEF Admit
<1> HIDE DEF G, R
<1>8. G \/ R
  BY <1>1, <1>3, <1>4, <1>5, <1>6, <1>7
<1>9. ~R /\ AtStep("generator") => EnvironmentGenerator(off)
  BY <1>1, <1>2, <1>4 DEF StepName
<1>10. ~R /\ AtStep("prepared") => ManagerEnvironment(off)
  BY <1>1, <1>2, <1>5 DEF StepName
<1>11. ~R /\ AtStep("target") => TargetActivation(off)
  BY <1>1, <1>2, <1>6 DEF StepName
<1>12. ~R /\ AtStep("services") => ServiceActivation(off)
  BY <1>1, <1>2, <1>7 DEF StepName
<1> QED
  BY <1>8, <1>9, <1>10, <1>11, <1>12 DEF G, R

LEMMA QualificationMoves ==
  ASSUME HostTypes, Paced, [Next]_vars
  PROVE  Moves
<1> USE DEF Moves
<1>1. DOMAIN diagnostic = {"normalize live", "normalize cleanup"} /\ DOMAIN obs = ObsPhase
      /\ ObsPhase \subseteq Phases
  BY PhasesAre DEF HostTypes, ObsPhase
<1>2. CASE UNCHANGED vars
  BY <1>2 DEF vars, runVars, Stays
<1>3. CASE PrepareHost
  <2>1. CASE Begin("baseline")
    <3>1. phase = "host" /\ UNCHANGED status
      BY <1>3 DEF PrepareHost
    <3>2. "baseline" \in Phases \cup {"assemble"}
      BY PhasesAre
    <3> QED
      BY <2>1, <3>1, <3>2, RanksGrow DEF Jumps
  <2>2. CASE phase' = "done"
    BY <1>3, <2>2 DEF PrepareHost, Leaves, Begin
  <2> QED
    BY <1>3, <2>1, <2>2 DEF PrepareHost
<1>4. CASE Interrupted
  <2> DEFINE q == CASE phase = "cleanup" -> "normalize cleanup"
                    [] phase = "normalize cleanup" -> "post"
                    [] phase = "post" -> "assemble"
                    [] OTHER -> "cleanup"
  <2>1. phase \in Phases /\ Begin(q) /\ UNCHANGED status
    BY <1>4 DEF Interrupted
  <2>2. /\ phase = "cleanup" => q = "normalize cleanup"
        /\ phase = "normalize cleanup" => q = "post"
        /\ phase = "post" => q = "assemble"
        /\ phase \notin {"cleanup", "normalize cleanup", "post"} => q = "cleanup"
    OBVIOUS
  <2> HIDE DEF q
  <2>3. q \in Phases \cup {"assemble"} /\ Rank(phase) < Rank(q) /\ q # "baseline"
    BY <2>1, <2>2, PhasesAre, RanksGrow
  <2> QED
    BY <2>1, <2>3 DEF Jumps
<1>5. CASE PhaseFails
  BY <1>5 DEF PhaseFails, Ends, Outcome
<1>6. CASE NormalizationReads
  <2>1. phase \in {"normalize live", "normalize cleanup"}
    BY <1>1, <1>6 DEF NormalizationReads
  <2>2. NormalizationGoesOn \/ NormalizationRejects
    BY <1>6, NormalizationReadsMoves
  <2> QED
    BY <2>1, <2>2, NormalizationMoves
<1>7. CASE StopExistingUnits
  BY <1>7, NormalizationMoves DEF StopExistingUnits, At
<1>8. CASE ReplaceManagerEnvironment \/ DaemonReload
  BY <1>1, <1>8, NormalizationMoves DEF ReplaceManagerEnvironment, DaemonReload
<1>9. CASE StartTarget
  BY <1>9, NormalizationMoves DEF StartTarget, At
<1>10. CASE Collect
  <2>1. phase \in Phases
    BY <1>1, <1>10 DEF Collect
  <2>2. CASE Advance
    BY <2>1, <2>2, AdvanceMoves DEF Outcome
  <2>3. CASE Ended("failed")
    BY <2>1, <2>3 DEF Ends, Outcome
  <2> QED
    BY <1>10, <2>2, <2>3 DEF Collect
<1>11. CASE TargetRemovesResources \/ TargetCalls
  <2>1. phase \in Phases /\ Advance
    BY <1>11, PhasesAre DEF TargetRemovesResources, TargetCalls, At
  <2> QED
    BY <2>1, AdvanceMoves DEF Outcome
<1>12. CASE TargetReturns \/ TargetEnds
  <2>1. PICK outcome \in Outcome : Ended(outcome)
    BY <1>12 DEF TargetReturns, TargetEnds, Outcome
  <2>2. phase \in {"prepare", "cleanup"}
    BY <1>12 DEF TargetReturns, TargetEnds
  <2> QED
    BY <2>1, <2>2, PhasesAre DEF Ends
<1>13. CASE TargetActivates \/ Installing \/ Deviate \/ Mend \/ AlterEvidence
  BY <1>13 DEF TargetActivates, Installing, Deviate, Mend, AlterEvidence, runVars, Stays
<1>14. CASE Assemble \/ ValidateEvidence
  BY <1>14 DEF Assemble, ValidateEvidence, Leaves
<1> QED
  BY <1>2, <1>3, <1>4, <1>5, <1>6, <1>7, <1>8, <1>9, <1>10, <1>11, <1>12, <1>13, <1>14 DEF Next

LEMMA NextPhases ==
  /\ NextPhase("baseline") = "prepare" /\ NextPhase("prepare") = "normalize live"
  /\ NextPhase("normalize live") = "live" /\ NextPhase("live") = "cleanup"
  /\ NextPhase("cleanup") = "normalize cleanup" /\ NextPhase("normalize cleanup") = "post"
  /\ NextPhase("post") = "assemble"
BY DEF NextPhase

\* The phase that Ended() begins comes later.
LEMMA EndedBegins ==
  ASSUME NEW outcome \in Outcome, phase \in Phases, Ended(outcome)
  PROVE  \E q \in Phases \cup {"assemble"} : Begin(q) /\ Rank(phase) < Rank(q) /\ q # "baseline"
<1> DEFINE q == IF phase = "baseline" /\ outcome # "ok" THEN "cleanup" ELSE NextPhase(phase)
<1>1. Begin(q)
  BY DEF Ended
<1>2. q = "cleanup" \/ q = NextPhase(phase)
  OBVIOUS
<1>3. phase = "baseline" \/ q = NextPhase(phase)
  OBVIOUS
<1> HIDE DEF q
<1>4. q \in Phases \cup {"assemble"} /\ Rank(phase) < Rank(q) /\ q # "baseline"
  BY <1>2, <1>3, PhasesAre, RanksGrow, NextPhases
<1> QED
  BY <1>1, <1>4

LEMMA RankIsNumber == ASSUME NEW p PROVE Rank(p) \in Nat
BY DEF Rank

LEMMA RankIsOrder ==
  ASSUME NEW p, NEW q, NEW r, Rank(p) < Rank(q)
  PROVE  /\ Rank(p) <= Rank(q) /\ p # q
         /\ Rank(q) <= Rank(r) => Rank(p) < Rank(r) /\ Rank(p) <= Rank(r) /\ p # r
<1> DEFINE a == Rank(p)
           b == Rank(q)
           c == Rank(r)
<1>1. a \in Nat
  BY RankIsNumber
<1>2. b \in Nat
  BY RankIsNumber
<1>3. c \in Nat
  BY RankIsNumber
<1>4. a < b
  OBVIOUS
<1>5. p = q => a = b
  OBVIOUS
<1>6. p = r => a = c
  OBVIOUS
<1> HIDE DEF a, b, c
<1>7. a <= b /\ p # q /\ (b <= c => a < c /\ a <= c /\ p # r)
  BY <1>1, <1>2, <1>3, <1>4, <1>5, <1>6
<1> QED
  BY <1>7 DEF a, b, c

LEMMA RankIsReflexive == ASSUME NEW p PROVE Rank(p) <= Rank(p)
<1> DEFINE a == Rank(p)
<1>1. a \in Nat
  BY RankIsNumber
<1> HIDE DEF a
<1>2. a <= a
  BY <1>1
<1> QED
  BY <1>2 DEF a

\* A phase that begins has all its steps to take.
LEMMA BeginsPaced ==
  ASSUME NEW q \in Phases, Begin(q)
  PROVE  /\ todo' = Steps(q) /\ phase' = q /\ todo' \in Seq(StepName)
         /\ Len(todo') \in 1 .. Len(Steps(q))
         /\ \A j \in 1 .. Len(todo') : todo'[j] = Steps(q)[Len(Steps(q)) - Len(todo') + j]
<1>1. todo' = Steps(q) /\ phase' = q
  BY PhasesAre DEF Begin
<1> DEFINE n == Len(Steps(q))
<1>2. n \in Nat /\ n >= 2
  BY StepsAreSteps
<1>3. Len(todo') = n
  BY <1>1
<1>4. Steps(q) \in Seq(StepName)
  BY StepsAreSteps
<1> HIDE DEF n
<1>5. n \in 1 .. n
  BY <1>2
<1>6. \A j \in 1 .. n : n - n + j = j
  BY <1>2
<1> QED
  BY <1>1, <1>3, <1>4, <1>5, <1>6 DEF n

\* The steps left, when one of them has been taken.
LEMMA TailOfSteps ==
  ASSUME NEW S, NEW s \in Seq(S), s # <<>>
  PROVE  /\ Tail(s) \in Seq(S) /\ Len(Tail(s)) = Len(s) - 1 /\ Len(s) \in Nat /\ Len(s) >= 1
         /\ Head(s) = s[1] /\ Head(s) \in S
         /\ \A j \in 1 .. Len(Tail(s)) : Tail(s)[j] = s[j + 1]
OBVIOUS

LEMMA OneStepOn ==
  ASSUME NEW n \in Nat, NEW m \in 1 .. n, m # 1
  PROVE  m - 1 \in 1 .. n /\ \A j \in 1 .. m - 1 : j + 1 \in 1 .. m /\ n - m + (j + 1) = n - (m - 1) + j
OBVIOUS

LEMMA NoSteps == <<>> \in Seq(StepName)
OBVIOUS

\* A move keeps the types, the pace and the order.
LEMMA MovesKeepPace ==
  ASSUME HostTypes, Paced, Moves
  PROVE  /\ phase' \in Phases \cup Late \cup {"host"} /\ Paced'
         /\ status' \in [Phases -> {"not run", "ok", "failed"}]
         /\ todo' \in Seq(StepName)
<1> USE DEF HostTypes
<1>0. "assemble" \notin Phases /\ "host" \notin Phases /\ "validate" \notin Phases /\ "done" \notin Phases
  BY PhasesAre
<1>1. CASE Stays
  BY <1>1 DEF Stays, Paced
<1>2. CASE Goes
  <2> DEFINE n == Len(Steps(phase))
             m == Len(todo)
  <2>1. n \in Nat /\ m \in 1 .. n /\ m # 1 /\ \A j \in 1 .. m : todo[j] = Steps(phase)[n - m + j]
    BY <1>2, StepsAreSteps DEF Goes, Paced
  <2>2. todo' \in Seq(StepName) /\ Len(todo') = m - 1 /\ \A j \in 1 .. Len(todo') : todo'[j] = todo[j + 1]
    BY <1>2, TailOfSteps DEF Goes
  <2> HIDE DEF n, m
  <2>3. m - 1 \in 1 .. n /\ \A j \in 1 .. m - 1 : j + 1 \in 1 .. m /\ n - m + (j + 1) = n - (m - 1) + j
    BY <2>1, OneStepOn
  <2>4. \A j \in 1 .. m - 1 : todo'[j] = Steps(phase)[n - (m - 1) + j]
    BY <2>1, <2>2, <2>3
  <2>5. phase' = phase /\ status' = status
    BY <1>2 DEF Goes
  <2>6. Paced'
    BY <2>2, <2>3, <2>4, <2>5 DEF Paced, n
  <2> QED
    BY <2>2, <2>5, <2>6
<1>3. ASSUME NEW q \in Phases \cup {"assemble"}, Begin(q)
      PROVE  phase' \in Phases \cup Late /\ Paced' /\ todo' \in Seq(StepName)
  <2>1. CASE q = "assemble"
    BY <1>0, <1>3, <2>1, NoSteps DEF Begin, Paced, Late
  <2>2. CASE q \in Phases
    BY <1>3, <2>2, BeginsPaced DEF Paced
  <2> QED
    BY <2>1, <2>2
<1>4. CASE \E outcome \in Outcome : Ends(outcome)
  <2>1. PICK outcome \in Outcome : Ends(outcome)
    BY <1>4
  <2>2. status' \in [Phases -> {"not run", "ok", "failed"}]
    BY <2>1 DEF Ends, Ended, Outcome
  <2>3. PICK q \in Phases \cup {"assemble"} : Begin(q)
    BY <2>1, EndedBegins DEF Ends
  <2> QED
    BY <1>3, <2>2, <2>3
<1>5. CASE Jumps
  BY <1>3, <1>5 DEF Jumps
<1>6. CASE Leaves
  BY <1>0, <1>6, NoSteps DEF Leaves, Paced, Late
<1> QED
  BY <1>1, <1>2, <1>4, <1>5, <1>6 DEF Moves

\* A phase begun or still to come has no status.
LEMMA MovesKeepOrder ==
  ASSUME HostTypes, Moves, \A q \in Phases : Rank(phase) <= Rank(q) => status[q] = "not run"
  PROVE  /\ \A q \in Phases : Rank(phase') <= Rank(q) => status'[q] = "not run"
         /\ phase' # phase => (phase' = "baseline" /\ phase = "host") \/ phase' \notin {"host", "baseline"}
<1>0. "assemble" \notin Phases /\ "host" \notin Phases
  BY PhasesAre
<1>1. CASE Stays \/ Goes
  BY <1>1 DEF Stays, Goes
<1>2. CASE \E outcome \in Outcome : Ends(outcome)
  <2>1. PICK outcome \in Outcome : Ends(outcome)
    BY <1>2
  <2>2. PICK r \in Phases \cup {"assemble"} : Begin(r) /\ Rank(phase) < Rank(r) /\ r # "baseline"
    BY <2>1, EndedBegins DEF Ends
  <2>3. phase' = r /\ status' = [status EXCEPT ![phase] = outcome] /\ status \in [Phases -> {"not run", "ok", "failed"}]
    BY <2>1, <2>2 DEF Begin, Ends, Ended, HostTypes
  <2>4. ASSUME NEW q \in Phases, Rank(phase') <= Rank(q) PROVE status'[q] = "not run"
    <3>1. Rank(phase) <= Rank(q) /\ phase # q
      BY <2>2, <2>3, <2>4, RankIsOrder
    <3> QED
      BY <2>3, <3>1
  <2>5. phase' \notin {"host", "baseline"}
    BY <1>0, <2>2, <2>3
  <2> QED
    BY <2>4, <2>5
<1>3. CASE Jumps
  <2>1. PICK r \in Phases \cup {"assemble"} : /\ Begin(r) /\ Rank(phase) < Rank(r)
                                              /\ r = "baseline" => phase = "host"
    BY <1>3 DEF Jumps
  <2>2. phase' = r /\ status' = status
    BY <1>3, <2>1 DEF Begin, Jumps
  <2>3. ASSUME NEW q \in Phases, Rank(phase') <= Rank(q) PROVE status'[q] = "not run"
    <3>1. Rank(phase) <= Rank(q)
      BY <2>1, <2>2, <2>3, RankIsOrder
    <3> QED
      BY <2>2, <3>1
  <2>4. phase' # "host"
    BY <1>0, <2>1, <2>2
  <2> QED
    BY <2>1, <2>2, <2>3, <2>4
<1>4. CASE Leaves
  <2>1. phase' \in {"validate", "done"} /\ status' = status /\ phase \in {"host", "assemble", "validate"}
    BY <1>4 DEF Leaves
  <2>2. ASSUME NEW q \in Phases, Rank(phase') <= Rank(q) PROVE FALSE
    <3>1. Rank(q) < Rank("assemble")
      BY PhasesAre, LastRank
    <3>2. Rank("assemble") <= Rank(q)
      BY <2>1, <2>2, LastRank
    <3>3. q # q
      BY <3>1, <3>2, RankIsOrder
    <3> QED
      BY <3>3
  <2> QED
    BY <2>1, <2>2
<1> QED
  BY <1>1, <1>2, <1>3, <1>4 DEF Moves

-----------------------------------------------------------------------------
(* What has been taken, and what has been observed.                        *)

Has(p, s) == \E j \in 1 .. Len(Steps(p)) : Steps(p)[j] = s

LEMMA PendingShrinks ==
  ASSUME HostTypes, Goes, NEW s, s \in Pending, s # Head(todo)
  PROVE  s \in Pending'
<1>1. /\ todo \in Seq(StepName) /\ todo # <<>> /\ todo' = Tail(todo)
  BY DEF HostTypes, Goes
<1>2. /\ Len(todo') = Len(todo) - 1 /\ Len(todo) \in Nat /\ Head(todo) = todo[1]
      /\ \A j \in 1 .. Len(todo') : todo'[j] = todo[j + 1]
  BY <1>1, TailOfSteps
<1>3. PICK i \in 1 .. Len(todo) : todo[i] = s
  BY DEF Pending
<1>4. i - 1 \in 1 .. Len(todo') /\ (i - 1) + 1 = i
  BY <1>2, <1>3
<1>5. todo'[i - 1] = s
  BY <1>2, <1>3, <1>4
<1> QED
  BY <1>4, <1>5 DEF Pending

LEMMA PendingLast ==
  ASSUME HostTypes, todo # <<>>, Len(todo) = 1, NEW s, s \in Pending
  PROVE  s = Head(todo)
<1>1. todo \in Seq(StepName) /\ Head(todo) = todo[1]
  BY TailOfSteps DEF HostTypes
<1>2. PICK i \in 1 .. 1 : todo[i] = s
  BY DEF Pending
<1> QED
  BY <1>1, <1>2

LEMMA PendingAll ==
  ASSUME NEW q \in Phases, Begin(q), NEW s, Has(q, s)
  PROVE  s \in Pending'
<1>1. todo' = Steps(q)
  BY BeginsPaced
<1> QED
  BY <1>1 DEF Pending, Has

\* A step comes to be taken when it is the next one and its phase goes on or ends well.
LEMMA TakenStep ==
  ASSUME HostTypes, Paced, \A q \in Phases : Rank(phase) <= Rank(q) => status[q] = "not run", Moves,
         NEW p \in Phases \ {"prepare", "cleanup"}, NEW s, Has(p, s), Taken(p, s)'
  PROVE  /\ phase # p => phase' # p /\ Taken(p, s)
         /\ phase = p /\ ~Taken(p, s) => s = Head(todo) /\ todo # <<>> /\ (Goes \/ Ends("ok"))
         /\ phase = p => Goes \/ Ends("ok") \/ Stays
<1>0. status \in [Phases -> {"not run", "ok", "failed"}]
  BY DEF HostTypes
<1>00. "assemble" \notin Phases /\ "validate" \notin Phases /\ "done" \notin Phases /\ "host" \notin Phases
  BY PhasesAre
<1>01. phase = p => status[p] = "not run"
  BY RankIsReflexive
<1>1. CASE Stays
  <2>1. Pending' = Pending /\ phase' = phase /\ status' = status
    BY <1>1 DEF Stays, Pending
  <2> QED
    BY <1>1, <2>1 DEF Taken
<1>2. CASE Goes
  <2>1. phase' = phase /\ status' = status /\ todo # <<>>
    BY <1>2 DEF Goes
  <2>2. phase = p /\ s \in Pending => s = Head(todo)
    BY <1>2, <2>1, PendingShrinks DEF Taken
  <2> QED
    BY <1>2, <2>1, <2>2 DEF Taken
<1>3. ASSUME NEW q \in Phases \cup {"assemble"}, Begin(q), q # phase
      PROVE  phase' # p /\ phase' # phase
  <2>1. phase' = q
    BY <1>3 DEF Begin
  <2>2. q # p
    BY <2>1, <1>3, PendingAll DEF Taken
  <2> QED
    BY <1>3, <2>1, <2>2
<1>4. CASE \E outcome \in Outcome : Ends(outcome)
  <2>1. PICK outcome \in Outcome : Ends(outcome)
    BY <1>4
  <2>2. PICK q \in Phases \cup {"assemble"} : Begin(q) /\ Rank(phase) < Rank(q)
    BY <2>1, EndedBegins DEF Ends
  <2>3. phase' # p
    BY <1>3, <2>2, RankIsOrder
  <2>4. status' = [status EXCEPT ![phase] = outcome] /\ status'[p] = "ok" /\ phase \in Phases
    BY <2>1, <2>3 DEF Ends, Ended, Taken
  <2>5. CASE phase # p
    BY <1>0, <2>3, <2>4, <2>5 DEF Taken
  <2>6. CASE phase = p
    <3>1. outcome = "ok"
      BY <1>0, <2>4, <2>6
    <3>2. todo # <<>> /\ Len(todo) = 1
      BY <2>1, <2>6, <3>1 DEF Ends
    <3>3. s \in Pending => s = Head(todo)
      BY <3>2, PendingLast
    <3> QED
      BY <2>1, <2>6, <3>1, <3>2, <3>3 DEF Taken
  <2> QED
    BY <2>5, <2>6
<1>5. CASE Jumps
  <2>1. PICK q \in Phases \cup {"assemble"} : Begin(q) /\ Rank(phase) < Rank(q)
    BY <1>5 DEF Jumps
  <2>2. phase' # p /\ status' = status
    BY <1>3, <1>5, <2>1, RankIsOrder DEF Jumps
  <2>3. status[p] = "ok"
    BY <2>2 DEF Taken
  <2> QED
    BY <1>01, <2>2, <2>3 DEF Taken
<1>6. CASE Leaves
  <2>1. phase # p /\ phase' # p /\ status' = status
    BY <1>00, <1>6 DEF Leaves
  <2> QED
    BY <2>1 DEF Taken
<1> QED
  BY <1>1, <1>2, <1>4, <1>5, <1>6 DEF Moves

\* Remember: within its window a set of standing deviations shrinks, and what was met grows.
LEMMA RememberStep ==
  ASSUME HostTypes, [Next]_vars, NEW p \in ObsPhase
  PROVE  /\ phase = p => stood'[p] \subseteq stood[p] /\ met[p] \subseteq met'[p]
         /\ phase # p /\ phase' # p => stood'[p] = stood[p] /\ met'[p] = met[p]
<1>1. CASE UNCHANGED vars
  BY <1>1 DEF vars
<1>2. CASE Remember
  <2>1. p \in DOMAIN stood /\ p \in DOMAIN met /\ p # "activation"
    BY DEF HostTypes, Window, ObsPhase
  <2>2. InWindow(p) = (phase = p) /\ InWindow(p)' = (phase' = p)
    BY <2>1 DEF InWindow
  <2>3. /\ stood'[p] = IF InWindow(p)' THEN (IF InWindow(p) THEN stood[p] \cap off' ELSE off') ELSE stood[p]
        /\ met'[p] = IF InWindow(p)' THEN met[p] \cup (off' \cap Foreign) ELSE met[p]
    BY <1>2, <2>1 DEF Remember
  <2> QED
    BY <2>2, <2>3
<1> QED
  BY <1>1, <1>2 DEF Next

\* Only the collector and a failure change an observation, that of their phase.
LEMMA ObservationStep ==
  ASSUME HostTypes, [Next]_vars, NEW p \in ObsPhase, obs'[p] # obs[p]
  PROVE  phase = p /\ (Collect \/ Ended("failed"))
<1>0. obs \in [ObsPhase -> Observation]
  BY DEF HostTypes
<1>1. CASE Collect
  BY <1>0, <1>1 DEF Collect
<1>2. CASE PhaseFails
  BY <1>0, <1>2 DEF PhaseFails
<1>3. CASE \/ UNCHANGED vars \/ PrepareHost \/ Interrupted \/ NormalizationReads \/ StopExistingUnits
           \/ ReplaceManagerEnvironment \/ DaemonReload \/ StartTarget
  BY <1>3 DEF vars, runVars, PrepareHost, Interrupted, NormalizationReads, StopExistingUnits,
     ReplaceManagerEnvironment, DaemonReload, StartTarget
<1>4. CASE \/ TargetRemovesResources \/ TargetCalls \/ TargetReturns \/ TargetEnds \/ TargetActivates
           \/ Installing \/ Deviate \/ Mend \/ Assemble \/ AlterEvidence \/ ValidateEvidence
  BY <1>4 DEF runVars, TargetRemovesResources, TargetCalls, TargetReturns, TargetEnds, TargetActivates,
     Installing, Deviate, Mend, Assemble, AlterEvidence, ValidateEvidence
<1> QED
  BY <1>1, <1>2, <1>3, <1>4 DEF Next

\* The steps of the collectors.
ReadStep == {"inventory", "controls", "lifecycle", "work", "processes", "work first", "processes first", "units",
             "generated", "runtime", "containers", "bindings", "networks", "search path", "owned units", "artifacts"}

LEMMA BaselineAt ==
  /\ Steps("baseline")[1] = "context" /\ Steps("baseline")[2] = "inventory" /\ Steps("baseline")[3] = "controls"
  /\ Steps("baseline")[4] = "lifecycle" /\ Steps("baseline")[5] = "work" /\ Steps("baseline")[6] = "processes"
BY BaselineSteps

LEMMA LiveAt ==
  /\ Steps("live")[1] = "context" /\ Steps("live")[2] = "work first" /\ Steps("live")[3] = "processes first"
  /\ Steps("live")[4] = "units" /\ Steps("live")[5] = "generated" /\ Steps("live")[6] = "runtime"
  /\ Steps("live")[7] = "containers" /\ Steps("live")[8] = "bindings" /\ Steps("live")[9] = "networks"
  /\ Steps("live")[10] = "inventory" /\ Steps("live")[11] = "lifecycle" /\ Steps("live")[12] = "controls"
  /\ Steps("live")[13] = "work" /\ Steps("live")[14] = "processes" /\ Steps("live")[15] = "search path"
<1> DEFINE t == <<"context", "work first", "processes first", "units", "generated", "runtime", "containers",
                "bindings", "networks", "inventory", "lifecycle", "controls", "work", "processes", "search path">>
<1>1. /\ t[1] = "context" /\ t[2] = "work first" /\ t[3] = "processes first"
      /\ t[4] = "units" /\ t[5] = "generated" /\ t[6] = "runtime"
      /\ t[7] = "containers" /\ t[8] = "bindings" /\ t[9] = "networks"
      /\ t[10] = "inventory" /\ t[11] = "lifecycle" /\ t[12] = "controls"
      /\ t[13] = "work" /\ t[14] = "processes" /\ t[15] = "search path"
  OBVIOUS
<1>2. Steps("live") = t
  BY LiveSteps
<1> HIDE DEF t
<1> QED
  BY <1>1, <1>2

LEMMA PostAt ==
  /\ Steps("post")[1] = "context" /\ Steps("post")[2] = "work first" /\ Steps("post")[3] = "controls"
  /\ Steps("post")[4] = "lifecycle" /\ Steps("post")[5] = "processes first" /\ Steps("post")[6] = "owned units"
  /\ Steps("post")[7] = "artifacts" /\ Steps("post")[8] = "inventory" /\ Steps("post")[9] = "work"
  /\ Steps("post")[10] = "processes"
<1> DEFINE t == <<"context", "work first", "controls", "lifecycle", "processes first",
                "owned units", "artifacts", "inventory", "work", "processes">>
<1>1. /\ t[1] = "context" /\ t[2] = "work first" /\ t[3] = "controls"
      /\ t[4] = "lifecycle" /\ t[5] = "processes first" /\ t[6] = "owned units"
      /\ t[7] = "artifacts" /\ t[8] = "inventory" /\ t[9] = "work"
      /\ t[10] = "processes"
  OBVIOUS
<1>2. Steps("post") = t
  BY PostSteps
<1> HIDE DEF t
<1> QED
  BY <1>1, <1>2

LEMMA CollectorSteps ==
  ASSUME NEW p \in ObsPhase, NEW j \in 1 .. Len(Steps(p))
  PROVE  Steps(p)[j] \in ReadStep \cup {"context"} /\ (Steps(p)[j] = "context" <=> j = 1)
<1>1. CASE p = "baseline"
  <2> DEFINE n == Len(Steps(p))
  <2>0. n = 6 /\ j \in 1 .. n
    BY <1>1, BaselineLasts
  <2> HIDE DEF n
  <2>1. j = 1 \/ j = 2 \/ j = 3 \/ j = 4 \/ j = 5 \/ j = 6
    BY <2>0
  <2> DEFINE t == Steps("baseline")
  <2>2. Steps(p) = t
    BY <1>1
  <2> HIDE DEF t
  <2> QED
    BY <2>1, <2>2, BaselineAt DEF ReadStep, t
<1>2. CASE p = "live"
  <2> DEFINE n == Len(Steps(p))
  <2>0. n = 15 /\ j \in 1 .. n
    BY <1>2, LiveLasts
  <2> HIDE DEF n
  <2>1. j = 1 \/ j = 2 \/ j = 3 \/ j = 4 \/ j = 5 \/ j = 6 \/ j = 7 \/ j = 8 \/ j = 9 \/ j = 10 \/ j = 11 \/ j = 12 \/ j = 13 \/ j = 14 \/ j = 15
    BY <2>0
  <2> DEFINE t == Steps("live")
  <2>2. Steps(p) = t
    BY <1>2
  <2> HIDE DEF t
  <2> QED
    BY <2>1, <2>2, LiveAt DEF ReadStep, t
<1>3. CASE p = "post"
  <2> DEFINE n == Len(Steps(p))
  <2>0. n = 10 /\ j \in 1 .. n
    BY <1>3, PostLasts
  <2> HIDE DEF n
  <2>1. j = 1 \/ j = 2 \/ j = 3 \/ j = 4 \/ j = 5 \/ j = 6 \/ j = 7 \/ j = 8 \/ j = 9 \/ j = 10
    BY <2>0
  <2> DEFINE t == Steps("post")
  <2>2. Steps(p) = t
    BY <1>3
  <2> HIDE DEF t
  <2> QED
    BY <2>1, <2>2, PostAt DEF ReadStep, t
<1> QED
  BY <1>1, <1>2, <1>3 DEF ObsPhase

\* The next step of a collector is one of them, and before the first one all are to be taken.
LEMMA CollectorReads ==
  ASSUME HostTypes, Paced, phase \in ObsPhase
  PROVE  /\ todo # <<>> /\ Head(todo) \in ReadStep \cup {"context"}
         /\ AtStep("context") => \A s : Has(phase, s) => s \in Pending
<1> DEFINE n == Len(Steps(phase))
           m == Len(todo)
<1>0. phase \in Phases
  BY PhasesAre DEF ObsPhase
<1>1. n \in Nat
  BY <1>0, StepsAreSteps
<1>2. m \in 1 .. n /\ \A j \in 1 .. m : todo[j] = Steps(phase)[n - m + j]
  BY <1>0 DEF Paced
<1>3. todo \in Seq(StepName)
  BY DEF HostTypes
<1>4. \A j \in 1 .. n : Steps(phase)[j] \in ReadStep \cup {"context"} /\ (Steps(phase)[j] = "context" <=> j = 1)
  BY CollectorSteps
<1>5. todo # <<>>
  BY <1>1, <1>2, <1>3
<1>6. Head(todo) = todo[1]
  BY <1>3, <1>5
<1>7. Pending = {todo[j] : j \in 1 .. m} /\ \A s : Has(phase, s) <=> \E j \in 1 .. n : Steps(phase)[j] = s
  BY DEF Pending, Has
<1> HIDE DEF n, m
<1>8. 1 \in 1 .. m /\ n - m + 1 \in 1 .. n /\ (n - m + 1 = 1 => n = m)
  BY <1>1, <1>2
<1>9. Head(todo) = Steps(phase)[n - m + 1]
  BY <1>2, <1>6, <1>8
<1>10. ASSUME AtStep("context"), NEW s, Has(phase, s) PROVE s \in Pending
  <2>1. n = m
    BY <1>4, <1>8, <1>9, <1>10 DEF AtStep
  <2>2. \A j \in 1 .. n : n - n + j = j
    BY <1>1
  <2> QED
    BY <1>2, <1>7, <1>10, <2>1, <2>2
<1> QED
  BY <1>4, <1>5, <1>8, <1>9, <1>10

\* What a step of a collector does to its observation.
LEMMA ReadingIs ==
  ASSUME NEW o
  PROVE  /\ AtStep("inventory") => Reading(o) = ReadInventory(o)
         /\ AtStep("controls") => Reading(o) = ReadControls(o)
         /\ AtStep("lifecycle") => Reading(o) = ReadLifecycle(o)
         /\ AtStep("work first") => Reading(o) = ReadWorkFirst(o)
         /\ AtStep("processes first") => Reading(o) = ReadProcessesFirst(o)
         /\ AtStep("work") => Reading(o) = ReadWork(o, phase # "baseline")
         /\ AtStep("processes") => Reading(o) = ReadProcesses(o, phase # "baseline")
         /\ AtStep("units") => Reading(o) = ReadUnits(o)
         /\ AtStep("generated") => Reading(o) = ReadGenerated(o)
         /\ AtStep("runtime") => Reading(o) = ReadRuntime(o)
         /\ AtStep("containers") => Reading(o) = ReadContainers(o)
         /\ AtStep("bindings") => Reading(o) = ReadBindings(o)
         /\ AtStep("networks") => Reading(o) = ReadNetworks(o)
         /\ AtStep("search path") => Reading(o) = ReadSearchPath(o)
         /\ AtStep("owned units") => Reading(o) = ReadOwnedUnits(o)
         /\ AtStep("artifacts") => Reading(o) = ReadArtifacts(o)
<1>1. AtStep("inventory") => Reading(o) = ReadInventory(o)
  BY DEF AtStep, Reading
<1>2. AtStep("controls") => Reading(o) = ReadControls(o)
  BY DEF AtStep, Reading
<1>3. AtStep("lifecycle") => Reading(o) = ReadLifecycle(o)
  BY DEF AtStep, Reading
<1>4. AtStep("work first") => Reading(o) = ReadWorkFirst(o)
  BY DEF AtStep, Reading
<1>5. AtStep("processes first") => Reading(o) = ReadProcessesFirst(o)
  BY DEF AtStep, Reading
<1>6. AtStep("work") => Reading(o) = ReadWork(o, phase # "baseline")
  BY DEF AtStep, Reading
<1>7. AtStep("processes") => Reading(o) = ReadProcesses(o, phase # "baseline")
  BY DEF AtStep, Reading
<1>8. AtStep("units") => Reading(o) = ReadUnits(o)
  BY DEF AtStep, Reading
<1>9. AtStep("generated") => Reading(o) = ReadGenerated(o)
  BY DEF AtStep, Reading
<1>10. AtStep("runtime") => Reading(o) = ReadRuntime(o)
  BY DEF AtStep, Reading
<1>11. AtStep("containers") => Reading(o) = ReadContainers(o)
  BY DEF AtStep, Reading
<1>12. AtStep("bindings") => Reading(o) = ReadBindings(o)
  BY DEF AtStep, Reading
<1>13. AtStep("networks") => Reading(o) = ReadNetworks(o)
  BY DEF AtStep, Reading
<1>14. AtStep("search path") => Reading(o) = ReadSearchPath(o)
  BY DEF AtStep, Reading
<1>15. AtStep("owned units") => Reading(o) = ReadOwnedUnits(o)
  BY DEF AtStep, Reading
<1>16. AtStep("artifacts") => Reading(o) = ReadArtifacts(o)
  BY DEF AtStep, Reading
<1> QED
  BY <1>1, <1>2, <1>3, <1>4, <1>5, <1>6, <1>7, <1>8, <1>9, <1>10, <1>11, <1>12, <1>13, <1>14, <1>15, <1>16

\* What a step reads is added, and what it does not read is kept.
Reads(o, r, s) ==
  /\ r \in Observation
  /\ r.complete => o.complete
  /\ o.seen \subseteq r.seen
  /\ o.left \subseteq r.left
  /\ s # "inventory" => r.inventory = o.inventory
  /\ s # "work" => r.units = o.units /\ r.jobs = o.jobs
  /\ s # "processes" => r.processes = o.processes
  /\ s # "lifecycle" => r.api = o.api /\ r.migrations = o.migrations

LEMMA FactsAreTyped ==
  ASSUME HostTypes
  PROVE  /\ Inventory \subseteq Thing /\ ActiveUnits \subseteq Thing /\ Jobs \subseteq Thing
         /\ Processes \subseteq Thing
         /\ \A subjects : SeenOf(subjects) \subseteq SeenFlaw
         /\ controls \in Nat /\ migrations \in Nat /\ PodmanApi(off) \in BOOLEAN
<1>1. \A k \in ForeignKind : There(k) \subseteq Thing
  BY DEF There, Thing, Foreign
<1>2. \A k \in Owned \cup {"online"} : Fixture(k) \in Thing
  BY DEF Fixture, Thing
<1>3. owned \subseteq Owned /\ off \subseteq AnyFlaw /\ controls \in Nat /\ migrations \in Nat
  BY DEF HostTypes
<1>4. Inventory \subseteq Thing
  BY <1>1, <1>2, <1>3 DEF Inventory, ForeignKind
<1>5. ActiveUnits \subseteq Thing
  BY <1>1, <1>2, <1>3 DEF ActiveUnits, ForeignKind
<1>6. Jobs \subseteq Thing
  BY <1>1 DEF Jobs, ForeignKind
<1>7. Processes \subseteq Thing
  BY <1>1, <1>2, <1>3 DEF Processes, ForeignKind
<1>8. \A subjects : SeenOf(subjects) \subseteq SeenFlaw
  BY <1>3 DEF SeenOf, SeenFlaw
<1>9. PodmanApi(off) \in BOOLEAN
  BY DEF PodmanApi
<1> QED
  BY <1>3, <1>4, <1>5, <1>6, <1>7, <1>8, <1>9

LEMMA ContainersAreRead ==
  ASSUME HostTypes, NEW o \in Observation
  PROVE  Reads(o, ReadContainers(o), "containers")
<1> DEFINE d == IF NamespaceMatches(namespace) THEN {} ELSE {<<"api", "user namespace">>}
           e == SeenOf(Role) \cup d
           c == \A r \in Role : CContainer(r, off)
<1>1. <<"api", "user namespace">> \in {"api"} \X {"user namespace"}
  OBVIOUS
<1>2. d \subseteq {"api"} \X {"user namespace"}
  BY <1>1
<1> HIDE DEF d
<1>3. e \subseteq SeenFlaw /\ c \in BOOLEAN
  BY <1>2, FactsAreTyped DEF SeenFlaw
<1>4. ReadContainers(o) = [o EXCEPT !.seen = @ \cup e, !.complete = @ /\ c]
  BY DEF ReadContainers, d
<1> HIDE DEF c, e
<1> QED
  BY <1>3, <1>4 DEF Reads, Observation

LEMMA ReadingReads ==
  ASSUME HostTypes, NEW o \in Observation
  PROVE  /\ Reads(o, ReadInventory(o), "inventory")
         /\ Reads(o, ReadControls(o), "controls")
         /\ Reads(o, ReadLifecycle(o), "lifecycle")
         /\ Reads(o, ReadWorkFirst(o), "work first")
         /\ Reads(o, ReadProcessesFirst(o), "processes first")
         /\ Reads(o, ReadWork(o, phase # "baseline"), "work")
         /\ Reads(o, ReadProcesses(o, phase # "baseline"), "processes")
         /\ Reads(o, ReadUnits(o), "units")
         /\ Reads(o, ReadGenerated(o), "generated")
         /\ Reads(o, ReadRuntime(o), "runtime")
         /\ Reads(o, ReadContainers(o), "containers")
         /\ Reads(o, ReadBindings(o), "bindings")
         /\ Reads(o, ReadNetworks(o), "networks")
         /\ Reads(o, ReadSearchPath(o), "search path")
         /\ Reads(o, ReadOwnedUnits(o), "owned units")
         /\ Reads(o, ReadArtifacts(o), "artifacts")
<1> USE FactsAreTyped DEF Reads, Observation
<1>1. Reads(o, ReadInventory(o), "inventory")
  BY DEF ReadInventory
<1>2. Reads(o, ReadControls(o), "controls")
  BY DEF ReadControls
<1>3. Reads(o, ReadLifecycle(o), "lifecycle")
  BY DEF ReadLifecycle
<1>4. Reads(o, ReadWorkFirst(o), "work first")
  BY DEF ReadWorkFirst
<1>5. Reads(o, ReadProcessesFirst(o), "processes first")
  BY DEF ReadProcessesFirst
<1>6. Reads(o, ReadWork(o, phase # "baseline"), "work")
  BY DEF ReadWork
<1>7. Reads(o, ReadProcesses(o, phase # "baseline"), "processes")
  BY DEF ReadProcesses
<1>8. Reads(o, ReadUnits(o), "units")
  BY DEF ReadUnits
<1>9. Reads(o, ReadGenerated(o), "generated")
  BY DEF ReadGenerated
<1>10. Reads(o, ReadRuntime(o), "runtime")
  BY DEF ReadRuntime
<1>11. Reads(o, ReadContainers(o), "containers")
  BY ContainersAreRead
<1>12. Reads(o, ReadBindings(o), "bindings")
  BY DEF ReadBindings
<1>13. Reads(o, ReadNetworks(o), "networks")
  BY DEF ReadNetworks
<1>14. Reads(o, ReadSearchPath(o), "search path")
  BY DEF ReadSearchPath
<1>15. Reads(o, ReadOwnedUnits(o), "owned units")
  BY DEF ReadOwnedUnits
<1>16. Reads(o, ReadArtifacts(o), "artifacts")
  BY DEF ReadArtifacts
<1> QED
  BY <1>1, <1>2, <1>3, <1>4, <1>5, <1>6, <1>7, <1>8, <1>9, <1>10, <1>11, <1>12, <1>13, <1>14, <1>15, <1>16

\* main() of the collector: the observation it leaves has its type.
LEMMA CollectIs ==
  ASSUME HostTypes, Paced, Collect
  PROVE  /\ phase \in ObsPhase /\ todo # <<>> /\ Head(todo) \in ReadStep \cup {"context"}
         /\ obs' \in [ObsPhase -> Observation]
         /\ \/ Ended("failed") /\ obs' = obs
            \/ /\ AtStep("context") /\ AdmitCollectionContext(off) /\ Advance
               /\ obs'[phase] = [Nothing EXCEPT !.complete = TRUE]
            \/ /\ ~AtStep("context") /\ Advance
               /\ obs'[phase] = Reading(obs[phase])
               /\ Reads(obs[phase], obs'[phase], Head(todo))
<1>1. obs \in [ObsPhase -> Observation] /\ DOMAIN obs = ObsPhase /\ phase \in ObsPhase
  BY DEF HostTypes, Collect
<1>2. todo # <<>> /\ Head(todo) \in ReadStep \cup {"context"}
  BY <1>1, CollectorReads
<1>3. CASE AtStep("context")
  <2>1. [Nothing EXCEPT !.complete = TRUE] \in Observation
    BY DEF Nothing, Observation
  <2> QED
    BY <1>1, <1>2, <1>3, <2>1 DEF Collect
<1>4. CASE ~AtStep("context")
  <2> DEFINE o == obs[phase]
             r == Reading(o)
  <2>1. o \in Observation
    BY <1>1
  <2>2. Head(todo) \in ReadStep /\ AtStep(Head(todo))
    BY <1>2, <1>4 DEF AtStep
  <2>3. Reads(o, r, Head(todo))
    <3> HIDE DEF o
    <3> QED
      BY <2>1, <2>2, ReadingIs, ReadingReads DEF ReadStep, r
  <2>4. r \in Observation
    BY <2>3 DEF Reads
  <2>5. Advance /\ obs' = [obs EXCEPT ![phase] = r]
    BY <1>4 DEF Collect
  <2> HIDE DEF r
  <2>6. obs' \in [ObsPhase -> Observation] /\ obs'[phase] = r
    BY <1>1, <2>4, <2>5
  <2> QED
    BY <1>1, <1>2, <1>4, <2>3, <2>5, <2>6 DEF r
<1> QED
  BY <1>3, <1>4

\* The observations and the diagnostics have their types after every step.
LEMMA ObservationTypes ==
  ASSUME HostTypes, Paced, [Next]_vars
  PROVE  /\ obs' \in [ObsPhase -> Observation]
         /\ diagnostic' \in [{"normalize live", "normalize cleanup"} -> {"none", "failed", "complete"}]
<1> DEFINE D == [{"normalize live", "normalize cleanup"} -> {"none", "failed", "complete"}]
<1>1. obs \in [ObsPhase -> Observation] /\ diagnostic \in D /\ DOMAIN obs = ObsPhase
      /\ DOMAIN diagnostic = {"normalize live", "normalize cleanup"}
  BY DEF HostTypes
<1>2. CASE Collect
  BY <1>1, <1>2, CollectIs DEF Collect
<1>3. CASE PhaseFails
  <2>1. Nothing \in Observation
    BY DEF Nothing, Observation
  <2> QED
    BY <1>1, <1>3, <2>1 DEF PhaseFails, IncompleteObservation
<1>4. NormalizationGoesOn \/ NormalizationRejects => diagnostic' \in D
  BY <1>1 DEF NormalizationGoesOn, NormalizationRejects
<1>5. CASE NormalizationReads
  BY <1>1, <1>4, <1>5, NormalizationReadsMoves DEF NormalizationReads
<1>6. CASE StopExistingUnits \/ ReplaceManagerEnvironment \/ DaemonReload \/ StartTarget
  BY <1>1, <1>4, <1>6 DEF StopExistingUnits, ReplaceManagerEnvironment, DaemonReload, StartTarget
<1>7. CASE \/ UNCHANGED vars \/ PrepareHost \/ Interrupted
           \/ TargetRemovesResources \/ TargetCalls \/ TargetReturns \/ TargetEnds \/ TargetActivates
           \/ Installing \/ Deviate \/ Mend \/ Assemble \/ AlterEvidence \/ ValidateEvidence
  BY <1>1, <1>7 DEF vars, runVars, PrepareHost, Interrupted, TargetRemovesResources, TargetCalls, TargetReturns,
     TargetEnds, TargetActivates, Installing, Deviate, Mend, Assemble, AlterEvidence, ValidateEvidence
<1> QED
  BY <1>2, <1>3, <1>5, <1>6, <1>7 DEF Next

\* The host has its types after every step, and the workload on it changes only between
\* the first observation and the last one.
Unworked == {"host", "baseline", "live", "post"} \cup Late

LEMMA WorkloadOnHost ==
  ASSUME HostTypes, [Next]_vars
  PROVE  /\ off' \subseteq AnyFlaw /\ owned' \subseteq Owned
         /\ online' \in BOOLEAN /\ loaded' \in BOOLEAN /\ migrations' \in Nat /\ controls' \in Nat
         /\ phase \in Unworked => UNCHANGED <<owned, online, loaded, migrations>>
<1>1. /\ off \subseteq AnyFlaw /\ owned \subseteq Owned /\ online \in BOOLEAN /\ loaded \in BOOLEAN
      /\ migrations \in Nat /\ controls \in Nat /\ DOMAIN diagnostic = {"normalize live", "normalize cleanup"}
  BY DEF HostTypes
<1>01. migrations \in Nat /\ controls \in Nat
  BY DEF HostTypes
<1>2. CASE PrepareHost
  <2>1. controls' \in {0, 1} /\ UNCHANGED <<off, owned, online, loaded, migrations>>
    BY <1>2 DEF PrepareHost
  <2>2. controls' \in Nat
    BY <2>1
  <2> QED
    BY <1>1, <2>1, <2>2
<1>3. CASE StopExistingUnits
  BY <1>1, <1>3 DEF StopExistingUnits, At, Unworked, Late
<1>4. CASE ReplaceManagerEnvironment
  BY <1>1, <1>4 DEF ReplaceManagerEnvironment, Unworked, Late
<1>5. CASE DaemonReload
  <2>1. off' \subseteq AnyFlaw
    <3>1. off' \subseteq off \cup {<<"manager", "environment">>}
      BY <1>5 DEF DaemonReload
    <3>2. <<"manager", "environment">> \in AnyFlaw
      BY DEF AnyFlaw, ManagerFlaw
    <3> QED
      BY <1>1, <3>1, <3>2
  <2> QED
    BY <1>1, <1>5, <2>1 DEF DaemonReload, Unworked, Late
<1>6. CASE StartTarget
  <2>1. /\ owned' = Owned /\ online' = TRUE /\ migrations' = migrations + 1 /\ UNCHANGED <<off, loaded, controls>>
        /\ phase = "normalize live"
    BY <1>6 DEF StartTarget, At
  <2>0. migrations' = migrations + 1
    BY <1>6 DEF StartTarget
  <2>2. migrations' \in Nat
    BY <1>01, <2>0
  <2> QED
    BY <1>1, <2>1, <2>2 DEF Unworked, Late
<1>7. CASE TargetRemovesResources
  BY <1>1, <1>7 DEF TargetRemovesResources, At, Unworked, Late
<1>8. CASE TargetActivates
  <2>1. /\ owned' = Owned /\ online' = TRUE /\ loaded' = TRUE /\ migrations' = migrations + 1
        /\ UNCHANGED <<off, controls>> /\ phase = "prepare"
    BY <1>8 DEF TargetActivates, At
  <2>0. migrations' = migrations + 1
    BY <1>8 DEF TargetActivates
  <2>2. migrations' \in Nat
    BY <1>01, <2>0
  <2> QED
    BY <1>1, <2>1, <2>2 DEF Unworked, Late
<1>9. CASE Deviate
  <2>1. UNCHANGED <<owned, online, loaded, migrations>>
    BY <1>9 DEF Deviate
  <2>2. controls' \in Nat
    <3>1. controls' = controls + 1 \/ controls' = controls
      BY <1>9 DEF Deviate
    <3> QED
      BY <1>01, <3>1
  <2>3. off' \subseteq off \cup Deviation \cup Foreign
    BY <1>9 DEF Deviate
  <2>4. off' \subseteq AnyFlaw
    BY <1>1, <2>3 DEF AnyFlaw
  <2> QED
    BY <1>1, <2>1, <2>2, <2>4
<1>10. CASE Mend
  BY <1>1, <1>10 DEF Mend
<1>11. CASE UNCHANGED hostVars
  BY <1>1, <1>11 DEF hostVars
<1>12. CASE UNCHANGED vars
  BY <1>11, <1>12 DEF vars
<1>13. CASE \/ Interrupted \/ PhaseFails \/ NormalizationReads \/ Collect \/ TargetCalls \/ TargetReturns
            \/ TargetEnds \/ Installing \/ Assemble \/ AlterEvidence \/ ValidateEvidence
  BY <1>11, <1>13 DEF Interrupted, PhaseFails, NormalizationReads, Collect, TargetCalls, TargetReturns,
     TargetEnds, Installing, Assemble, AlterEvidence, ValidateEvidence
<1> QED
  BY <1>2, <1>3, <1>4, <1>5, <1>6, <1>7, <1>8, <1>9, <1>10, <1>12, <1>13 DEF Next

LEMMA TypesStep == HostTypes /\ Paced /\ [Next]_vars => HostTypes'
<1> SUFFICES ASSUME HostTypes, Paced, [Next]_vars PROVE HostTypes'
  OBVIOUS
<1>1. Moves
  BY QualificationMoves
<1>2. /\ phase' \in Phases \cup Late \cup {"host"} /\ todo' \in Seq(StepName)
      /\ status' \in [Phases -> {"not run", "ok", "failed"}]
  BY <1>1, MovesKeepPace
<1>3. off' \subseteq AnyFlaw
  BY WorkloadOnHost
<1>4. stood' \in [Window -> SUBSET AnyFlaw] /\ met' \in [Window -> SUBSET AnyFlaw]
  <2>1. stood \in [Window -> SUBSET AnyFlaw] /\ met \in [Window -> SUBSET AnyFlaw]
    BY DEF HostTypes
  <2>2. CASE UNCHANGED vars
    BY <2>1, <2>2 DEF vars
  <2>3. CASE Remember
    <3>1. DOMAIN stood = Window /\ DOMAIN met = Window
      BY <2>1
    <3> QED
      BY <1>3, <2>1, <2>3, <3>1 DEF Remember
  <2> QED
    BY <2>2, <2>3 DEF Next
<1> QED
  BY <1>2, <1>3, <1>4, WorkloadOnHost, ObservationTypes DEF HostTypes

LEMMA OrderStep == HostTypes /\ Paced /\ InOrder /\ [Next]_vars => InOrder'
<1> SUFFICES ASSUME HostTypes, Paced, InOrder, [Next]_vars PROVE InOrder'
  OBVIOUS
<1>1. Moves /\ \A q \in Phases : Rank(phase) <= Rank(q) => status[q] = "not run"
  BY QualificationMoves DEF InOrder
<1>2. /\ \A q \in Phases : Rank(phase') <= Rank(q) => status'[q] = "not run"
      /\ phase' # phase => (phase' = "baseline" /\ phase = "host") \/ phase' \notin {"host", "baseline"}
  BY <1>1, MovesKeepOrder
<1>3. phase' \in {"host", "baseline"} => owned' = {} /\ ~online'
  <2>1. phase' \in {"host", "baseline"} => phase \in {"host", "baseline"}
    BY <1>2
  <2>2. phase \in {"host", "baseline"} => UNCHANGED <<owned, online>>
    BY WorkloadOnHost DEF Unworked
  <2> QED
    BY <2>1, <2>2 DEF InOrder
<1> QED
  BY <1>2, <1>3 DEF InOrder

LEMMA WindowsStep == HostTypes /\ Windows /\ [Next]_vars => Windows'
<1> SUFFICES ASSUME HostTypes, Windows, [Next]_vars PROVE Windows'
  OBVIOUS
<1>1. CASE UNCHANGED vars
  BY <1>1 DEF vars, runVars, hostVars, Windows, InWindow
<1>2. CASE Remember
  <2> SUFFICES ASSUME NEW w \in Window, InWindow(w)' PROVE (stood[w] \subseteq off /\ off \cap Foreign \subseteq met[w])'
    BY DEF Windows
  <2>1. DOMAIN stood = Window /\ DOMAIN met = Window
    BY DEF HostTypes
  <2> QED
    BY <1>2, <2>1 DEF Remember
<1> QED
  BY <1>1, <1>2 DEF Next

-----------------------------------------------------------------------------
(* What an observation holds after a step: what it held, or what the step  *)
(* has just read.                                                          *)

Kept(p, s) ==
  /\ Taken(p, s) /\ stood'[p] \subseteq stood[p] /\ met[p] \subseteq met'[p]
  /\ obs'[p].complete => obs[p].complete
  /\ obs[p].seen \subseteq obs'[p].seen
  /\ obs[p].left \subseteq obs'[p].left
  /\ s = "inventory" => obs'[p].inventory = obs[p].inventory
  /\ s = "work" => obs'[p].units = obs[p].units /\ obs'[p].jobs = obs[p].jobs
  /\ s = "processes" => obs'[p].processes = obs[p].processes
  /\ s = "lifecycle" => obs'[p].api = obs[p].api /\ obs'[p].migrations = obs[p].migrations

Fresh(p, s) ==
  /\ phase = p /\ AtStep(s) /\ obs'[p] = Reading(obs[p]) /\ obs[p] \in Observation
  /\ stood'[p] \subseteq off /\ off \cap Foreign \subseteq met'[p]

\* In the phase of an observation only its collector takes a step of it.
LEMMA OnlyCollectorTakes ==
  ASSUME HostTypes, Paced, InOrder, [Next]_vars, NEW p \in ObsPhase, phase = p, NEW s, Taken(p, s)'
  PROVE  ~Ended("failed") /\ (Collect \/ (Stays /\ obs'[p] = obs[p]))
<1>1. phase \in Phases /\ status[phase] = "not run" /\ status \in [Phases -> {"not run", "ok", "failed"}]
  BY PhasesAre, RankIsReflexive DEF InOrder, HostTypes, ObsPhase
<1>2. ~Ended("failed")
  <2> SUFFICES ASSUME Ended("failed") PROVE FALSE
    OBVIOUS
  <2>1. PICK q \in Phases \cup {"assemble"} : Begin(q) /\ Rank(phase) < Rank(q)
    BY <1>1, EndedBegins DEF Outcome
  <2>2. phase' # phase
    BY <2>1, RankIsOrder DEF Begin
  <2>3. status'[p] = "failed"
    BY <1>1 DEF Ended
  <2> QED
    BY <2>2, <2>3 DEF Taken
<1>3. ~(UNCHANGED status /\ phase' # phase)
  BY <1>1 DEF Taken
<1>4. Collect \/ Stays
  <2>0. DOMAIN diagnostic = {"normalize live", "normalize cleanup"}
    BY DEF HostTypes
  <2>1. CASE \/ UNCHANGED vars \/ TargetActivates \/ Installing \/ Deviate \/ Mend \/ AlterEvidence
    BY <2>1 DEF vars, runVars, TargetActivates, Installing, Deviate, Mend, AlterEvidence, Stays
  <2>2. CASE \/ PrepareHost \/ NormalizationReads \/ StopExistingUnits \/ ReplaceManagerEnvironment
             \/ DaemonReload \/ StartTarget
    BY <2>0, <2>2 DEF PrepareHost, NormalizationReads, StopExistingUnits, ReplaceManagerEnvironment, DaemonReload,
       StartTarget, At, ObsPhase
  <2>3. CASE TargetRemovesResources \/ TargetCalls \/ TargetReturns \/ TargetEnds \/ Assemble \/ ValidateEvidence
    BY <2>3 DEF TargetRemovesResources, TargetCalls, TargetReturns, TargetEnds, Assemble, ValidateEvidence, At, ObsPhase
  <2>4. CASE PhaseFails
    BY <1>2, <2>4 DEF PhaseFails
  <2>5. CASE Interrupted
    <3>1. phase' # phase /\ UNCHANGED status
      BY <2>5 DEF Interrupted, Begin, ObsPhase
    <3> QED
      BY <1>3, <3>1
  <2> QED
    BY <2>1, <2>2, <2>3, <2>4, <2>5 DEF Next
<1>5. obs'[p] # obs[p] => Collect
  BY <1>2, ObservationStep
<1> QED
  BY <1>2, <1>4, <1>5

LEMMA Collected ==
  ASSUME HostTypes, Paced, InOrder, Windows, [Next]_vars,
         NEW p \in ObsPhase, NEW s \in ReadStep, Has(p, s), Taken(p, s)'
  PROVE  Kept(p, s) \/ Fresh(p, s)
<1>0. obs \in [ObsPhase -> Observation] /\ obs[p] \in Observation
  BY DEF HostTypes
<1>1. /\ Moves
      /\ \A q \in Phases : Rank(phase) <= Rank(q) => status[q] = "not run"
      /\ p \in Phases \ {"prepare", "cleanup"}
  BY QualificationMoves, PhasesAre DEF InOrder, ObsPhase
<1>2. /\ phase # p => phase' # p /\ Taken(p, s)
      /\ phase = p /\ ~Taken(p, s) => s = Head(todo) /\ todo # <<>>
  BY <1>1, TakenStep
<1>3. /\ phase = p => stood'[p] \subseteq stood[p] /\ met[p] \subseteq met'[p]
      /\ phase # p /\ phase' # p => stood'[p] = stood[p] /\ met'[p] = met[p]
  BY RememberStep
<1>4. ASSUME obs'[p] = obs[p], Taken(p, s) PROVE Kept(p, s)
  BY <1>2, <1>3, <1>4 DEF Kept
<1>5. CASE phase # p
  BY <1>2, <1>4, <1>5, ObservationStep
<1>6. CASE phase = p
  <2>1. ~Ended("failed") /\ (Collect \/ (Stays /\ obs'[p] = obs[p]))
    BY <1>6, OnlyCollectorTakes
  <2>2. CASE Stays /\ obs'[p] = obs[p]
    <3>1. Taken(p, s)
      BY <2>2 DEF Stays, Taken, Pending
    <3> QED
      BY <1>4, <2>2, <3>1
  <2>3. CASE Collect
    <3>1. \/ AtStep("context")
          \/ /\ ~AtStep("context") /\ obs'[p] = Reading(obs[p]) /\ Reads(obs[p], obs'[p], Head(todo))
      BY <1>6, <2>1, <2>3, CollectIs
    <3>2. ~AtStep("context")
      <4> SUFFICES ASSUME AtStep("context") PROVE FALSE
        OBVIOUS
      <4>1. s \in Pending
        BY <1>6, CollectorReads
      <4>2. s # Head(todo)
        BY DEF AtStep, ReadStep
      <4> QED
        BY <1>2, <1>6, <4>1, <4>2 DEF Taken
    <3>3. CASE s = Head(todo)
      <4>1. AtStep(s)
        BY <1>6, <2>3, <3>3, CollectIs DEF AtStep
      <4>2. stood[p] \subseteq off /\ off \cap Foreign \subseteq met[p]
        BY <1>6 DEF Windows, InWindow, Window, ObsPhase
      <4> QED
        BY <1>0, <1>3, <1>6, <3>1, <3>2, <4>1, <4>2 DEF Fresh
    <3>4. CASE s # Head(todo)
      <4>1. Taken(p, s)
        BY <1>2, <1>6, <3>4
      <4> QED
        BY <1>3, <1>6, <3>1, <3>2, <3>4, <4>1 DEF Kept, Reads
    <3> QED
      BY <3>3, <3>4
  <2> QED
    BY <2>1, <2>2, <2>3
<1> QED
  BY <1>5, <1>6

\* The steps that the judgements are about.
LEMMA ObservationSteps ==
  /\ \A p \in ObsPhase : Has(p, "inventory") /\ Has(p, "lifecycle") /\ Has(p, "work") /\ Has(p, "processes")
  /\ Has("live", "units") /\ Has("live", "generated") /\ Has("live", "runtime") /\ Has("live", "containers")
  /\ Has("live", "bindings") /\ Has("live", "networks") /\ Has("live", "search path") /\ Has("live", "context")
  /\ Has("post", "owned units") /\ Has("post", "artifacts")
<1> DEFINE b == Steps("baseline")
           l == Steps("live")
           c == Steps("post")
<1>1. Len(b) = 6 /\ Len(l) = 15 /\ Len(c) = 10
  BY BaselineLasts, LiveLasts, PostLasts
<1>2. b[2] = "inventory" /\ b[4] = "lifecycle" /\ b[5] = "work" /\ b[6] = "processes"
  BY BaselineAt
<1>3. /\ l[1] = "context" /\ l[4] = "units" /\ l[5] = "generated" /\ l[6] = "runtime" /\ l[7] = "containers"
      /\ l[8] = "bindings" /\ l[9] = "networks" /\ l[10] = "inventory" /\ l[11] = "lifecycle"
      /\ l[13] = "work" /\ l[14] = "processes" /\ l[15] = "search path"
  BY LiveAt
<1>4. /\ c[4] = "lifecycle" /\ c[6] = "owned units" /\ c[7] = "artifacts" /\ c[8] = "inventory"
      /\ c[9] = "work" /\ c[10] = "processes"
  BY PostAt
<1>5. /\ \A i \in {2, 4, 5, 6} : i \in 1 .. 6
      /\ \A i \in {1, 4, 5, 6, 7, 8, 9, 10, 11, 13, 14, 15} : i \in 1 .. 15
      /\ \A i \in {4, 6, 7, 8, 9, 10} : i \in 1 .. 10
  OBVIOUS
<1>50. /\ \A s : Has("baseline", s) <=> \E i \in 1 .. 6 : b[i] = s
       /\ \A s : Has("live", s) <=> \E i \in 1 .. 15 : l[i] = s
       /\ \A s : Has("post", s) <=> \E i \in 1 .. 10 : c[i] = s
  BY <1>1 DEF Has
<1> HIDE DEF b, l, c
<1>6. Has("baseline", "inventory") /\ Has("baseline", "lifecycle") /\ Has("baseline", "work") /\ Has("baseline", "processes")
  BY <1>2, <1>5, <1>50
<1>7. /\ Has("live", "units") /\ Has("live", "generated") /\ Has("live", "runtime") /\ Has("live", "containers")
      /\ Has("live", "bindings") /\ Has("live", "networks") /\ Has("live", "search path") /\ Has("live", "context")
      /\ Has("live", "inventory") /\ Has("live", "lifecycle") /\ Has("live", "work") /\ Has("live", "processes")
  BY <1>3, <1>5, <1>50
<1>8. /\ Has("post", "inventory") /\ Has("post", "lifecycle") /\ Has("post", "work") /\ Has("post", "processes")
      /\ Has("post", "owned units") /\ Has("post", "artifacts")
  BY <1>4, <1>5, <1>50
<1> QED
  BY <1>6, <1>7, <1>8 DEF ObsPhase

\* What the step has just read is in the observation, or the observation is not complete.
Given(r, s) ==
  /\ s = "inventory" => r.inventory = Inventory
  /\ s = "lifecycle" => r.api = PodmanApi(off) /\ r.migrations = migrations /\ (r.complete => CSockets(off))
  /\ s = "work" => r.units = ActiveUnits /\ r.jobs = Jobs /\ SeenOf({"timers"}) \subseteq r.seen /\ (r.complete => CWork(off, online))
  /\ s = "processes" => r.processes = Processes /\ SeenOf({"processes"}) \subseteq r.seen /\ (r.complete => CProcesses(off))
  /\ s = "units" => SeenOf({"unit"}) \subseteq r.seen /\ (r.complete => CUnits(off) /\ Of(Instance) = files)
  /\ s = "generated" => SeenOf(Kind) \subseteq r.seen /\ (r.complete => CServices(off))
  /\ s = "runtime" => SeenOf({"runtime"}) \subseteq r.seen /\ (r.complete => CRuntime(off))
  /\ s = "containers" => SeenOf(Role) \subseteq r.seen /\ (r.complete => \A x \in Role : CContainer(x, off))
  /\ s = "bindings" => (r.complete => \A x \in Role : CBinding(x, off))
  /\ s = "networks" => (r.complete => CNetworks(off) /\ CAardvark(off))
  /\ s = "search path" => SeenOf({"manager"}) \subseteq r.seen
  /\ s = "owned units" => (files # {} => "units" \in r.left)
  /\ s = "artifacts" => (loaded => "artifacts" \in r.left)

LEMMA ReadingGives ==
  ASSUME NEW o \in Observation
  PROVE  /\ Given(ReadInventory(o), "inventory")
         /\ Given(ReadLifecycle(o), "lifecycle")
         /\ Given(ReadWork(o, phase # "baseline"), "work")
         /\ Given(ReadProcesses(o, phase # "baseline"), "processes")
         /\ Given(ReadUnits(o), "units")
         /\ Given(ReadGenerated(o), "generated")
         /\ Given(ReadRuntime(o), "runtime")
         /\ Given(ReadContainers(o), "containers")
         /\ Given(ReadBindings(o), "bindings")
         /\ Given(ReadNetworks(o), "networks")
         /\ Given(ReadSearchPath(o), "search path")
         /\ Given(ReadOwnedUnits(o), "owned units")
         /\ Given(ReadArtifacts(o), "artifacts")
<1>1. Given(ReadInventory(o), "inventory")
  BY DEF Given, ReadInventory, Observation
<1>2. Given(ReadLifecycle(o), "lifecycle")
  BY DEF Given, ReadLifecycle, Observation
<1>3. Given(ReadWork(o, phase # "baseline"), "work")
  BY DEF Given, ReadWork, Observation
<1>4. Given(ReadProcesses(o, phase # "baseline"), "processes")
  BY DEF Given, ReadProcesses, Observation
<1>5. Given(ReadUnits(o), "units")
  BY DEF Given, ReadUnits, Observation
<1>6. Given(ReadGenerated(o), "generated")
  BY DEF Given, ReadGenerated, Observation
<1>7. Given(ReadRuntime(o), "runtime")
  BY DEF Given, ReadRuntime, Observation
<1>8. Given(ReadContainers(o), "containers")
  BY DEF Given, ReadContainers, Observation
<1>9. Given(ReadBindings(o), "bindings")
  BY DEF Given, ReadBindings, Observation
<1>10. Given(ReadNetworks(o), "networks")
  BY DEF Given, ReadNetworks, Observation
<1>11. Given(ReadSearchPath(o), "search path")
  BY DEF Given, ReadSearchPath, Observation
<1>12. Given(ReadOwnedUnits(o), "owned units")
  BY DEF Given, ReadOwnedUnits, Observation
<1>13. Given(ReadArtifacts(o), "artifacts")
  BY DEF Given, ReadArtifacts, Observation
<1> QED
  BY <1>1, <1>2, <1>3, <1>4, <1>5, <1>6, <1>7, <1>8, <1>9, <1>10, <1>11, <1>12, <1>13

LEMMA FreshGives ==
  ASSUME NEW p, NEW s \in ReadStep \ {"controls", "work first", "processes first"}, Fresh(p, s)
  PROVE  Given(obs'[p], s)
<1> DEFINE o == obs[p]
           r == obs'[p]
<1>1. o \in Observation /\ r = Reading(o) /\ AtStep(s)
  BY DEF Fresh
<1> HIDE DEF o, r
<1>2. Given(r, s)
  BY <1>1, ReadingIs, ReadingGives DEF ReadStep
<1> QED
  BY <1>2 DEF r

\* A foreign thing is among the facts exactly when it is on the host.
LEMMA ForeignFacts ==
  /\ \A k \in {"container", "network", "volume"} : <<"foreign", k>> \in Inventory <=> <<"foreign", k>> \in off
  /\ <<"foreign", "unit">> \in ActiveUnits <=> <<"foreign", "unit">> \in off
  /\ <<"foreign", "job">> \in Jobs <=> <<"foreign", "job">> \in off
  /\ <<"foreign", "process">> \in Processes <=> <<"foreign", "process">> \in off
  /\ <<"foreign", "api">> \in off => PodmanApi(off)
<1>1. \A j, k : <<"foreign", k>> # Fixture(j)
  BY DEF Fixture
<1>2. \A j, k : <<"foreign", k>> \in There(j) <=> j = k /\ <<"foreign", k>> \in off
  BY DEF There
<1>3. \A k \in {"container", "network", "volume"} : <<"foreign", k>> \in Inventory <=> <<"foreign", k>> \in off
  BY <1>1, <1>2 DEF Inventory
<1>4. <<"foreign", "unit">> \in ActiveUnits <=> <<"foreign", "unit">> \in off
  BY <1>1, <1>2 DEF ActiveUnits
<1>5. <<"foreign", "job">> \in Jobs <=> <<"foreign", "job">> \in off
  BY <1>2 DEF Jobs
<1>6. <<"foreign", "process">> \in Processes <=> <<"foreign", "process">> \in off
  BY <1>1, <1>2 DEF Processes
<1>7. <<"foreign", "api">> \in off => PodmanApi(off)
  BY DEF PodmanApi, Clean
<1> QED
  BY <1>3, <1>4, <1>5, <1>6, <1>7

LEMMA KeptNotes ==
  ASSUME NEW p, NEW s, Kept(p, s), NEW k, NEW found, Noted(p, k, found)
  PROVE  /\ <<"foreign", k>> \in stood'[p] => <<"foreign", k>> \in found
         /\ <<"foreign", k>> \in found => <<"foreign", k>> \in met'[p]
BY DEF Kept, Noted

LEMMA FreshNotes ==
  ASSUME NEW p, NEW s, Fresh(p, s), NEW k \in ForeignKind, NEW found, <<"foreign", k>> \in found <=> <<"foreign", k>> \in off
  PROVE  /\ <<"foreign", k>> \in stood'[p] => <<"foreign", k>> \in found
         /\ <<"foreign", k>> \in found => <<"foreign", k>> \in met'[p]
BY DEF Fresh, Foreign

LEMMA OthersStep == HostTypes /\ Paced /\ InOrder /\ Windows /\ OthersNoted /\ [Next]_vars => OthersNoted'
<1> SUFFICES ASSUME HostTypes, Paced, InOrder, Windows, OthersNoted, [Next]_vars, NEW p \in ObsPhase
             PROVE  (/\ Taken(p, "inventory") => \A k \in {"container", "network", "volume"} : Noted(p, k, obs[p].inventory)
                     /\ Taken(p, "work") => Noted(p, "unit", obs[p].units) /\ Noted(p, "job", obs[p].jobs)
                     /\ Taken(p, "processes") => Noted(p, "process", obs[p].processes)
                     /\ Taken(p, "lifecycle") => (<<"foreign", "api">> \in stood[p] => obs[p].api))'
  BY DEF OthersNoted
<1> DEFINE o == obs[p]
           r == obs'[p]
<1>1. ASSUME NEW s \in ReadStep, Has(p, s), Taken(p, s)' PROVE Kept(p, s) \/ Fresh(p, s)
  BY <1>1, Collected
<1>2. ASSUME Taken(p, "inventory")', NEW k \in {"container", "network", "volume"} PROVE Noted(p, k, obs[p].inventory)'
  <2>1. Kept(p, "inventory") \/ Fresh(p, "inventory")
    BY <1>1, <1>2, ObservationSteps DEF ReadStep
  <2>2. CASE Kept(p, "inventory")
    <3>1. Noted(p, k, o.inventory) /\ r.inventory = o.inventory
      BY <2>2 DEF OthersNoted, Kept
    <3> QED
      BY <2>2, <3>1, KeptNotes DEF Noted
  <2>3. CASE Fresh(p, "inventory")
    <3>1. r.inventory = Inventory
      BY <2>3, FreshGives DEF Given, ReadStep
    <3>2. <<"foreign", k>> \in Inventory <=> <<"foreign", k>> \in off
      BY ForeignFacts
    <3>3. k \in ForeignKind
      BY DEF ForeignKind
    <3> QED
      BY <2>3, <3>1, <3>2, <3>3, FreshNotes DEF Noted
  <2> QED
    BY <2>1, <2>2, <2>3
<1>3. ASSUME Taken(p, "work")' PROVE Noted(p, "unit", obs[p].units)' /\ Noted(p, "job", obs[p].jobs)'
  <2>1. Kept(p, "work") \/ Fresh(p, "work")
    BY <1>1, <1>3, ObservationSteps DEF ReadStep
  <2>2. CASE Kept(p, "work")
    <3>1. Noted(p, "unit", o.units) /\ r.units = o.units /\ Noted(p, "job", o.jobs) /\ r.jobs = o.jobs
      BY <2>2 DEF OthersNoted, Kept
    <3> QED
      BY <2>2, <3>1, KeptNotes DEF Noted
  <2>3. CASE Fresh(p, "work")
    <3>1. r.units = ActiveUnits /\ r.jobs = Jobs
      BY <2>3, FreshGives DEF Given, ReadStep
    <3>2. /\ <<"foreign", "unit">> \in ActiveUnits <=> <<"foreign", "unit">> \in off
          /\ <<"foreign", "job">> \in Jobs <=> <<"foreign", "job">> \in off
      BY ForeignFacts
    <3>3. "unit" \in ForeignKind /\ "job" \in ForeignKind
      BY DEF ForeignKind
    <3> QED
      BY <2>3, <3>1, <3>2, <3>3, FreshNotes DEF Noted
  <2> QED
    BY <2>1, <2>2, <2>3
<1>4. ASSUME Taken(p, "processes")' PROVE Noted(p, "process", obs[p].processes)'
  <2>1. Kept(p, "processes") \/ Fresh(p, "processes")
    BY <1>1, <1>4, ObservationSteps DEF ReadStep
  <2>2. CASE Kept(p, "processes")
    <3>1. Noted(p, "process", o.processes) /\ r.processes = o.processes
      BY <2>2 DEF OthersNoted, Kept
    <3> QED
      BY <2>2, <3>1, KeptNotes DEF Noted
  <2>3. CASE Fresh(p, "processes")
    <3>1. r.processes = Processes
      BY <2>3, FreshGives DEF Given, ReadStep
    <3>2. <<"foreign", "process">> \in Processes <=> <<"foreign", "process">> \in off
      BY ForeignFacts
    <3>3. "process" \in ForeignKind
      BY DEF ForeignKind
    <3> QED
      BY <2>3, <3>1, <3>2, <3>3, FreshNotes DEF Noted
  <2> QED
    BY <2>1, <2>2, <2>3
<1>5. ASSUME Taken(p, "lifecycle")', <<"foreign", "api">> \in stood'[p] PROVE r.api
  <2>1. Kept(p, "lifecycle") \/ Fresh(p, "lifecycle")
    BY <1>1, <1>5, ObservationSteps DEF ReadStep
  <2>2. CASE Kept(p, "lifecycle")
    BY <1>5, <2>2 DEF OthersNoted, Kept
  <2>3. CASE Fresh(p, "lifecycle")
    <3>1. r.api = PodmanApi(off)
      BY <2>3, FreshGives DEF Given, ReadStep
    <3>2. <<"foreign", "api">> \in off
      BY <1>5, <2>3 DEF Fresh
    <3> QED
      BY <3>1, <3>2, ForeignFacts
  <2> QED
    BY <2>1, <2>2, <2>3
<1> QED
  BY <1>2, <1>3, <1>4, <1>5

-----------------------------------------------------------------------------
(* A judgement of more deviations holds of fewer.                          *)

LEMMA CleanOfFewer ==
  ASSUME NEW S, NEW T, S \subseteq T, NEW x, NEW points, Clean(x, points, T)
  PROVE  Clean(x, points, S)
BY DEF Clean

LEMMA JudgedOfFewer ==
  ASSUME NEW S, NEW T, S \subseteq T
  PROVE  /\ AdmitCollectionContext(T) => AdmitCollectionContext(S)
         /\ CUnits(T) => CUnits(S)
         /\ CServices(T) => CServices(S)
         /\ CRuntime(T) => CRuntime(S)
         /\ \A x \in Role : CContainer(x, T) => CContainer(x, S)
         /\ \A x \in Role : CBinding(x, T) => CBinding(x, S)
         /\ CNetworks(T) => CNetworks(S)
         /\ CAardvark(T) => CAardvark(S)
         /\ CSockets(T) => CSockets(S)
         /\ ~PodmanApi(T) => ~PodmanApi(S)
         /\ CWork(T, FALSE) => CWork(S, FALSE)
         /\ NetworkOnline(T) => NetworkOnline(S)
         /\ CProcesses(T) => CProcesses(S)
<1>1. \A x, points : Clean(x, points, T) => Clean(x, points, S)
  BY CleanOfFewer
<1>2. AdmitCollectionContext(T) => AdmitCollectionContext(S)
  BY <1>1 DEF AdmitCollectionContext, CheckoutTreeClean
<1>3. CUnits(T) => CUnits(S)
  BY <1>1 DEF CUnits
<1>4. CServices(T) => CServices(S)
  BY <1>1 DEF CServices, QuadletSource, ServiceEnvironment, ServiceExecution, ExecStart
<1>5. CRuntime(T) => CRuntime(S)
  BY <1>1 DEF CRuntime
<1>6. ASSUME NEW x \in Role, CContainer(x, T) PROVE CContainer(x, S)
  <2>1. CInspection(x, S)
    BY <1>1, <1>6 DEF CContainer, CInspection
  <2>2. CShapes(x, S)
    BY <1>1, <1>6 DEF CContainer, CShapes
  <2>3. CEvents(x, S)
    BY <1>1, <1>6 DEF CContainer, CEvents
  <2>4. CNamespaceOptions(x, S)
    BY <1>1, <1>6 DEF CContainer, CNamespaceOptions
  <2>5. CNamespace(x, S)
    BY <1>1, <1>6 DEF CContainer, CNamespace
  <2>6. CProcess(x, S)
    BY <1>1, <1>6 DEF CContainer, CProcess
  <2>7. CEndpoints(x, S)
    BY <1>1, <1>6 DEF CContainer, CEndpoints
  <2> QED
    BY <2>1, <2>2, <2>3, <2>4, <2>5, <2>6, <2>7 DEF CContainer
<1>7. ASSUME NEW x \in Role, CBinding(x, T) PROVE CBinding(x, S)
  BY <1>1, <1>7 DEF CBinding
<1>8. CNetworks(T) => CNetworks(S)
  BY <1>1 DEF CNetworks
<1>9. CAardvark(T) => CAardvark(S)
  BY <1>1 DEF CAardvark, AardvarkFiles
<1>10. CSockets(T) => CSockets(S)
  BY <1>1 DEF CSockets
<1>11. ~PodmanApi(T) => ~PodmanApi(S)
  BY <1>1 DEF PodmanApi, UnitIsTrusted
<1>12. CWork(T, FALSE) => CWork(S, FALSE)
  BY <1>1 DEF CWork, ScopesAreQuiescent
<1>14. NetworkOnline(T) => NetworkOnline(S)
  BY <1>1 DEF NetworkOnline
<1>13. CProcesses(T) => CProcesses(S)
  BY <1>1 DEF CProcesses, HelperIsBound
<1> QED
  BY <1>2, <1>3, <1>4, <1>5, <1>6, <1>7, <1>8, <1>9, <1>10, <1>11, <1>12, <1>13, <1>14

LEMMA KeptShows ==
  ASSUME NEW s, Kept("live", s), NEW subjects, Shown(subjects)
  PROVE  Shown(subjects)'
<1> DEFINE S == stood["live"]
           T == stood'["live"]
           o == obs["live"].seen
           r == obs'["live"].seen
<1>1. T \subseteq S /\ o \subseteq r /\ {d \in S : d[1] \in subjects} \subseteq o
  BY DEF Kept, Shown
<1> HIDE DEF S, T, o, r
<1>2. {d \in T : d[1] \in subjects} \subseteq r
  BY <1>1
<1> QED
  BY <1>2 DEF Shown, T, r

LEMMA FreshShows ==
  ASSUME NEW s, Fresh("live", s), NEW subjects, SeenOf(subjects) \subseteq obs'["live"].seen
  PROVE  Shown(subjects)'
<1> DEFINE T == stood'["live"]
           r == obs'["live"].seen
<1>1. T \subseteq off /\ {d \in off : d[1] \in subjects} \subseteq r
  BY DEF Fresh, SeenOf
<1> HIDE DEF T, r
<1>2. {d \in T : d[1] \in subjects} \subseteq r
  BY <1>1
<1> QED
  BY <1>2 DEF Shown, T, r

\* The first step of the collector, as its other ones.
LEMMA ContextStep ==
  ASSUME HostTypes, Paced, InOrder, Windows, [Next]_vars, Taken("live", "context")',
         Taken("live", "context") => AdmitCollectionContext(stood["live"])
  PROVE  AdmitCollectionContext(stood'["live"])
<1> DEFINE S == stood["live"]
           T == stood'["live"]
<1>0. "live" \in ObsPhase
  BY DEF ObsPhase
<1>1. /\ Moves
      /\ \A q \in Phases : Rank(phase) <= Rank(q) => status[q] = "not run"
      /\ "live" \in Phases \ {"prepare", "cleanup"}
  BY QualificationMoves, PhasesAre DEF InOrder
<1>2. /\ phase # "live" => phase' # "live" /\ Taken("live", "context")
      /\ phase = "live" /\ ~Taken("live", "context") => "context" = Head(todo) /\ todo # <<>>
  BY <1>1, TakenStep, ObservationSteps
<1>3. /\ phase = "live" => T \subseteq S
      /\ phase # "live" /\ phase' # "live" => T = S
  BY <1>0, RememberStep
<1>4. T \subseteq S
  BY <1>2, <1>3
<1>5. CASE Taken("live", "context")
  <2> HIDE DEF S, T
  <2>1. AdmitCollectionContext(S)
    BY <1>5 DEF S
  <2>2. AdmitCollectionContext(T)
    BY <1>4, <2>1, JudgedOfFewer
  <2> QED
    BY <2>2 DEF T
<1>6. CASE ~Taken("live", "context")
  <2>1. phase = "live" /\ AtStep("context")
    BY <1>2, <1>6 DEF AtStep
  <2>2. ~Ended("failed") /\ (Collect \/ Stays)
    BY <1>0, <2>1, OnlyCollectorTakes
  <2>3. Stays => Taken("live", "context")
    BY DEF Stays, Taken, Pending
  <2>4. AdmitCollectionContext(off)
    BY <1>6, <2>1, <2>2, <2>3, CollectIs
  <2>5. S \subseteq off
    BY <2>1 DEF Windows, InWindow, Window
  <2> HIDE DEF S, T
  <2>6. AdmitCollectionContext(T)
    BY <1>4, <2>4, <2>5, JudgedOfFewer
  <2> QED
    BY <2>6 DEF T
<1> QED
  BY <1>5, <1>6

LEMMA LiveStep == HostTypes /\ Paced /\ InOrder /\ Windows /\ LiveJudged /\ [Next]_vars => LiveJudged'
<1> SUFFICES ASSUME HostTypes, Paced, InOrder, Windows, LiveJudged, [Next]_vars PROVE LiveJudged'
  OBVIOUS
<1> DEFINE o == obs["live"]
           r == obs'["live"]
           S == stood["live"]
           T == stood'["live"]
<1>0. "live" \in ObsPhase
  BY DEF ObsPhase
<1>1. ASSUME NEW s \in ReadStep, Has("live", s), Taken("live", s)'
      PROVE  \/ Kept("live", s) /\ Taken("live", s) /\ T \subseteq S /\ (r.complete => o.complete)
             \/ Fresh("live", s) /\ T \subseteq off
  <2>1. Kept("live", s) \/ Fresh("live", s)
    BY <1>0, <1>1, Collected
  <2> QED
    BY <2>1 DEF Kept, Fresh
<1>2. Taken("live", "context")' => AdmitCollectionContext(T)
  BY ContextStep DEF LiveJudged
<1>3. ASSUME Taken("live", "units")' PROVE Shown({"unit"})' /\ (r.complete => CUnits(T))
  <2>1. \/ Kept("live", "units") /\ Taken("live", "units") /\ T \subseteq S /\ (r.complete => o.complete)
        \/ Fresh("live", "units") /\ T \subseteq off
    BY <1>0, <1>1, <1>3, ObservationSteps DEF ReadStep
  <2>2. CASE Kept("live", "units") /\ Taken("live", "units") /\ T \subseteq S /\ (r.complete => o.complete)
    <3>1. Shown({"unit"}) /\ (o.complete => CUnits(S))
      BY <2>2 DEF LiveJudged
    <3>2. Shown({"unit"})'
      BY <2>2, <3>1, KeptShows
    <3>3. (r.complete => CUnits(T))
      <4> HIDE DEF o, r, S, T
      <4> QED
        BY <2>2, <3>1, JudgedOfFewer
    <3> QED
      BY <3>2, <3>3
  <2>3. CASE Fresh("live", "units") /\ T \subseteq off
    <3>1. Given(r, "units")
      BY <2>3, FreshGives DEF ReadStep
    <3>2. SeenOf({"unit"}) \subseteq r.seen
      BY <3>1 DEF Given
    <3>3. Shown({"unit"})'
      BY <2>3, <3>2, FreshShows
    <3>4. (r.complete => CUnits(off))
      BY <3>1 DEF Given
    <3>5. (r.complete => CUnits(T))
      <4> HIDE DEF r, T
      <4> QED
        BY <2>3, <3>4, JudgedOfFewer
    <3> QED
      BY <3>3, <3>5
  <2> QED
    BY <2>1, <2>2, <2>3
<1>4. ASSUME Taken("live", "generated")' PROVE Shown(Kind)' /\ (r.complete => CServices(T))
  <2>1. \/ Kept("live", "generated") /\ Taken("live", "generated") /\ T \subseteq S /\ (r.complete => o.complete)
        \/ Fresh("live", "generated") /\ T \subseteq off
    BY <1>0, <1>1, <1>4, ObservationSteps DEF ReadStep
  <2>2. CASE Kept("live", "generated") /\ Taken("live", "generated") /\ T \subseteq S /\ (r.complete => o.complete)
    <3>1. Shown(Kind) /\ (o.complete => CServices(S))
      BY <2>2 DEF LiveJudged
    <3>2. Shown(Kind)'
      BY <2>2, <3>1, KeptShows
    <3>3. (r.complete => CServices(T))
      <4> HIDE DEF o, r, S, T
      <4> QED
        BY <2>2, <3>1, JudgedOfFewer
    <3> QED
      BY <3>2, <3>3
  <2>3. CASE Fresh("live", "generated") /\ T \subseteq off
    <3>1. Given(r, "generated")
      BY <2>3, FreshGives DEF ReadStep
    <3>2. SeenOf(Kind) \subseteq r.seen
      BY <3>1 DEF Given
    <3>3. Shown(Kind)'
      BY <2>3, <3>2, FreshShows
    <3>4. (r.complete => CServices(off))
      BY <3>1 DEF Given
    <3>5. (r.complete => CServices(T))
      <4> HIDE DEF r, T
      <4> QED
        BY <2>3, <3>4, JudgedOfFewer
    <3> QED
      BY <3>3, <3>5
  <2> QED
    BY <2>1, <2>2, <2>3
<1>5. ASSUME Taken("live", "runtime")' PROVE Shown({"runtime"})' /\ (r.complete => CRuntime(T))
  <2>1. \/ Kept("live", "runtime") /\ Taken("live", "runtime") /\ T \subseteq S /\ (r.complete => o.complete)
        \/ Fresh("live", "runtime") /\ T \subseteq off
    BY <1>0, <1>1, <1>5, ObservationSteps DEF ReadStep
  <2>2. CASE Kept("live", "runtime") /\ Taken("live", "runtime") /\ T \subseteq S /\ (r.complete => o.complete)
    <3>1. Shown({"runtime"}) /\ (o.complete => CRuntime(S))
      BY <2>2 DEF LiveJudged
    <3>2. Shown({"runtime"})'
      BY <2>2, <3>1, KeptShows
    <3>3. (r.complete => CRuntime(T))
      <4> HIDE DEF o, r, S, T
      <4> QED
        BY <2>2, <3>1, JudgedOfFewer
    <3> QED
      BY <3>2, <3>3
  <2>3. CASE Fresh("live", "runtime") /\ T \subseteq off
    <3>1. Given(r, "runtime")
      BY <2>3, FreshGives DEF ReadStep
    <3>2. SeenOf({"runtime"}) \subseteq r.seen
      BY <3>1 DEF Given
    <3>3. Shown({"runtime"})'
      BY <2>3, <3>2, FreshShows
    <3>4. (r.complete => CRuntime(off))
      BY <3>1 DEF Given
    <3>5. (r.complete => CRuntime(T))
      <4> HIDE DEF r, T
      <4> QED
        BY <2>3, <3>4, JudgedOfFewer
    <3> QED
      BY <3>3, <3>5
  <2> QED
    BY <2>1, <2>2, <2>3
<1>6. ASSUME Taken("live", "containers")' PROVE Shown(Role)' /\ (r.complete => \A x \in Role : CContainer(x, T))
  <2>1. \/ Kept("live", "containers") /\ Taken("live", "containers") /\ T \subseteq S /\ (r.complete => o.complete)
        \/ Fresh("live", "containers") /\ T \subseteq off
    BY <1>0, <1>1, <1>6, ObservationSteps DEF ReadStep
  <2>2. CASE Kept("live", "containers") /\ Taken("live", "containers") /\ T \subseteq S /\ (r.complete => o.complete)
    <3>1. Shown(Role) /\ (o.complete => \A x \in Role : CContainer(x, S))
      BY <2>2 DEF LiveJudged
    <3>2. Shown(Role)'
      BY <2>2, <3>1, KeptShows
    <3>3. (r.complete => \A x \in Role : CContainer(x, T))
      <4> HIDE DEF o, r, S, T
      <4> QED
        BY <2>2, <3>1, JudgedOfFewer
    <3> QED
      BY <3>2, <3>3
  <2>3. CASE Fresh("live", "containers") /\ T \subseteq off
    <3>1. Given(r, "containers")
      BY <2>3, FreshGives DEF ReadStep
    <3>2. SeenOf(Role) \subseteq r.seen
      BY <3>1 DEF Given
    <3>3. Shown(Role)'
      BY <2>3, <3>2, FreshShows
    <3>4. (r.complete => \A x \in Role : CContainer(x, off))
      BY <3>1 DEF Given
    <3>5. (r.complete => \A x \in Role : CContainer(x, T))
      <4> HIDE DEF r, T
      <4> QED
        BY <2>3, <3>4, JudgedOfFewer
    <3> QED
      BY <3>3, <3>5
  <2> QED
    BY <2>1, <2>2, <2>3
<1>7. ASSUME Taken("live", "bindings")' PROVE (r.complete => \A x \in Role : CBinding(x, T))
  <2>1. \/ Kept("live", "bindings") /\ Taken("live", "bindings") /\ T \subseteq S /\ (r.complete => o.complete)
        \/ Fresh("live", "bindings") /\ T \subseteq off
    BY <1>0, <1>1, <1>7, ObservationSteps DEF ReadStep
  <2>2. CASE Kept("live", "bindings") /\ Taken("live", "bindings") /\ T \subseteq S /\ (r.complete => o.complete)
    <3>1. (o.complete => \A x \in Role : CBinding(x, S))
      BY <2>2 DEF LiveJudged
    <3>3. (r.complete => \A x \in Role : CBinding(x, T))
      <4> HIDE DEF o, r, S, T
      <4> QED
        BY <2>2, <3>1, JudgedOfFewer
    <3> QED
      BY <3>3
  <2>3. CASE Fresh("live", "bindings") /\ T \subseteq off
    <3>1. Given(r, "bindings")
      BY <2>3, FreshGives DEF ReadStep
    <3>4. (r.complete => \A x \in Role : CBinding(x, off))
      BY <3>1 DEF Given
    <3>5. (r.complete => \A x \in Role : CBinding(x, T))
      <4> HIDE DEF r, T
      <4> QED
        BY <2>3, <3>4, JudgedOfFewer
    <3> QED
      BY <3>5
  <2> QED
    BY <2>1, <2>2, <2>3
<1>8. ASSUME Taken("live", "networks")' PROVE (r.complete => CNetworks(T) /\ CAardvark(T))
  <2>1. \/ Kept("live", "networks") /\ Taken("live", "networks") /\ T \subseteq S /\ (r.complete => o.complete)
        \/ Fresh("live", "networks") /\ T \subseteq off
    BY <1>0, <1>1, <1>8, ObservationSteps DEF ReadStep
  <2>2. CASE Kept("live", "networks") /\ Taken("live", "networks") /\ T \subseteq S /\ (r.complete => o.complete)
    <3>1. (o.complete => CNetworks(S) /\ CAardvark(S))
      BY <2>2 DEF LiveJudged
    <3>3. (r.complete => CNetworks(T) /\ CAardvark(T))
      <4> HIDE DEF o, r, S, T
      <4> QED
        BY <2>2, <3>1, JudgedOfFewer
    <3> QED
      BY <3>3
  <2>3. CASE Fresh("live", "networks") /\ T \subseteq off
    <3>1. Given(r, "networks")
      BY <2>3, FreshGives DEF ReadStep
    <3>4. (r.complete => CNetworks(off) /\ CAardvark(off))
      BY <3>1 DEF Given
    <3>5. (r.complete => CNetworks(T) /\ CAardvark(T))
      <4> HIDE DEF r, T
      <4> QED
        BY <2>3, <3>4, JudgedOfFewer
    <3> QED
      BY <3>5
  <2> QED
    BY <2>1, <2>2, <2>3
<1>9. ASSUME Taken("live", "lifecycle")' PROVE (r.complete => CSockets(T)) /\ (~r.api => ~PodmanApi(T))
  <2>1. \/ Kept("live", "lifecycle") /\ Taken("live", "lifecycle") /\ T \subseteq S /\ (r.complete => o.complete)
        \/ Fresh("live", "lifecycle") /\ T \subseteq off
    BY <1>0, <1>1, <1>9, ObservationSteps DEF ReadStep
  <2>2. CASE Kept("live", "lifecycle") /\ Taken("live", "lifecycle") /\ T \subseteq S /\ (r.complete => o.complete)
    <3>1. (o.complete => CSockets(S)) /\ (~o.api => ~PodmanApi(S)) /\ r.api = o.api
      BY <2>2 DEF LiveJudged, Kept
    <3>3. (r.complete => CSockets(T)) /\ (~r.api => ~PodmanApi(T))
      <4> HIDE DEF o, r, S, T
      <4> QED
        BY <2>2, <3>1, JudgedOfFewer
    <3> QED
      BY <3>3
  <2>3. CASE Fresh("live", "lifecycle") /\ T \subseteq off
    <3>1. Given(r, "lifecycle")
      BY <2>3, FreshGives DEF ReadStep
    <3>4. (r.complete => CSockets(off)) /\ (~r.api => ~PodmanApi(off))
      BY <3>1 DEF Given
    <3>5. (r.complete => CSockets(T)) /\ (~r.api => ~PodmanApi(T))
      <4> HIDE DEF r, T
      <4> QED
        BY <2>3, <3>4, JudgedOfFewer
    <3> QED
      BY <3>5
  <2> QED
    BY <2>1, <2>2, <2>3
<1>10. ASSUME Taken("live", "work")' PROVE Shown({"timers"})' /\ (r.complete => CWork(T, FALSE) /\ (Fixture("online") \in r.units => NetworkOnline(T)))
  <2>1. \/ Kept("live", "work") /\ Taken("live", "work") /\ T \subseteq S /\ (r.complete => o.complete)
        \/ Fresh("live", "work") /\ T \subseteq off
    BY <1>0, <1>1, <1>10, ObservationSteps DEF ReadStep
  <2>2. CASE Kept("live", "work") /\ Taken("live", "work") /\ T \subseteq S /\ (r.complete => o.complete)
    <3>1. Shown({"timers"}) /\ (o.complete => CWork(S, FALSE) /\ (Fixture("online") \in o.units => NetworkOnline(S))) /\ r.units = o.units
      BY <2>2 DEF LiveJudged, Kept
    <3>2. Shown({"timers"})'
      BY <2>2, <3>1, KeptShows
    <3>3. (r.complete => CWork(T, FALSE) /\ (Fixture("online") \in r.units => NetworkOnline(T)))
      <4> HIDE DEF o, r, S, T
      <4> QED
        BY <2>2, <3>1, JudgedOfFewer
    <3> QED
      BY <3>2, <3>3
  <2>3. CASE Fresh("live", "work") /\ T \subseteq off
    <3>1. Given(r, "work")
      BY <2>3, FreshGives DEF ReadStep
    <3>2. SeenOf({"timers"}) \subseteq r.seen
      BY <3>1 DEF Given
    <3>3. Shown({"timers"})'
      BY <2>3, <3>2, FreshShows
    <3>6. Fixture("online") \in ActiveUnits <=> online
      BY DEF ActiveUnits, Fixture, There
    <3>7. r.units = ActiveUnits /\ online \in BOOLEAN /\ (r.complete => CWork(off, online))
      BY <3>1 DEF Given, HostTypes
    <3>4. (r.complete => CWork(off, FALSE) /\ (Fixture("online") \in r.units => NetworkOnline(off)))
      <4> HIDE DEF r
      <4> QED
        BY <3>6, <3>7 DEF CWork
    <3>5. (r.complete => CWork(T, FALSE) /\ (Fixture("online") \in r.units => NetworkOnline(T)))
      <4> HIDE DEF r, T
      <4> QED
        BY <2>3, <3>4, JudgedOfFewer
    <3> QED
      BY <3>3, <3>5
  <2> QED
    BY <2>1, <2>2, <2>3
<1>11. ASSUME Taken("live", "processes")' PROVE Shown({"processes"})' /\ (r.complete => CProcesses(T))
  <2>1. \/ Kept("live", "processes") /\ Taken("live", "processes") /\ T \subseteq S /\ (r.complete => o.complete)
        \/ Fresh("live", "processes") /\ T \subseteq off
    BY <1>0, <1>1, <1>11, ObservationSteps DEF ReadStep
  <2>2. CASE Kept("live", "processes") /\ Taken("live", "processes") /\ T \subseteq S /\ (r.complete => o.complete)
    <3>1. Shown({"processes"}) /\ (o.complete => CProcesses(S))
      BY <2>2 DEF LiveJudged
    <3>2. Shown({"processes"})'
      BY <2>2, <3>1, KeptShows
    <3>3. (r.complete => CProcesses(T))
      <4> HIDE DEF o, r, S, T
      <4> QED
        BY <2>2, <3>1, JudgedOfFewer
    <3> QED
      BY <3>2, <3>3
  <2>3. CASE Fresh("live", "processes") /\ T \subseteq off
    <3>1. Given(r, "processes")
      BY <2>3, FreshGives DEF ReadStep
    <3>2. SeenOf({"processes"}) \subseteq r.seen
      BY <3>1 DEF Given
    <3>3. Shown({"processes"})'
      BY <2>3, <3>2, FreshShows
    <3>4. (r.complete => CProcesses(off))
      BY <3>1 DEF Given
    <3>5. (r.complete => CProcesses(T))
      <4> HIDE DEF r, T
      <4> QED
        BY <2>3, <3>4, JudgedOfFewer
    <3> QED
      BY <3>3, <3>5
  <2> QED
    BY <2>1, <2>2, <2>3
<1>12. ASSUME Taken("live", "search path")' PROVE Shown({"manager"})'
  <2>1. \/ Kept("live", "search path") /\ Taken("live", "search path") /\ T \subseteq S /\ (r.complete => o.complete)
        \/ Fresh("live", "search path") /\ T \subseteq off
    BY <1>0, <1>1, <1>12, ObservationSteps DEF ReadStep
  <2>2. CASE Kept("live", "search path") /\ Taken("live", "search path") /\ T \subseteq S /\ (r.complete => o.complete)
    <3>1. Shown({"manager"})
      BY <2>2 DEF LiveJudged
    <3>2. Shown({"manager"})'
      BY <2>2, <3>1, KeptShows
    <3> QED
      BY <3>2
  <2>3. CASE Fresh("live", "search path") /\ T \subseteq off
    <3>1. Given(r, "search path")
      BY <2>3, FreshGives DEF ReadStep
    <3>2. SeenOf({"manager"}) \subseteq r.seen
      BY <3>1 DEF Given
    <3>3. Shown({"manager"})'
      BY <2>3, <3>2, FreshShows
    <3> QED
      BY <3>3
  <2> QED
    BY <2>1, <2>2, <2>3
<1> QED
  BY <1>2, <1>3, <1>4, <1>5, <1>6, <1>7, <1>8, <1>9, <1>10, <1>11, <1>12 DEF LiveJudged

-----------------------------------------------------------------------------
(* The activation: its window opens with the step that reads the           *)
(* generators, before any of its judgements, and closes after the last.    *)

Judging == {"generator", "prepared", "target", "services"}
Judgement(s, off_) ==
  /\ s = "generator" => EnvironmentGenerator(off_)
  /\ s = "prepared" => ManagerEnvironment(off_)
  /\ s = "target" => TargetActivation(off_)
  /\ s = "services" => ServiceActivation(off_)

LEMMA NormalizeLiveAt ==
  /\ Steps("normalize live")[1] = "context" /\ Steps("normalize live")[2] = "stop"
  /\ Steps("normalize live")[3] = "generator" /\ Steps("normalize live")[4] = "replace"
  /\ Steps("normalize live")[5] = "prepared" /\ Steps("normalize live")[6] = "reload"
  /\ Steps("normalize live")[7] = "observed" /\ Steps("normalize live")[8] = "target"
  /\ Steps("normalize live")[9] = "services" /\ Steps("normalize live")[10] = "start"
  /\ Steps("normalize live")[11] = "activated" /\ Steps("normalize live")[12] = "search path"
<1> DEFINE t == <<"context", "stop", "generator", "replace", "prepared", "reload", "observed", "target",
                  "services", "start", "activated", "search path">>
<1>1. /\ t[1] = "context" /\ t[2] = "stop" /\ t[3] = "generator" /\ t[4] = "replace" /\ t[5] = "prepared"
      /\ t[6] = "reload" /\ t[7] = "observed" /\ t[8] = "target" /\ t[9] = "services" /\ t[10] = "start"
      /\ t[11] = "activated" /\ t[12] = "search path"
  OBVIOUS
<1>2. Steps("normalize live") = t
  BY NormalizeLiveSteps
<1> HIDE DEF t
<1> QED
  BY <1>1, <1>2

LEMMA JudgingSteps ==
  /\ \A s \in Judging : \E k \in 3 .. 9 : Steps("normalize live")[k] = s
  /\ \A s \in Judging, k \in 1 .. 12 : Steps("normalize live")[k] = s => k \in 3 .. 9
  /\ \A s \in Judging : Has("normalize live", s)
<1> DEFINE t == Steps("normalize live")
<1>1. /\ t[1] = "context" /\ t[2] = "stop" /\ t[3] = "generator" /\ t[5] = "prepared" /\ t[8] = "target"
      /\ t[9] = "services" /\ t[10] = "start" /\ t[11] = "activated" /\ t[12] = "search path"
  BY NormalizeLiveAt
<1>2. \A s : Has("normalize live", s) <=> \E k \in 1 .. 12 : t[k] = s
  BY NormalizeLiveLasts DEF Has
<1> HIDE DEF t
<1>3. \A s \in Judging : \E k \in 3 .. 9 : t[k] = s
  <2>1. \A k \in {3, 5, 8, 9} : k \in 3 .. 9
    OBVIOUS
  <2> QED
    BY <1>1, <2>1 DEF Judging
<1>4. ASSUME NEW s \in Judging, NEW k \in 1 .. 12, t[k] = s PROVE k \in 3 .. 9
  <2>1. k \in 3 .. 9 \/ k = 1 \/ k = 2 \/ k = 10 \/ k = 11 \/ k = 12
    BY <1>4
  <2> QED
    BY <1>1, <1>4, <2>1 DEF Judging
<1>5. \A s \in Judging : Has("normalize live", s)
  <2>1. \A k \in 3 .. 9 : k \in 1 .. 12
    OBVIOUS
  <2> QED
    BY <1>2, <1>3, <2>1
<1> QED
  BY <1>3, <1>4, <1>5 DEF t

LEMMA Positions ==
  ASSUME NEW m \in 1 .. 12, NEW k \in 3 .. 9
  PROVE  /\ 1 \in 1 .. m /\ 12 - m + 1 \in 1 .. 12
         /\ 12 - m + 1 \in 3 .. 9 => m \in 3 .. 10
         /\ ~(m <= 9) => k - 12 + m \in 1 .. m /\ 12 - m + (k - 12 + m) = k
OBVIOUS

LEMMA SomeSteps ==
  ASSUME NEW S, NEW t \in Seq(S), Len(t) \in 1 .. 12
  PROVE  t # <<>> /\ Head(t) = t[1]
OBVIOUS

LEMMA ActivationPosition ==
  ASSUME HostTypes, Paced, phase = "normalize live", NEW s \in Judging
  PROVE  /\ todo # <<>> /\ Len(todo) \in 1 .. 12
         /\ s \notin Pending => Len(todo) <= 9
         /\ Head(todo) = s => Len(todo) \in 3 .. 10
<1> DEFINE t == Steps("normalize live")
           m == Len(todo)
<1>0. "normalize live" \in Phases
  BY PhasesAre
<1>1. m \in 1 .. 12 /\ \A j \in 1 .. m : todo[j] = t[12 - m + j]
  BY <1>0, NormalizeLiveLasts DEF Paced
<1>01. m \in 1 .. 12
  BY <1>1
<1>02. todo \in Seq(StepName)
  BY DEF HostTypes
<1>2. Pending = {todo[j] : j \in 1 .. m}
  BY DEF Pending
<1>3. todo # <<>> /\ Head(todo) = todo[1]
  BY <1>01, <1>02, SomeSteps
<1>5. PICK k \in 3 .. 9 : t[k] = s
  BY JudgingSteps
<1>6. \A i \in 1 .. 12 : t[i] = s => i \in 3 .. 9
  BY JudgingSteps
<1> HIDE DEF t, m
<1>7. ASSUME s \notin Pending PROVE m <= 9
  <2> SUFFICES ASSUME ~(m <= 9) PROVE FALSE
    OBVIOUS
  <2>1. k - 12 + m \in 1 .. m /\ 12 - m + (k - 12 + m) = k
    BY <1>01, Positions
  <2>2. todo[k - 12 + m] = s
    BY <1>1, <1>5, <2>1
  <2> QED
    BY <1>2, <1>7, <2>1, <2>2
<1>8. ASSUME Head(todo) = s PROVE m \in 3 .. 10
  <2>1. 1 \in 1 .. m /\ 12 - m + 1 \in 1 .. 12
    BY <1>01, Positions
  <2>2. t[12 - m + 1] = s
    BY <1>1, <1>3, <1>8, <2>1
  <2>3. 12 - m + 1 \in 3 .. 9
    BY <1>6, <2>1, <2>2
  <2> QED
    BY <1>01, <2>3, Positions
<1> QED
  BY <1>1, <1>3, <1>7, <1>8 DEF m

LEMMA ActivationOfFewer ==
  ASSUME NEW S, NEW T, S \subseteq T, NEW s, Judgement(s, T)
  PROVE  Judgement(s, S)
<1>1. \A x, points : Clean(x, points, T) => Clean(x, points, S)
  BY CleanOfFewer
<1>2. EnvironmentGenerator(T) => EnvironmentGenerator(S)
  BY <1>1 DEF EnvironmentGenerator
<1>3. ManagerEnvironment(T) => ManagerEnvironment(S)
  BY <1>1 DEF ManagerEnvironment
<1>4. TargetActivation(T) => TargetActivation(S)
  BY <1>1 DEF TargetActivation
<1>5. ServiceActivation(T) => ServiceActivation(S)
  <2>1. NetworkOnline(T) => NetworkOnline(S)
    BY <1>1 DEF NetworkOnline
  <2>2. CompanionsAbsent(T) => CompanionsAbsent(S)
    BY <1>1 DEF CompanionsAbsent
  <2>3. ASSUME NEW k \in Kind PROVE UnitActivation(k, T) => UnitActivation(k, S)
    BY <1>1 DEF UnitActivation, QuadletSource, RuntimeControls, ServiceEnvironment, ServiceExecution, ExecStart
  <2> QED
    BY <2>1, <2>2, <2>3 DEF ServiceActivation
<1> QED
  BY <1>2, <1>3, <1>4, <1>5 DEF Judgement

LEMMA ActivationStep ==
  HostTypes /\ Paced /\ InOrder /\ Windows /\ ActivationJudged /\ [Next]_vars => ActivationJudged'
<1> SUFFICES ASSUME HostTypes, Paced, InOrder, Windows, ActivationJudged, [Next]_vars PROVE ActivationJudged'
  OBVIOUS
<1> DEFINE P == "normalize live"
           S == stood["activation"]
           T == stood'["activation"]
<1>1. ASSUME NEW s \in Judging, Taken(P, s)' PROVE Judgement(s, T)
  <2>1. /\ Moves /\ Has(P, s)
        /\ \A q \in Phases : Rank(phase) <= Rank(q) => status[q] = "not run"
        /\ P \in Phases \ {"prepare", "cleanup"}
    BY QualificationMoves, PhasesAre, JudgingSteps DEF InOrder
  <2>2. /\ phase # P => phase' # P /\ Taken(P, s)
        /\ phase = P /\ ~Taken(P, s) => s = Head(todo) /\ todo # <<>> /\ (Goes \/ Ends("ok"))
        /\ phase = P => Goes \/ Ends("ok") \/ Stays
    BY <1>1, <2>1, TakenStep
  <2>3. Taken(P, s) => Judgement(s, S)
    BY <1>1 DEF ActivationJudged, Judgement, Judging
  <2>4. /\ InWindow("activation") /\ InWindow("activation")' => T \subseteq S
        /\ ~InWindow("activation")' => T \subseteq S
    <3>1. CASE UNCHANGED vars
      BY <3>1 DEF vars
    <3>2. CASE Remember
      <4>1. "activation" \in DOMAIN stood
        BY DEF HostTypes, Window
      <4> QED
        BY <3>2, <4>1 DEF Remember
    <3> QED
      BY <3>1, <3>2 DEF Next
  <2>5. ASSUME Taken(P, s), phase = P, InWindow("activation")' PROVE InWindow("activation")
    <3> DEFINE m == Len(todo)
               n == Len(todo')
    <3>1. s \notin Pending
      BY <2>5 DEF Taken
    <3>2. todo # <<>> /\ m \in 1 .. 12 /\ m <= 9
      BY <2>5, <3>1, ActivationPosition
    <3>3. phase' = P /\ n \in 3 .. 10
      BY <2>5 DEF InWindow
    <3>4. ~Ends("ok")
      <4> SUFFICES ASSUME Ends("ok") PROVE FALSE
        OBVIOUS
      <4>1. PICK q \in Phases \cup {"assemble"} : Begin(q) /\ Rank(phase) < Rank(q)
        BY <2>1, <2>5, EndedBegins DEF Ends, Outcome
      <4> QED
        BY <2>5, <3>3, <4>1, RankIsOrder DEF Begin
    <3>5. todo \in Seq(StepName)
      BY DEF HostTypes
    <3>6. n = m - 1 \/ n = m
      <4>1. Goes => n = m - 1
        BY <3>2, <3>5, TailOfSteps DEF Goes
      <4>2. Stays => n = m
        BY DEF Stays
      <4> QED
        BY <2>2, <2>5, <3>4, <4>1, <4>2
    <3> HIDE DEF m, n
    <3>7. m \in 1 .. 12 /\ m <= 9 /\ n \in 3 .. 10
      BY <3>2, <3>3
    <3>8. m \in 3 .. 10
      BY <3>6, <3>7
    <3> QED
      BY <2>5, <3>8 DEF InWindow, m
  <2>6. CASE Taken(P, s)
    <3>0. phase # P => ~InWindow("activation")'
      BY <2>2 DEF InWindow
    <3>1. T \subseteq S
      BY <2>4, <2>5, <2>6, <3>0
    <3> HIDE DEF S, T
    <3> QED
      BY <2>3, <2>6, <3>1, ActivationOfFewer
  <2>7. CASE ~Taken(P, s)
    <3>1. phase = P /\ s = Head(todo) /\ todo # <<>> /\ (Goes \/ Ends("ok"))
      BY <2>2, <2>7
    <3>2. AtStep(s)
      BY <3>1 DEF AtStep
    <3>3. InWindow("activation")
      BY <3>1, ActivationPosition DEF InWindow
    <3>4. T \subseteq S /\ S \subseteq off
      BY <2>4, <3>3 DEF Windows, Window
    <3>5. ~Ended("failed") /\ ~(UNCHANGED status /\ phase' # phase) /\ ~Stays
      <4>1. status \in [Phases -> {"not run", "ok", "failed"}] /\ status[P] = "not run"
        BY <2>1, <3>1, RankIsReflexive DEF HostTypes
      <4>2. ~(UNCHANGED status /\ phase' # phase)
        BY <1>1, <3>1, <4>1 DEF Taken
      <4>3. ~Stays
        BY <1>1, <2>7 DEF Stays, Taken, Pending
      <4>4. ~Ended("failed")
        <5> SUFFICES ASSUME Ended("failed") PROVE FALSE
          OBVIOUS
        <5>1. PICK q \in Phases \cup {"assemble"} : Begin(q) /\ Rank(phase) < Rank(q)
          BY <2>1, <3>1, EndedBegins DEF Outcome
        <5>2. phase' # P
          BY <3>1, <5>1, RankIsOrder DEF Begin
        <5>3. status'[P] = "failed"
          BY <2>1, <3>1, <4>1 DEF Ended
        <5> QED
          BY <1>1, <5>2, <5>3 DEF Taken
      <4> QED
        BY <4>2, <4>3, <4>4
    <3>6. NormalizationReads
      <4>0. DOMAIN obs = ObsPhase
        BY DEF HostTypes
      <4>1. CASE \/ UNCHANGED vars \/ TargetActivates \/ Installing \/ Deviate \/ Mend \/ AlterEvidence
        BY <3>5, <4>1 DEF vars, runVars, TargetActivates, Installing, Deviate, Mend, AlterEvidence, Stays
      <4>2. CASE PhaseFails
        BY <3>5, <4>2 DEF PhaseFails
      <4>3. CASE Interrupted
        BY <3>1, <3>5, <4>3 DEF Interrupted, Begin
      <4>4. CASE \/ StopExistingUnits \/ ReplaceManagerEnvironment \/ DaemonReload \/ StartTarget
        BY <1>1, <3>2, <4>4 DEF StopExistingUnits, ReplaceManagerEnvironment, DaemonReload, StartTarget, At, AtStep, Judging
      <4>5. CASE \/ PrepareHost \/ Collect \/ TargetRemovesResources \/ TargetCalls \/ TargetReturns \/ TargetEnds
                 \/ Assemble \/ ValidateEvidence
        BY <3>1, <4>0, <4>5 DEF PrepareHost, Collect, TargetRemovesResources, TargetCalls, TargetReturns, TargetEnds,
           Assemble, ValidateEvidence, At, ObsPhase
      <4> QED
        BY <4>1, <4>2, <4>3, <4>4, <4>5 DEF Next
    <3>7. Judgement(s, off)
      <4>1. ~NormalizationRejects
        BY <3>5 DEF NormalizationRejects
      <4> QED
        BY <3>2, <3>6, <4>1, NormalizationReadsMoves DEF Judgement
    <3> HIDE DEF S, T
    <3>8. T \subseteq off
      BY <3>4
    <3> QED
      BY <3>7, <3>8, ActivationOfFewer
  <2> QED
    BY <2>6, <2>7
<1> QED
  BY <1>1 DEF ActivationJudged, Judgement, Judging

-----------------------------------------------------------------------------
(* What is left.  An installation whose units are all on disk has nothing  *)
(* more to write, and from then on units only go.                          *)

LEMMA SealedBegins ==
  ASSUME FInv, files = Of(Instance)
  PROVE  Sealed
<1>1. Units # {} /\ Covered /\ InstallWorks /\ InstallsOnce
  BY FixtureAssumption DEF FInv
<1>2. PICK u \in Units : <<Instance, u>> \in files
  BY <1>1 DEF Of
<1>3. active # NotActive
  BY <1>1, <1>2 DEF Covered
<1>4. ~trigger["install"] /\ service["install"].pc \in {"idle", "write", "roll back", "publish"}
  BY <1>1, <1>3 DEF InstallsOnce
<1>5. active.instance = Instance
  BY <1>1, <1>2 DEF Covered, Of
<1>6. temps = {}
  BY <1>1, <1>5 DEF Covered
<1>7. ASSUME service["install"].pc = "write" PROVE service["install"].todo = {}
  <2>1. active.instance = service["install"].req.instance
    BY <1>1, <1>7 DEF InstallWorks
  <2>2. service["install"].todo = Of(service["install"].req.instance) \ files
    BY <1>1, <1>7 DEF InstallWorks
  <2> QED
    BY <1>5, <2>1, <2>2
<1> QED
  BY <1>4, <1>6, <1>7 DEF Sealed

LEMMA SealedStep == FInv /\ Sealed /\ FixtureNext => Sealed' /\ files' \subseteq files
<1> SUFFICES ASSUME FInv, Sealed, FixtureNext PROVE Sealed' /\ files' \subseteq files
  OBVIOUS
<1>1. /\ trigger \in [Operation -> BOOLEAN] /\ service \in [Operation -> ServiceRecord]
      /\ ~trigger["install"] /\ temps = {}
      /\ service["install"].pc \in {"idle", "publish", "roll back", "write"}
      /\ service["install"].pc = "write" => service["install"].todo = {}
  BY DEF FInv, FixtureTypes, Sealed
<1>2. ASSUME service'["install"] = service["install"], trigger'["install"] = trigger["install"], temps' \subseteq temps
      PROVE  Sealed'
  BY <1>1, <1>2 DEF Sealed
<1>3. \A o \in Operation : o = "install" \/ (o # "install" /\ o = "remove")
  BY DEF Operation
<1>4. CASE StopInstallTrigger \/ CheckInstall \/ RecordInstalling
  BY <1>1, <1>4 DEF StopInstallTrigger, Step, CheckInstall, RecordInstalling
<1>5. CASE WriteUnit
  <2>1. /\ service' = [service EXCEPT !["install"].pc = "publish", !["install"].verdict = "installed"]
        /\ UNCHANGED <<files, temps, trigger>>
    BY <1>1, <1>5 DEF WriteUnit
  <2>2. service'["install"].pc = "publish"
    BY <1>1, <2>1 DEF Operation, ServiceRecord
  <2> QED
    BY <1>1, <2>1, <2>2 DEF Sealed
<1>6. CASE WriteFails
  <2>1. /\ service' = [service EXCEPT !["install"].pc = "roll back",
                                !["install"].todo = files \cap Of(service["install"].req.instance)]
        /\ UNCHANGED <<files, temps, trigger>>
    BY <1>6 DEF WriteFails
  <2>2. service'["install"].pc = "roll back"
    BY <1>1, <2>1 DEF Operation, ServiceRecord
  <2> QED
    BY <1>1, <2>1, <2>2 DEF Sealed
<1>7. CASE RollBack
  <2>1. service["install"].pc = "roll back" /\ UNCHANGED <<temps, trigger>> /\ files' \subseteq files
    BY <1>7 DEF RollBack
  <2>2. service'["install"].pc \in {"roll back", "publish"}
    <3>1. CASE \E u \in service["install"].todo : service' = [service EXCEPT !["install"].todo = @ \ {u}]
      BY <1>1, <2>1, <3>1 DEF Operation, ServiceRecord
    <3>2. CASE Raised("install", service["install"].req.id)
      BY <1>1, <3>2 DEF Raised, Operation, ServiceRecord
    <3> QED
      BY <1>7, <3>1, <3>2 DEF RollBack
  <2> QED
    BY <1>1, <2>1, <2>2 DEF Sealed
<1>8. CASE CheckRemove
  <2>1. service'["install"] = service["install"] /\ UNCHANGED <<trigger, files>>
    BY <1>1, <1>8 DEF CheckRemove, Raised, Operation
  <2>2. temps' \subseteq temps
    BY <1>8 DEF CheckRemove, WithoutInterrupted
  <2> QED
    BY <1>2, <2>1, <2>2
<1>9. CASE Unlink
  <2>1. service'["install"] = service["install"] /\ UNCHANGED <<trigger, temps>> /\ files' \subseteq files
    BY <1>1, <1>9 DEF Unlink, Operation
  <2> QED
    BY <1>2, <2>1
<1>10. CASE UnlinkFails \/ StopRemoveTrigger
  <2>1. service'["install"] = service["install"] /\ trigger'["install"] = trigger["install"] /\ UNCHANGED <<temps, files>>
    BY <1>1, <1>10 DEF UnlinkFails, StopRemoveTrigger, Operation
  <2> QED
    BY <1>2, <2>1
<1>11. CASE ChangeUnit \/ ClientStep \/ ClientLeaves
  <2>1. UNCHANGED <<service, trigger, temps, files>>
    BY <1>11 DEF ChangeUnit, ClientStep, ClientLeaves, ReadResult, WaitExpires, ClientKilled
  <2> QED
    BY <1>2, <2>1
<1>12. CASE \/ \E o \in Operation, i \in Instances, flaws \in SUBSET RequestFlaw : StageRequest(o, i, flaws)
            \/ \E o \in Operation, i \in Instances : StageFails(o, i)
  <2>1. UNCHANGED <<service, trigger, temps, files>>
    BY <1>12 DEF StageRequest, StageFails
  <2> QED
    BY <1>2, <2>1
<1>13. ASSUME NEW o \in Operation, Fire(o) PROVE Sealed' /\ files' \subseteq files
  <2>1. o # "install" /\ UNCHANGED <<temps, files>>
    BY <1>1, <1>13 DEF Fire
  <2>2. service'["install"] = service["install"] /\ trigger'["install"] = trigger["install"]
    BY <1>1, <1>13, <2>1 DEF Fire, Operation
  <2> QED
    BY <1>2, <2>1, <2>2
<1>14. ASSUME NEW o \in Operation, OperationLock(o) \/ ParseRequest(o) PROVE Sealed' /\ files' \subseteq files
  <2>1. o # "install" /\ UNCHANGED <<temps, files, trigger>>
    BY <1>1, <1>14 DEF OperationLock, ParseRequest
  <2>2. service'["install"] = service["install"]
    BY <1>1, <1>14, <2>1 DEF OperationLock, ParseRequest, Step, Raised, Operation
  <2> QED
    BY <1>2, <2>1, <2>2
<1>15. ASSUME NEW o \in Operation, PublishResult(o) \/ ServiceKilled(o) PROVE Sealed' /\ files' \subseteq files
  <2>1. service' = [service EXCEPT ![o] = IdleService] /\ UNCHANGED <<files, trigger>>
    BY <1>15 DEF PublishResult, ServiceKilled
  <2>2. temps' = temps
    <3>1. Temporaries(o) = {{}}
      <4>1. o = "remove" => service[o].pc # "write"
        BY DEF FInv, FixtureTypes, RemovePc
      <4> QED
        BY <1>1, <1>3, <4>1 DEF Temporaries
    <3> QED
      BY <1>15, <3>1 DEF PublishResult, ServiceKilled
  <2>3. CASE o = "install"
    <3>1. service'["install"].pc = "idle"
      BY <1>1, <2>1, <2>3 DEF IdleService
    <3> QED
      BY <1>1, <2>1, <2>2, <3>1 DEF Sealed
  <2>4. CASE o # "install"
    <3>1. service'["install"] = service["install"]
      BY <1>1, <2>1, <2>4 DEF Operation
    <3> QED
      BY <1>2, <2>1, <2>2, <3>1
  <2> QED
    BY <2>3, <2>4
<1> QED
  BY <1>4, <1>5, <1>6, <1>7, <1>8, <1>9, <1>10, <1>11, <1>12, <1>13, <1>14, <1>15 DEF FixtureNext, ServiceStep

\* A step of the last observation has been taken only in it or after it.
LEMMA PostIsLast ==
  ASSUME HostTypes, InOrder, NEW s, Taken("post", s)
  PROVE  phase \in {"post"} \cup Late
<1>1. "post" \in Phases
  BY PhasesAre
<1>2. phase = "post" \/ ~(Rank(phase) <= Rank("post"))
  BY <1>1 DEF Taken, InOrder
<1>3. /\ Rank("host") <= Rank("post") /\ Rank("baseline") <= Rank("post") /\ Rank("prepare") <= Rank("post")
      /\ Rank("normalize live") <= Rank("post") /\ Rank("live") <= Rank("post") /\ Rank("cleanup") <= Rank("post")
      /\ Rank("normalize cleanup") <= Rank("post")
  BY DEF Rank
<1> QED
  BY <1>2, <1>3, PhasesAre DEF HostTypes

\* What the workload has on the host is among the facts.
LEMMA OwnedFacts ==
  /\ \A k \in owned \cap {"containers", "networks", "volumes"} : Fixture(k) \in Inventory
  /\ \A k \in owned \cap {"units", "auxiliary"} : Fixture(k) \in ActiveUnits
  /\ \A k \in owned \cap {"processes", "helpers"} : Fixture(k) \in Processes
  /\ owned = {} => /\ Fixture("units") \notin ActiveUnits /\ Fixture("auxiliary") \notin ActiveUnits
                   /\ Fixture("processes") \notin Processes /\ Fixture("helpers") \notin Processes
<1>1. \A k \in owned \cap {"containers", "networks", "volumes"} : Fixture(k) \in Inventory
  BY DEF Inventory
<1>2. \A k \in owned \cap {"units", "auxiliary"} : Fixture(k) \in ActiveUnits
  BY DEF ActiveUnits
<1>3. \A k \in owned \cap {"processes", "helpers"} : Fixture(k) \in Processes
  BY DEF Processes
<1>4. \A j, k : Fixture(k) \notin There(j)
  BY DEF Fixture, There
<1>5. Fixture("units") # Fixture("online") /\ Fixture("auxiliary") # Fixture("online")
  BY DEF Fixture
<1>6. owned = {} => Fixture("units") \notin ActiveUnits /\ Fixture("auxiliary") \notin ActiveUnits
  BY <1>4, <1>5 DEF ActiveUnits
<1>7. owned = {} => Fixture("processes") \notin Processes /\ Fixture("helpers") \notin Processes
  BY <1>4 DEF Processes
<1> QED
  BY <1>1, <1>2, <1>3, <1>6, <1>7

LEMMA LeftStep ==
  FInv /\ HostTypes /\ Paced /\ InOrder /\ Windows /\ LeftNoted /\ [Next]_vars => LeftNoted'
<1> SUFFICES ASSUME FInv, HostTypes, Paced, InOrder, Windows, LeftNoted, [Next]_vars PROVE LeftNoted'
  OBVIOUS
<1> DEFINE b == obs'["baseline"]
           l == obs'["live"]
           c == obs'["post"]
<1>0. "baseline" \in ObsPhase /\ "live" \in ObsPhase /\ "post" \in ObsPhase
  BY DEF ObsPhase
<1>1. ASSUME NEW p \in ObsPhase, NEW s \in ReadStep, Has(p, s), Taken(p, s)'
      PROVE  Kept(p, s) \/ (Fresh(p, s) /\ phase = p)
  BY <1>1, Collected DEF Fresh
<1>2. FixtureNext
  BY QualificationUsesFixture
<1>3. Sealed => Sealed' /\ files' \subseteq files
  BY <1>2, SealedStep
<1>4. phase \in {"post"} \cup Late => UNCHANGED <<owned, loaded, migrations>>
  BY WorkloadOnHost DEF Unworked
<1>5. ASSUME NEW s \in ReadStep, Has("post", s), Taken("post", s)'
      PROVE  /\ UNCHANGED <<owned, loaded, migrations>> /\ phase \in {"post"} \cup Late
             /\ Kept("post", s) \/ (Fresh("post", s) /\ phase = "post")
  <2>1. Kept("post", s) \/ (Fresh("post", s) /\ phase = "post")
    BY <1>0, <1>1, <1>5
  <2>2. phase \in {"post"} \cup Late
    BY <2>1, PostIsLast DEF Kept
  <2> QED
    BY <1>4, <2>1, <2>2
<1>6. ASSUME Taken("baseline", "work")' PROVE Fixture("units") \notin b.units /\ Fixture("auxiliary") \notin b.units
  <2>1. Kept("baseline", "work") \/ (Fresh("baseline", "work") /\ phase = "baseline")
    BY <1>0, <1>1, <1>6, ObservationSteps DEF ReadStep
  <2>2. CASE Kept("baseline", "work")
    BY <2>2 DEF LeftNoted, Kept
  <2>3. CASE Fresh("baseline", "work") /\ phase = "baseline"
    <3>1. b.units = ActiveUnits
      BY <2>3, FreshGives DEF Given, ReadStep
    <3>2. owned = {}
      BY <2>3 DEF InOrder
    <3> QED
      BY <3>1, <3>2, OwnedFacts
  <2> QED
    BY <2>1, <2>2, <2>3
<1>7. ASSUME Taken("baseline", "processes")'
      PROVE  Fixture("processes") \notin b.processes /\ Fixture("helpers") \notin b.processes
  <2>1. Kept("baseline", "processes") \/ (Fresh("baseline", "processes") /\ phase = "baseline")
    BY <1>0, <1>1, <1>7, ObservationSteps DEF ReadStep
  <2>2. CASE Kept("baseline", "processes")
    BY <2>2 DEF LeftNoted, Kept
  <2>3. CASE Fresh("baseline", "processes") /\ phase = "baseline"
    <3>1. b.processes = Processes
      BY <2>3, FreshGives DEF Given, ReadStep
    <3>2. owned = {}
      BY <2>3 DEF InOrder
    <3> QED
      BY <3>1, <3>2, OwnedFacts
  <2> QED
    BY <2>1, <2>2, <2>3
<1>8. ASSUME Taken("live", "units")', l.complete PROVE Sealed'
  <2>1. Kept("live", "units") \/ Fresh("live", "units")
    BY <1>0, <1>1, <1>8, ObservationSteps DEF ReadStep
  <2>2. CASE Kept("live", "units")
    <3>1. Taken("live", "units") /\ obs["live"].complete
      BY <1>8, <2>2 DEF Kept
    <3> QED
      BY <1>3, <3>1 DEF LeftNoted
  <2>3. CASE Fresh("live", "units")
    <3>1. Of(Instance) = files
      BY <1>8, <2>3, FreshGives DEF Given, ReadStep
    <3> QED
      BY <1>3, <3>1, SealedBegins
  <2> QED
    BY <2>1, <2>2, <2>3
<1>9. ASSUME Taken("post", "lifecycle")' PROVE c.migrations = migrations'
  <2>1. /\ UNCHANGED <<owned, loaded, migrations>>
        /\ Kept("post", "lifecycle") \/ Fresh("post", "lifecycle")
    BY <1>0, <1>5, <1>9, ObservationSteps DEF ReadStep
  <2>2. CASE Kept("post", "lifecycle")
    BY <2>1, <2>2 DEF LeftNoted, Kept
  <2>3. CASE Fresh("post", "lifecycle")
    BY <2>1, <2>3, FreshGives DEF Given, ReadStep
  <2> QED
    BY <2>1, <2>2, <2>3
<1>10. ASSUME Taken("post", "inventory")', NEW k \in owned' \cap {"containers", "networks", "volumes"}
       PROVE  Fixture(k) \in c.inventory
  <2>1. /\ UNCHANGED <<owned, loaded, migrations>>
        /\ Kept("post", "inventory") \/ Fresh("post", "inventory")
    BY <1>0, <1>5, <1>10, ObservationSteps DEF ReadStep
  <2>2. CASE Kept("post", "inventory")
    BY <2>1, <2>2 DEF LeftNoted, Kept
  <2>3. CASE Fresh("post", "inventory")
    <3>1. c.inventory = Inventory
      BY <2>3, FreshGives DEF Given, ReadStep
    <3> QED
      BY <2>1, <3>1, OwnedFacts
  <2> QED
    BY <2>1, <2>2, <2>3
<1>11. ASSUME Taken("post", "work")', NEW k \in owned' \cap {"units", "auxiliary"} PROVE Fixture(k) \in c.units
  <2>1. /\ UNCHANGED <<owned, loaded, migrations>>
        /\ Kept("post", "work") \/ Fresh("post", "work")
    BY <1>0, <1>5, <1>11, ObservationSteps DEF ReadStep
  <2>2. CASE Kept("post", "work")
    BY <2>1, <2>2 DEF LeftNoted, Kept
  <2>3. CASE Fresh("post", "work")
    <3>1. c.units = ActiveUnits
      BY <2>3, FreshGives DEF Given, ReadStep
    <3> QED
      BY <2>1, <3>1, OwnedFacts
  <2> QED
    BY <2>1, <2>2, <2>3
<1>12. ASSUME Taken("post", "processes")', NEW k \in owned' \cap {"processes", "helpers"} PROVE Fixture(k) \in c.processes
  <2>1. /\ UNCHANGED <<owned, loaded, migrations>>
        /\ Kept("post", "processes") \/ Fresh("post", "processes")
    BY <1>0, <1>5, <1>12, ObservationSteps DEF ReadStep
  <2>2. CASE Kept("post", "processes")
    BY <2>1, <2>2 DEF LeftNoted, Kept
  <2>3. CASE Fresh("post", "processes")
    <3>1. c.processes = Processes
      BY <2>3, FreshGives DEF Given, ReadStep
    <3> QED
      BY <2>1, <3>1, OwnedFacts
  <2> QED
    BY <2>1, <2>2, <2>3
<1>13. ASSUME Taken("post", "artifacts")', loaded' PROVE "artifacts" \in c.left
  <2>1. /\ UNCHANGED <<owned, loaded, migrations>>
        /\ Kept("post", "artifacts") \/ Fresh("post", "artifacts")
    BY <1>5, <1>13, ObservationSteps DEF ReadStep
  <2>2. CASE Kept("post", "artifacts")
    BY <1>13, <2>1, <2>2 DEF LeftNoted, Kept
  <2>3. CASE Fresh("post", "artifacts")
    BY <1>13, <2>1, <2>3, FreshGives DEF Given, ReadStep
  <2> QED
    BY <2>1, <2>2, <2>3
<1>14. ASSUME Taken("post", "owned units")', Taken("live", "units")', l.complete PROVE files' = {} \/ "units" \in c.left
  <2>1. /\ phase \in {"post"} \cup Late
        /\ Kept("post", "owned units") \/ Fresh("post", "owned units")
    BY <1>5, <1>14, ObservationSteps DEF ReadStep
  <2>2. Kept("live", "units")
    <3>1. phase # "live"
      BY <2>1 DEF Late
    <3> QED
      BY <1>0, <1>1, <1>14, <3>1, ObservationSteps DEF ReadStep
  <2>3. Taken("live", "units") /\ obs["live"].complete
    BY <1>14, <2>2 DEF Kept
  <2>4. files' \subseteq files
    BY <1>3, <2>3 DEF LeftNoted
  <2>5. CASE Kept("post", "owned units")
    BY <2>3, <2>4, <2>5 DEF LeftNoted, Kept
  <2>6. CASE Fresh("post", "owned units")
    <3>1. files # {} => "units" \in c.left
      BY <2>6, FreshGives DEF Given, ReadStep
    <3> QED
      BY <2>4, <3>1
  <2> QED
    BY <2>1, <2>5, <2>6
<1> QED
  BY <1>6, <1>7, <1>8, <1>9, <1>10, <1>11, <1>12, <1>13, <1>14 DEF LeftNoted

\* A verdict is given once, at the end, from what nothing changes any more.
LEMMA VerdictStep == HostTypes /\ InOrder /\ VerdictHolds /\ [Next]_vars => VerdictHolds'
<1> SUFFICES ASSUME HostTypes, InOrder, VerdictHolds, [Next]_vars, Passed'
             PROVE  (phase = "done" /\ AllOk /\ WorkloadAdmission(ReadObservations))'
  BY DEF VerdictHolds
<1>0. "done" \notin Phases /\ "done" \notin ObsPhase /\ "done" \notin DOMAIN diagnostic
  BY PhasesAre DEF ObsPhase, HostTypes
<1>1. CASE ValidateEvidence
  <2> DEFINE x == Result(ReadObservations)
  <2>1. x = "passed"
    BY <1>1 DEF ValidateEvidence, Recomputed, Passed
  <2>2. WorkloadAdmission(ReadObservations) /\ AllOk
    BY <2>1 DEF Result
  <2>3. UNCHANGED <<status, obs>> /\ phase' = "done"
    BY <1>1 DEF ValidateEvidence
  <2>4. ReadObservations' = ReadObservations /\ AllOk' = AllOk
    BY <2>3 DEF ReadObservations, AllOk
  <2> QED
    BY <2>2, <2>3, <2>4
<1>2. CASE verdict' = verdict
  <2>1. phase = "done" /\ AllOk /\ WorkloadAdmission(ReadObservations)
    BY <1>2 DEF Passed, VerdictHolds
  <2>2. UNCHANGED <<phase, status, obs>>
    <3>1. CASE \/ UNCHANGED vars \/ PrepareHost \/ Interrupted \/ PhaseFails \/ NormalizationReads \/ StopExistingUnits
               \/ ReplaceManagerEnvironment \/ DaemonReload \/ StartTarget \/ Collect
      <4>1. DOMAIN obs = ObsPhase
        BY DEF HostTypes
      <4> QED
        BY <1>0, <2>1, <3>1, <4>1 DEF vars, runVars, PrepareHost, Interrupted, PhaseFails, NormalizationReads, StopExistingUnits,
           ReplaceManagerEnvironment, DaemonReload, StartTarget, Collect, At
    <3>2. CASE \/ TargetRemovesResources \/ TargetCalls \/ TargetReturns \/ TargetEnds \/ TargetActivates
               \/ Installing \/ Deviate \/ Mend \/ Assemble \/ AlterEvidence \/ ValidateEvidence
      BY <1>0, <2>1, <3>2 DEF runVars, TargetRemovesResources, TargetCalls, TargetReturns, TargetEnds, TargetActivates,
         Installing, Deviate, Mend, Assemble, AlterEvidence, ValidateEvidence, At
    <3> QED
      BY <3>1, <3>2 DEF Next
  <2>3. ReadObservations' = ReadObservations /\ AllOk' = AllOk
    BY <2>2 DEF ReadObservations, AllOk
  <2> QED
    BY <2>1, <2>2, <2>3
<1>3. CASE verdict' # verdict
  <2>1. CASE PrepareHost \/ Assemble
    BY <1>3, <2>1 DEF PrepareHost, Assemble, Passed
  <2>2. ASSUME ~PrepareHost, ~Assemble PROVE ValidateEvidence
    <3>1. CASE \/ UNCHANGED vars \/ Interrupted \/ PhaseFails \/ NormalizationReads \/ StopExistingUnits
               \/ ReplaceManagerEnvironment \/ DaemonReload \/ StartTarget \/ Collect
      BY <1>3, <3>1 DEF vars, runVars, Interrupted, PhaseFails, NormalizationReads, StopExistingUnits,
         ReplaceManagerEnvironment, DaemonReload, StartTarget, Collect, Trusted
    <3>2. CASE \/ TargetRemovesResources \/ TargetCalls \/ TargetReturns \/ TargetEnds \/ TargetActivates
               \/ Installing \/ Deviate \/ Mend \/ AlterEvidence
      BY <1>3, <3>2 DEF runVars, TargetRemovesResources, TargetCalls, TargetReturns, TargetEnds, TargetActivates,
         Installing, Deviate, Mend, AlterEvidence
    <3> QED
      BY <2>2, <3>1, <3>2 DEF Next
  <2> QED
    BY <1>1, <2>1, <2>2
<1> QED
  BY <1>2, <1>3

LEMMA QualificationInitially == Init => QInv
<1> SUFFICES ASSUME Init PROVE QInv
  OBVIOUS
<1>1. /\ phase = "host" /\ todo = <<>> /\ status = [p \in Phases |-> "not run"]
      /\ obs = [p \in ObsPhase |-> Nothing] /\ owned = {} /\ online = FALSE /\ loaded = FALSE /\ migrations = 0
      /\ controls = 0 /\ verdict = "none" /\ stood = [w \in Window |-> {}] /\ met = [w \in Window |-> {}]
      /\ off = {"manager"} \X ManagerFlaw
  BY DEF Init, ObsPhase, Window, IncompleteObservation
<1>2. "host" \notin Phases /\ "host" \notin ObsPhase /\ ObsPhase \subseteq Phases /\ "normalize live" \in Phases
  BY PhasesAre DEF ObsPhase
<1>3. \A p \in Phases : \A s : ~Taken(p, s)
  BY <1>1, <1>2 DEF Taken
<1>4. HostTypes
  <2>1. Nothing \in Observation
    BY DEF Nothing, Observation
  <2>2. diagnostic \in [{"normalize live", "normalize cleanup"} -> {"none", "failed", "complete"}]
    BY DEF Init
  <2>3. todo \in Seq(StepName)
    BY <1>1, NoSteps
  <2>4. migrations \in Nat /\ controls \in Nat
    BY <1>1
  <2>5. status \in [Phases -> {"not run", "ok", "failed"}] /\ obs \in [ObsPhase -> Observation]
        /\ stood \in [Window -> SUBSET AnyFlaw] /\ met \in [Window -> SUBSET AnyFlaw]
    BY <1>1, <2>1
  <2>6. off \subseteq AnyFlaw /\ owned \subseteq Owned /\ online \in BOOLEAN /\ loaded \in BOOLEAN
    BY <1>1 DEF AnyFlaw
  <2> QED
    BY <1>1, <2>2, <2>3, <2>4, <2>5, <2>6 DEF HostTypes
<1>5. Paced /\ InOrder
  BY <1>1, <1>2 DEF Paced, InOrder
<1>6. Windows
  BY <1>1 DEF Windows, InWindow, Window
<1>7. OthersNoted /\ LiveJudged /\ ActivationJudged /\ LeftNoted
  BY <1>2, <1>3 DEF OthersNoted, LiveJudged, ActivationJudged, LeftNoted, ObsPhase
<1>8. VerdictHolds
  BY <1>1 DEF VerdictHolds, Passed
<1> QED
  BY <1>4, <1>5, <1>6, <1>7, <1>8 DEF QInv

(* The inductive invariant of the qualification holds.                     *)
THEOREM QualificationHolds == Spec => []QInv
<1>1. Init => QInv
  BY QualificationInitially
<1>2. FInv /\ QInv /\ [Next]_vars => QInv'
  <2> SUFFICES ASSUME FInv, QInv, [Next]_vars PROVE QInv'
    OBVIOUS
  <2>1. HostTypes /\ Paced /\ InOrder /\ Windows /\ OthersNoted /\ LiveJudged /\ ActivationJudged /\ LeftNoted /\ VerdictHolds
    BY DEF QInv
  <2>2. Moves
    BY <2>1, QualificationMoves
  <2>3. HostTypes' /\ Paced'
    BY <2>1, <2>2, TypesStep, MovesKeepPace
  <2>4. InOrder' /\ Windows'
    BY <2>1, OrderStep, WindowsStep
  <2>5. OthersNoted' /\ LiveJudged' /\ ActivationJudged'
    BY <2>1, OthersStep, LiveStep, ActivationStep
  <2>6. LeftNoted' /\ VerdictHolds'
    BY <2>1, LeftStep, VerdictStep
  <2> QED
    BY <2>3, <2>4, <2>5, <2>6 DEF QInv
<1> QED
  BY <1>1, <1>2, FixtureHolds, PTL DEF Spec

-----------------------------------------------------------------------------
(* What a passed qualification means.                                      *)

LEMMA PassedFacts ==
  ASSUME QInv, Passed
  PROVE  /\ WorkloadAdmission(obs)
         /\ \A p \in Phases : \A s : Taken(p, s)
<1>1. phase = "done" /\ AllOk /\ WorkloadAdmission(ReadObservations) /\ obs \in [ObsPhase -> Observation]
  BY DEF QInv, VerdictHolds, HostTypes
<1>2. ObsPhase \subseteq Phases /\ "done" \notin Phases
  BY PhasesAre DEF ObsPhase
<1>3. ReadObservations = obs
  BY <1>1, <1>2 DEF ReadObservations, AllOk
<1> QED
  BY <1>1, <1>2, <1>3 DEF Taken, AllOk

\* Admitted when the workload was started: no deviation that matters then stood throughout.
LEMMA ActivationIsClean ==
  ASSUME NEW S, EnvironmentGenerator(S), ManagerEnvironment(S), TargetActivation(S), ServiceActivation(S)
  PROVE  S \cap ActivationFlaw = {}
<1>1. ({"manager"} \X ManagerFlaw) \cap S = {}
  BY DEF ManagerEnvironment, Clean
<1>2. ({"generator"} \X EnvironmentGeneratorFlaw) \cap S = {}
  BY DEF EnvironmentGenerator, Clean
<1>3. ({"target"} \X TargetFlaw) \cap S = {}
  BY DEF TargetActivation, Clean
<1>4. ({"companion"} \X {"wants", "requires", "unit path"}) \cap S = {}
  BY DEF ServiceActivation, CompanionsAbsent, Clean
<1>5. ({"network-online"} \X {"fragment", "drop-in"}) \cap S = {}
  BY DEF ServiceActivation, NetworkOnline, Clean
<1>6. ASSUME NEW k \in Kind
      PROVE  ({k} \X ({"source exec directive", "fragment path", "generated drop-in",
                       "other drop-in", "dependencies", "exec start"}
                        \cup EnvironmentFlaw \cup ExecutionFlaw(k))) \cap S = {}
  <2>1. UnitActivation(k, S)
    BY DEF ServiceActivation
  <2>2. ({k} \X {"source exec directive"}) \cap S = {}
    BY <2>1 DEF UnitActivation, QuadletSource, Clean
  <2>3. ({k} \X {"fragment path", "generated drop-in", "other drop-in", "dependencies"}) \cap S = {}
    BY <2>1 DEF UnitActivation, RuntimeControls, Clean
  <2>4. ({k} \X EnvironmentFlaw) \cap S = {}
    BY <2>1 DEF UnitActivation, RuntimeControls, ServiceEnvironment, Clean
  <2>5. ({k} \X ExecutionFlaw(k)) \cap S = {}
    BY <2>1 DEF UnitActivation, RuntimeControls, ServiceExecution, Clean
  <2>6. ({k} \X {"exec start"}) \cap S = {}
    BY <2>1 DEF UnitActivation, RuntimeControls, ExecStart, Clean
  <2> QED
    BY <2>2, <2>3, <2>4, <2>5, <2>6
<1> DEFINE U(k) == {k} \X ({"source exec directive", "fragment path", "generated drop-in",
                            "other drop-in", "dependencies", "exec start"}
                              \cup EnvironmentFlaw \cup ExecutionFlaw(k))
           M == {"manager"} \X ManagerFlaw
           G == {"generator"} \X EnvironmentGeneratorFlaw
           T == {"target"} \X TargetFlaw
           C == {"companion"} \X {"wants", "requires", "unit path"}
           N == {"network-online"} \X {"fragment", "drop-in"}
<1>7. ActivationFlaw = M \cup G \cup T \cup C \cup N \cup UNION {U(k) : k \in Kind}
  BY DEF ActivationFlaw
<1>8. M \cap S = {} /\ G \cap S = {} /\ T \cap S = {} /\ C \cap S = {} /\ N \cap S = {} /\ \A k \in Kind : U(k) \cap S = {}
  BY <1>1, <1>2, <1>3, <1>4, <1>5, <1>6
<1> HIDE DEF M, G, T, C, N, U
<1> SUFFICES ASSUME NEW d \in S, d \in ActivationFlaw PROVE FALSE
  OBVIOUS
<1>9. CASE d \in UNION {U(k) : k \in Kind}
  <2>1. PICK k \in Kind : d \in U(k)
    BY <1>9
  <2> QED
    BY <1>8, <2>1
<1>10. CASE d \in M \cup G \cup T \cup C \cup N
  BY <1>8, <1>10
<1> QED
  BY <1>7, <1>9, <1>10

\* A fact that every reader of the document rejects did not stand throughout.
LEMMA ShownIsJudged ==
  ASSUME NEW S, NEW seen, NEW subjects, {d \in S : d[1] \in subjects} \subseteq seen,
         NEW x \in subjects, NEW points, Clean(x, points, seen)
  PROVE  Clean(x, points, S)
<1> SUFFICES ASSUME NEW d \in S, d \in {x} \X points PROVE FALSE
  BY DEF Clean
<1>1. d[1] \in subjects
  OBVIOUS
<1>2. d \in seen
  BY <1>1
<1> QED
  BY <1>2 DEF Clean

\* What the collector and the admission together judge of one container.
LEMMA ContainerIsClean ==
  ASSUME NEW S, NEW r \in Role, CContainer(r, S), CBinding(r, S), AContainer(r, S)
  PROVE  ({r} \X (ContainerShape(r) \cup ContainerFact(r))) \cap S = {}
<1> DEFINE C(points) == \A x \in points : <<r, x>> \notin S
<1>0. ASSUME NEW points, Clean(r, points, S) PROVE C(points)
  BY <1>0 DEF Clean
<1>1. C(InspectionFlaw)
  BY <1>0 DEF CContainer, CInspection
<1>2. C({"mount shape", "tmpfs shape", "command shape"})
  BY <1>0 DEF CContainer, CShapes
<1>3. C({"exec event", "event order"})
  BY <1>0 DEF CContainer, CEvents
<1>4. C({"module option", "two userns options", "mapping controls"})
  BY <1>0 DEF CContainer, CNamespaceOptions
<1>5. r \in ReadyRole => C({"namespace changed", "identity differs"})
  BY <1>0 DEF CContainer, CNamespace
<1>6. r \in ReadyRole => C({"label unreadable"})
  BY <1>0 DEF CContainer, CProcess
<1>7. C({"endpoint", "ipv6 endpoint"})
  BY <1>0 DEF CContainer, CEndpoints
<1>8. r \in ReadyRole => C({"cgroup unreadable"})
  BY <1>0 DEF CBinding
<1>9. r \notin ReadyRole => C({"journal", "lifecycle events"})
  BY <1>0 DEF CBinding
<1>10. C({"privileged", "capabilities", "added groups", "devices", "supplementary groups", "identity", "writable root"})
  BY <1>0 DEF AContainer, APrivileges
<1>11. C({"command"}) /\ C({"image"}) /\ (r # "migrate" => C({"migrates"}))
  BY <1>0 DEF AContainer, AExecution, ImageMatches
<1>12. /\ C({"api mount", "api environment", "host modes", "user namespace", "host network",
             "security options", "seccomp", "auto update"})
       /\ C({"selinux"})
  BY <1>0 DEF AContainer, AIsolation, LabelsMatch
<1>13. C({"service binding", "networks", "restarted", "ports"}) /\ C({"mounts", "tmpfs"})
  BY <1>0 DEF AContainer, ATopology, StorageMatches
<1>14. /\ r \in ReadyRole => C({"not running"})
       /\ r \in HealthyRole => C({"not healthy"})
       /\ r \notin ReadyRole => C({"not exited", "exit code"})
  BY <1>0 DEF AContainer, AState
<1>15. ASSUME NEW x \in ContainerShape(r) PROVE <<r, x>> \notin S
  <2>1. CASE r \in ReadyRole
    BY <1>1, <1>2, <1>3, <1>4, <1>5, <1>6, <1>7, <1>8, <1>15, <2>1 DEF ContainerShape
  <2>2. CASE r \notin ReadyRole
    BY <1>1, <1>2, <1>3, <1>4, <1>7, <1>9, <1>15, <2>2 DEF ContainerShape
  <2> QED
    BY <2>1, <2>2
<1>16. ASSUME NEW x \in ContainerFact(r) PROVE <<r, x>> \notin S
  BY <1>10, <1>11, <1>12, <1>13, <1>14, <1>16 DEF ContainerFact
<1> QED
  BY <1>15, <1>16

\* The same of the generated services of one kind.
LEMMA ServicesAreClean ==
  ASSUME NEW S, CServices(S), AServices(S), NEW k \in Kind
  PROVE  ({k} \X ({"invocation", "environment shape",
                   "source exec directive", "exec start", "fragment path", "fragment owner",
                   "other drop-in", "source path", "environment names", "state"}
                    \cup ServiceFlaw \cup EnvironmentFlaw \cup ExecutionFlaw(k))) \cap S = {}
<1> DEFINE C(points) == \A x \in points : <<k, x>> \notin S
<1>0. ASSUME NEW points, Clean(k, points, S) PROVE C(points)
  BY <1>0 DEF Clean
<1>1. C({"invocation", "environment shape"} \cup ServiceFlaw)
  BY <1>0 DEF CServices
<1>2. C({"source exec directive"}) /\ C(EnvironmentFlaw) /\ C(ExecutionFlaw(k)) /\ C({"exec start"})
  BY <1>0 DEF CServices, QuadletSource, ServiceEnvironment, ServiceExecution, ExecStart
<1>3. C({"fragment path", "fragment owner", "other drop-in"})
  BY <1>0 DEF AServices
<1>4. C({"source path"}) /\ C({"environment names"}) /\ C({"state"})
  BY <1>0 DEF AServices, SourceMatches, EnvironmentNames, StateMatchesRole
<1> DEFINE P == {"invocation", "environment shape",
                 "source exec directive", "exec start", "fragment path", "fragment owner",
                 "other drop-in", "source path", "environment names", "state"}
                  \cup ServiceFlaw \cup EnvironmentFlaw \cup ExecutionFlaw(k)
<1>5. ASSUME NEW x \in P PROVE <<k, x>> \notin S
  BY <1>1, <1>2, <1>3, <1>4, <1>5
<1> HIDE DEF P
<1>6. ({k} \X P) \cap S = {}
  BY <1>5
<1> QED
  BY <1>6 DEF P

\* Disjoint from each of ten sets, disjoint from their union.
LEMMA TenParts ==
  \A S, a, b, c, d, e, f, g, h, i, j :
    /\ a \cap S = {} /\ b \cap S = {} /\ c \cap S = {} /\ d \cap S = {} /\ e \cap S = {}
    /\ f \cap S = {} /\ g \cap S = {} /\ h \cap S = {} /\ i \cap S = {} /\ j \cap S = {}
    => (a \cup b \cup c \cup d \cup e \cup f \cup g \cup h \cup i \cup j) \cap S = {}
OBVIOUS

\* What the collector and the admission leave out together is every live deviation.
LEMMA LiveIsClean ==
  ASSUME NEW S, AdmitCollectionContext(S), CUnits(S), AUnits(S), CServices(S), AServices(S), CRuntime(S), ARuntime(S),
         \A r \in Role : CContainer(r, S) /\ CBinding(r, S) /\ AContainer(r, S),
         CNetworks(S), CAardvark(S), CSockets(S), ~PodmanApi(S), CWork(S, FALSE), AWork(S), NetworkOnline(S),
         CProcesses(S), AProcesses(S), SearchPaths(S)
  PROVE  S \cap LiveFlaw(Roles) = {}
<1>1. ({"unit"} \X {"missing", "extra", "unreadable", "image line", "owner", "mode"}) \cap S = {}
  BY DEF CUnits, AUnits, Clean
<1>2. \A k \in Kind : ({k} \X ServiceDeviation(k)) \cap S = {}
  BY ServicesAreClean DEF ServiceDeviation
<1>3. ({"runtime"} \X {"unreadable", "rootful", "oci runtime"}) \cap S = {}
  BY DEF CRuntime, ARuntime, Clean
<1>4. \A r \in Roles : ({r} \X (ContainerShape(r) \cup ContainerFact(r))) \cap S = {}
  BY ContainerIsClean, QualificationAssumption
<1>5. ({"networks"} \X {"driver", "not internal", "dns", "ipv6", "subnet"}) \cap S = {}
  BY DEF CNetworks, Clean
<1>6. ({"aardvark"} \X {"files", "owner", "record", "changed"}) \cap S = {}
  BY DEF CAardvark, AardvarkFiles, Clean
<1>7. ({"sockets"} \X {"listing", "no bus socket", "untrusted unit", "connection"}) \cap S = {}
  BY DEF CSockets, PodmanApi, UnitIsTrusted, Clean
<1>8. ({"timers"} \X {"timer properties", "timer interval shape", "service properties",
                      "health exec", "check not current", "scopes busy", "missing", "interval",
                      "scopes"}) \cap S = {}
  BY DEF CWork, AWork, ScopesAreQuiescent, HealthFlaw, Clean
<1>9. ({"processes"} \X {"deleted executable", "opaque", "helper arguments", "helper namespace",
                         "outside services", "no helper"}) \cap S = {}
  BY DEF CProcesses, AProcesses, HelperIsBound, HelperIsReviewed, Clean
<1>10. ({"manager"} \X {"search path"}) \cap S = {}
  BY DEF SearchPaths, Clean
<1>11. ({"checkout"} \X (ContextFlaw \cup CheckoutFlaw)) \cap S = {}
  BY DEF AdmitCollectionContext, CheckoutTreeClean, Clean
<1>12. ({"network-online"} \X {"fragment", "drop-in"}) \cap S = {}
  BY DEF NetworkOnline, Clean
<1>13. LiveHostFlaw \cap S = {}
  <2> DEFINE a == {"unit"} \X {"missing", "extra", "unreadable", "image line", "owner", "mode"}
             b == {"runtime"} \X {"unreadable", "rootful", "oci runtime"}
             c == {"networks"} \X {"driver", "not internal", "dns", "ipv6", "subnet"}
             d == {"aardvark"} \X {"files", "owner", "record", "changed"}
             e == {"sockets"} \X {"listing", "no bus socket", "untrusted unit", "connection"}
             f == {"timers"} \X {"timer properties", "timer interval shape", "service properties",
                                 "health exec", "check not current", "scopes busy", "missing", "interval",
                                 "scopes"}
             g == {"processes"} \X {"deleted executable", "opaque", "helper arguments", "helper namespace",
                                    "outside services", "no helper"}
             h == {"manager"} \X {"search path"}
             i == {"checkout"} \X (ContextFlaw \cup CheckoutFlaw)
             j == {"network-online"} \X {"fragment", "drop-in"}
  <2>1. LiveHostFlaw = a \cup b \cup c \cup d \cup e \cup f \cup g \cup h \cup i \cup j
    BY Zenon DEF LiveHostFlaw
  <2>2. /\ a \cap S = {} /\ b \cap S = {} /\ c \cap S = {} /\ d \cap S = {} /\ e \cap S = {}
        /\ f \cap S = {} /\ g \cap S = {} /\ h \cap S = {} /\ i \cap S = {} /\ j \cap S = {}
    BY <1>1, <1>3, <1>5, <1>6, <1>7, <1>8, <1>9, <1>10, <1>11, <1>12, Zenon
  <2> HIDE DEF a, b, c, d, e, f, g, h, i, j
  <2> QED
    BY <2>1, <2>2, TenParts
<1>14. LiveServiceFlaw \cap S = {}
  BY <1>2 DEF LiveServiceFlaw
<1>15. LiveContainerFlaw(Roles) \cap S = {}
  BY <1>4 DEF LiveContainerFlaw
<1> QED
  BY <1>13, <1>14, <1>15 DEF LiveFlaw

(* A commit passes only if no deviation stood throughout the activation or *)
(* throughout the live observation (collect_live(), normalize_quadlet_-    *)
(* runtime() and workload_admission_failures() together leave none out),   *)
(* for every set of roles and whatever happened between two reads.         *)
THEOREM AdmissionIsReviewed == Spec => []AdmittedIsReviewed
<1>1. QInv => AdmittedIsReviewed
  <2> SUFFICES ASSUME QInv, Passed
               PROVE  /\ stood["activation"] \cap ActivationFlaw = {}
                      /\ stood["live"] \cap LiveFlaw(Roles) = {}
    BY DEF AdmittedIsReviewed
  <2>1. WorkloadAdmission(obs) /\ \A p \in Phases : \A s : Taken(p, s)
    BY PassedFacts
  <2>2. \A s : Taken("live", s) /\ Taken("normalize live", s)
    BY <2>1, PhasesAre
  <2>3. stood["activation"] \cap ActivationFlaw = {}
    <3> DEFINE S == stood["activation"]
    <3>1. EnvironmentGenerator(S) /\ ManagerEnvironment(S) /\ TargetActivation(S) /\ ServiceActivation(S)
      BY <2>2 DEF QInv, ActivationJudged
    <3> HIDE DEF S
    <3>2. S \cap ActivationFlaw = {}
      BY <3>1, ActivationIsClean
    <3> QED
      BY <3>2 DEF S
  <2>4. stood["live"] \cap LiveFlaw(Roles) = {}
    <3> DEFINE S == stood["live"]
               l == obs["live"]
               Z == l.seen
    <3>1. /\ l.complete /\ ~l.api /\ AdmitsFacts(l) /\ Fixture("online") \in l.units /\ AWork(Z) /\ AProcesses(Z)
      BY <2>1 DEF WorkloadAdmission, AdmitsWork, AdmitsProcesses
    <3>2. /\ AdmitCollectionContext(S) /\ CUnits(S) /\ CServices(S) /\ CRuntime(S)
          /\ \A r \in Role : CContainer(r, S) /\ CBinding(r, S)
          /\ CNetworks(S) /\ CAardvark(S) /\ CSockets(S) /\ ~PodmanApi(S) /\ CWork(S, FALSE) /\ NetworkOnline(S)
          /\ CProcesses(S)
      BY <2>2, <3>1 DEF QInv, LiveJudged
    <3>3. /\ Shown({"unit"}) /\ Shown(Kind) /\ Shown({"runtime"}) /\ Shown(Role) /\ Shown({"timers"})
          /\ Shown({"processes"}) /\ Shown({"manager"})
      BY <2>2 DEF QInv, LiveJudged
    <3>4. \A subjects : Shown(subjects) <=> {d \in S : d[1] \in subjects} \subseteq Z
      BY DEF Shown
    <3>5. /\ AUnits(Z) /\ SearchPaths(Z) /\ ARuntime(Z) /\ AServices(Z) /\ \A r \in Role : AContainer(r, Z)
      BY <3>1 DEF AdmitsFacts
    <3> HIDE DEF S, Z, l
    <3>6. ASSUME NEW subjects, Shown(subjects), NEW x \in subjects, NEW points, Clean(x, points, Z)
          PROVE  Clean(x, points, S)
      BY <3>4, <3>6, ShownIsJudged
    <3>7. AUnits(S)
      BY <3>3, <3>5, <3>6 DEF AUnits
    <3>8. SearchPaths(S)
      BY <3>3, <3>5, <3>6 DEF SearchPaths
    <3>9. ARuntime(S)
      BY <3>3, <3>5, <3>6 DEF ARuntime
    <3>10. AServices(S)
      <4>0. \A x \in Kind : \A points : Clean(x, points, Z) => Clean(x, points, S)
        BY <3>3, <3>6
      <4> QED
        BY <3>5, <4>0 DEF AServices, SourceMatches, EnvironmentNames, StateMatchesRole
    <3>11. ASSUME NEW r \in Role PROVE AContainer(r, S)
      <4>0. \A points : Clean(r, points, Z) => Clean(r, points, S)
        BY <3>3, <3>6
      <4>1. AContainer(r, Z)
        BY <3>5
      <4>2. APrivileges(r, S)
        BY <4>0, <4>1 DEF AContainer, APrivileges
      <4>3. AExecution(r, S)
        BY <4>0, <4>1 DEF AContainer, AExecution, ImageMatches
      <4>4. AIsolation(r, S)
        BY <4>0, <4>1 DEF AContainer, AIsolation, LabelsMatch
      <4>5. ATopology(r, S)
        BY <4>0, <4>1 DEF AContainer, ATopology, StorageMatches
      <4>6. AState(r, S)
        BY <4>0, <4>1 DEF AContainer, AState
      <4> QED
        BY <4>2, <4>3, <4>4, <4>5, <4>6 DEF AContainer
    <3>12. AWork(S)
      BY <3>1, <3>3, <3>6 DEF AWork
    <3>13. AProcesses(S)
      BY <3>1, <3>3, <3>6 DEF AProcesses, HelperIsReviewed
    <3>14. \A r \in Role : CContainer(r, S) /\ CBinding(r, S) /\ AContainer(r, S)
      BY <3>2, <3>11
    <3>15. S \cap LiveFlaw(Roles) = {}
      BY <3>2, <3>7, <3>8, <3>9, <3>10, <3>12, <3>13, <3>14, LiveIsClean
    <3> QED
      BY <3>15 DEF S
  <2> QED
    BY <2>3, <2>4
<1> QED
  BY <1>1, QualificationHolds, PTL

\* What is of the fixture is nobody else's.
LEMMA FixtureIsOwn == \A j, k : <<"foreign", k>> # Fixture(j)
BY DEF Fixture

LEMMA ForeignPairs == ASSUME NEW d \in Foreign PROVE \E k \in ForeignKind : d = <<"foreign", k>>
BY DEF Foreign


(* What belonged to others before is there during and after the run, and   *)
(* nothing else came to stay: workload_admission_failures() compares three *)
(* observations, each of them read piece by piece on a host that changes.  *)
THEOREM OthersStay == Spec => []OthersAreKept
<1>1. QInv => OthersAreKept
  <2> SUFFICES ASSUME QInv, Passed
               PROVE  /\ obs["post"].controls = obs["baseline"].controls
                      /\ \A v, w \in ObsPhase : stood[v] \cap Foreign \subseteq met[w]
    BY DEF OthersAreKept, ObsPhase
  <2>1. WorkloadAdmission(obs) /\ \A p \in Phases : \A s : Taken(p, s)
    BY PassedFacts
  <2> DEFINE b == obs["baseline"]
             l == obs["live"]
             c == obs["post"]
             ours == {Fixture(k) : k \in {"containers", "networks", "volumes", "units", "auxiliary", "online",
                                          "processes", "helpers"}}
  <2>2. /\ AdmitsWork(b, l, c) /\ AdmitsProcesses(b, l, c) /\ AdmitsResources(b, l, c)
        /\ ~b.api /\ ~l.api /\ ~c.api
    BY <2>1 DEF WorkloadAdmission
  <2>3. c.controls = b.controls
    BY <2>2 DEF AdmitsResources
  <2>4. \A k : <<"foreign", k>> \notin ours
    BY FixtureIsOwn
  <2>5. /\ c.inventory = b.inventory
        /\ l.inventory \subseteq b.inventory \cup ours /\ b.inventory \subseteq l.inventory
    BY <2>2 DEF AdmitsResources
  <2>6. /\ c.units \subseteq b.units \cup ours /\ b.units \subseteq c.units
        /\ l.units \subseteq b.units \cup ours /\ b.units \subseteq l.units
    BY <2>2 DEF AdmitsWork
  <2>7. c.jobs = b.jobs /\ l.jobs = b.jobs
    BY <2>2 DEF AdmitsWork
  <2>8. /\ c.processes = b.processes
        /\ l.processes \subseteq b.processes \cup ours /\ b.processes \subseteq l.processes
    BY <2>2 DEF AdmitsProcesses
  <2> HIDE DEF ours
  <2>9. \A v \in ObsPhase : \A k :
          /\ <<"foreign", k>> \in obs[v].inventory <=> <<"foreign", k>> \in b.inventory
          /\ <<"foreign", k>> \in obs[v].units <=> <<"foreign", k>> \in b.units
          /\ <<"foreign", k>> \in obs[v].jobs <=> <<"foreign", k>> \in b.jobs
          /\ <<"foreign", k>> \in obs[v].processes <=> <<"foreign", k>> \in b.processes
    BY <2>4, <2>5, <2>6, <2>7, <2>8 DEF ObsPhase
  <2>10. ObsPhase \subseteq Phases
    BY PhasesAre DEF ObsPhase
  <2>11. \A v \in ObsPhase :
           /\ \A k \in {"container", "network", "volume"} : Noted(v, k, obs[v].inventory)
           /\ Noted(v, "unit", obs[v].units) /\ Noted(v, "job", obs[v].jobs)
           /\ Noted(v, "process", obs[v].processes)
           /\ <<"foreign", "api">> \notin stood[v]
    <3> SUFFICES ASSUME NEW v \in ObsPhase
                 PROVE  /\ \A k \in {"container", "network", "volume"} : Noted(v, k, obs[v].inventory)
                        /\ Noted(v, "unit", obs[v].units) /\ Noted(v, "job", obs[v].jobs)
                        /\ Noted(v, "process", obs[v].processes)
                        /\ <<"foreign", "api">> \notin stood[v]
      OBVIOUS
    <3>1. \A s : Taken(v, s)
      BY <2>1, <2>10
    <3>2. ~obs[v].api
      BY <2>2 DEF ObsPhase
    <3> QED
      BY <3>1, <3>2 DEF QInv, OthersNoted
  <2>12. \A v, w \in ObsPhase : stood[v] \cap Foreign \subseteq met[w]
    <3> SUFFICES ASSUME NEW v \in ObsPhase, NEW w \in ObsPhase, NEW k \in ForeignKind, <<"foreign", k>> \in stood[v]
                 PROVE  <<"foreign", k>> \in met[w]
      BY ForeignPairs
    <3>1. CASE k \in {"container", "network", "volume"}
      BY <2>9, <2>11, <3>1 DEF Noted
    <3>2. CASE k = "unit"
      BY <2>9, <2>11, <3>2 DEF Noted
    <3>3. CASE k = "job"
      BY <2>9, <2>11, <3>3 DEF Noted
    <3>4. CASE k = "process"
      BY <2>9, <2>11, <3>4 DEF Noted
    <3>5. CASE k = "api"
      BY <2>11, <3>5
    <3> QED
      BY <3>1, <3>2, <3>3, <3>4, <3>5 DEF ForeignKind
  <2> QED
    BY <2>3, <2>12
<1> QED
  BY <1>1, QualificationHolds, PTL

(* A commit that passed has migrated exactly once, and nothing of it is    *)
(* left, whatever the target did or said and whatever was killed: the last *)
(* observation covers everything that can still be there.                  *)
THEOREM NothingStays == Spec => []PassedLeavesNothing
<1>1. FInv /\ QInv => PassedLeavesNothing
  <2> SUFFICES ASSUME FInv, QInv, Passed
               PROVE  /\ migrations = 1
                      /\ files = {} /\ temps = {} /\ active.state # "active"
                      /\ owned = {} /\ ~loaded
    BY DEF PassedLeavesNothing
  <2>1. WorkloadAdmission(obs) /\ \A p \in Phases : \A s : Taken(p, s)
    BY PassedFacts
  <2> DEFINE b == obs["baseline"]
             l == obs["live"]
             c == obs["post"]
  <2>2. /\ AdmitsWork(b, l, c) /\ AdmitsProcesses(b, l, c) /\ AdmitsResources(b, l, c) /\ AdmitsMigration(b, c)
        /\ l.complete
    BY <2>1 DEF WorkloadAdmission
  <2>3. \A s : Taken("baseline", s) /\ Taken("live", s) /\ Taken("post", s)
    BY <2>1, PhasesAre
  <2>4. /\ Fixture("units") \notin b.units /\ Fixture("auxiliary") \notin b.units
        /\ Fixture("processes") \notin b.processes /\ Fixture("helpers") \notin b.processes
        /\ Sealed /\ c.migrations = migrations
        /\ \A k \in owned \cap {"containers", "networks", "volumes"} : Fixture(k) \in c.inventory
        /\ \A k \in owned \cap {"units", "auxiliary"} : Fixture(k) \in c.units
        /\ \A k \in owned \cap {"processes", "helpers"} : Fixture(k) \in c.processes
        /\ loaded => "artifacts" \in c.left
        /\ files = {} \/ "units" \in c.left
    BY <2>2, <2>3 DEF QInv, LeftNoted
  <2>5. migrations = 1
    BY <2>2, <2>4 DEF AdmitsMigration
  <2>6. files = {} /\ ~loaded
    BY <2>2, <2>4 DEF AdmitsResources
  <2>7. temps = {}
    BY <2>4 DEF Sealed
  <2>8. active.state # "active"
    <3>1. PICK u : u \in Units
      BY FixtureAssumption
    <3>2. <<active.instance, u>> \in Of(active.instance)
      BY <3>1 DEF Of
    <3>3. active.state = "active" => files = Of(active.instance)
      BY DEF FInv, Covered
    <3> QED
      BY <2>6, <3>2, <3>3
  <2>9. owned = {}
    <3> SUFFICES ASSUME NEW k \in owned PROVE FALSE
      OBVIOUS
    <3>0. k \in Owned
      BY DEF QInv, HostTypes
    <3>1. CASE k \in {"containers", "networks", "volumes"}
      BY <2>2, <2>4, <3>1 DEF AdmitsResources
    <3>2. CASE k \in {"units", "auxiliary"}
      BY <2>2, <2>4, <3>2 DEF AdmitsWork, Fixture
    <3>3. CASE k \in {"processes", "helpers"}
      BY <2>2, <2>4, <3>3 DEF AdmitsProcesses
    <3> QED
      BY <3>0, <3>1, <3>2, <3>3 DEF Owned
  <2> QED
    BY <2>5, <2>6, <2>7, <2>8, <2>9
<1> QED
  BY <1>1, FixtureHolds, QualificationHolds, PTL

-----------------------------------------------------------------------------
(* The id maps.  What a recursive function computes is proved by going     *)
(* through a set of naturals, from the end of the ids to their beginning.  *)

\* A set of naturals with 0 and with the successor of each of its elements has them all.
LEMMA Reached ==
  ASSUME NEW T, 0 \in T, \A n \in Nat : n \in T => n + 1 \in T
  PROVE  Nat \subseteq T
<1> DEFINE R == OpToRel(<, Nat)
<1> DEFINE F == Nat \ T
<1>1. SUFFICES ASSUME F # {} PROVE FALSE
  OBVIOUS
<1>2. \A x, y \in Nat : x < y => <<x, y>> \in R
  BY DEF OpToRel
<1>3. IsWellFoundedOn(R, Nat)
  BY NatLessThanWellFounded
<1>4. F \subseteq Nat
  OBVIOUS
<1> HIDE DEF R
<1>5. PICK m \in F : \A y \in F : ~ (<<y, m>> \in R)
  <2> HIDE DEF F
  <2> QED BY <1>1, <1>3, <1>4, WFMin
<1>6. m # 0 /\ m \in Nat
  BY <1>5
<1>7. m - 1 \in Nat /\ m - 1 < m /\ (m - 1) + 1 = m
  BY <1>6
<1>8. m - 1 \in F
  BY <1>5, <1>7
<1> QED BY <1>2, <1>5, <1>6, <1>7, <1>8

\* From the end of an interval down to its beginning.
LEMMA Downward ==
  ASSUME NEW N \in Nat, NEW T, N \in T, \A n \in Nat : n + 1 \in T /\ n < N => n \in T
  PROVE  \A n \in 0 .. N : n \in T
<1> DEFINE U == {k \in Nat : k <= N => N - k \in T}
<1>1. 0 \in U
  OBVIOUS
<1>2. ASSUME NEW k \in Nat, k \in U PROVE k + 1 \in U
  <2>1. SUFFICES ASSUME k + 1 <= N PROVE N - (k + 1) \in T
    OBVIOUS
  <2>2. N - k \in T /\ N - (k + 1) \in Nat /\ N - (k + 1) + 1 = N - k /\ N - (k + 1) < N
    BY <1>2, <2>1
  <2> QED BY <2>2
<1>3. Nat \subseteq U
  <2> HIDE DEF U
  <2> QED BY <1>1, <1>2, Reached
<1>4. ASSUME NEW n \in 0 .. N PROVE n \in T
  <2>1. N - n \in Nat /\ N - n <= N /\ N - (N - n) = n
    OBVIOUS
  <2> QED BY <1>3, <2>1
<1> QED BY <1>4

-----------------------------------------------------------------------------
(* Bounded maps.                                                           *)

\* A sequence of ranges that no two of them overlap.
IsMap(m) == DOMAIN m \subseteq Int /\ \E e \in BOOLEAN : IdMapIsBounded(m, e)

LEMMA RangeType ==
  ASSUME NEW r \in IdRange
  PROVE  /\ r.container \in Nat /\ r.host \in Nat /\ r.size \in Nat /\ r.size >= 1
         /\ r.container + r.size <= MaxId + 1 /\ r.host + r.size <= MaxId + 1
BY IdAssumption DEF IdRange, Id

LEMMA MapRange ==
  ASSUME NEW m, IsMap(m), NEW i \in DOMAIN m
  PROVE  m[i] \in IdRange
BY DEF IsMap, IdMapIsBounded

\* An id is in at most one range of a map.
LEMMA OneMatch ==
  ASSUME NEW m, IsMap(m), NEW id \in Int, NEW j \in Matching(m, id), NEW k \in Matching(m, id)
  PROVE  j = k
<1>1. j \in DOMAIN m /\ k \in DOMAIN m /\ j \in Int /\ k \in Int
  BY DEF IsMap, Matching
<1>2. /\ m[j].container <= id /\ id < m[j].container + m[j].size
      /\ m[k].container <= id /\ id < m[k].container + m[k].size
  BY DEF Matching
<1>3. m[j].container \in Nat /\ m[j].size \in Nat /\ m[k].container \in Nat /\ m[k].size \in Nat
  BY <1>1, MapRange, RangeType
<1>4. \A a, b \in DOMAIN m : a < b => ~ Overlap(m[a].container, m[b].container, m[a].size, m[b].size)
  BY DEF IsMap, IdMapIsBounded
<1>5. ~ (j < k) /\ ~ (k < j)
  BY <1>1, <1>2, <1>3, <1>4 DEF Overlap
<1> QED BY <1>1, <1>5

\* Where an id goes that is in a range.
LEMMA GoesTo ==
  ASSUME NEW m, IsMap(m), NEW id \in Int, NEW j \in Matching(m, id)
  PROVE  /\ Matching(m, id) = {j}
         /\ IdToHost(m, id) = m[j].host + id - m[j].container
<1>1. Matching(m, id) = {j}
  BY OneMatch
<1>2. Cardinality({j}) = 1 /\ (CHOOSE i \in {j} : TRUE) = j
  BY FS_Singleton
<1> QED BY <1>1, <1>2 DEF IdToHost

LEMMA GoesNowhere ==
  ASSUME NEW m, NEW id, Matching(m, id) = {}
  PROVE  IdToHost(m, id) = Unmapped
BY FS_EmptySet DEF IdToHost

-----------------------------------------------------------------------------
(* The loop of compose_id_maps() on one inner range.                       *)

\* A piece p is where the ids of item from its number e on go through the k-th outer range.
PlacedAt(p, item, outer, e, k) ==
  /\ p = Range3(item.container + e, outer[k].host + (item.host + e) - outer[k].container, p.size)
  /\ p.size \in Nat /\ p.size >= 1 /\ e + p.size <= item.size
  /\ outer[k].container <= item.host + e
  /\ item.host + e + p.size <= outer[k].container + outer[k].size

LEMMA NextPieceIs ==
  ASSUME NEW item \in IdRange, NEW outer, IsMap(outer), NEW e \in Nat, e < item.size,
         NextPiece(item, outer, e) # NoRange
  PROVE  \E k \in DOMAIN outer : PlacedAt(NextPiece(item, outer, e), item, outer, e, k)
<1> DEFINE id == item.host + e
<1> DEFINE p == NextPiece(item, outer, e)
<1>1. id \in Int /\ item.size \in Nat
  BY RangeType
<1>2. Matching(outer, id) # {}
  BY DEF NextPiece
<1>3. PICK k \in Matching(outer, id) : TRUE
  BY <1>2
<1>4. k \in DOMAIN outer /\ outer[k].container <= id /\ id < outer[k].container + outer[k].size
  BY <1>3 DEF Matching
<1>5. outer[k].container \in Nat /\ outer[k].size \in Nat
  BY <1>4, MapRange, RangeType
<1>6. Matching(outer, id) = {k} /\ k \in Int
  BY <1>1, <1>3, <1>4, GoesTo DEF IsMap
<1>7. Min({k}) = k
  BY <1>6 DEF Min
<1>8. p = Range3(item.container + e, outer[k].host + id - outer[k].container,
                 PieceSize(item.size - e, outer[k].container + outer[k].size - id))
  BY <1>2, <1>6, <1>7 DEF NextPiece
<1>9. p.size = PieceSize(item.size - e, outer[k].container + outer[k].size - id)
  BY <1>8 DEF Range3
<1>10. p.size \in Nat /\ p.size >= 1 /\ e + p.size <= item.size
       /\ id + p.size <= outer[k].container + outer[k].size
  BY <1>1, <1>4, <1>5, <1>9 DEF PieceSize
<1>11. PlacedAt(p, item, outer, e, k)
  BY <1>4, <1>8, <1>9, <1>10 DEF PlacedAt
<1> QED BY <1>4, <1>11

\* One round of the loop, given what the rounds after it do.
Round(cut, item, outer, done) ==
  IF done >= item.size THEN {}
  ELSE LET p == NextPiece(item, outer, done)
       IN IF p = NoRange THEN {NoRange} ELSE {p} \cup cut[done + p.size]

Rounds(cut, item, outer) == [done \in 0 .. MaxId + 1 |-> Round(cut, item, outer, done)]

LEMMA NextRound ==
  ASSUME NEW item \in IdRange, NEW outer, IsMap(outer), NEW e \in Nat, e < item.size,
         NextPiece(item, outer, e) # NoRange
  PROVE  e + NextPiece(item, outer, e).size \in (e + 1) .. MaxId + 1
<1>1. /\ NextPiece(item, outer, e).size \in Nat /\ NextPiece(item, outer, e).size >= 1
      /\ e + NextPiece(item, outer, e).size <= item.size
  BY NextPieceIs DEF PlacedAt
<1>2. item.size <= MaxId + 1 /\ item.size \in Nat
  BY RangeType, IdAssumption
<1> QED BY <1>1, <1>2, IdAssumption

\* Every round goes on behind itself, so the recursion of Pieces defines a function.
LEMMA RoundsExist ==
  ASSUME NEW item \in IdRange, NEW outer, IsMap(outer)
  PROVE  \E cut : cut = Rounds(cut, item, outer)
<1> DEFINE N == MaxId + 1
<1> DEFINE T == {n \in 0 .. N : \E f : f = [d \in n .. N |-> Round(f, item, outer, d)]}
<1>1. N \in Nat /\ item.size \in Nat /\ item.size <= N
  BY IdAssumption, RangeType
<1>2. N \in T
  <2> DEFINE f == [d \in N .. N |-> {}]
  <2>1. \A d \in N .. N : Round(f, item, outer, d) = {}
    BY <1>1 DEF Round
  <2>2. f = [d \in N .. N |-> Round(f, item, outer, d)]
    BY <2>1
  <2> HIDE DEF f
  <2> QED BY <1>1, <2>2
<1>3. ASSUME NEW n \in Nat, n + 1 \in T, n < N PROVE n \in T
  <2>1. PICK f : f = [d \in (n + 1) .. N |-> Round(f, item, outer, d)]
    BY <1>3
  <2> DEFINE g == [d \in n .. N |-> IF d = n THEN Round(f, item, outer, n) ELSE f[d]]
  <2>2. \A d \in n .. N : Round(g, item, outer, d) = Round(f, item, outer, d)
    <3>1. ASSUME NEW d \in n .. N, d < item.size, NextPiece(item, outer, d) # NoRange
          PROVE  g[d + NextPiece(item, outer, d).size] = f[d + NextPiece(item, outer, d).size]
      <4>1. d \in Nat
        BY <1>1, <3>1
      <4>2. d + NextPiece(item, outer, d).size \in (d + 1) .. N
        BY <3>1, <4>1, NextRound
      <4>3. d + NextPiece(item, outer, d).size \in n .. N /\ d + NextPiece(item, outer, d).size # n
        BY <1>1, <3>1, <4>1, <4>2
      <4> QED BY <4>3
    <3>2. ASSUME NEW d \in n .. N PROVE d < item.size \/ d >= item.size
      BY <1>1, <3>2
    <3> HIDE DEF g
    <3> QED BY <3>1, <3>2 DEF Round
  <2>3. ASSUME NEW d \in n .. N PROVE g[d] = Round(f, item, outer, d)
    <3>1. d = n \/ d \in (n + 1) .. N
      BY <1>1, <2>3
    <3>2. CASE d = n
      BY <3>2
    <3>3. CASE d # n /\ d \in (n + 1) .. N
      <4>1. g[d] = f[d]
        BY <2>3, <3>3
      <4>2. f[d] = Round(f, item, outer, d)
        BY <2>1, <3>3, Zenon
      <4> QED BY <4>1, <4>2
    <3> QED BY <3>1, <3>2, <3>3
  <2>4. g = [d \in n .. N |-> Round(g, item, outer, d)]
    <3>1. g = [d \in n .. N |-> g[d]]
      OBVIOUS
    <3>2. \A d \in n .. N : g[d] = Round(g, item, outer, d)
      BY <2>2, <2>3
    <3> HIDE DEF g
    <3> QED BY <3>1, <3>2
  <2> HIDE DEF g
  <2>5. n \in 0 .. N
    BY <1>1, <1>3
  <2> QED BY <2>4, <2>5
<1>4. 0 \in T
  <2> HIDE DEF T
  <2> QED BY <1>1, <1>2, <1>3, Downward
<1> QED BY <1>4 DEF Rounds

LEMMA PiecesAre ==
  ASSUME NEW item \in IdRange, NEW outer, IsMap(outer)
  PROVE  \E cut : cut = Rounds(cut, item, outer) /\ Pieces(item, outer) = cut[0]
<1> DEFINE c == CHOOSE cut : cut = Rounds(cut, item, outer)
<1>1. c = Rounds(c, item, outer)
  BY RoundsExist, Zenon
<1>2. Pieces(item, outer) = c[0]
  BY DEF Pieces, Rounds, Round
<1> QED BY <1>1, <1>2

\* The ids of item from its number d on: each is in a piece, and each piece is one of them.
Splits(pieces, item, outer, d) ==
  /\ \A p \in pieces : \E e \in Nat, k \in DOMAIN outer : PlacedAt(p, item, outer, e, k)
  /\ \A e \in Nat : d <= e /\ e < item.size =>
       \E p \in pieces : p.container <= item.container + e /\ item.container + e < p.container + p.size

LEMMA RoundSplits ==
  ASSUME NEW item \in IdRange, NEW outer, IsMap(outer), NEW d \in Nat, NEW cut, d <= MaxId + 1,
         NoRange \notin Round(cut, item, outer, d),
         \A n \in (d + 1) .. MaxId + 1 : NoRange \notin cut[n] => Splits(cut[n], item, outer, n)
  PROVE  Splits(Round(cut, item, outer, d), item, outer, d)
<1>1. item.size \in Nat /\ item.container \in Nat
  BY RangeType
<1>2. CASE d >= item.size
  <2>1. Round(cut, item, outer, d) = {}
    BY <1>2 DEF Round
  <2> QED BY <1>1, <1>2, <2>1 DEF Splits
<1>3. CASE d < item.size
  <2> DEFINE p == NextPiece(item, outer, d)
  <2> DEFINE n == d + p.size
  <2>1. ~ (d >= item.size)
    BY <1>1, <1>3
  <2>2. p # NoRange /\ Round(cut, item, outer, d) = {p} \cup cut[n]
    BY <2>1 DEF Round
  <2>3. PICK k \in DOMAIN outer : PlacedAt(p, item, outer, d, k)
    BY <1>3, <2>2, NextPieceIs
  <2>4. n \in (d + 1) .. MaxId + 1
    BY <1>3, <2>2, NextRound
  <2>5. Splits(cut[n], item, outer, n)
    BY <2>2, <2>4
  <2>6. p.container = item.container + d /\ p.size \in Nat
    BY <2>3 DEF PlacedAt, Range3
  <2> HIDE DEF p
  <2>7. ASSUME NEW e \in Nat, d <= e, e < item.size
        PROVE  \E q \in {p} \cup cut[n] :
                 q.container <= item.container + e /\ item.container + e < q.container + q.size
    <3>1. CASE e < n
      <4>1. p.container <= item.container + e /\ item.container + e < p.container + p.size
        BY <1>1, <2>6, <2>7, <3>1
      <4> QED BY <4>1
    <3>2. CASE n <= e
      <4>1. PICK q \in cut[n] : q.container <= item.container + e /\ item.container + e < q.container + q.size
        BY <2>5, <2>7, <3>2 DEF Splits
      <4> QED BY <4>1
    <3> QED BY <2>6, <3>1, <3>2
  <2>8. ASSUME NEW q \in {p} \cup cut[n]
        PROVE  \E e \in Nat, j \in DOMAIN outer : PlacedAt(q, item, outer, e, j)
    <3>1. CASE q = p
      BY <2>3, <3>1
    <3>2. CASE q \in cut[n]
      BY <2>5, <3>2 DEF Splits
    <3> QED BY <2>8, <3>1, <3>2
  <2> QED BY <2>2, <2>7, <2>8 DEF Splits
<1> QED BY <1>1, <1>2, <1>3

LEMMA PiecesSplit ==
  ASSUME NEW item \in IdRange, NEW outer, IsMap(outer), NoRange \notin Pieces(item, outer)
  PROVE  Splits(Pieces(item, outer), item, outer, 0)
<1> DEFINE N == MaxId + 1
<1>1. PICK cut : cut = Rounds(cut, item, outer) /\ Pieces(item, outer) = cut[0]
  BY PiecesAre
<1>2. \A d \in 0 .. N : cut[d] = Round(cut, item, outer, d)
  <2>1. \A d \in 0 .. N : Rounds(cut, item, outer)[d] = Round(cut, item, outer, d)
    BY DEF Rounds
  <2> QED BY <1>1, <2>1, Zenon
<1> DEFINE Good(d) == NoRange \notin cut[d] => Splits(cut[d], item, outer, d)
<1> DEFINE T == {n \in 0 .. N : \A d \in n .. N : Good(d)}
<1>3. N \in Nat
  BY IdAssumption
<1>4. ASSUME NEW d \in 0 .. N, \A n \in (d + 1) .. N : Good(n) PROVE Good(d)
  <2>1. SUFFICES ASSUME NoRange \notin cut[d] PROVE Splits(cut[d], item, outer, d)
    OBVIOUS
  <2>2. d \in Nat /\ d <= MaxId + 1 /\ cut[d] = Round(cut, item, outer, d)
    BY <1>2, <1>3
  <2>3. \A n \in (d + 1) .. MaxId + 1 : NoRange \notin cut[n] => Splits(cut[n], item, outer, n)
    BY <1>4
  <2> QED BY <2>1, <2>2, <2>3, RoundSplits
<1>5. N \in T
  <2>1. Good(N)
    BY <1>3, <1>4
  <2>2. \A d \in N .. N : d = N
    BY <1>3
  <2> HIDE DEF Good
  <2> QED BY <1>3, <2>1, <2>2
<1>6. ASSUME NEW n \in Nat, n + 1 \in T, n < N PROVE n \in T
  <2>1. \A d \in (n + 1) .. N : Good(d)
    BY <1>6
  <2>2. n \in 0 .. N
    BY <1>3, <1>6
  <2>3. Good(n)
    BY <1>4, <2>1, <2>2
  <2>4. \A d \in n .. N : d = n \/ d \in (n + 1) .. N
    BY <1>3
  <2> HIDE DEF Good
  <2> QED BY <2>1, <2>2, <2>3, <2>4
<1>7. 0 \in T
  <2> HIDE DEF T
  <2> QED BY <1>3, <1>5, <1>6, Downward
<1>8. Good(0)
  <2> HIDE DEF Good
  <2> QED BY <1>3, <1>7
<1> QED BY <1>1, <1>8

-----------------------------------------------------------------------------
(* compose_id_maps().                                                      *)

\* A composition that is a bounded map has exactly the pieces of the inner ranges, and
\* no id without a place.
LEMMA ComposedOf ==
  ASSUME NEW inner, NEW outer, NEW m, m = ComposeIdMaps(inner, outer), IdMapIsBounded(m, FALSE)
  PROVE  /\ ToSet(m) = UNION {Pieces(inner[i], outer) : i \in DOMAIN inner}
         /\ NoRange \notin UNION {Pieces(inner[i], outer) : i \in DOMAIN inner}
<1> DEFINE pieces == UNION {Pieces(inner[i], outer) : i \in DOMAIN inner}
<1> DEFINE maps == {f \in [1 .. Cardinality(pieces) -> pieces] : ToSet(f) = pieces /\ IdMapIsBounded(f, FALSE)}
<1>1. m = IF maps = {} THEN Reject ELSE CHOOSE f \in maps : TRUE
  BY DEF ComposeIdMaps, ParseIdMap
<1>2. NoRange \notin IdRange
  BY RangeType DEF NoRange, Range3
<1>3. m # Reject
  <2>1. 1 \in DOMAIN Reject /\ Reject[1] = NoRange
    BY DEF Reject
  <2>2. \A i \in DOMAIN m : m[i] \in IdRange
    BY DEF IdMapIsBounded
  <2> QED BY <1>2, <2>1, <2>2
<1>4. m \in maps
  <2> HIDE DEF maps
  <2> QED BY <1>1, <1>3
<1>5. ToSet(m) = pieces
  <2> HIDE DEF pieces
  <2> QED BY <1>4
<1>6. \A i \in DOMAIN m : m[i] \in IdRange
  BY DEF IdMapIsBounded
<1>7. NoRange \notin ToSet(m)
  <2> QED BY <1>2, <1>6 DEF ToSet
<1> HIDE DEF pieces
<1>8. ToSet(m) = pieces /\ NoRange \notin pieces
  BY <1>5, <1>7
<1> QED BY <1>8 DEF pieces

\* Through the inner and then the outer map, for an id that the inner one has.
Through(inner, outer, id) ==
  IF IdToHost(inner, id) = Unmapped THEN Unmapped ELSE IdToHost(outer, IdToHost(inner, id))

\* Through a composition an id goes where the inner and then the outer map take it.
LEMMA Composes ==
  ASSUME NEW inner, IsMap(inner), NEW outer, IsMap(outer), NEW map, IsMap(map),
         IdMapIsBounded(map, FALSE), map = ComposeIdMaps(inner, outer), NEW i \in Id
  PROVE  IdToHost(map, i) = Through(inner, outer, i)
<1> DEFINE pieces == UNION {Pieces(inner[j], outer) : j \in DOMAIN inner}
<1>1. ToSet(map) = pieces /\ NoRange \notin pieces
  BY ComposedOf
<1>2. i \in Int /\ i \in Nat
  BY IdAssumption DEF Id
<1>3. \A j \in DOMAIN inner : inner[j] \in IdRange /\ Splits(Pieces(inner[j], outer), inner[j], outer, 0)
  <2>1. ASSUME NEW j \in DOMAIN inner PROVE inner[j] \in IdRange /\ NoRange \notin Pieces(inner[j], outer)
    BY <1>1, MapRange
  <2> QED BY <2>1, PiecesSplit
<1>4. \A k \in DOMAIN map : \E j \in DOMAIN inner : map[k] \in Pieces(inner[j], outer)
  BY <1>1 DEF ToSet
<1>5. \A j \in DOMAIN inner : \A p \in Pieces(inner[j], outer) : \E k \in DOMAIN map : map[k] = p
  BY <1>1 DEF ToSet
<1> HIDE DEF pieces
\* A range of the composition that holds i lies in an inner range that holds i.
<1>6. ASSUME NEW k \in Matching(map, i)
      PROVE  \E j \in Matching(inner, i), h \in DOMAIN outer, e \in Nat :
               PlacedAt(map[k], inner[j], outer, e, h)
  <2>1. k \in DOMAIN map /\ map[k].container <= i /\ i < map[k].container + map[k].size
    BY <1>6 DEF Matching
  <2>2. PICK j \in DOMAIN inner : map[k] \in Pieces(inner[j], outer)
    BY <1>4, <2>1
  <2>3. PICK e \in Nat, h \in DOMAIN outer : PlacedAt(map[k], inner[j], outer, e, h)
    BY <1>3, <2>2 DEF Splits
  <2>4. /\ inner[j].container \in Nat /\ inner[j].size \in Nat /\ map[k].size \in Nat
        /\ map[k].container = inner[j].container + e /\ e + map[k].size <= inner[j].size
    BY <1>3, <2>2, <2>3, RangeType DEF PlacedAt, Range3
  <2>5. inner[j].container <= i /\ i < inner[j].container + inner[j].size
    BY <1>2, <2>1, <2>4
  <2>6. j \in Matching(inner, i)
    BY <2>5 DEF Matching
  <2> QED BY <2>3, <2>6
<1>7. CASE Matching(inner, i) = {}
  <2>1. Matching(map, i) = {}
    BY <1>6, <1>7
  <2> QED BY <1>7, <2>1, GoesNowhere DEF Through
<1>8. CASE Matching(inner, i) # {}
  <2>1. PICK j : j \in Matching(inner, i)
    BY <1>8
  <2>2. j \in DOMAIN inner /\ inner[j].container <= i /\ i < inner[j].container + inner[j].size
    BY <2>1 DEF Matching
  <2>3. /\ inner[j].container \in Nat /\ inner[j].size \in Nat /\ inner[j].host \in Nat
        /\ inner[j].host + inner[j].size <= MaxId + 1
    BY <1>3, <2>2, RangeType
  <2> DEFINE e == i - inner[j].container
  <2>4. e \in Nat /\ e < inner[j].size /\ inner[j].container + e = i
    BY <1>2, <2>2, <2>3
  <2>5. PICK p \in Pieces(inner[j], outer) : p.container <= i /\ i < p.container + p.size
    <3>1. PICK p \in Pieces(inner[j], outer) :
            p.container <= inner[j].container + e /\ inner[j].container + e < p.container + p.size
      BY <1>3, <2>2, <2>4 DEF Splits
    <3> QED BY <2>4, <3>1
  <2>6. PICK k \in DOMAIN map : map[k] = p
    BY <1>5, <2>2, <2>5
  <2>7. k \in Matching(map, i)
    BY <2>5, <2>6 DEF Matching
  <2>8. PICK d \in Nat, h \in DOMAIN outer : PlacedAt(p, inner[j], outer, d, h)
    BY <1>3, <2>2, <2>5 DEF Splits
  <2>9. /\ p.container = inner[j].container + d
        /\ p.host = outer[h].host + (inner[j].host + d) - outer[h].container
        /\ p.size \in Nat /\ outer[h].container <= inner[j].host + d
        /\ inner[j].host + d + p.size <= outer[h].container + outer[h].size
    BY <2>8 DEF PlacedAt, Range3
  <2>10. outer[h].container \in Nat /\ outer[h].size \in Nat /\ outer[h].host \in Nat
    BY MapRange, RangeType
  <2> DEFINE to == inner[j].host + i - inner[j].container
  <2>11. to \in Int /\ to # Unmapped
    BY <1>2, <2>2, <2>3 DEF Unmapped
  <2>12. outer[h].container <= to /\ to < outer[h].container + outer[h].size
    BY <1>2, <2>3, <2>4, <2>5, <2>9, <2>10
  <2>13. h \in Matching(outer, to)
    BY <2>12 DEF Matching
  <2>14. IdToHost(inner, i) = to
    BY <1>2, <2>1, GoesTo
  <2>15. IdToHost(outer, to) = outer[h].host + to - outer[h].container
    BY <2>11, <2>13, GoesTo
  <2>16. IdToHost(map, i) = p.host + i - p.container
    BY <1>2, <2>6, <2>7, GoesTo
  <2>17. p.host + i - p.container = outer[h].host + to - outer[h].container
    BY <1>2, <2>3, <2>9, <2>10
  <2> HIDE DEF to
  <2> QED BY <2>11, <2>14, <2>15, <2>16, <2>17 DEF Through
<1> QED BY <1>7, <1>8

\* id_from_host() undoes id_to_host(): no two ranges of a bounded map overlap on the host
\* either, so the collector gets back the id that it has sent through the map.
THEOREM IdsReturn ==
  ASSUME NEW m, IsMap(m), NEW id \in Int, IdMapCovers(m, id)
  PROVE  IdFromHost(m, IdToHost(m, id)) = id
<1>1. Matching(m, id) # {}
  BY FS_EmptySet DEF IdMapCovers
<1>2. PICK j \in Matching(m, id) : TRUE
  BY <1>1
<1>3. j \in DOMAIN m /\ j \in Int /\ m[j].container <= id /\ id < m[j].container + m[j].size
  BY <1>2 DEF Matching, IsMap
<1>4. m[j].container \in Nat /\ m[j].host \in Nat /\ m[j].size \in Nat
  BY <1>3, MapRange, RangeType
<1> DEFINE h == m[j].host + id - m[j].container
<1> DEFINE found == {i \in DOMAIN m : m[i].host <= h /\ h < m[i].host + m[i].size}
<1>5. IdToHost(m, id) = h
  BY <1>2, GoesTo
<1>6. j \in found /\ h \in Int
  BY <1>3, <1>4
<1>7. ASSUME NEW k \in found PROVE k = j
  <2>1. k \in DOMAIN m /\ k \in Int /\ m[k].host <= h /\ h < m[k].host + m[k].size
    BY <1>7 DEF IsMap
  <2>2. m[k].host \in Nat /\ m[k].size \in Nat
    BY <2>1, MapRange, RangeType
  <2>3. \A a, b \in DOMAIN m : a < b => ~ Overlap(m[a].host, m[b].host, m[a].size, m[b].size)
    BY DEF IsMap, IdMapIsBounded
  <2>4. m[j].host <= h /\ h < m[j].host + m[j].size
    BY <1>6
  <2> HIDE DEF h
  <2>5. ~ (j < k) /\ ~ (k < j)
    BY <1>3, <1>4, <1>6, <2>1, <2>2, <2>3, <2>4 DEF Overlap
  <2> QED BY <1>3, <2>1, <2>5
<1>8. found = {j}
  <2> HIDE DEF found
  <2> QED BY <1>6, <1>7
<1>9. Cardinality(found) = 1 /\ (CHOOSE i \in found : TRUE) = j
  <2> HIDE DEF found
  <2> QED BY <1>8, FS_Singleton
<1>10. IdFromHost(m, h) = m[j].container + h - m[j].host
  <2> HIDE DEF h
  <2> QED BY <1>9 DEF IdFromHost
<1>11. m[j].container + h - m[j].host = id
  BY <1>3, <1>4
<1> QED BY <1>5, <1>10, <1>11

-----------------------------------------------------------------------------
(* The user namespace of the examined container.                           *)

\* collect_live(): since the containers have been read, the namespace of the examined one is
\* as it was then, and it has matched, or the observation says that it has not.
NamespaceNoted ==
  /\ DOMAIN namespace.configured \subseteq Int /\ DOMAIN namespace.podman \subseteq Int
  /\ DOMAIN namespace.effective \subseteq Int
  /\ Taken("live", "containers") =>
       NamespaceMatches(namespace) \/ <<"api", "user namespace">> \in obs["live"].seen

LEMMA NamespacesAreMaps ==
  ASSUME NEW n \in Namespaces \cup {Default}
  PROVE  DOMAIN n.configured \subseteq Int /\ DOMAIN n.podman \subseteq Int /\ DOMAIN n.effective \subseteq Int
<1>1. \A m \in SomeMap : DOMAIN m \subseteq Int
  BY DEF SomeMap
<1>2. DOMAIN PodmanMap \subseteq Int
  BY QualificationAssumption
<1>3. \A m \in SomeMap \cup {<<>>} : DOMAIN m \subseteq Int
  BY <1>1
<1>4. Default.podman = PodmanMap /\ Default.effective = PodmanMap /\ Default.configured = <<>>
  BY DEF Default
<1>5. CASE n = Default
  BY <1>2, <1>4, <1>5
<1>6. CASE n \in Namespaces
  BY <1>2, <1>3, <1>6 DEF Namespaces
<1> QED BY <1>5, <1>6

\* The namespace of a container is made when the container is started.
LEMMA NamespaceIsMade ==
  ASSUME [Next]_vars
  PROVE  namespace' = namespace \/ (At("normalize live", "start") /\ namespace' \in Namespaces /\ UNCHANGED runVars)
<1>1. CASE UNCHANGED vars
  BY <1>1 DEF vars, hostVars
<1>2. CASE Deviate
  BY <1>2 DEF Deviate
<1>3. CASE \/ PrepareHost \/ Interrupted \/ PhaseFails \/ NormalizationReads \/ StopExistingUnits
           \/ ReplaceManagerEnvironment \/ DaemonReload \/ StartTarget
  BY <1>3 DEF PrepareHost, Interrupted, PhaseFails, NormalizationReads, StopExistingUnits,
     ReplaceManagerEnvironment, DaemonReload, StartTarget, hostVars
<1>4. CASE \/ Collect \/ TargetRemovesResources \/ TargetCalls \/ TargetReturns \/ TargetEnds \/ TargetActivates
  BY <1>4 DEF Collect, TargetRemovesResources, TargetCalls, TargetReturns, TargetEnds, TargetActivates, hostVars
<1>5. CASE Installing \/ Mend \/ Assemble \/ AlterEvidence \/ ValidateEvidence
  BY <1>5 DEF Installing, Mend, Assemble, AlterEvidence, ValidateEvidence, hostVars
<1> QED BY <1>1, <1>2, <1>3, <1>4, <1>5 DEF Next

LEMMA NamespaceStep ==
  HostTypes /\ Paced /\ InOrder /\ Windows /\ NamespaceNoted /\ [Next]_vars => NamespaceNoted'
<1> SUFFICES ASSUME HostTypes, Paced, InOrder, Windows, NamespaceNoted, [Next]_vars PROVE NamespaceNoted'
  OBVIOUS
<1>1. namespace' = namespace \/ (At("normalize live", "start") /\ namespace' \in Namespaces /\ UNCHANGED runVars)
  BY NamespaceIsMade
<1>2. /\ DOMAIN namespace'.configured \subseteq Int /\ DOMAIN namespace'.podman \subseteq Int
      /\ DOMAIN namespace'.effective \subseteq Int
  <2>1. CASE namespace' = namespace
    BY <2>1 DEF NamespaceNoted
  <2>2. CASE namespace' \in Namespaces
    BY <2>2, NamespacesAreMaps
  <2> QED BY <1>1, <2>1, <2>2
<1>3. ASSUME Taken("live", "containers")'
      PROVE  NamespaceMatches(namespace') \/ <<"api", "user namespace">> \in obs'["live"].seen
  <2>1. namespace' = namespace
    <3> SUFFICES ASSUME namespace' # namespace PROVE FALSE
      OBVIOUS
    <3>1. phase = "normalize live" /\ phase' = phase /\ status' = status
      BY <1>1 DEF At, runVars
    <3>2. status["live"] = "not run"
      <4>1. Rank(phase) <= Rank("live")
        BY <3>1, RanksGrow, RankIsOrder, Zenon
      <4> QED BY <4>1, PhasesAre DEF InOrder
    <3> QED BY <1>3, <3>1, <3>2 DEF Taken
  <2>2. Kept("live", "containers") \/ Fresh("live", "containers")
    <3>1. "live" \in ObsPhase /\ "containers" \in ReadStep
      BY DEF ObsPhase, ReadStep
    <3> QED BY <1>3, <3>1, ObservationSteps, Collected
  <2>3. CASE Kept("live", "containers")
    BY <2>1, <2>3 DEF Kept, NamespaceNoted
  <2>4. CASE Fresh("live", "containers")
    <3>1. obs'["live"] = ReadContainers(obs["live"]) /\ obs["live"] \in Observation
      BY <2>4, ReadingIs DEF Fresh
    <3>2. NamespaceMatches(namespace) \/ <<"api", "user namespace">> \in ReadContainers(obs["live"]).seen
      BY <3>1 DEF ReadContainers, Observation
    <3> QED BY <2>1, <3>1, <3>2
  <2> QED BY <2>2, <2>3, <2>4
<1>4. NamespaceMatches(namespace)' <=> NamespaceMatches(namespace')
  BY DEF NamespaceMatches
<1> QED BY <1>2, <1>3, <1>4 DEF NamespaceNoted

LEMMA NamespaceInitially == Init => NamespaceNoted
<1> SUFFICES ASSUME Init PROVE NamespaceNoted
  OBVIOUS
<1>1. namespace = Default /\ phase = "host" /\ status["live"] = "not run"
  BY PhasesAre DEF Init
<1>2. ~Taken("live", "containers")
  BY <1>1 DEF Taken
<1>3. /\ DOMAIN namespace.configured \subseteq Int /\ DOMAIN namespace.podman \subseteq Int
      /\ DOMAIN namespace.effective \subseteq Int
  BY <1>1, NamespacesAreMaps
<1> QED BY <1>2, <1>3 DEF NamespaceNoted

(* In a passed qualification every id of the examined container is where   *)
(* its configured maps, through Podman's own map, put it, across the ends  *)
(* of ranges: compose_id_maps() computes the composition, for maps of any  *)
(* number of ranges over any id space.                                     *)
THEOREM MapsAlwaysCompose == Spec => []MapsCompose
<1>1. Init => NamespaceNoted
  BY NamespaceInitially
<1>2. QInv /\ NamespaceNoted /\ [Next]_vars => NamespaceNoted'
  BY NamespaceStep DEF QInv
<1>3. QInv /\ NamespaceNoted => MapsCompose
  <2> SUFFICES ASSUME QInv, NamespaceNoted, Passed, namespace.running, namespace.configured # <<>>, NEW i \in Id
               PROVE  IdToHost(namespace.effective, i) =
                        IF IdToHost(namespace.configured, i) = Unmapped THEN Unmapped
                        ELSE IdToHost(namespace.podman, IdToHost(namespace.configured, i))
    BY DEF MapsCompose
  <2>1. WorkloadAdmission(obs) /\ Taken("live", "containers")
    BY PassedFacts, PhasesAre
  <2>2. AContainer("api", obs["live"].seen)
    BY <2>1 DEF WorkloadAdmission, AdmitsFacts, Role
  <2>3. <<"api", "user namespace">> \notin obs["live"].seen
    <3>1. \A points, S : Clean("api", points, S) => \A x \in points : <<"api", x>> \notin S
      BY DEF Clean
    <3>2. AIsolation("api", obs["live"].seen)
      BY <2>2 DEF AContainer
    <3>3. Clean("api", {"api mount", "api environment", "host modes", "user namespace", "host network",
                        "security options", "seccomp", "auto update"}, obs["live"].seen)
      BY <3>2 DEF AIsolation
    <3> QED BY <3>1, <3>3
  <2>4. NamespaceMatches(namespace)
    BY <2>1, <2>3 DEF NamespaceNoted
  <2>5. /\ IdMapIsBounded(namespace.configured, TRUE) /\ IdMapIsBounded(namespace.podman, FALSE)
        /\ IdMapIsBounded(namespace.effective, FALSE)
        /\ namespace.effective = ComposeIdMaps(namespace.configured, namespace.podman)
    BY <2>4 DEF NamespaceMatches, UserNamespaceMatches
  <2>6. IsMap(namespace.configured) /\ IsMap(namespace.podman) /\ IsMap(namespace.effective)
    BY <2>5 DEF NamespaceNoted, IsMap
  <2>7. IdToHost(namespace.effective, i) = Through(namespace.configured, namespace.podman, i)
    BY <2>5, <2>6, Composes
  <2> QED BY <2>7 DEF Through
<1> QED BY <1>1, <1>2, <1>3, QualificationHolds, PTL DEF Spec
=============================================================================
