--------------------------- MODULE QuadletFixture ---------------------------
(***************************************************************************)
(* The bounded path by which an unprivileged test run gets its Quadlet     *)
(* units into the administrator's directories and out of them again:       *)
(* scripts/ci-cloud/quadlet-fixture-client.py stages a request directory,  *)
(* a systemd path unit starts scripts/ci-cloud/quadlet-fixture-installer.py*)
(* as root, and the client polls the published result.  The installer can  *)
(* be killed at every step (TimeoutStartSec), the client can give up at    *)
(* every moment, and the two services can run at the same time.            *)
(***************************************************************************)
EXTENDS Naturals, FiniteSets

CONSTANTS Instances,  \* fixture instances
          Units,      \* unit files of one instance
          MaxCalls,   \* client calls
          MaxFaults   \* kills, errors, deviations

ASSUME FixtureAssumption ==
  /\ IsFiniteSet(Units) /\ Units # {}
  /\ MaxCalls \in Nat /\ MaxFaults \in Nat

VARIABLES request, trigger, fired, service, lock, active, files, temps, changed,
          result, client, calls, faults

fixtureVars == <<request, trigger, fired, service, lock, active, files, temps, changed,
                 result, client, calls, faults>>

Operation == {"install", "remove"}
NoInstance == "unknown"
NoId == 0                       \* the id "000..." of a request that was not read
Request(id, i, off) == [id |-> id, instance |-> i, off |-> off]
NoRequest == Request(NoId, NoInstance, {})
NotActive == [state |-> "none", instance |-> NoInstance]
NoResult == [id |-> NoId, result |-> "none"]
IdleService == [pc |-> "idle", todo |-> {}, req |-> NoRequest, verdict |-> "none"]
IdleClient == [pc |-> "idle", op |-> "none", id |-> NoId, instance |-> NoInstance]

\* parse_request(): what it rejects in a staged request.  A flaw of the ready file
\* leaves the request without an identity to answer to.
RequestFlaw == {"directory metadata", "directory changed", "entries", "ready file", "manifest",
                "file names", "file metadata", "file changed", "content", "size"}

\* systemd's TriggerLimitBurst of both path units.
TriggerBurst == 3

FixtureInit ==
  /\ request = [o \in Operation |-> NoRequest]
  /\ trigger = [o \in Operation |-> TRUE]
  /\ fired = [o \in Operation |-> 0]
  /\ service = [o \in Operation |-> IdleService]
  /\ lock = "none"
  /\ active = NotActive
  /\ files = {}
  /\ temps = {}
  /\ changed = {}
  /\ result = [o \in Operation |-> NoResult]
  /\ client = IdleClient
  /\ calls = 0
  /\ faults = 0

-----------------------------------------------------------------------------
(* The client: main(), stage_request(), wait_for_result(), clear_request().*)

\* stage_request() and, whatever it did, clear_request() on the way out: a second
\* request of the same kind is refused, and the pending one is removed with it.
StageRequest(o, i, off) ==
  /\ client.pc = "idle" /\ calls < MaxCalls
  /\ calls' = calls + 1
  /\ faults + Cardinality(off) <= MaxFaults /\ faults' = faults + Cardinality(off)
  /\ IF request[o] = NoRequest
     THEN /\ request' = [request EXCEPT ![o] = Request(calls + 1, i, off)]
          /\ client' = [pc |-> "waiting", op |-> o, id |-> calls + 1, instance |-> i]
     ELSE /\ request' = [request EXCEPT ![o] = NoRequest]
          /\ client' = [pc |-> "refused", op |-> o, id |-> NoId, instance |-> i]
  /\ UNCHANGED <<trigger, fired, service, lock, active, files, temps, changed, result>>

\* secure_read() or the staging itself fails: nothing is left behind.
StageFails(o, i) ==
  /\ client.pc = "idle" /\ calls < MaxCalls /\ faults < MaxFaults
  /\ calls' = calls + 1 /\ faults' = faults + 1
  /\ client' = [pc |-> "refused", op |-> o, id |-> NoId, instance |-> i]
  /\ request' = [request EXCEPT ![o] = NoRequest]
  /\ UNCHANGED <<trigger, fired, service, lock, active, files, temps, changed, result>>

Expected(o) == IF o = "install" THEN "installed" ELSE "removed"

\* wait_for_result(): only an answer to this request counts, "retrying" is no answer.
Answered(o, id) == result[o].id = id /\ result[o].result \in {Expected(o), "rejected"}

\* Mutant: a client that takes everything but a rejection for success.
ReadLeniently ==
  /\ client.pc = "waiting" /\ result[client.op].id = client.id
  /\ client' = [client EXCEPT !.pc = IF result[client.op].result = "rejected" THEN "refused" ELSE "accepted"]
  /\ request' = [request EXCEPT ![client.op] = NoRequest]
  /\ UNCHANGED <<trigger, fired, service, lock, active, files, temps, changed, result, calls, faults>>

ReadResult ==
  /\ client.pc = "waiting" /\ Answered(client.op, client.id)
  /\ client' = [client EXCEPT !.pc =
                  IF result[client.op].result = Expected(client.op) THEN "accepted" ELSE "refused"]
  /\ request' = [request EXCEPT ![client.op] = NoRequest]
  /\ UNCHANGED <<trigger, fired, service, lock, active, files, temps, changed, result, calls, faults>>

\* The deadline of 35 seconds: the request is withdrawn, whoever is reading it.  That a
\* service is still at work then counts as a fault.
WaitExpires ==
  /\ client.pc = "waiting"
  /\ IF trigger[client.op] \/ service[client.op].pc # "idle"
     THEN faults < MaxFaults /\ faults' = faults + 1
     ELSE ~Answered(client.op, client.id) /\ UNCHANGED faults
  /\ client' = [client EXCEPT !.pc = "refused"]
  /\ request' = [request EXCEPT ![client.op] = NoRequest]
  /\ UNCHANGED <<trigger, fired, service, lock, active, files, temps, changed, result, calls>>

\* The target's timeout ends the client before it can withdraw its request.
ClientKilled ==
  /\ client.pc = "waiting" /\ faults < MaxFaults
  /\ client' = [client EXCEPT !.pc = "refused"]
  /\ faults' = faults + 1
  /\ UNCHANGED <<request, trigger, fired, service, lock, active, files, temps, changed, result, calls>>

ClientReturns ==
  /\ client.pc \in {"accepted", "refused"}
  /\ client' = IdleClient
  /\ UNCHANGED <<request, trigger, fired, service, lock, active, files, temps, changed, result, calls, faults>>

-----------------------------------------------------------------------------
(* systemd's path units.                                                   *)

Fire(o) ==
  /\ trigger[o] /\ request[o] # NoRequest /\ service[o].pc = "idle"
  /\ IF fired[o] < TriggerBurst
     THEN /\ fired' = [fired EXCEPT ![o] = @ + 1]
          /\ service' = [service EXCEPT ![o].pc = IF o = "install" THEN "stop" ELSE "lock"]
          /\ UNCHANGED trigger
     ELSE trigger' = [trigger EXCEPT ![o] = FALSE] /\ UNCHANGED <<fired, service>>
  /\ UNCHANGED <<request, lock, active, files, temps, changed, result, client, calls, faults>>

-----------------------------------------------------------------------------
(* handle_request().                                                       *)

Step(o, from, to) == service[o].pc = from /\ service' = [service EXCEPT ![o].pc = to]

\* A RequestError: the lock is released; a removal stops its trigger before it answers.
Raised(o, id) ==
  /\ service' = [service EXCEPT ![o].pc = IF o = "remove" THEN "stop rejected" ELSE "publish",
                                ![o].verdict = "rejected", ![o].req.id = id]
  /\ lock' = IF lock = o THEN "none" ELSE lock

\* install stops its path unit before anything else; it is not started again.
StopInstallTrigger ==
  /\ \/ /\ Step("install", "stop", "lock")
        /\ trigger' = [trigger EXCEPT !["install"] = FALSE]
        /\ UNCHANGED <<lock, faults>>
     \/ /\ service["install"].pc = "stop" /\ faults < MaxFaults
        /\ faults' = faults + 1 /\ Raised("install", NoId)
        /\ UNCHANGED trigger
  /\ UNCHANGED <<request, fired, active, files, temps, changed, result, client, calls>>

\* operation_lock(): a held lock is an answer, not a reason to wait.
OperationLock(o) ==
  /\ service[o].pc = "lock"
  /\ IF lock = "none"
     THEN lock' = o /\ Step(o, "lock", "parse")
     ELSE Raised(o, NoId)
  /\ UNCHANGED <<request, trigger, fired, active, files, temps, changed, result, client, calls, faults>>

ParseRequest(o) ==
  /\ service[o].pc = "parse"
  /\ IF request[o] # NoRequest /\ request[o].off = {}
     THEN service' = [service EXCEPT ![o].pc = "check", ![o].req = request[o]] /\ UNCHANGED lock
     ELSE Raised(o, IF "ready file" \in request[o].off THEN NoId ELSE request[o].id)
  /\ UNCHANGED <<request, trigger, fired, active, files, temps, changed, result, client, calls, faults>>

Of(i) == {i} \X Units

\* install(): nothing may be active and the destination must be empty.
CheckInstall ==
  /\ service["install"].pc = "check"
  /\ IF active = NotActive /\ files = {} /\ temps = {}
     THEN service' = [service EXCEPT !["install"].pc = "record"] /\ UNCHANGED lock
     ELSE Raised("install", service["install"].req.id)
  /\ UNCHANGED <<request, trigger, fired, active, files, temps, changed, result, client, calls, faults>>

\* Mutant: an installation that writes its record after the units.
RecordNothing ==
  /\ service["install"].pc = "record"
  /\ service' = [service EXCEPT !["install"].pc = "write",
                                !["install"].todo = Of(service["install"].req.instance)]
  /\ UNCHANGED <<request, trigger, fired, lock, active, files, temps, changed, result, client, calls, faults>>

\* The record of what is about to be installed is on disk before the first unit.
RecordInstalling ==
  /\ service["install"].pc = "record"
  /\ active' = [state |-> "installing", instance |-> service["install"].req.instance]
  /\ service' = [service EXCEPT !["install"].pc = "write",
                                !["install"].todo = Of(service["install"].req.instance)]
  /\ UNCHANGED <<request, trigger, fired, lock, files, temps, changed, result, client, calls, faults>>

\* atomic_bytes() of one unit after the other, then of the state "active".
WriteUnit ==
  /\ service["install"].pc = "write"
  /\ \/ \E u \in service["install"].todo :
          /\ files' = files \cup {u}
          /\ service' = [service EXCEPT !["install"].todo = @ \ {u}]
          /\ UNCHANGED active
     \/ /\ service["install"].todo = {}
        /\ active' = [active EXCEPT !.state = "active", !.instance = service["install"].req.instance]
        /\ service' = [service EXCEPT !["install"].pc = "publish", !["install"].verdict = "installed"]
        /\ UNCHANGED files
  /\ UNCHANGED <<request, trigger, fired, lock, temps, changed, result, client, calls, faults>>

\* An error of a write: the units written so far are unlinked, then the state.
WriteFails ==
  /\ service["install"].pc = "write" /\ faults < MaxFaults
  /\ faults' = faults + 1
  /\ service' = [service EXCEPT !["install"].pc = "roll back",
                                !["install"].todo = files \cap Of(service["install"].req.instance)]
  /\ UNCHANGED <<request, trigger, fired, lock, active, files, temps, changed, result, client, calls>>

RollBack ==
  /\ service["install"].pc = "roll back"
  /\ \/ \E u \in service["install"].todo :
          /\ files' = files \ {u} /\ changed' = changed \ {u}
          /\ service' = [service EXCEPT !["install"].todo = @ \ {u}]
          /\ UNCHANGED <<active, lock>>
     \/ /\ service["install"].todo = {}
        /\ active' = NotActive
        /\ Raised("install", service["install"].req.id)
        /\ UNCHANGED <<files, changed>>
  /\ UNCHANGED <<request, trigger, fired, temps, result, client, calls, faults>>

\* remove_interrupted_atomic_writes() and trusted_file_matches()
WithoutInterrupted(i) == temps \ Of(i)
TrustedFilesMatch(i) == changed \cap Of(i) = {}

\* remove(): the state names this instance; interrupted writes go; a unit may be missing
\* only in an interrupted installation or removal, and none may have been changed.
CheckRemove ==
  LET i == service["remove"].req.instance
      ours == active # NotActive /\ active.instance = i IN
  /\ service["remove"].pc = "check"
  /\ temps' = IF ours THEN WithoutInterrupted(i) ELSE temps
  /\ IF /\ ours
        /\ active.state = "active" => Of(i) \subseteq files
        /\ TrustedFilesMatch(i)
     THEN /\ service' = [service EXCEPT !["remove"].pc = "unlink", !["remove"].todo = files \cap Of(i)]
          /\ active' = [active EXCEPT !.state = "removing"]
          /\ UNCHANGED lock
     ELSE Raised("remove", service["remove"].req.id) /\ UNCHANGED active
  /\ UNCHANGED <<request, trigger, fired, files, changed, result, client, calls, faults>>

Unlink ==
  /\ service["remove"].pc = "unlink"
  /\ \/ \E u \in service["remove"].todo :
          /\ files' = files \ {u} /\ changed' = changed \ {u}
          /\ service' = [service EXCEPT !["remove"].todo = @ \ {u}]
          /\ UNCHANGED active
     \/ /\ service["remove"].todo = {}
        /\ active' = NotActive
        /\ service' = [service EXCEPT !["remove"].pc = "stop", !["remove"].verdict = "removed"]
        /\ UNCHANGED <<files, changed>>
  /\ UNCHANGED <<request, trigger, fired, lock, temps, result, client, calls, faults>>

\* An error of an unlink: the state says "removing", the trigger stays and systemd retries.
UnlinkFails ==
  /\ service["remove"].pc = "unlink" /\ faults < MaxFaults
  /\ faults' = faults + 1
  /\ service' = [service EXCEPT !["remove"].pc = "publish", !["remove"].verdict = "retrying"]
  /\ lock' = "none"
  /\ UNCHANGED <<request, trigger, fired, active, files, temps, changed, result, client, calls>>

\* A removal stops its trigger when it is done or has been rejected; failing to do so
\* is a rejection.
StopRemoveTrigger ==
  /\ service["remove"].pc \in {"stop", "stop rejected"}
  /\ \/ /\ trigger' = [trigger EXCEPT !["remove"] = FALSE]
        /\ service' = [service EXCEPT !["remove"].pc = "publish"]
        /\ UNCHANGED <<lock, faults>>
     \/ /\ faults < MaxFaults /\ faults' = faults + 1
        /\ service' = [service EXCEPT !["remove"].pc =
                         IF @ = "stop" THEN "stop rejected" ELSE "publish",
                                      !["remove"].verdict = "rejected"]
        /\ lock' = IF lock = "remove" THEN "none" ELSE lock
        /\ UNCHANGED trigger
  /\ UNCHANGED <<request, fired, active, files, temps, changed, result, client, calls>>

\* publish_result(); a result that cannot be published leaves the old one.
PublishResult(o) ==
  /\ service[o].pc = "publish"
  /\ \/ /\ result' = [result EXCEPT ![o] = [id |-> service[o].req.id, result |-> service[o].verdict]]
        /\ UNCHANGED faults
     \/ /\ faults < MaxFaults /\ faults' = faults + 1 /\ UNCHANGED result
  /\ service' = [service EXCEPT ![o] = IdleService]
  /\ lock' = IF lock = o THEN "none" ELSE lock
  /\ UNCHANGED <<request, trigger, fired, active, files, temps, changed, client, calls>>

\* atomic_bytes(): a temporary of the unit being written can stay behind.
Temporaries(o) == {{}} \cup (IF service[o].pc = "write" THEN {{u} : u \in service[o].todo} ELSE {})

\* systemd kills the service: no handler runs, an interrupted write leaves its temporary.
ServiceKilled(o) ==
  /\ service[o].pc # "idle" /\ faults < MaxFaults
  /\ faults' = faults + 1
  /\ service' = [service EXCEPT ![o] = IdleService]
  /\ lock' = IF lock = o THEN "none" ELSE lock
  /\ \E left \in Temporaries(o) : temps' = temps \cup left
  /\ UNCHANGED <<request, trigger, fired, active, files, changed, result, client, calls>>

\* Somebody with administrator rights edits an installed unit.
ChangeUnit ==
  /\ faults < MaxFaults /\ faults' = faults + 1
  /\ \E u \in files \ changed : changed' = changed \cup {u}
  /\ UNCHANGED <<request, trigger, fired, service, lock, active, files, temps, result, client, calls>>

ServiceStep ==
  \/ StopInstallTrigger \/ CheckInstall \/ RecordInstalling \/ WriteUnit \/ WriteFails \/ RollBack
  \/ CheckRemove \/ Unlink \/ UnlinkFails \/ StopRemoveTrigger \/ ChangeUnit
  \/ \E o \in Operation : Fire(o) \/ OperationLock(o) \/ ParseRequest(o) \/ PublishResult(o)
                            \/ ServiceKilled(o)

ClientStep == ReadResult \/ WaitExpires \/ ClientKilled

-----------------------------------------------------------------------------
(* Every unit (and every interrupted write) of an instance on disk is      *)
(* covered by the state file that names the instance, whatever was killed  *)
(* when: remove() works from that file and nothing else.                   *)
UnitsAreRecorded == \A u \in files \cup temps : active.instance = u[1]

\* An answer the client accepts is the truth about the disk: after "installed" every
\* unit of the instance is there unless a removal has been requested meanwhile, after
\* "removed" none of it is, no interrupted write and no state; with services killed,
\* retried, running late or at the same time.
AcceptedIsTrue ==
  client.pc = "accepted" =>
    IF client.op = "install"
    THEN \/ Of(client.instance) \subseteq files /\ active = [state |-> "active", instance |-> client.instance]
         \/ service["remove"].pc # "idle" \/ request["remove"] # NoRequest
    ELSE (files \cup temps) \cap Of(client.instance) = {} /\ active = NotActive
=============================================================================
