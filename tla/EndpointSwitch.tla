--------------------------- MODULE EndpointSwitch ---------------------------
(***************************************************************************)
(* The endpoint switch adapter, scripts/endpoint_switch.py.  Coordinators  *)
(* run execute() and reconcile() concurrently against one endpoint: every  *)
(* call they make to the cutover authority, the adapter or the observer is *)
(* one step, so that other coordinators, out-of-band changes and crashes   *)
(* happen between any two calls.  The provider, the observer and the       *)
(* authority are ports of the module (its three Protocol classes): they    *)
(* are modelled by what their docstrings require and what execute() does   *)
(* with each answer.                                                       *)
(***************************************************************************)
EXTENDS Naturals, FiniteSets

CONSTANTS
  Coordinator,  \* processes that call execute() or reconcile()
  Op,           \* operation identities
  Target,       \* routing targets
  Exposure,     \* exposure digests
  Intent,       \* "switch" and "pre-write-reversal"; only the authority reads it
  NoOp,         \* operation_id None
  NoPlan,       \* no plan is bound
  MaxGen,       \* bound on native routing generations
  MaxPlans,     \* bound on the plans operators build
  AckFaults     \* TRUE: the adapter's answer may contradict what it did

Mutation == {"APPLIED", "REJECTED", "UNKNOWN"}
Outcome  == {"APPLIED", "ALREADY_SATISFIED", "REJECTED", "UNCERTAIN", "RECOVERY_REQUIRED"}

RoutingState == [generation : 1 .. MaxGen, target : Target, exposure : Exposure,
                 operation : Op \cup {NoOp}]

SwitchPlan == {p \in [operation : Op, before : RoutingState, target : Target, intent : Intent] :
                 p.target # p.before.target}

ASSUME NoOpAssumption == NoOp \notin Op
ASSUME NoPlanAssumption == NoPlan \notin SwitchPlan
ASSUME BoundAssumption == MaxGen \in Nat \ {0} /\ MaxPlans \in Nat /\ AckFaults \in BOOLEAN

VARIABLES
  route,       \* the provider's native routing state
  pending,     \* accepted compare-and-switch requests that may still land
  claims,      \* the authority's durable dispatch intents: Op -> plan
  plans,       \* the plans operators have built and may submit, or submit again
  pc,          \* the call each coordinator makes next
  request,     \* the plan each coordinator works on
  recovering,  \* whether the coordinator runs reconcile() rather than execute()
  ack,         \* the adapter's answer, held until the read-back
  result,      \* outcome of the coordinator's last call
  dispatched,  \* history: compare_and_switch calls made per operation
  committed,   \* history: the plans that changed the route
  refused      \* history: plans refused as stale or by the provider

coordination == <<plans, pc, request, recovering, ack, result, refused>>
provider     == <<route, pending, committed>>
vars == <<route, pending, claims, plans, pc, request, recovering, ack, result,
          dispatched, committed, refused>>

PC == {"idle", "authorize", "validate", "inspect", "claim", "dispatch", "verify",
       "observe", "done"}

NoResult == "NONE"

Diagnostic ==
  {"cutover-admission", "candidate-admission", "inspect-unavailable",
   "inspect-scope", "existing-switch-verified", "stale-precondition",
   "dispatch-claim-unknown", "verify-unavailable", "verify-scope",
   "reconcile-unavailable", "reconcile-scope", "readback-boundary",
   "contradictory-rejection", "switch-verified", "provider-precondition",
   "provider-outcome-unknown", "readback-mismatch"}

Result == [outcome : Outcome, diagnostic : Diagnostic]

Res(o, d) == [outcome |-> o, diagnostic |-> d]

-----------------------------------------------------------------------------
(* The pure result admission.                                              *)

\* Mutant: the operation identity is not compared.
CommittedByAnyone(p, s) ==
  /\ s.target = p.target
  /\ s.exposure = p.before.exposure
  /\ s.generation # p.before.generation

\* The observed route carries this request's target, operation and exposure
\* under another generation than the one it was planned on.
Committed(p, s) ==
  /\ s.target = p.target
  /\ s.exposure = p.before.exposure
  /\ s.generation # p.before.generation
  /\ s.operation = p.operation

\* Mutant: an unchanged route proves that an unknown attempt had no effect.
AssessUnknownIsRejected(p, m, s) ==
  IF s = p.before /\ m # "APPLIED" THEN Res("REJECTED", "provider-precondition")
  ELSE Res("RECOVERY_REQUIRED", "readback-mismatch")

\* assess(): the read-back decides; the adapter's answer m alone never passes.
Assess(p, m, s) ==
  IF s.exposure # p.before.exposure THEN Res("RECOVERY_REQUIRED", "readback-boundary")
  ELSE IF m = "REJECTED" /\ s.operation = p.operation
         THEN Res("RECOVERY_REQUIRED", "contradictory-rejection")
  ELSE IF Committed(p, s) THEN Res("APPLIED", "switch-verified")
  ELSE IF m = "REJECTED" THEN Res("REJECTED", "provider-precondition")
  ELSE IF m = "UNKNOWN" /\ s = p.before THEN Res("UNCERTAIN", "provider-outcome-unknown")
  ELSE Res("RECOVERY_REQUIRED", "readback-mismatch")

\* reconcile() reports what assess() finds of an attempt whose answer is unknown.
Reconciled(p, s) ==
  LET r == Assess(p, "UNKNOWN", s)
  IN  IF r.outcome = "APPLIED" THEN Res("ALREADY_SATISFIED", "existing-switch-verified") ELSE r

-----------------------------------------------------------------------------
(* Steps of a coordinator.                                                 *)

Goto(c, l) == pc' = [pc EXCEPT ![c] = l]

\* The refusals after which this plan can take no further effect.
Final(r) == r.diagnostic \in {"stale-precondition", "provider-precondition"}

Finish(c, r) ==
  /\ Goto(c, "done")
  /\ result' = [result EXCEPT ![c] = r.outcome]
  /\ ack' = [ack EXCEPT ![c] = "UNKNOWN"]
  /\ recovering' = [recovering EXCEPT ![c] = FALSE]
  /\ refused' = IF Final(r) THEN refused \cup {request[c]} ELSE refused

\* Mutant: the target may be the current one.
PlanAlreadyCurrent(o, t, i) ==
  /\ Cardinality(plans) < MaxPlans
  /\ plans' = plans \cup {[operation |-> o, before |-> route, target |-> t, intent |-> i]}
  /\ UNCHANGED <<provider, claims, dispatched, pc, request, recovering, ack, result, refused>>

\* plan(): built on the route the operator observes now.
MakePlan(o, t, i) ==
  /\ Cardinality(plans) < MaxPlans
  /\ t # route.target
  /\ plans' = plans \cup {[operation |-> o, before |-> route, target |-> t, intent |-> i]}
  /\ UNCHANGED <<provider, claims, dispatched, pc, request, recovering, ack, result, refused>>

\* A call of execute(p), or of reconcile(p) when rec holds; any process may
\* submit any plan, any number of times.
Submit(c, p, rec) ==
  /\ pc[c] \in {"idle", "done"}
  /\ Goto(c, "authorize")
  /\ request' = [request EXCEPT ![c] = p]
  /\ recovering' = [recovering EXCEPT ![c] = rec]
  /\ result' = [result EXCEPT ![c] = NoResult]
  /\ UNCHANGED <<provider, claims, dispatched, plans, ack, refused>>

Authorize(c) ==
  /\ pc[c] = "authorize"
  /\ \/ /\ Goto(c, IF recovering[c] THEN "observe" ELSE "validate")
        /\ UNCHANGED <<recovering, ack, result, refused>>
     \/ Finish(c, Res("REJECTED", "cutover-admission"))
  /\ UNCHANGED <<provider, claims, dispatched, plans, request>>

Validate(c) ==
  /\ pc[c] = "validate"
  /\ \/ Goto(c, "inspect") /\ UNCHANGED <<recovering, ack, result, refused>>
     \/ Finish(c, Res("REJECTED", "candidate-admission"))
  /\ UNCHANGED <<provider, claims, dispatched, plans, request>>

\* inspect() before the claim: unavailable, another endpoint's state, or the route.
Inspect(c) ==
  /\ pc[c] = "inspect"
  /\ LET p == request[c]
     IN \/ Finish(c, Res("UNCERTAIN", "inspect-unavailable"))
        \/ Finish(c, Res("REJECTED", "inspect-scope"))
        \/ /\ Committed(p, route)
           /\ Finish(c, Res("ALREADY_SATISFIED", "existing-switch-verified"))
        \/ /\ ~Committed(p, route) /\ route # p.before
           /\ Finish(c, Res("REJECTED", "stale-precondition"))
        \/ /\ ~Committed(p, route) /\ route = p.before
           /\ Goto(c, "claim")
           /\ UNCHANGED <<recovering, ack, result, refused>>
  /\ UNCHANGED <<provider, claims, dispatched, plans, request>>

\* claim_dispatch() answers TRUE once per operation: the exact plan is durable
\* before the dispatch.
ClaimFirst(c) ==
  LET p == request[c]
  IN  /\ claims[p.operation] = NoPlan
      /\ claims' = [claims EXCEPT ![p.operation] = p]
      /\ Goto(c, "dispatch")
      /\ UNCHANGED <<recovering, ack, result, refused>>

\* Mutant: an identical plan already claimed is dispatched again.
ClaimHeldReplays(c) ==
  /\ claims[request[c].operation] = request[c]
  /\ Goto(c, "dispatch")
  /\ UNCHANGED <<claims, recovering, ack, result, refused>>

\* It answers FALSE for an identical plan already claimed: reconcile() follows.
ClaimHeld(c) ==
  /\ claims[request[c].operation] = request[c]
  /\ Goto(c, "authorize")
  /\ recovering' = [recovering EXCEPT ![c] = TRUE]
  /\ UNCHANGED <<claims, ack, result, refused>>

\* Mutant: an ambiguous claim is taken for a granted one.
ClaimUnknownDispatches(c) ==
  /\ Goto(c, "dispatch")
  /\ UNCHANGED <<claims, recovering, ack, result, refused>>

\* It raises, or answers no boolean, before or after the intent became durable;
\* an operation bound to another plan always raises.
ClaimUnknown(c) ==
  LET p == request[c]
  IN  /\ \/ claims' = claims
         \/ /\ claims[p.operation] = NoPlan
            /\ claims' = [claims EXCEPT ![p.operation] = p]
      /\ Finish(c, Res("UNCERTAIN", "dispatch-claim-unknown"))

Claim(c) ==
  /\ pc[c] = "claim"
  /\ ClaimFirst(c) \/ ClaimHeld(c) \/ ClaimUnknown(c)
  /\ UNCHANGED <<provider, dispatched, plans, request>>

\* The provider's atomic compare-and-switch on the complete before state.
Switch(p) ==
  /\ route = p.before
  /\ route.generation < MaxGen
  /\ route' = [generation |-> route.generation + 1, target |-> p.target,
               exposure |-> route.exposure, operation |-> p.operation]
  /\ committed' = committed \cup {p}

\* compare_and_switch(): it commits, leaves the request pending, or has no
\* effect.  An adapter that keeps its contract answers APPLIED only for the
\* first, REJECTED only for the last, and UNKNOWN whenever the answer is lost.
Dispatch(c) ==
  LET p == request[c]
      Answer(m) == ack' = [ack EXCEPT ![c] = m]
      Answers(ms) == \E m \in (IF AckFaults THEN Mutation ELSE ms) : Answer(m)
  IN  /\ pc[c] = "dispatch"
      /\ dispatched' = [dispatched EXCEPT ![p.operation] = @ + 1]
      /\ \/ /\ Switch(p)
            /\ Answers({"APPLIED", "UNKNOWN"})
            /\ UNCHANGED pending
         \/ /\ pending' = pending \cup {p}
            /\ Answers({"UNKNOWN"})
            /\ UNCHANGED <<route, committed>>
         \/ /\ Answers({"REJECTED", "UNKNOWN"})
            /\ UNCHANGED provider
      /\ Goto(c, "verify")
      /\ UNCHANGED <<claims, plans, request, recovering, result, refused>>

\* The read-back after the dispatch.
Verify(c) ==
  /\ pc[c] = "verify"
  /\ \/ Finish(c, Res("UNCERTAIN", "verify-unavailable"))
     \/ Finish(c, Res("RECOVERY_REQUIRED", "verify-scope"))
     \/ Finish(c, Assess(request[c], ack[c], route))
  /\ UNCHANGED <<provider, claims, dispatched, plans, request>>

\* The observation of reconcile().
Observe(c) ==
  /\ pc[c] = "observe"
  /\ \/ Finish(c, Res("UNCERTAIN", "reconcile-unavailable"))
     \/ Finish(c, Res("RECOVERY_REQUIRED", "reconcile-scope"))
     \/ Finish(c, Reconciled(request[c], route))
  /\ UNCHANGED <<provider, claims, dispatched, plans, request>>

\* A coordinator stops between two calls and loses what it held.
Crash(c) ==
  /\ pc[c] \notin {"idle", "done"}
  /\ Goto(c, "idle")
  /\ request' = [request EXCEPT ![c] = NoPlan]
  /\ recovering' = [recovering EXCEPT ![c] = FALSE]
  /\ ack' = [ack EXCEPT ![c] = "UNKNOWN"]
  /\ UNCHANGED <<provider, claims, dispatched, plans, result, refused>>

-----------------------------------------------------------------------------
(* Steps of the provider.                                                  *)

\* A pending request completes: it switches the route or is dropped.
Land(p) ==
  /\ p \in pending
  /\ pending' = pending \ {p}
  /\ \/ Switch(p)
     \/ UNCHANGED <<route, committed>>
  /\ UNCHANGED <<claims, dispatched, coordination>>

\* A change made outside this interface: another exposure or another target
\* under a new generation; only an exposure change may keep the operation.
Drift(t, e, o) ==
  /\ route.generation < MaxGen
  /\ <<t, e>> # <<route.target, route.exposure>>
  /\ o \in {NoOp, route.operation}
  /\ t = route.target \/ o = NoOp
  /\ route' = [generation |-> route.generation + 1, target |-> t, exposure |-> e,
               operation |-> o]
  /\ UNCHANGED <<pending, committed, claims, dispatched, coordination>>

-----------------------------------------------------------------------------
Init ==
  /\ \E t \in Target, e \in Exposure :
       route = [generation |-> 1, target |-> t, exposure |-> e, operation |-> NoOp]
  /\ pending = {} /\ committed = {} /\ refused = {} /\ plans = {}
  /\ claims = [o \in Op |-> NoPlan]
  /\ dispatched = [o \in Op |-> 0]
  /\ pc = [c \in Coordinator |-> "idle"]
  /\ request = [c \in Coordinator |-> NoPlan]
  /\ recovering = [c \in Coordinator |-> FALSE]
  /\ ack = [c \in Coordinator |-> "UNKNOWN"]
  /\ result = [c \in Coordinator |-> NoResult]

Step(c) ==
  \/ Authorize(c) \/ Validate(c) \/ Inspect(c) \/ Claim(c)
  \/ Dispatch(c) \/ Verify(c) \/ Observe(c)

Next ==
  \/ \E o \in Op, t \in Target, i \in Intent : MakePlan(o, t, i)
  \/ \E c \in Coordinator : Step(c) \/ Crash(c)
  \/ \E c \in Coordinator, p \in plans, rec \in BOOLEAN : Submit(c, p, rec)
  \/ \E p \in pending : Land(p)
  \/ \E t \in Target, e \in Exposure, o \in Op \cup {NoOp} : Drift(t, e, o)

Spec == Init /\ [][Next]_vars

-----------------------------------------------------------------------------
(* Properties.                                                             *)

\* execute() and reconcile(), with all their retries, implement a register
\* that each operation changes at most once (EndpointRegister): the operations
\* that took effect are those of the committed plans.
Register == INSTANCE EndpointRegister WITH effected <- {p.operation : p \in committed}
ImplementsRegister == Register!Spec

\* Every variable has its type (the dataclasses of endpoint_switch.py).
TypeOK ==
  /\ route \in RoutingState
  /\ pending \in SUBSET SwitchPlan
  /\ committed \in SUBSET SwitchPlan
  /\ refused \in SUBSET SwitchPlan
  /\ plans \in SUBSET SwitchPlan
  /\ claims \in [Op -> SwitchPlan \cup {NoPlan}]
  /\ dispatched \in [Op -> Nat]
  /\ pc \in [Coordinator -> PC]
  /\ request \in [Coordinator -> SwitchPlan \cup {NoPlan}]
  /\ \A c \in Coordinator : pc[c] # "idle" => request[c] \in SwitchPlan
  /\ recovering \in [Coordinator -> BOOLEAN]
  /\ ack \in [Coordinator -> Mutation]
  /\ result \in [Coordinator -> Outcome \cup {NoResult}]

\* Across all coordinators, retries and crashes, an operation identity reaches
\* compare_and_switch() at most once and changes the route by one plan at most
\* (execute(): "One admitted dispatch; unresolved attempts can only reconcile").
AtMostOnce ==
  /\ \A o \in Op : dispatched[o] <= 1
  /\ \A p, q \in committed : p.operation = q.operation => p = q

\* A result APPLIED or ALREADY_SATISFIED is only returned for an operation that
\* really switched the route to this target, even when the adapter's
\* acknowledgement is wrong (assess(): an apply ACK cannot pass).
SuccessIsCommitted ==
  \A c \in Coordinator :
    pc[c] = "done" /\ result[c] \in {"APPLIED", "ALREADY_SATISFIED"} =>
      \E q \in committed : /\ q.operation = request[c].operation
                           /\ q.target = request[c].target

\* A plan that execute() refused as stale, or that the provider definitely
\* rejected, never takes effect afterwards: no coordinator, no late completion
\* and no retry can still commit it.
RefusalIsFinal ==
  [][\A p \in refused : p \in committed' => p \in committed]_vars

\* The route changes target under an operation only when that exact plan is the
\* one durably claimed for it, and only from the state it was planned on.
OnlyClaimedPlansSwitch ==
  [][\A o \in Op : route'.operation = o /\ route.operation # o =>
       /\ claims[o] \in committed'
       /\ claims[o].before = route
       /\ route'.target = claims[o].target
       /\ route'.exposure = route.exposure]_vars
=============================================================================
