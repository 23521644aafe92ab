------------------------ MODULE EndpointSwitchProofs ------------------------
(***************************************************************************)
(* Proofs about EndpointSwitch for every set of coordinators, operations,  *)
(* targets and exposures and for every bound.                              *)
(***************************************************************************)
EXTENDS EndpointSwitch, TLAPS

-----------------------------------------------------------------------------
(* The inductive invariant.                                                *)

\* A plan refers to the past: the route has moved past the state it was built
\* on, or is still exactly that state (generations are never reused).
Past(p) ==
  /\ p.before.generation <= route.generation
  /\ p.before.generation = route.generation => p.before = route

PlansArePast ==
  /\ \A p \in plans \cup pending : Past(p)
  /\ \A c \in Coordinator : request[c] # NoPlan => Past(request[c])

\* A coordinator about to dispatch holds the durable claim of its operation,
\* which nobody has used and nobody else holds.
DispatcherHoldsClaim ==
  /\ \A c \in Coordinator : pc[c] = "dispatch" =>
       /\ claims[request[c].operation] = request[c]
       /\ dispatched[request[c].operation] = 0
  /\ \A c, d \in Coordinator :
       pc[c] = "dispatch" /\ pc[d] = "dispatch" /\ request[c] = request[d] => c = d

\* Whatever has reached the provider was claimed, was dispatched exactly once,
\* and is either still pending or committed.
EffectsAreClaimed ==
  /\ pending \cap committed = {}
  /\ \A o \in Op : dispatched[o] \in {0, 1} /\ (claims[o] = NoPlan => dispatched[o] = 0)
  /\ \A p \in pending \cup committed :
       claims[p.operation] = p /\ dispatched[p.operation] = 1

\* An operation the route shows is the operation of a committed plan.
RouteIsCommitted ==
  route.operation \in Op =>
    \E q \in committed : q.operation = route.operation /\ q.target = route.target

IInv ==
  /\ TypeOK
  /\ PlansArePast
  /\ DispatcherHoldsClaim
  /\ EffectsAreClaimed
  /\ RouteIsCommitted
  /\ SuccessIsCommitted

-----------------------------------------------------------------------------
(* Type correctness.                                                       *)

LEMMA AssessType ==
  ASSUME NEW p, NEW m, NEW s
  PROVE  Assess(p, m, s) \in Result /\ Reconciled(p, s) \in Result
BY DEF Assess, Reconciled, Result, Res, Outcome, Diagnostic

\* A call that ends with one of the module's results keeps every type.
LEMMA FinishType ==
  ASSUME TypeOK, NEW c \in Coordinator, NEW r \in Result, pc[c] # "idle", Finish(c, r),
         claims' \in [Op -> SwitchPlan \cup {NoPlan}],
         UNCHANGED <<provider, dispatched, plans, request>>
  PROVE  TypeOK'
<1>1. request[c] \in SwitchPlan
  BY DEF TypeOK
<1>2. /\ pc' \in [Coordinator -> PC]
      /\ \A d \in Coordinator : d # c => pc'[d] = pc[d]
  BY DEF TypeOK, Finish, Goto, PC
<1>3. result' \in [Coordinator -> Outcome \cup {NoResult}]
  BY DEF TypeOK, Finish, Result
<1>4. ack' \in [Coordinator -> Mutation] /\ recovering' \in [Coordinator -> BOOLEAN]
  BY DEF TypeOK, Finish, Mutation
<1>5. refused' \in SUBSET SwitchPlan
  BY <1>1 DEF TypeOK, Finish
<1>6. \A d \in Coordinator : pc'[d] # "idle" => request'[d] \in SwitchPlan
  BY <1>1, <1>2 DEF TypeOK
<1> QED BY <1>2, <1>3, <1>4, <1>5, <1>6 DEF TypeOK, provider

LEMMA SwitchType ==
  ASSUME TypeOK, NEW p \in SwitchPlan, Switch(p)
  PROVE  /\ route' \in RoutingState
         /\ committed' \in SUBSET SwitchPlan
         /\ route'.generation = route.generation + 1
         /\ route'.target = p.target
         /\ route'.exposure = route.exposure
         /\ route'.operation = p.operation
BY BoundAssumption DEF TypeOK, Switch, SwitchPlan, RoutingState

LEMMA TypeInit == Init => TypeOK
BY BoundAssumption DEF Init, TypeOK, RoutingState, PC, NoResult, Result, Mutation, Outcome, Diagnostic

LEMMA TypeStep == TypeOK /\ [Next]_vars => TypeOK'
<1> SUFFICES ASSUME TypeOK, [Next]_vars PROVE TypeOK'
  OBVIOUS
<1>1. ASSUME NEW o \in Op, NEW t \in Target, NEW i \in Intent, MakePlan(o, t, i)
      PROVE  TypeOK'
  <2>1. [operation |-> o, before |-> route, target |-> t, intent |-> i] \in SwitchPlan
    BY <1>1 DEF MakePlan, SwitchPlan, TypeOK
  <2> QED BY <1>1, <2>1 DEF MakePlan, TypeOK, provider
<1>2. ASSUME NEW c \in Coordinator, NEW p \in plans, NEW rec \in BOOLEAN, Submit(c, p, rec)
      PROVE  TypeOK'
  BY <1>2 DEF Submit, Goto, TypeOK, provider, PC, NoResult, Result, Outcome, Diagnostic
<1>3. ASSUME NEW c \in Coordinator, Authorize(c) PROVE TypeOK'
  <2>1. Res("REJECTED", "cutover-admission") \in Result
    BY DEF Res, Result, Outcome, Diagnostic
  <2>2. CASE Finish(c, Res("REJECTED", "cutover-admission"))
    BY <1>3, <2>1, <2>2, FinishType DEF Authorize, TypeOK, provider
  <2> QED BY <1>3, <2>2 DEF Authorize, TypeOK, provider, Goto, PC
<1>4. ASSUME NEW c \in Coordinator, Validate(c) PROVE TypeOK'
  <2>1. Res("REJECTED", "candidate-admission") \in Result
    BY DEF Res, Result, Outcome, Diagnostic
  <2>2. CASE Finish(c, Res("REJECTED", "candidate-admission"))
    BY <1>4, <2>1, <2>2, FinishType DEF Validate, TypeOK, provider
  <2> QED BY <1>4, <2>2 DEF Validate, TypeOK, provider, Goto, PC
<1>5. ASSUME NEW c \in Coordinator, Inspect(c) PROVE TypeOK'
  <2>1. ASSUME NEW r \in Result, Finish(c, r) PROVE TypeOK'
    BY <1>5, <2>1, FinishType DEF Inspect, TypeOK, provider
  <2>2. CASE Goto(c, "claim") /\ UNCHANGED <<recovering, ack, result, refused>>
    BY <1>5, <2>2 DEF Inspect, TypeOK, provider, Goto, PC
  <2> QED BY <1>5, <2>1, <2>2 DEF Inspect, Res, Result, Outcome, Diagnostic
<1>6. ASSUME NEW c \in Coordinator, Claim(c) PROVE TypeOK'
  <2>1. CASE ClaimFirst(c)
    BY <1>6, <2>1 DEF Claim, ClaimFirst, Goto, TypeOK, provider, PC, SwitchPlan
  <2>2. CASE ClaimHeld(c)
    BY <1>6, <2>2 DEF Claim, ClaimHeld, Goto, TypeOK, provider, PC
  <2>3. CASE ClaimUnknown(c)
    <3>1. Res("UNCERTAIN", "dispatch-claim-unknown") \in Result
      BY DEF Res, Result, Outcome, Diagnostic
    <3> QED BY <1>6, <2>3, <3>1, FinishType DEF Claim, ClaimUnknown, TypeOK, provider
  <2> QED BY <1>6, <2>1, <2>2, <2>3 DEF Claim
<1>7. ASSUME NEW c \in Coordinator, Dispatch(c) PROVE TypeOK'
  <2>1. /\ request[c] \in SwitchPlan
        /\ request[c].operation \in Op
    BY <1>7 DEF Dispatch, TypeOK, SwitchPlan
  <2>2. /\ ack' \in [Coordinator -> Mutation]
        /\ pc' \in [Coordinator -> PC]
        /\ dispatched' \in [Op -> Nat]
    BY <1>7, <2>1 DEF Dispatch, TypeOK, Goto, PC, Mutation
  <2>3. /\ route' \in RoutingState
        /\ pending' \in SUBSET SwitchPlan
        /\ committed' \in SUBSET SwitchPlan
    BY <1>7, <2>1, SwitchType DEF Dispatch, TypeOK, provider
  <2> QED BY <1>7, <2>2, <2>3 DEF Dispatch, TypeOK, Goto
<1>8. ASSUME NEW c \in Coordinator, Verify(c) PROVE TypeOK'
  <2>1. ASSUME NEW r \in Result, Finish(c, r) PROVE TypeOK'
    BY <1>8, <2>1, FinishType DEF Verify, TypeOK, provider
  <2> QED BY <1>8, <2>1, AssessType DEF Verify, Res, Result, Outcome, Diagnostic
<1>9. ASSUME NEW c \in Coordinator, Observe(c) PROVE TypeOK'
  <2>1. ASSUME NEW r \in Result, Finish(c, r) PROVE TypeOK'
    BY <1>9, <2>1, FinishType DEF Observe, TypeOK, provider
  <2> QED BY <1>9, <2>1, AssessType DEF Observe, Res, Result, Outcome, Diagnostic
<1>10. ASSUME NEW c \in Coordinator, Crash(c) PROVE TypeOK'
  BY <1>10 DEF Crash, Goto, TypeOK, provider, PC, Mutation
<1>11. ASSUME NEW p \in pending, Land(p) PROVE TypeOK'
  <2>1. p \in SwitchPlan
    BY DEF TypeOK
  <2> QED BY <1>11, <2>1, SwitchType DEF Land, TypeOK, coordination
<1>12. ASSUME NEW t \in Target, NEW e \in Exposure, NEW o \in Op \cup {NoOp}, Drift(t, e, o)
       PROVE  TypeOK'
  <2>1. route' \in RoutingState
    BY <1>12, BoundAssumption DEF Drift, TypeOK, RoutingState
  <2> QED BY <1>12, <2>1 DEF Drift, TypeOK, coordination
<1>13. CASE UNCHANGED vars
  BY <1>13 DEF vars, TypeOK
<1> QED
  BY <1>1, <1>2, <1>3, <1>4, <1>5, <1>6, <1>7, <1>8, <1>9, <1>10, <1>11, <1>12, <1>13
  DEF Next, Step

\* Every variable keeps its type, whatever the constants.
THEOREM TypeCorrect == Spec => []TypeOK
BY TypeInit, TypeStep, PTL DEF Spec

-----------------------------------------------------------------------------
(* At most one dispatch, and success only for what really happened.        *)

\* A step that leaves the provider, the claims and the counts alone and lets
\* nobody reach the dispatch keeps the invariant, if its results are right.
LEMMA QuietStep ==
  ASSUME IInv, TypeOK', SuccessIsCommitted',
         UNCHANGED <<provider, claims, dispatched>>,
         \A p \in plans' : Past(p),
         \A d \in Coordinator : request'[d] # NoPlan => Past(request'[d]),
         \A d \in Coordinator : pc'[d] = "dispatch" => pc[d] = "dispatch" /\ request'[d] = request[d]
  PROVE  IInv'
<1>1. PlansArePast'
  BY DEF IInv, PlansArePast, Past, provider
<1>2. DispatcherHoldsClaim'
  BY DEF IInv, DispatcherHoldsClaim
<1>3. EffectsAreClaimed' /\ RouteIsCommitted'
  BY DEF IInv, EffectsAreClaimed, RouteIsCommitted, provider
<1> QED BY <1>1, <1>2, <1>3 DEF IInv

\* What a result APPLIED or ALREADY_SATISFIED says of the route.
LEMMA SuccessIsObserved ==
  ASSUME IInv, NEW p \in SwitchPlan, Committed(p, route)
  PROVE  \E q \in committed : q.operation = p.operation /\ q.target = p.target
<1>1. p.operation \in Op
  BY DEF SwitchPlan
<1> QED BY <1>1 DEF IInv, RouteIsCommitted, Committed

LEMMA AssessSuccess ==
  ASSUME NEW p, NEW m, NEW s
  PROVE  /\ Assess(p, m, s).outcome \in {"APPLIED", "ALREADY_SATISFIED"} => Committed(p, s)
         /\ Reconciled(p, s).outcome \in {"APPLIED", "ALREADY_SATISFIED"} => Committed(p, s)
BY DEF Assess, Reconciled, Res

\* A call that ends keeps the invariant when its success was observed.
LEMMA FinishStep ==
  ASSUME IInv, TypeOK', NEW c \in Coordinator, NEW r \in Result, pc[c] # "idle", Finish(c, r),
         UNCHANGED <<provider, claims, dispatched, plans, request>>,
         r.outcome \in {"APPLIED", "ALREADY_SATISFIED"} => Committed(request[c], route)
  PROVE  IInv'
<1>1. pc' = [pc EXCEPT ![c] = "done"] /\ result' = [result EXCEPT ![c] = r.outcome]
  BY DEF Finish, Goto
<1>2. request[c] \in SwitchPlan
  BY DEF IInv, TypeOK
<1>3. pc \in [Coordinator -> PC] /\ result \in [Coordinator -> Outcome \cup {NoResult}]
  BY DEF IInv, TypeOK
<1>4. SuccessIsCommitted'
  <2> SUFFICES ASSUME NEW d \in Coordinator, pc'[d] = "done",
                      result'[d] \in {"APPLIED", "ALREADY_SATISFIED"}
               PROVE  \E q \in committed : /\ q.operation = request[d].operation
                                           /\ q.target = request[d].target
    BY DEF SuccessIsCommitted, provider
  <2>1. CASE d = c
    BY <1>1, <1>2, <1>3, <2>1, SuccessIsObserved
  <2>2. CASE d # c
    BY <1>1, <1>3, <2>2 DEF IInv, SuccessIsCommitted
  <2> QED BY <2>1, <2>2
<1>5. \A p \in plans' : Past(p)
  BY DEF IInv, PlansArePast
<1>6. \A d \in Coordinator : request'[d] # NoPlan => Past(request'[d])
  BY DEF IInv, PlansArePast
<1>7. \A d \in Coordinator : pc'[d] = "dispatch" => pc[d] = "dispatch" /\ request'[d] = request[d]
  BY <1>1, <1>3
<1> QED BY <1>4, <1>5, <1>6, <1>7, QuietStep

\* A call that moves on keeps the invariant unless it reaches the dispatch.
LEMMA MoveStep ==
  ASSUME IInv, TypeOK', NEW c \in Coordinator, NEW l \in PC \ {"done", "dispatch"}, Goto(c, l),
         UNCHANGED <<provider, claims, dispatched, plans, request, result>>
  PROVE  IInv'
<1>1. pc \in [Coordinator -> PC]
  BY DEF IInv, TypeOK
<1>2. SuccessIsCommitted'
  BY <1>1 DEF IInv, SuccessIsCommitted, Goto, provider
<1>3. \A d \in Coordinator : pc'[d] = "dispatch" => pc[d] = "dispatch" /\ request'[d] = request[d]
  BY <1>1 DEF Goto
<1>4. \A p \in plans' : Past(p)
  BY DEF IInv, PlansArePast
<1>5. \A d \in Coordinator : request'[d] # NoPlan => Past(request'[d])
  BY DEF IInv, PlansArePast
<1> QED BY <1>2, <1>3, <1>4, <1>5, QuietStep

LEMMA InvInit == Init => IInv
<1> SUFFICES ASSUME Init PROVE IInv
  OBVIOUS
<1>1. TypeOK
  BY TypeInit
<1>2. PlansArePast /\ DispatcherHoldsClaim /\ SuccessIsCommitted
  BY DEF Init, PlansArePast, DispatcherHoldsClaim, SuccessIsCommitted
<1>3. EffectsAreClaimed /\ RouteIsCommitted
  BY NoOpAssumption DEF Init, EffectsAreClaimed, RouteIsCommitted
<1> QED BY <1>1, <1>2, <1>3 DEF IInv

\* The provider switches to a plan that was claimed and dispatched once and
\* had not been committed.
LEMMA SwitchStep ==
  ASSUME IInv, TypeOK', NEW p \in SwitchPlan, Switch(p)
  PROVE  /\ \A q : Past(q) /\ q \in SwitchPlan => Past(q)'
         /\ RouteIsCommitted'
         /\ (UNCHANGED <<pc, request, result>>) => SuccessIsCommitted'
<1>1. route'.generation = route.generation + 1 /\ route.generation \in Nat
  BY SwitchType DEF IInv, TypeOK, RoutingState
<1>2. ASSUME NEW q \in SwitchPlan, Past(q) PROVE Past(q)'
  <2>1. q.before.generation \in Nat
    BY DEF SwitchPlan, RoutingState
  <2> QED BY <1>1, <1>2, <2>1 DEF Past
<1>3. RouteIsCommitted'
  BY SwitchType DEF Switch, RouteIsCommitted, IInv
<1>4. committed \subseteq committed'
  BY DEF Switch
<1>5. ASSUME UNCHANGED <<pc, request, result>> PROVE SuccessIsCommitted'
  BY <1>4, <1>5 DEF IInv, SuccessIsCommitted
<1> QED BY <1>2, <1>3, <1>5

LEMMA DispatchStep ==
  ASSUME IInv, TypeOK', NEW c \in Coordinator, Dispatch(c)
  PROVE  IInv'
<1> DEFINE p == request[c]
<1>1. /\ p \in SwitchPlan /\ p.operation \in Op
      /\ pc[c] = "dispatch" /\ pc' = [pc EXCEPT ![c] = "verify"]
      /\ dispatched' = [dispatched EXCEPT ![p.operation] = @ + 1]
      /\ UNCHANGED <<claims, plans, request, result>>
  BY DEF Dispatch, Goto, IInv, TypeOK, SwitchPlan
<1>2. claims[p.operation] = p /\ dispatched[p.operation] = 0
  BY <1>1 DEF IInv, DispatcherHoldsClaim
<1>3. /\ pc \in [Coordinator -> PC] /\ dispatched \in [Op -> Nat]
      /\ plans \subseteq SwitchPlan /\ pending \subseteq SwitchPlan /\ committed \subseteq SwitchPlan
  BY DEF IInv, TypeOK
<1>4. \/ Switch(p) /\ pending' = pending
      \/ pending' = pending \cup {p} /\ UNCHANGED <<route, committed>>
      \/ UNCHANGED <<route, pending, committed>>
  BY DEF Dispatch, provider
<1>5. /\ pending' \subseteq pending \cup {p}
      /\ committed' \subseteq committed \cup {p} /\ committed \subseteq committed'
  BY <1>4 DEF Switch
<1>6. \A q \in SwitchPlan : Past(q) => Past(q)'
  BY <1>1, <1>4, SwitchStep DEF Past
<1>7. PlansArePast'
  <2>1. p # NoPlan
    BY <1>1, NoPlanAssumption
  <2>2. Past(p)
    BY <2>1 DEF IInv, PlansArePast
  <2>3. \A d \in Coordinator : request[d] # NoPlan => request[d] \in SwitchPlan
    BY DEF IInv, TypeOK
  <2>4. \A q \in plans' \cup pending' : q \in SwitchPlan /\ Past(q)
    BY <1>1, <1>3, <1>5, <2>2 DEF IInv, PlansArePast
  <2>5. \A d \in Coordinator : request[d] # NoPlan => Past(request[d])
    BY DEF IInv, PlansArePast
  <2> QED BY <1>1, <1>6, <2>3, <2>4, <2>5 DEF PlansArePast
<1>8. \A d \in Coordinator : pc'[d] = "dispatch" =>
        d # c /\ pc[d] = "dispatch" /\ request[d].operation # p.operation
  BY <1>1, <1>2, <1>3 DEF IInv, DispatcherHoldsClaim
<1>9. DispatcherHoldsClaim'
  BY <1>1, <1>8 DEF IInv, DispatcherHoldsClaim
<1>10. EffectsAreClaimed'
  <2>1. ASSUME NEW o \in Op
        PROVE  dispatched'[o] \in {0, 1} /\ (claims'[o] = NoPlan => dispatched'[o] = 0)
    <3>1. CASE o = p.operation
      BY <1>1, <1>2, <1>3, <3>1, NoPlanAssumption
    <3>2. CASE o # p.operation
      BY <1>1, <1>3, <3>2 DEF IInv, EffectsAreClaimed
    <3> QED BY <3>1, <3>2
  <2>2. ASSUME NEW q \in pending' \cup committed'
        PROVE  claims'[q.operation] = q /\ dispatched'[q.operation] = 1
    <3>1. CASE q = p
      BY <1>1, <1>2, <1>3, <3>1
    <3>2. CASE q # p
      <4>1. q \in pending \cup committed
        BY <1>5, <3>2
      <4>2. q.operation \in Op /\ q \in SwitchPlan
        BY <1>3, <4>1 DEF SwitchPlan
      <4>3. claims[q.operation] = q /\ dispatched[q.operation] = 1
        BY <4>1 DEF IInv, EffectsAreClaimed
      <4>4. q.operation # p.operation
        BY <1>2, <4>3
      <4> QED BY <1>1, <1>3, <4>2, <4>3, <4>4
    <3> QED BY <3>1, <3>2
  <2>3. p \notin pending \cup committed
    BY <1>1, <1>2 DEF IInv, EffectsAreClaimed
  <2>4. pending' \cap committed' = {}
    BY <1>4, <2>3 DEF IInv, EffectsAreClaimed, Switch
  <2> QED BY <2>1, <2>2, <2>4 DEF EffectsAreClaimed
<1>11. RouteIsCommitted'
  BY <1>1, <1>4, SwitchStep DEF IInv, RouteIsCommitted
<1>12. SuccessIsCommitted'
  BY <1>1, <1>3, <1>5 DEF IInv, SuccessIsCommitted
<1> QED BY <1>7, <1>9, <1>10, <1>11, <1>12 DEF IInv

LEMMA LandStep ==
  ASSUME IInv, TypeOK', NEW p \in pending, Land(p)
  PROVE  IInv'
<1>1. /\ p \in SwitchPlan
      /\ UNCHANGED <<claims, dispatched, plans, pc, request, result>>
  BY DEF Land, coordination, IInv, TypeOK
<1>2. \/ Switch(p)
      \/ UNCHANGED <<route, committed>>
  BY DEF Land
<1>3. /\ pending' \subseteq pending
      /\ committed' \subseteq committed \cup {p} /\ committed \subseteq committed'
  BY <1>2 DEF Land, Switch
<1>4. \A q \in SwitchPlan : Past(q) => Past(q)'
  BY <1>1, <1>2, SwitchStep DEF Past
<1>5. PlansArePast'
  <2>1. \A d \in Coordinator : request[d] # NoPlan => request[d] \in SwitchPlan /\ Past(request[d])
    BY DEF IInv, TypeOK, PlansArePast
  <2>2. \A q \in plans' \cup pending' : q \in SwitchPlan /\ Past(q)
    BY <1>1, <1>3 DEF IInv, TypeOK, PlansArePast
  <2> QED BY <1>1, <1>4, <2>1, <2>2 DEF PlansArePast
<1>6. DispatcherHoldsClaim'
  BY <1>1 DEF IInv, DispatcherHoldsClaim
<1>7. EffectsAreClaimed'
  <2>1. pending' \cap committed' = {}
    BY <1>3 DEF Land, IInv, EffectsAreClaimed
  <2> QED BY <1>1, <1>3, <2>1 DEF IInv, EffectsAreClaimed
<1>8. RouteIsCommitted' /\ SuccessIsCommitted'
  BY <1>1, <1>2, SwitchStep DEF IInv, RouteIsCommitted, SuccessIsCommitted
<1> QED BY <1>5, <1>6, <1>7, <1>8 DEF IInv

LEMMA ClaimStep ==
  ASSUME IInv, TypeOK', NEW c \in Coordinator, Claim(c)
  PROVE  IInv'
<1> DEFINE p == request[c]
<1>1. /\ pc[c] = "claim" /\ p \in SwitchPlan /\ p.operation \in Op
      /\ UNCHANGED <<provider, dispatched, plans, request>>
      /\ pc \in [Coordinator -> PC]
      /\ claims \in [Op -> SwitchPlan \cup {NoPlan}]
  BY DEF Claim, IInv, TypeOK, SwitchPlan
<1>2. CASE ClaimHeld(c)
  BY <1>1, <1>2, MoveStep DEF ClaimHeld, PC
<1>3. ASSUME claims[p.operation] = NoPlan, claims' = [claims EXCEPT ![p.operation] = p]
      PROVE  /\ EffectsAreClaimed'
             /\ \A d \in Coordinator : pc[d] = "dispatch" =>
                  request[d].operation # p.operation /\ claims'[request[d].operation] = request[d]
  <2>1. \A q \in pending \cup committed : q.operation # p.operation
    BY <1>1, <1>3, NoPlanAssumption DEF IInv, EffectsAreClaimed, TypeOK
  <2>2. \A q \in pending \cup committed : q.operation \in Op
    BY DEF IInv, TypeOK, SwitchPlan
  <2>3. EffectsAreClaimed'
    BY <1>1, <1>3, <2>1, <2>2 DEF IInv, EffectsAreClaimed, provider
  <2>4. \A d \in Coordinator : pc[d] = "dispatch" => request[d] \in SwitchPlan
    BY DEF IInv, TypeOK
  <2>5. \A d \in Coordinator : pc[d] = "dispatch" =>
          request[d].operation \in Op /\ request[d].operation # p.operation
    BY <1>1, <1>3, <2>4, NoPlanAssumption DEF IInv, DispatcherHoldsClaim, SwitchPlan
  <2> QED BY <1>1, <1>3, <2>3, <2>5 DEF IInv, DispatcherHoldsClaim
<1>4. CASE ClaimFirst(c)
  <2>1. /\ claims[p.operation] = NoPlan /\ claims' = [claims EXCEPT ![p.operation] = p]
        /\ pc' = [pc EXCEPT ![c] = "dispatch"] /\ result' = result
    BY <1>4 DEF ClaimFirst, Goto
  <2>2. dispatched[p.operation] = 0
    BY <1>1, <2>1 DEF IInv, EffectsAreClaimed
  <2>3. DispatcherHoldsClaim'
    <3>1. ASSUME NEW d \in Coordinator, pc'[d] = "dispatch"
          PROVE  claims'[request[d].operation] = request[d] /\ dispatched[request[d].operation] = 0
      <4>1. CASE d = c
        BY <1>1, <2>1, <2>2, <4>1
      <4>2. CASE d # c
        BY <1>1, <1>3, <2>1, <3>1, <4>2 DEF IInv, DispatcherHoldsClaim
      <4> QED BY <4>1, <4>2
    <3>2. ASSUME NEW d \in Coordinator, NEW e \in Coordinator, pc'[d] = "dispatch",
                 pc'[e] = "dispatch", request[d] = request[e]
          PROVE  d = e
      BY <1>1, <1>3, <2>1, <3>2 DEF IInv, DispatcherHoldsClaim
    <3> QED BY <1>1, <3>1, <3>2 DEF DispatcherHoldsClaim
  <2>4. PlansArePast'
    BY <1>1 DEF IInv, PlansArePast, Past, provider
  <2>5. RouteIsCommitted'
    BY <1>1 DEF IInv, RouteIsCommitted, provider
  <2>6. SuccessIsCommitted'
    BY <1>1, <2>1 DEF IInv, SuccessIsCommitted, provider
  <2> QED BY <1>3, <2>1, <2>3, <2>4, <2>5, <2>6 DEF IInv
<1>5. CASE ClaimUnknown(c)
  <2> DEFINE r == Res("UNCERTAIN", "dispatch-claim-unknown")
  <2>1. r \in Result /\ r.outcome \notin {"APPLIED", "ALREADY_SATISFIED"}
    BY DEF Res, Result, Outcome, Diagnostic
  <2>2. Finish(c, r)
    BY <1>5 DEF ClaimUnknown
  <2>3. CASE claims' = claims
    BY <1>1, <2>1, <2>2, <2>3, FinishStep
  <2>4. CASE claims[p.operation] = NoPlan /\ claims' = [claims EXCEPT ![p.operation] = p]
    <3>1. pc' = [pc EXCEPT ![c] = "done"] /\ result' = [result EXCEPT ![c] = r.outcome]
      BY <2>2 DEF Finish, Goto
    <3>2. DispatcherHoldsClaim'
      BY <1>1, <1>3, <2>4, <3>1 DEF IInv, DispatcherHoldsClaim
    <3>3. PlansArePast'
      BY <1>1 DEF IInv, PlansArePast, Past, provider
    <3>4. RouteIsCommitted'
      BY <1>1 DEF IInv, RouteIsCommitted, provider
    <3>5. result \in [Coordinator -> Outcome \cup {NoResult}]
      BY DEF IInv, TypeOK
    <3>6. SuccessIsCommitted'
      BY <1>1, <2>1, <3>1, <3>5 DEF IInv, SuccessIsCommitted, provider
    <3> QED BY <1>3, <2>4, <3>2, <3>3, <3>4, <3>6 DEF IInv
  <2> QED BY <1>5, <2>3, <2>4 DEF ClaimUnknown
<1> QED BY <1>2, <1>4, <1>5 DEF Claim

LEMMA InvStep == IInv /\ [Next]_vars => IInv'
<1> SUFFICES ASSUME IInv, [Next]_vars PROVE IInv'
  OBVIOUS
<1>0. TypeOK'
  BY TypeStep DEF IInv
<1>1. ASSUME NEW o \in Op, NEW t \in Target, NEW i \in Intent, MakePlan(o, t, i)
      PROVE  IInv'
  <2>1. UNCHANGED <<provider, claims, dispatched, pc, request, result>>
    BY <1>1 DEF MakePlan
  <2>2. route.generation \in Nat
    BY DEF IInv, TypeOK, RoutingState
  <2>3. \A p \in plans' : Past(p)
    BY <1>1, <2>2 DEF MakePlan, IInv, PlansArePast, Past
  <2>4. SuccessIsCommitted' /\ \A d \in Coordinator : request'[d] # NoPlan => Past(request'[d])
    BY <2>1 DEF IInv, PlansArePast, SuccessIsCommitted, provider
  <2> QED BY <1>0, <2>1, <2>3, <2>4, QuietStep
<1>2. ASSUME NEW c \in Coordinator, NEW p \in plans, NEW rec \in BOOLEAN, Submit(c, p, rec)
      PROVE  IInv'
  <2>1. /\ UNCHANGED <<provider, claims, dispatched, plans>>
        /\ request' = [request EXCEPT ![c] = p] /\ pc' = [pc EXCEPT ![c] = "authorize"]
        /\ result' = [result EXCEPT ![c] = NoResult]
    BY <1>2 DEF Submit, Goto
  <2>2. /\ pc \in [Coordinator -> PC] /\ result \in [Coordinator -> Outcome \cup {NoResult}]
        /\ request \in [Coordinator -> SwitchPlan \cup {NoPlan}]
    BY DEF IInv, TypeOK
  <2>3. \A q \in plans' : Past(q)
    BY <2>1 DEF IInv, PlansArePast
  <2>4. \A d \in Coordinator : request'[d] # NoPlan => Past(request'[d])
    BY <2>1, <2>2 DEF IInv, PlansArePast
  <2>5. SuccessIsCommitted'
    BY <2>1, <2>2 DEF IInv, SuccessIsCommitted, provider
  <2>6. \A d \in Coordinator : pc'[d] = "dispatch" => pc[d] = "dispatch" /\ request'[d] = request[d]
    BY <2>1, <2>2
  <2> QED BY <1>0, <2>1, <2>3, <2>4, <2>5, <2>6, QuietStep
<1>3. ASSUME NEW c \in Coordinator, Authorize(c) PROVE IInv'
  <2>1. UNCHANGED <<provider, claims, dispatched, plans, request>>
    BY <1>3 DEF Authorize
  <2>2. CASE Finish(c, Res("REJECTED", "cutover-admission"))
    BY <1>0, <1>3, <2>1, <2>2, FinishStep DEF Authorize, Res, Result, Outcome, Diagnostic
  <2>3. CASE Goto(c, IF recovering[c] THEN "observe" ELSE "validate") /\ result' = result
    BY <1>0, <2>1, <2>3, MoveStep DEF PC
  <2> QED BY <1>3, <2>2, <2>3 DEF Authorize
<1>4. ASSUME NEW c \in Coordinator, Validate(c) PROVE IInv'
  <2>1. UNCHANGED <<provider, claims, dispatched, plans, request>>
    BY <1>4 DEF Validate
  <2>2. CASE Finish(c, Res("REJECTED", "candidate-admission"))
    BY <1>0, <1>4, <2>1, <2>2, FinishStep DEF Validate, Res, Result, Outcome, Diagnostic
  <2>3. CASE Goto(c, "inspect") /\ result' = result
    BY <1>0, <2>1, <2>3, MoveStep DEF PC
  <2> QED BY <1>4, <2>2, <2>3 DEF Validate
<1>5. ASSUME NEW c \in Coordinator, Inspect(c) PROVE IInv'
  <2>1. UNCHANGED <<provider, claims, dispatched, plans, request>> /\ pc[c] = "inspect"
    BY <1>5 DEF Inspect
  <2>2. ASSUME NEW r \in Result, Finish(c, r),
               r.outcome \in {"APPLIED", "ALREADY_SATISFIED"} => Committed(request[c], route)
        PROVE  IInv'
    BY <1>0, <2>1, <2>2, FinishStep
  <2>3. CASE Goto(c, "claim") /\ result' = result
    BY <1>0, <2>1, <2>3, MoveStep DEF PC
  <2> QED BY <1>5, <2>2, <2>3 DEF Inspect, Res, Result, Outcome, Diagnostic
<1>6. ASSUME NEW c \in Coordinator, Claim(c) PROVE IInv'
  BY <1>0, <1>6, ClaimStep
<1>7. ASSUME NEW c \in Coordinator, Dispatch(c) PROVE IInv'
  BY <1>0, <1>7, DispatchStep
<1>8. ASSUME NEW c \in Coordinator, Verify(c) PROVE IInv'
  <2>1. UNCHANGED <<provider, claims, dispatched, plans, request>> /\ pc[c] = "verify"
    BY <1>8 DEF Verify
  <2>2. ASSUME NEW r \in Result, Finish(c, r),
               r.outcome \in {"APPLIED", "ALREADY_SATISFIED"} => Committed(request[c], route)
        PROVE  IInv'
    BY <1>0, <2>1, <2>2, FinishStep
  <2>3. CASE Finish(c, Assess(request[c], ack[c], route))
    BY <2>2, <2>3, AssessType, AssessSuccess
  <2> QED BY <1>8, <2>2, <2>3 DEF Verify, Res, Result, Outcome, Diagnostic
<1>9. ASSUME NEW c \in Coordinator, Observe(c) PROVE IInv'
  <2>1. UNCHANGED <<provider, claims, dispatched, plans, request>> /\ pc[c] = "observe"
    BY <1>9 DEF Observe
  <2>2. ASSUME NEW r \in Result, Finish(c, r),
               r.outcome \in {"APPLIED", "ALREADY_SATISFIED"} => Committed(request[c], route)
        PROVE  IInv'
    BY <1>0, <2>1, <2>2, FinishStep
  <2>3. CASE Finish(c, Reconciled(request[c], route))
    BY <2>2, <2>3, AssessType, AssessSuccess
  <2> QED BY <1>9, <2>2, <2>3 DEF Observe, Res, Result, Outcome, Diagnostic
<1>10. ASSUME NEW c \in Coordinator, Crash(c) PROVE IInv'
  <2>1. /\ UNCHANGED <<provider, claims, dispatched, plans, result>>
        /\ request' = [request EXCEPT ![c] = NoPlan] /\ pc' = [pc EXCEPT ![c] = "idle"]
    BY <1>10 DEF Crash, Goto
  <2>2. /\ pc \in [Coordinator -> PC]
        /\ request \in [Coordinator -> SwitchPlan \cup {NoPlan}]
    BY DEF IInv, TypeOK
  <2>3. \A q \in plans' : Past(q)
    BY <2>1 DEF IInv, PlansArePast
  <2>4. \A d \in Coordinator : request'[d] # NoPlan => Past(request'[d])
    BY <2>1, <2>2 DEF IInv, PlansArePast
  <2>5. SuccessIsCommitted'
    BY <2>1, <2>2 DEF IInv, SuccessIsCommitted, provider
  <2>6. \A d \in Coordinator : pc'[d] = "dispatch" => pc[d] = "dispatch" /\ request'[d] = request[d]
    BY <2>1, <2>2
  <2> QED BY <1>0, <2>1, <2>3, <2>4, <2>5, <2>6, QuietStep
<1>11. ASSUME NEW p \in pending, Land(p) PROVE IInv'
  BY <1>0, <1>11, LandStep
<1>12. ASSUME NEW t \in Target, NEW e \in Exposure, NEW o \in Op \cup {NoOp}, Drift(t, e, o)
       PROVE  IInv'
  <2>1. UNCHANGED <<pending, committed, claims, dispatched, plans, pc, request, result>>
    BY <1>12 DEF Drift, coordination
  <2>2. /\ route'.generation = route.generation + 1 /\ route.generation \in Nat
        /\ route'.operation = NoOp \/ (route'.operation = route.operation /\ route'.target = route.target)
    BY <1>12 DEF Drift, IInv, TypeOK, RoutingState
  <2>3. \A p \in SwitchPlan : p.before.generation \in Nat
    BY DEF SwitchPlan, RoutingState
  <2>4. \A p \in SwitchPlan : Past(p) => Past(p)'
    BY <2>2, <2>3 DEF Past
  <2>5. PlansArePast'
    <3>1. \A q \in plans \cup pending : q \in SwitchPlan /\ Past(q)
      BY DEF IInv, TypeOK, PlansArePast
    <3>2. \A d \in Coordinator : request[d] # NoPlan => request[d] \in SwitchPlan /\ Past(request[d])
      BY DEF IInv, TypeOK, PlansArePast
    <3> QED BY <2>1, <2>4, <3>1, <3>2 DEF PlansArePast
  <2>6. DispatcherHoldsClaim' /\ EffectsAreClaimed' /\ SuccessIsCommitted'
    BY <2>1 DEF IInv, DispatcherHoldsClaim, EffectsAreClaimed, SuccessIsCommitted
  <2>7. RouteIsCommitted'
    BY <2>1, <2>2, NoOpAssumption DEF IInv, RouteIsCommitted
  <2> QED BY <1>0, <2>5, <2>6, <2>7 DEF IInv
<1>13. CASE UNCHANGED vars
  <2>1. PlansArePast' /\ DispatcherHoldsClaim' /\ EffectsAreClaimed'
    BY <1>13 DEF vars, IInv, PlansArePast, Past, DispatcherHoldsClaim, EffectsAreClaimed
  <2>2. RouteIsCommitted' /\ SuccessIsCommitted'
    BY <1>13 DEF vars, IInv, RouteIsCommitted, SuccessIsCommitted
  <2> QED BY <1>0, <2>1, <2>2 DEF IInv
<1> QED
  BY <1>1, <1>2, <1>3, <1>4, <1>5, <1>6, <1>7, <1>8, <1>9, <1>10, <1>11, <1>12, <1>13
  DEF Next, Step

LEMMA InvAtMostOnce == IInv => AtMostOnce
<1> SUFFICES ASSUME IInv PROVE AtMostOnce
  OBVIOUS
<1>1. \A o \in Op : dispatched[o] <= 1
  BY DEF IInv, EffectsAreClaimed
<1>2. \A p, q \in committed : p.operation = q.operation => p = q
  BY DEF IInv, EffectsAreClaimed
<1> QED BY <1>1, <1>2 DEF AtMostOnce

\* However many coordinators execute, retry and crash, an operation identity is
\* dispatched at most once and at most one plan takes effect under it.
THEOREM DispatchedAtMostOnce == Spec => []AtMostOnce
BY InvInit, InvStep, InvAtMostOnce, PTL DEF Spec

\* execute() and reconcile() report success only for a switch that happened,
\* even when the adapter's acknowledgements are wrong.
THEOREM SuccessIsReal == Spec => []SuccessIsCommitted
<1>1. IInv => SuccessIsCommitted
  BY DEF IInv
<1> QED BY <1>1, InvInit, InvStep, PTL DEF Spec

-----------------------------------------------------------------------------
(* What a step may do to the route.                                        *)

\* The plans that the provider commits in a step: a claimed one, from the state
\* it was built on.
LEMMA CommitStep ==
  ASSUME IInv, [Next]_vars
  PROVE  \/ UNCHANGED <<route, committed>>
         \/ \E p \in SwitchPlan : /\ Switch(p)
                                  /\ claims[p.operation] = p
                                  /\ p \notin committed
                                  /\ \/ p \in pending
                                     \/ dispatched[p.operation] = 0
         \/ \E t \in Target, e \in Exposure, o \in Op \cup {NoOp} : Drift(t, e, o)
<1>1. CASE \E c \in Coordinator : Dispatch(c)
  <2>1. PICK c \in Coordinator : Dispatch(c)
    BY <1>1
  <2>2. /\ request[c] \in SwitchPlan
        /\ claims[request[c].operation] = request[c] /\ dispatched[request[c].operation] = 0
    BY <2>1 DEF Dispatch, IInv, TypeOK, DispatcherHoldsClaim
  <2>3. request[c] \notin committed
    BY <2>2 DEF IInv, EffectsAreClaimed
  <2>4. Switch(request[c]) \/ UNCHANGED <<route, committed>>
    BY <2>1 DEF Dispatch, provider
  <2> QED BY <2>2, <2>3, <2>4
<1>2. CASE \E p \in pending : Land(p)
  <2>1. PICK p \in pending : Land(p)
    BY <1>2
  <2>2. p \in SwitchPlan /\ claims[p.operation] = p /\ p \notin committed
    BY DEF IInv, TypeOK, EffectsAreClaimed
  <2>3. Switch(p) \/ UNCHANGED <<route, committed>>
    BY <2>1 DEF Land
  <2> QED BY <2>2, <2>3
<1>3. CASE \E t \in Target, e \in Exposure, o \in Op \cup {NoOp} : Drift(t, e, o)
  BY <1>3
<1>4. CASE UNCHANGED vars
  BY <1>4 DEF vars
<1>5. CASE \/ \E o \in Op, t \in Target, i \in Intent : MakePlan(o, t, i)
           \/ \E c \in Coordinator, p \in plans, rec \in BOOLEAN : Submit(c, p, rec)
           \/ \E c \in Coordinator : Crash(c) \/ Authorize(c) \/ Validate(c) \/ Inspect(c)
                                       \/ Claim(c) \/ Verify(c) \/ Observe(c)
  BY <1>5 DEF MakePlan, Submit, Crash, Authorize, Validate, Inspect, Claim, Verify, Observe, provider
<1> QED BY <1>1, <1>2, <1>3, <1>4, <1>5 DEF Next, Step

\* The route takes an operation only from the exact plan claimed for it, and
\* from the state that plan was built on.
THEOREM OnlyClaimedPlansTakeEffect == Spec => OnlyClaimedPlansSwitch
<1> DEFINE Exact(o) == /\ claims[o] \in committed'
                       /\ claims[o].before = route
                       /\ route'.target = claims[o].target
                       /\ route'.exposure = route.exposure
           Bound == \A o \in Op : route'.operation = o /\ route.operation # o => Exact(o)
<1>1. ASSUME IInv, [Next]_vars, NEW o \in Op, route'.operation = o, route.operation # o
      PROVE  Exact(o)
  <2>1. CASE UNCHANGED <<route, committed>>
    BY <1>1, <2>1
  <2>2. ASSUME NEW p \in SwitchPlan, Switch(p), claims[p.operation] = p
        PROVE  Exact(o)
    <3>1. route'.operation = p.operation /\ route'.target = p.target /\ route'.exposure = route.exposure
      BY <2>2 DEF Switch
    <3>2. p \in committed' /\ p.before = route
      BY <2>2 DEF Switch
    <3> QED BY <1>1, <2>2, <3>1, <3>2
  <2>3. ASSUME NEW t \in Target, NEW e \in Exposure, NEW x \in Op \cup {NoOp}, Drift(t, e, x)
        PROVE  FALSE
    BY <1>1, <2>3, NoOpAssumption DEF Drift
  <2> HIDE DEF Exact
  <2> QED BY <1>1, <2>1, <2>2, <2>3, CommitStep
<1>2. IInv /\ [Next]_vars => [Bound]_vars
  BY <1>1
<1> QED BY <1>2, InvInit, InvStep, PTL DEF Spec, OnlyClaimedPlansSwitch

\* The coordinators with all their retries implement the register that every
\* operation changes at most once.
THEOREM EndpointSwitchImplementsRegister == Spec => ImplementsRegister
<1> DEFINE effects == {p.operation : p \in committed}
<1>1. Init => Register!Init
  BY DEF Init, Register!Init
<1>2. ASSUME IInv, [Next]_vars PROVE [Register!Next]_<<route, effects>>
  <2>1. CASE UNCHANGED <<route, committed>>
    BY <2>1
  <2>2. ASSUME NEW p \in SwitchPlan, Switch(p), claims[p.operation] = p, p \notin committed
        PROVE  Register!Next
    <3>1. p.operation \in Op /\ p.target \in Target /\ p.target # route.target
      BY <2>2 DEF SwitchPlan, Switch
    <3>2. p.operation \notin effects
      BY <1>2, <2>2 DEF IInv, EffectsAreClaimed
    <3>3. effects' = effects \cup {p.operation}
      BY <2>2 DEF Switch
    <3>4. Register!Take(p.operation, p.target)
      BY <2>2, <3>1, <3>2, <3>3 DEF Register!Take, Switch
    <3> QED BY <3>1, <3>4 DEF Register!Next
  <2>3. ASSUME NEW t \in Target, NEW e \in Exposure, NEW o \in Op \cup {NoOp}, Drift(t, e, o)
        PROVE  Register!Next
    BY <2>3 DEF Drift, Register!Next, Register!Change
  <2> QED BY <1>2, <2>1, <2>2, <2>3, CommitStep
<1> QED BY <1>1, <1>2, InvInit, InvStep, PTL DEF Spec, ImplementsRegister, Register!Spec

-----------------------------------------------------------------------------
(* A definite refusal stays one, while the adapter keeps its contract.     *)

Spent(p) ==
  /\ p \notin pending
  /\ claims[p.operation] = p
  /\ dispatched[p.operation] = 1

\* What is spent stays spent.
LEMMA SpentStays ==
  ASSUME IInv, [Next]_vars, NEW p \in SwitchPlan, Spent(p)
  PROVE  Spent(p)'
<1>0. p.operation \in Op /\ p # NoPlan
  BY NoPlanAssumption DEF SwitchPlan
<1>1. CASE \E c \in Coordinator : Dispatch(c)
  <2>1. PICK c \in Coordinator : Dispatch(c)
    BY <1>1
  <2>2. /\ request[c] \in SwitchPlan
        /\ claims[request[c].operation] = request[c] /\ dispatched[request[c].operation] = 0
    BY <2>1 DEF Dispatch, IInv, TypeOK, DispatcherHoldsClaim
  <2>3. request[c].operation # p.operation
    BY <2>2 DEF Spent
  <2>4. claims' = claims /\ dispatched' = [dispatched EXCEPT ![request[c].operation] = @ + 1]
    BY <2>1 DEF Dispatch
  <2>5. pending' \subseteq pending \cup {request[c]}
    BY <2>1 DEF Dispatch, provider
  <2> QED BY <1>0, <2>3, <2>4, <2>5 DEF Spent, IInv, TypeOK
<1>2. CASE \E c \in Coordinator : Claim(c)
  <2>1. PICK c \in Coordinator : Claim(c)
    BY <1>2
  <2>2. request[c] \in SwitchPlan /\ request[c].operation \in Op
    BY <2>1 DEF Claim, IInv, TypeOK, SwitchPlan
  <2>3. \/ claims' = claims
        \/ /\ claims[request[c].operation] = NoPlan
           /\ claims' = [claims EXCEPT ![request[c].operation] = request[c]]
    BY <2>1 DEF Claim, ClaimFirst, ClaimHeld, ClaimUnknown
  <2>4. UNCHANGED <<pending, dispatched>>
    BY <2>1 DEF Claim, provider
  <2> QED BY <1>0, <2>2, <2>3, <2>4 DEF Spent, IInv, TypeOK
<1>3. CASE /\ pending' \subseteq pending
           /\ UNCHANGED <<claims, dispatched>>
  BY <1>3 DEF Spent
<1>4. CASE \/ \E o \in Op, t \in Target, i \in Intent : MakePlan(o, t, i)
           \/ \E c \in Coordinator, q \in plans, rec \in BOOLEAN : Submit(c, q, rec)
           \/ \E c \in Coordinator : Crash(c) \/ Authorize(c) \/ Validate(c) \/ Inspect(c)
                                       \/ Verify(c) \/ Observe(c)
           \/ \E q \in pending : Land(q)
           \/ \E t \in Target, e \in Exposure, o \in Op \cup {NoOp} : Drift(t, e, o)
           \/ UNCHANGED vars
  BY <1>3, <1>4 DEF MakePlan, Submit, Crash, Authorize, Validate, Inspect, Verify, Observe, Land,
                    Drift, vars, provider
<1> QED BY <1>1, <1>2, <1>4 DEF Next, Step

\* The route never returns to a generation it has left.
LEMMA GenerationGrows ==
  ASSUME IInv, [Next]_vars
  PROVE  route.generation \in Nat /\ route'.generation \in Nat /\ route'.generation >= route.generation
<1>1. route.generation \in Nat
  BY DEF IInv, TypeOK, RoutingState
<1>2. ASSUME NEW t \in Target, NEW e \in Exposure, NEW o \in Op \cup {NoOp}, Drift(t, e, o)
      PROVE  route'.generation = route.generation + 1
  BY <1>2 DEF Drift
<1>3. ASSUME NEW p \in SwitchPlan, Switch(p)
      PROVE  route'.generation = route.generation + 1
  BY <1>3 DEF Switch
<1> QED BY <1>1, <1>2, <1>3, CommitStep

\* The second invariant.  An answer REJECTED waits for its read-back only when
\* the request neither took effect nor can land later; a refused plan is behind
\* the route for ever or has used up its only dispatch.
Known ==
  /\ \A c \in Coordinator : pc[c] = "verify" /\ ack[c] = "REJECTED" =>
       Spent(request[c]) /\ request[c] \notin committed
  /\ \A p \in refused : p.before.generation < route.generation \/ Spent(p)

\* How a step changes the plans that count as refused.
LEMMA RefusedStep ==
  ASSUME IInv, Known, [Next]_vars, NEW p \in refused', p \notin refused
  PROVE  p.before.generation < route.generation \/ Spent(p)
<1>1. PICK c \in Coordinator :
        \/ \E r : Finish(c, r) /\ ~Final(r)
        \/ Inspect(c) /\ Finish(c, Res("REJECTED", "stale-precondition"))
        \/ Verify(c) /\ Finish(c, Assess(request[c], ack[c], route))
        \/ Observe(c) /\ Finish(c, Reconciled(request[c], route))
  <2>1. CASE \/ \E o \in Op, t \in Target, i \in Intent : MakePlan(o, t, i)
             \/ \E c \in Coordinator, q \in plans, rec \in BOOLEAN : Submit(c, q, rec)
             \/ \E c \in Coordinator : Crash(c) \/ Dispatch(c)
             \/ \E q \in pending : Land(q)
             \/ \E t \in Target, e \in Exposure, o \in Op \cup {NoOp} : Drift(t, e, o)
             \/ UNCHANGED vars
    BY <2>1 DEF MakePlan, Submit, Crash, Dispatch, Land, Drift, vars, coordination
  <2>2. ASSUME NEW c \in Coordinator, Authorize(c) \/ Validate(c) PROVE \E r : Finish(c, r) /\ ~Final(r)
    BY <2>2 DEF Authorize, Validate, Res, Final
  <2>3. ASSUME NEW c \in Coordinator, Claim(c) PROVE \E r : Finish(c, r) /\ ~Final(r)
    BY <2>3 DEF Claim, ClaimFirst, ClaimHeld, ClaimUnknown, Res, Final
  <2>4. ASSUME NEW c \in Coordinator, Inspect(c)
        PROVE  \/ \E r : Finish(c, r) /\ ~Final(r)
               \/ Finish(c, Res("REJECTED", "stale-precondition"))
    BY <2>4 DEF Inspect, Res, Final
  <2>5. ASSUME NEW c \in Coordinator, Verify(c)
        PROVE  \/ \E r : Finish(c, r) /\ ~Final(r)
               \/ Finish(c, Assess(request[c], ack[c], route))
    BY <2>5 DEF Verify, Res, Final
  <2>6. ASSUME NEW c \in Coordinator, Observe(c)
        PROVE  \/ \E r : Finish(c, r) /\ ~Final(r)
               \/ Finish(c, Reconciled(request[c], route))
    BY <2>6 DEF Observe, Res, Final
  <2> QED BY <2>1, <2>2, <2>3, <2>4, <2>5, <2>6 DEF Next, Step
<1>2. \A r : Finish(c, r) => p = request[c] /\ Final(r)
  BY DEF Finish
<1>3. CASE Inspect(c) /\ Finish(c, Res("REJECTED", "stale-precondition"))
  <2>1. route # request[c].before \/ Committed(request[c], route) \/ refused' = refused
    BY <1>3 DEF Inspect, Finish, Final, Res
  <2>2. request[c] \in SwitchPlan /\ request[c] # NoPlan
    BY <1>3, NoPlanAssumption DEF Inspect, IInv, TypeOK
  <2>3. Past(request[c])
    BY <2>2 DEF IInv, PlansArePast
  <2>4. request[c].before.generation \in Nat /\ route.generation \in Nat
    BY <2>2 DEF SwitchPlan, RoutingState, IInv, TypeOK
  <2>5. request[c].before.generation # route.generation
    BY <2>1, <2>3 DEF Past, Committed
  <2> QED BY <1>2, <1>3, <2>3, <2>4, <2>5 DEF Past
<1>4. CASE Verify(c) /\ Finish(c, Assess(request[c], ack[c], route))
  <2>1. Final(Assess(request[c], ack[c], route)) => ack[c] = "REJECTED"
    BY DEF Assess, Final, Res
  <2> QED BY <1>2, <1>4, <2>1 DEF Known, Verify
<1>5. CASE Observe(c) /\ Finish(c, Reconciled(request[c], route))
  <2>1. ~Final(Reconciled(request[c], route))
    BY DEF Assess, Reconciled, Final, Res
  <2> QED BY <1>2, <1>5, <2>1
<1> QED BY <1>1, <1>2, <1>3, <1>4, <1>5

LEMMA KnownStep ==
  ASSUME ~AckFaults, IInv, Known, [Next]_vars
  PROVE  Known'
<1>1. \A p \in refused' : p \in SwitchPlan
  BY TypeStep DEF IInv, TypeOK
<1>2. ASSUME NEW p \in refused' PROVE p.before.generation < route'.generation \/ Spent(p)'
  <2>1. p.before.generation < route.generation \/ Spent(p)
    BY RefusedStep DEF Known
  <2>2. p.before.generation \in Nat
    BY <1>1 DEF SwitchPlan, RoutingState
  <2> QED BY <1>1, <2>1, <2>2, SpentStays, GenerationGrows
<1>3. ASSUME NEW c \in Coordinator, pc'[c] = "verify", ack'[c] = "REJECTED"
      PROVE  (Spent(request[c]) /\ request[c] \notin committed)'
  <2>1. CASE Dispatch(c)
    <3>0. PICK p : p = request[c]
      OBVIOUS
    <3>1. p \in SwitchPlan /\ p.operation \in Op /\ claims[p.operation] = p /\ dispatched[p.operation] = 0
      BY <2>1, <3>0 DEF Dispatch, IInv, TypeOK, DispatcherHoldsClaim, SwitchPlan
    <3>2. p \notin pending \cup committed
      BY <3>1 DEF IInv, EffectsAreClaimed
    <3>3. ack \in [Coordinator -> Mutation] /\ dispatched \in [Op -> Nat]
      BY DEF IInv, TypeOK
    <3>4. UNCHANGED provider
      BY <1>3, <2>1, <3>3 DEF Dispatch
    <3>5. claims' = claims /\ request' = request /\ dispatched' = [dispatched EXCEPT ![p.operation] = @ + 1]
      BY <2>1, <3>0 DEF Dispatch
    <3> QED BY <3>0, <3>1, <3>2, <3>3, <3>4, <3>5 DEF Spent, provider
  <2>2. CASE ~Dispatch(c)
    <3>1. pc[c] = "verify" /\ ack[c] = "REJECTED" /\ request'[c] = request[c]
      <4>1. /\ pc \in [Coordinator -> PC] /\ ack \in [Coordinator -> Mutation]
            /\ request \in [Coordinator -> SwitchPlan \cup {NoPlan}]
        BY DEF IInv, TypeOK
      <4>2. ASSUME NEW d \in Coordinator, NEW r, Finish(d, r), request' = request PROVE <3>1
        BY <1>3, <4>1, <4>2 DEF Finish, Goto
      <4>3. ASSUME NEW d \in Coordinator, NEW l \in PC \ {"verify"}, Goto(d, l), UNCHANGED <<ack, request>>
            PROVE  <3>1
        BY <1>3, <4>1, <4>3 DEF Goto
      <4>4. ASSUME NEW d \in Coordinator, Crash(d) PROVE <3>1
        BY <1>3, <4>1, <4>4 DEF Crash, Goto
      <4>5. ASSUME NEW d \in Coordinator, NEW q \in plans, NEW rec \in BOOLEAN, Submit(d, q, rec) PROVE <3>1
        BY <1>3, <4>1, <4>5 DEF Submit, Goto
      <4>6. ASSUME NEW d \in Coordinator, Dispatch(d) PROVE <3>1
        BY <1>3, <2>2, <4>1, <4>6 DEF Dispatch, Goto
      <4>7. ASSUME NEW d \in Coordinator,
                   Authorize(d) \/ Validate(d) \/ Inspect(d) \/ Claim(d) \/ Verify(d) \/ Observe(d)
            PROVE  <3>1
        BY <4>2, <4>3, <4>7 DEF Authorize, Validate, Inspect, Claim, ClaimFirst, ClaimHeld,
                                ClaimUnknown, Verify, Observe, PC
      <4>8. CASE UNCHANGED <<pc, ack, request>>
        BY <1>3, <4>8
      <4>9. CASE \/ \E o \in Op, t \in Target, i \in Intent : MakePlan(o, t, i)
                 \/ \E q \in pending : Land(q)
                 \/ \E t \in Target, e \in Exposure, o \in Op \cup {NoOp} : Drift(t, e, o)
                 \/ UNCHANGED vars
        BY <4>8, <4>9 DEF MakePlan, Land, Drift, vars, coordination
      <4> QED BY <4>4, <4>5, <4>6, <4>7, <4>9 DEF Next, Step
    <3>2. PICK q \in SwitchPlan : q = request[c]
      BY <3>1 DEF IInv, TypeOK
    <3>3. Spent(q) /\ q \notin committed
      BY <3>1, <3>2 DEF Known
    <3>4. Spent(q)'
      BY <3>3, SpentStays
    <3>5. q \notin committed'
      <4>1. ASSUME NEW p \in SwitchPlan, Switch(p), claims[p.operation] = p,
                   p \in pending \/ dispatched[p.operation] = 0
            PROVE  q \notin committed'
        BY <3>3, <4>1 DEF Switch, Spent
      <4>2. ASSUME NEW t \in Target, NEW e \in Exposure, NEW o \in Op \cup {NoOp}, Drift(t, e, o)
            PROVE  q \notin committed'
        BY <3>3, <4>2 DEF Drift
      <4> QED BY <3>3, <4>1, <4>2, CommitStep
    <3> QED BY <3>1, <3>2, <3>4, <3>5 DEF Spent
  <2> QED BY <2>1, <2>2
<1> QED BY <1>2, <1>3 DEF Known

\* With an adapter that keeps its contract, a plan refused as stale or rejected
\* by the provider never takes effect afterwards.
THEOREM RefusalsAreFinal ==
  ASSUME ~AckFaults
  PROVE  Spec => RefusalIsFinal
<1>1. Init => Known
  BY DEF Init, Known
<1>2. ASSUME IInv, Known, [Next]_vars, NEW p \in refused, p \in committed'
      PROVE  p \in committed
  <2>1. CASE UNCHANGED <<route, committed>>
    BY <1>2, <2>1
  <2>2. ASSUME NEW q \in SwitchPlan, Switch(q), claims[q.operation] = q,
               q \in pending \/ dispatched[q.operation] = 0
        PROVE  p \in committed
    <3>1. p \in SwitchPlan /\ route.generation \in Nat
      BY <1>2 DEF IInv, TypeOK, RoutingState
    <3>2. p # q
      BY <1>2, <2>2, <3>1 DEF Known, Spent, Switch
    <3> QED BY <1>2, <2>2, <3>2 DEF Switch
  <2>3. ASSUME NEW t \in Target, NEW e \in Exposure, NEW o \in Op \cup {NoOp}, Drift(t, e, o)
        PROVE  p \in committed
    BY <1>2, <2>3 DEF Drift
  <2> QED BY <1>2, <2>1, <2>2, <2>3, CommitStep
<1> DEFINE Stays == \A p \in refused : p \in committed' => p \in committed
<1>3. IInv /\ Known /\ [Next]_vars => [Stays]_vars
  BY <1>2
<1>4. IInv /\ Known /\ [Next]_vars => Known'
  BY KnownStep
<1> QED BY <1>1, <1>3, <1>4, InvInit, InvStep, PTL DEF Spec, RefusalIsFinal
=============================================================================
