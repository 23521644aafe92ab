-------------------------- MODULE EndpointRegister --------------------------
(***************************************************************************)
(* What scripts/endpoint_switch.py promises of one endpoint: a routing     *)
(* register that an operation identity changes at most once, one target at *)
(* a time and under a generation that never comes back, whatever number of *)
(* coordinators, retries and lost answers carried the operation there.     *)
(***************************************************************************)
EXTENDS Naturals

CONSTANTS Op, Target, Exposure, NoOp, MaxGen

VARIABLES
  route,     \* the native routing state of the endpoint
  effected   \* the operations that have changed it

Init ==
  /\ \E t \in Target, e \in Exposure :
       route = [generation |-> 1, target |-> t, exposure |-> e, operation |-> NoOp]
  /\ effected = {}

\* Operation o moves the route to target t and leaves the exposure alone.
Take(o, t) ==
  /\ o \notin effected
  /\ t # route.target
  /\ route.generation < MaxGen
  /\ route' = [generation |-> route.generation + 1, target |-> t,
               exposure |-> route.exposure, operation |-> o]
  /\ effected' = effected \cup {o}

\* A change from outside; it never makes an operation appear.
Change(t, e, o) ==
  /\ route.generation < MaxGen
  /\ o \in {NoOp, route.operation}
  /\ route' = [generation |-> route.generation + 1, target |-> t, exposure |-> e,
               operation |-> o]
  /\ UNCHANGED effected

Next ==
  \/ \E o \in Op, t \in Target : Take(o, t)
  \/ \E t \in Target, e \in Exposure, o \in Op \cup {NoOp} : Change(t, e, o)

Spec == Init /\ [][Next]_<<route, effected>>
=============================================================================
