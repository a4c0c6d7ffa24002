-------------------------- MODULE DispatchContract --------------------------
(***************************************************************************)
(* What the dispatch engine promises its clients, without slots, builders, *)
(* priorities of slots or a matrix: every operation has a route, under     *)
(* automatic selection the best backend on offer for that operation, under *)
(* an explicit one that backend or none, and a call runs on the route.     *)
(***************************************************************************)
EXTENDS Integers

CONSTANTS N, NumOps, Priority

Backends == 1..N
Ops      == 0..(NumOps - 1)

VARIABLES
  offers, \* the pairs of an available backend and an operation it provides
  mode,   \* 0 for automatic selection, or the backend that was selected
  route,  \* operation -> backend, 0 if it has none
  phase,  \* "unresolved", "resolving" (automatically), "ready"
  ran     \* operation and backend of the call just made, if it ran a kernel

vars == <<offers, mode, route, phase, ran>>

NoRoute == [op \in Ops |-> 0]

Prefers(a, b) ==
  \/ Priority[a] < Priority[b]
  \/ Priority[a] = Priority[b] /\ a < b

IsBest(b, op) ==
  /\ <<b, op>> \in offers
  /\ \A a \in Backends \ {b} : <<a, op>> \in offers => Prefers(b, a)

Init ==
  /\ offers \subseteq Backends \X Ops
  /\ mode = 0
  /\ route = NoRoute
  /\ phase = "unresolved"
  /\ ran = <<>>

\* Automatic selection begins: at the first use of the engine or on demand.
GoAuto ==
  /\ phase # "resolving"
  /\ mode' = 0
  /\ route' = NoRoute
  /\ phase' = "resolving"
  /\ ran' = <<>>
  /\ UNCHANGED offers

Settle ==
  /\ phase = "resolving"
  /\ phase' = "ready"
  /\ route' \in [Ops -> 0..N]
  /\ \A op \in Ops :
       \/ IsBest(route'[op], op)
       \/ route'[op] = 0 /\ \A b \in Backends : <<b, op>> \notin offers
  /\ UNCHANGED <<offers, mode, ran>>

GoExplicit(b) ==
  /\ phase # "resolving"
  /\ \E op \in Ops : <<b, op>> \in offers
  /\ mode' = b
  /\ route' = [op \in Ops |-> IF <<b, op>> \in offers THEN b ELSE 0]
  /\ phase' = "ready"
  /\ ran' = <<>>
  /\ UNCHANGED offers

Run(op) ==
  /\ phase = "ready"
  /\ route[op] # 0
  /\ ran' = <<op, route[op]>>
  /\ UNCHANGED <<offers, mode, route, phase>>

\* A call that runs no kernel: refused, failed, or a question.
RunNothing ==
  /\ ran' = <<>>
  /\ UNCHANGED <<offers, mode, route, phase>>

Next ==
  \/ GoAuto
  \/ Settle
  \/ \E b \in Backends : GoExplicit(b)
  \/ \E op \in Ops : Run(op)
  \/ RunNothing

Spec == Init /\ [][Next]_vars

=============================================================================
