------------------------ MODULE SimdDispatch_proofs ------------------------
(***************************************************************************)
(* Theorems about the dispatch engine, for every catalog, every set of     *)
(* kernel tables and every set of compiled and supported backends, and     *)
(* about the package that drives it from R.                                *)
(*                                                                         *)
(* The inductive invariant of the engine is proved in layers: types and    *)
(* loop bounds first, then what the slots hold, then how far the automatic *)
(* build got, then the matrix, the answers and the summary.  Each layer    *)
(* may use the ones before it.  From there on the parts say what they come *)
(* to: for a package that is well wired, for the catalog as shipped, and   *)
(* in R, where RApi does to the engine what any client may do.             *)
(***************************************************************************)
EXTENDS RApi, MCShipped, KernelTables_proofs

-----------------------------------------------------------------------------
(***************************************************************************)
(* Layer 1: types, and the ranges of the loop variable and of the          *)
(* operation that an invocation under way asks for.                        *)
(***************************************************************************)

Ranges ==
  /\ pc \in {"auto", "matrix"} => next \in 1..(N + 1)
  /\ pc = "auto" => requested = AutoMode
  /\ pc \in {"matrix", "body"} => initialized
  /\ pc \in {"auto", "matrix", "body"} => outcome = Pending
  /\ pc \in {"auto", "matrix", "body"} /\ call.fn = "invoke" => call.op \in Ops

TypeInv == TypeOK /\ Ranges

LEMMA CallTypes ==
  /\ \A fn \in {"none", "set_error_handler", "init", "set_backend", "invoke",
                "selected", "operation_selected"} : Call(fn) \in Calls
  /\ \A b \in 0..N : CallSet(b) \in Calls
  /\ \A op \in Ops, sig \in 0..NumSigs : CallInvoke(op, sig) \in Calls
  /\ \A b \in 0..N, op \in 0..NumOps : CallAvailable(b, op) \in Calls
<1>1. 0 \in 0..N /\ 0 \in 0..NumOps /\ 0 \in 0..NumSigs /\ Ops \subseteq 0..NumOps
  BY NAssumption, NumOpsAssumption, NumSigsAssumption DEF Ops
<1>2. \A fn \in {"none", "set_error_handler", "init", "set_backend", "invoke",
                 "selected", "operation_selected", "operation_available"} :
        Call(fn) \in Calls
  BY <1>1 DEF Call, Calls
<1> QED BY <1>1, <1>2 DEF Call, CallSet, CallInvoke, CallAvailable, Calls

LEMMA OutcomeTypes ==
  /\ {Pending, Done, Error, Yes, No} \subseteq Outcomes
  /\ \A k \in Backends \X (Nat \ {0}) : Ran(k) \in Outcomes
BY DEF Pending, Done, Error, Yes, No, Outcome, Ran, Outcomes

LEMMA InitTypeInv == Init => TypeInv
<1> SUFFICES ASSUME Init PROVE TypeInv
  OBVIOUS
<1>1. TypeOK
  <2>1. 0 \in 0..N /\ 0 \in 0..(N + 1)
    BY NAssumption
  <2>2. Uninitialized \in Summaries /\ Call("none") \in Calls
    BY CallTypes DEF Summaries
  <2> QED BY <2>1, <2>2, EmptyTypes, OutcomeTypes DEF Init, TypeOK, AutoMode
<1>2. Ranges
  BY DEF Init, Ranges
<1> QED BY <1>1, <1>2 DEF TypeInv

\* The slots that are built for one backend.
LEMMA BackendSlotsType ==
  ASSUME TypeOK, NEW b \in Backends
  PROVE  BackendSlots(b) \in [Ops -> Slot]
BY EmptyTypes, InstallTypes, TablesAssumption DEF TypeOK, BackendSlots

LEMMA NextTypeInv == TypeInv /\ [Next]_vars => TypeInv'
<1> SUFFICES ASSUME TypeInv, [Next]_vars PROVE TypeInv'
  OBVIOUS
<1> USE DEF TypeInv, TypeOK, Ranges, env, route, cache, loop
<1> USE EmptyTypes, CallTypes, OutcomeTypes, NAssumption
<1>1. CASE AutoRegister
  <2>1. CASE next \in Available
    <3>1. next \in Backends /\ tables[next] \in KernelTable
      BY <2>1, TablesAssumption DEF Available
    <3>2. slots' \in [Ops -> Slot] /\ best' \in [Ops -> 0..UintMax]
      BY <1>1, <2>1, <3>1, InstallTypes DEF AutoRegister
    <3> QED BY <1>1, <3>2 DEF AutoRegister, Backends
  <2>2. CASE next \notin Available
    BY <1>1, <2>2 DEF AutoRegister, Backends
  <2> QED BY <2>1, <2>2
<1>2. CASE AutoFails
  BY <1>2 DEF AutoFails, Raise
<1>3. CASE AutoFinish
  <2>1. Winners \subseteq Backends
    BY DEF Winners, Slot, Backends, NoBackend
  <2>2. AutoSummary \in Summaries
    BY <2>1 DEF AutoSummary, Summaries
  <2> QED BY <1>3, <2>2 DEF AutoFinish, Return
<1>4. CASE MatrixRow
  BY <1>4 DEF MatrixRow, Backends
<1>5. CASE MatrixFinish
  BY <1>5 DEF MatrixFinish
<1>6. CASE InvokeUnavailable \/ InvokeMismatch
  BY <1>6 DEF InvokeUnavailable, InvokeMismatch, Raise
<1>7. CASE InvokeRuns
  <2>1. slots[call.op].invoke \in Backends \X (Nat \ {0})
    BY <1>7 DEF InvokeRuns, Slot, Resolved
  <2> QED BY <1>7, <2>1 DEF InvokeRuns, Return
<1>8. CASE QueryReturns
  BY <1>8 DEF QueryReturns, Return
<1>9. ASSUME NEW h \in {"abort", "longjmp"}, SetErrorHandler(h) PROVE TypeInv'
  BY <1>9 DEF SetErrorHandler, Return
<1>10. ASSUME NEW c \in Calls, Enter(c), c.fn = "invoke" => c.op \in Ops
       PROVE  TypeInv'
  BY <1>10 DEF Enter, StartAuto, AutoMode
<1>11. CASE InvokeRefused
  BY <1>11 DEF InvokeRefused, Raise
<1>12. CASE SetAuto
  BY <1>12 DEF SetAuto, StartAuto, AutoMode, CallSet, Call
<1>13. ASSUME NEW b \in 0..N, SetRefused(b) PROVE TypeInv'
  BY <1>13 DEF SetRefused, Raise
<1>14. ASSUME NEW b \in Backends, SetBackend(b) PROVE TypeInv'
  <2>1. slots' \in [Ops -> Slot]
    BY <1>14, BackendSlotsType DEF SetBackend
  <2>2. b \in 0..N /\ selected' \in Summaries
    BY <1>14 DEF SetBackend, Summaries, Backends
  <2> QED BY <1>14, <2>1, <2>2 DEF SetBackend, Return
<1>15. ASSUME NEW b \in Backends, SetBackendFails(b) PROVE TypeInv'
  BY <1>15 DEF SetBackendFails, Raise, Backends
<1>16. ASSUME NEW b \in 0..N, NEW op \in 0..NumOps,
              AvailableFromMatrix(b, op) \/ AvailableFromTable(b, op)
       PROVE  TypeInv'
  BY <1>16 DEF AvailableFromMatrix, AvailableFromTable, Answer, Return, Raise
<1>17. CASE UNCHANGED vars
  BY <1>17 DEF vars
<1>18. CASE Terminated
  BY <1>17, <1>18 DEF Terminated
<1>19. CASE External
  <2>1. \A op \in Ops, sig \in 0..NumSigs : CallInvoke(op, sig).op = op
    BY DEF CallInvoke, Call
  <2>2. /\ Call("init").fn # "invoke"
        /\ Call("selected").fn # "invoke"
        /\ Call("operation_selected").fn # "invoke"
    BY DEF Call
  <2> QED BY <1>19, <1>9, <1>10, <1>11, <1>12, <1>13, <1>14, <1>15, <1>16,
             <2>1, <2>2, CallTypes
          DEF External
<1> QED BY <1>1, <1>2, <1>3, <1>4, <1>5, <1>6, <1>7, <1>8, <1>17, <1>18, <1>19
        DEF Next, Internal

(***************************************************************************)
(* The engine's state has its types in every reachable state.              *)
(***************************************************************************)
THEOREM TypeCorrect == Spec => []TypeOK
<1>1. TypeInv => TypeOK
  BY DEF TypeInv
<1> QED BY <1>1, InitTypeInv, NextTypeInv, PTL DEF Spec

-----------------------------------------------------------------------------
(***************************************************************************)
(* Layer 2: what the slots hold.                                           *)
(***************************************************************************)

\* Few steps touch the slots, and none what the build of the process fixed.
LEMMA StepKinds ==
  ASSUME [Next]_vars
  PROVE  /\ UNCHANGED <<compiled, supported, tables>>
         /\ \/ UNCHANGED <<slots, requested>>
            \/ slots' = EmptySlots
            \/ AutoRegister
            \/ \E b \in Backends : SetBackend(b)
         /\ outcome'.kind = "ran" => InvokeRuns \/ UNCHANGED <<outcome, call>>
<1> USE DEF env, route, cache, loop
<1>1. CASE AutoRegister \/ AutoFails \/ AutoFinish
  BY <1>1 DEF AutoRegister, AutoFails, AutoFinish, Return, Raise, Done, Error,
              Outcome
<1>2. CASE MatrixRow \/ MatrixFinish
  BY <1>2 DEF MatrixRow, MatrixFinish
<1>3. CASE InvokeUnavailable \/ InvokeMismatch \/ InvokeRuns \/ QueryReturns
  BY <1>3 DEF InvokeUnavailable, InvokeMismatch, InvokeRuns, QueryReturns,
              Return, Raise, Done, Error, Outcome
<1>4. CASE External
  <2>1. ASSUME NEW h \in {"abort", "longjmp"}, SetErrorHandler(h)
        PROVE  UNCHANGED <<env, slots, requested>> /\ outcome'.kind # "ran"
    BY <2>1 DEF SetErrorHandler, Return, Done, Outcome
  <2>2. ASSUME NEW c, Enter(c)
        PROVE  /\ UNCHANGED env
               /\ UNCHANGED <<slots, requested>> \/ slots' = EmptySlots
               /\ outcome'.kind # "ran"
    BY <2>2 DEF Enter, StartAuto, Pending, Outcome
  <2>3. CASE InvokeRefused
    BY <2>3 DEF InvokeRefused, Raise, Error, Outcome
  <2>4. CASE SetAuto
    BY <2>4 DEF SetAuto, StartAuto, Pending, Outcome
  <2>5. ASSUME NEW b \in 0..N, SetRefused(b)
        PROVE  UNCHANGED <<env, slots, requested>> /\ outcome'.kind # "ran"
    BY <2>5 DEF SetRefused, Raise, Error, Outcome
  <2>6. ASSUME NEW b \in Backends, SetBackend(b)
        PROVE  UNCHANGED env /\ outcome'.kind # "ran"
    BY <2>6 DEF SetBackend, Return, Done, Outcome
  <2>7. ASSUME NEW b \in Backends, SetBackendFails(b)
        PROVE  UNCHANGED env /\ slots' = EmptySlots /\ outcome'.kind # "ran"
    BY <2>7 DEF SetBackendFails, Raise, Error, Outcome
  <2>8. ASSUME NEW b \in 0..N, NEW op \in 0..NumOps,
               AvailableFromMatrix(b, op) \/ AvailableFromTable(b, op)
        PROVE  UNCHANGED <<env, slots, requested>> /\ outcome'.kind # "ran"
    BY <2>8 DEF AvailableFromMatrix, AvailableFromTable, Answer, Return, Raise,
                Yes, No, Error, Outcome
  <2> QED BY <1>4, <2>1, <2>2, <2>3, <2>4, <2>5, <2>6, <2>7, <2>8 DEF External
<1>5. CASE Terminated \/ UNCHANGED vars
  BY <1>5 DEF Terminated, vars
<1> QED BY <1>1, <1>2, <1>3, <1>4, <1>5 DEF Next, Internal

SlotInv == SlotsSound /\ KernelTakesTheFrame /\ ExplicitIsPure

LEMMA InitSlotInv == Init => SlotInv
BY DEF Init, SlotInv, SlotsSound, KernelTakesTheFrame, ExplicitIsPure,
       EmptySlots, Done, Outcome

\* One registration: each slot keeps what it had or gets what the backend
\* has for it.
LEMMA RegistrationKeepsSlotsSound ==
  ASSUME TypeInv, SlotsSound, AutoRegister, NEW op \in Ops
  PROVE  slots'[op] = EmptySlot \/ SlotSound(op)'
<1>1. UNCHANGED <<compiled, supported, tables>>
  BY DEF AutoRegister, env
<1>2. CASE slots'[op] = slots[op]
  BY <1>1, <1>2 DEF SlotsSound, SlotSound, Available
<1>3. CASE slots'[op] # slots[op]
  <2>1. next \in Available /\ TableOK(tables[next])
    BY <1>3 DEF AutoRegister
  <2>2. next \in Backends /\ tables[next] \in KernelTable
    BY <2>1, TablesAssumption DEF Available, TypeInv, TypeOK
  <2>3. /\ Provides(tables[next], op)
        /\ slots'[op] = SlotOf(next, tables[next], op)
    BY <1>3, <2>1 DEF AutoRegister, InstallSlots, Wins
  <2>4. slots'[op].backend = next
    BY <2>2, <2>3, SlotOfType
  <2> QED BY <1>1, <2>1, <2>3, <2>4 DEF SlotSound, Available
<1> QED BY <1>2, <1>3

\* The slots that are built for one backend alone are that backend's.
LEMMA BackendSlotsSound ==
  ASSUME TypeInv, NEW b \in Backends, NEW op \in Ops
  PROVE  IF Provides(tables[b], op)
         THEN /\ BackendSlots(b)[op] = SlotOf(b, tables[b], op)
              /\ BackendSlots(b)[op].backend = b
              /\ Resolved(BackendSlots(b), op)
         ELSE BackendSlots(b)[op] = EmptySlot
<1>1. tables[b] \in KernelTable
  BY TablesAssumption DEF TypeInv, TypeOK
<1>2. Priority[b] < NoBest[op]
  BY PriorityAssumption, UintMaxAssumption DEF NoBest
<1>3. CASE Provides(tables[b], op)
  <2>1. BackendSlots(b)[op] = SlotOf(b, tables[b], op)
    BY <1>2, <1>3 DEF BackendSlots, InstallSlots, Wins
  <2> QED BY <1>1, <1>3, <2>1, SlotOfType DEF Resolved
<1>4. CASE ~Provides(tables[b], op)
  BY <1>4 DEF BackendSlots, InstallSlots, Wins, EmptySlots
<1> QED BY <1>3, <1>4

LEMMA NextSlotInv == TypeInv /\ SlotInv /\ [Next]_vars => SlotInv'
<1> SUFFICES ASSUME TypeInv, SlotInv, [Next]_vars PROVE SlotInv'
  OBVIOUS
<1> USE DEF SlotInv
<1>1. UNCHANGED <<compiled, supported, tables>>
  BY StepKinds
<1>2. SlotsSound' /\ ExplicitIsPure'
  <2>1. CASE UNCHANGED <<slots, requested>>
    BY <1>1, <2>1 DEF SlotsSound, SlotSound, Available, ExplicitIsPure
  <2>2. CASE slots' = EmptySlots
    BY <2>2 DEF SlotsSound, ExplicitIsPure, EmptySlots
  <2>3. CASE AutoRegister
    <3>1. requested' = AutoMode
      BY <2>3 DEF AutoRegister, TypeInv, Ranges
    <3> QED BY <2>3, <3>1, RegistrationKeepsSlotsSound
            DEF SlotsSound, ExplicitIsPure
  <2>4. ASSUME NEW b \in Backends, SetBackend(b)
        PROVE  SlotsSound' /\ ExplicitIsPure'
    <3>1. /\ slots' = BackendSlots(b) /\ requested' = b
          /\ b \in Available /\ TableOK(tables[b])
      BY <2>4 DEF SetBackend, Selectable
    <3>2. ASSUME NEW op \in Ops
          PROVE  \/ slots'[op] = EmptySlot
                 \/ SlotSound(op)' /\ slots'[op].backend = b
      BY <1>1, <3>1, BackendSlotsSound DEF SlotSound, Available
    <3> QED BY <3>1, <3>2 DEF SlotsSound, ExplicitIsPure
  <2> QED BY <2>1, <2>2, <2>3, <2>4, StepKinds
<1>3. KernelTakesTheFrame'
  <2>1. CASE outcome'.kind # "ran"
    BY <2>1 DEF KernelTakesTheFrame
  <2>2. CASE UNCHANGED <<outcome, call>>
    BY <1>1, <2>2 DEF KernelTakesTheFrame, Available
  <2>3. CASE InvokeRuns
    <3> DEFINE b == slots[call.op].backend
               i == FirstRow(tables[b], call.op)
    <3>1. /\ call.op \in Ops /\ Resolved(slots, call.op)
          /\ slots[call.op].signature = call.sig
          /\ call' = call /\ outcome' = Ran(slots[call.op].invoke)
      BY <2>3 DEF InvokeRuns, Return, TypeInv, Ranges
    <3>2. SlotSound(call.op)
      BY <3>1 DEF SlotsSound, Resolved, EmptySlot
    <3>3. b \in Available /\ tables[b] \in KernelTable
      BY <3>2, TablesAssumption DEF SlotSound, TypeInv, TypeOK, Available
    <3>4. /\ slots[call.op].invoke = <<b, i>>
          /\ tables[b][i].signature = slots[call.op].signature
      BY <3>2 DEF SlotSound, SlotOf
    <3>5. tables[b][i].operation = call.op
      BY <3>2, <3>3, FirstRowType DEF SlotSound
    <3>6. outcome'.kernel[1] = b /\ outcome'.kernel[2] = i
      BY <3>1, <3>4 DEF Ran
    <3> HIDE DEF b, i
    <3> QED BY <1>1, <3>1, <3>3, <3>4, <3>5, <3>6
            DEF KernelTakesTheFrame, Available
  <2> QED BY <2>1, <2>2, <2>3, StepKinds
<1> QED BY <1>2, <1>3

LEMMA SlotInvariant == Spec => [](TypeInv /\ SlotInv)
BY InitTypeInv, NextTypeInv, InitSlotInv, NextSlotInv, PTL DEF Spec

(***************************************************************************)
(* However the calls are ordered and wherever an error cut one off, every  *)
(* resolved slot holds a kernel of a well-wired, compiled and supported    *)
(* backend for its operation.                                              *)
(***************************************************************************)
THEOREM ResolvedSlotsAreSound == Spec => []SlotsSound
<1>1. SlotInv => SlotsSound
  BY DEF SlotInv
<1> QED BY <1>1, SlotInvariant, PTL

(***************************************************************************)
(* No kernel runs on a call frame of another signature, for an operation   *)
(* that is not its own, or on a CPU without its instructions.              *)
(***************************************************************************)
THEOREM KernelsRunOnTheirFrames == Spec => []KernelTakesTheFrame
<1>1. SlotInv => KernelTakesTheFrame
  BY DEF SlotInv
<1> QED BY <1>1, SlotInvariant, PTL

(***************************************************************************)
(* A backend asked for by name never shares the table with another.        *)
(***************************************************************************)
THEOREM ExplicitSelectionIsPure == Spec => []ExplicitIsPure
<1>1. SlotInv => ExplicitIsPure
  BY DEF SlotInv
<1> QED BY <1>1, SlotInvariant, PTL

-----------------------------------------------------------------------------
(***************************************************************************)
(* Layer 3: how far the automatic build got, and what it comes to.         *)
(***************************************************************************)

\* What a step does to the control state and to the globals.
Restart ==
  /\ pc = "idle" /\ pc' = "auto"
  /\ slots' = EmptySlots /\ best' = NoBest /\ next' = 1
  /\ requested' = AutoMode /\ initialized' = initialized
  /\ outcome' = Pending
  /\ initialized => call'.fn = "set_backend"
  /\ UNCHANGED <<selected, matrix, ready>>

Quiet ==
  /\ pc # "auto" /\ pc' # "auto"
  /\ pc = "aborted" => pc' = "aborted"
  /\ UNCHANGED <<slots, requested, initialized, selected>>

LEMMA ControlKinds ==
  ASSUME TypeInv, [Next]_vars
  PROVE  \/ AutoRegister \/ AutoFails \/ AutoFinish
         \/ Restart
         \/ \E b \in Backends : SetBackend(b) \/ SetBackendFails(b)
         \/ Quiet
         \/ UNCHANGED vars
<1> USE DEF Quiet, route, cache, loop
<1>1. CASE MatrixRow \/ MatrixFinish
  BY <1>1 DEF MatrixRow, MatrixFinish
<1>2. CASE InvokeUnavailable \/ InvokeMismatch \/ InvokeRuns \/ QueryReturns
  BY <1>2 DEF InvokeUnavailable, InvokeMismatch, InvokeRuns, QueryReturns,
              Return, Raise
<1>3. CASE External
  <2>1. ASSUME NEW h \in {"abort", "longjmp"}, SetErrorHandler(h) PROVE Quiet
    BY <2>1 DEF SetErrorHandler, Return
  <2>2. ASSUME NEW c, Enter(c) PROVE Restart \/ Quiet
    BY <2>2 DEF Enter, StartAuto, Restart, TypeInv, TypeOK
  <2>3. CASE InvokeRefused
    BY <2>3 DEF InvokeRefused, Raise
  <2>4. CASE SetAuto
    BY <2>4 DEF SetAuto, StartAuto, Restart, CallSet, Call
  <2>5. ASSUME NEW b \in 0..N, SetRefused(b) PROVE Quiet
    BY <2>5 DEF SetRefused, Raise
  <2>6. ASSUME NEW b \in 0..N, NEW op \in 0..NumOps,
               AvailableFromMatrix(b, op) \/ AvailableFromTable(b, op)
        PROVE  Quiet
    BY <2>6 DEF AvailableFromMatrix, AvailableFromTable, Answer, Return, Raise
  <2> QED BY <1>3, <2>1, <2>2, <2>3, <2>4, <2>5, <2>6 DEF External
<1>4. CASE Terminated
  BY <1>4 DEF Terminated
<1> QED BY <1>1, <1>2, <1>3, <1>4 DEF Next, Internal

\* The candidates the build has been past, and the loop invariant: each slot
\* holds the best of them.
Seen(op) == {b \in Candidates(op) : b < next}

BuiltSoFar ==
  \A op \in Ops :
    \/ Seen(op) = {} /\ slots[op] = EmptySlot /\ best[op] = UintMax
    \/ /\ slots[op].backend \in Seen(op)
       /\ best[op] = Priority[slots[op].backend]
       /\ \A a \in Seen(op) \ {slots[op].backend} :
            Better(slots[op].backend, a)

AutoInv == AutoIsBest /\ (pc = "auto" => BuiltSoFar)

LEMMA InitAutoInv == Init => AutoInv
BY DEF Init, AutoInv, AutoIsBest

\* One registration of the build keeps the loop invariant.
LEMMA RegistrationKeepsBuiltSoFar ==
  ASSUME TypeInv, BuiltSoFar, AutoRegister
  PROVE  BuiltSoFar'
<1>1. /\ next \in 1..N /\ next' = next + 1
      /\ UNCHANGED <<compiled, supported, tables>>
  BY DEF AutoRegister, Backends, env
<1>2. Available \subseteq 1..N
  BY DEF Available, TypeInv, TypeOK, Backends
<1>3. \A op : Candidates(op)' = Candidates(op) /\ Candidates(op) \subseteq 1..N
  BY <1>1, <1>2 DEF Candidates, Available
<1>4. \A b \in 1..N : Priority[b] \in Nat /\ Priority[b] < UintMax
  BY PriorityAssumption, UintMaxAssumption DEF Backends
<1>5. ASSUME NEW op \in Ops
      PROVE  \/ Seen(op)' = {} /\ slots'[op] = EmptySlot /\ best'[op] = UintMax
             \/ /\ slots'[op].backend \in Seen(op)'
                /\ best'[op] = Priority[slots'[op].backend]
                /\ \A a \in Seen(op)' \ {slots'[op].backend} :
                     Better(slots'[op].backend, a)
  <2>1. CASE next \notin Candidates(op)
    <3>1. Seen(op)' = Seen(op)
      BY <1>1, <1>3, <2>1 DEF Seen
    <3>2. slots'[op] = slots[op] /\ best'[op] = best[op]
      BY <2>1, <1>5 DEF AutoRegister, InstallSlots, InstallBest, Wins, Candidates,
                        TypeInv, TypeOK
    <3> QED BY <3>1, <3>2 DEF BuiltSoFar
  <2>2. CASE next \in Candidates(op)
    <3>1. Seen(op)' = Seen(op) \cup {next}
      BY <1>1, <1>3, <2>2 DEF Seen
    <3>2. /\ next \in Available /\ Provides(tables[next], op)
          /\ tables[next] \in KernelTable /\ next \in Backends
      BY <2>2, <1>1, TablesAssumption DEF Candidates, TypeInv, TypeOK, Backends
    <3>3. CASE Priority[next] < best[op]
      <4>1. slots'[op].backend = next /\ best'[op] = Priority[next]
        <5>1. slots'[op] = SlotOf(next, tables[next], op)
          BY <3>2, <3>3 DEF AutoRegister, InstallSlots, Wins
        <5>2. best'[op] = Priority[next]
          BY <3>2, <3>3 DEF AutoRegister, InstallBest, Wins
        <5> QED BY <5>1, <5>2, <3>2, SlotOfType
      <4>2. \A a \in Seen(op) : Priority[next] < Priority[a]
        BY <1>1, <1>3, <1>4, <3>3 DEF BuiltSoFar, Better, Seen
      <4> QED BY <3>1, <4>1, <4>2 DEF Better
    <3>4. CASE ~(Priority[next] < best[op])
      <4>1. slots'[op] = slots[op] /\ best'[op] = best[op]
        BY <3>2, <3>4 DEF AutoRegister, InstallSlots, InstallBest, Wins
      <4>2. best[op] # UintMax
        BY <1>1, <1>4, <3>4
      <4>3. Better(slots[op].backend, next)
        BY <4>2, <1>1, <1>3, <1>4, <3>4 DEF BuiltSoFar, Better, Seen
      <4> QED BY <3>1, <4>1, <4>2, <4>3 DEF BuiltSoFar
    <3> QED BY <3>3, <3>4
  <2> QED BY <2>1, <2>2
<1> QED BY <1>5 DEF BuiltSoFar

\* At the end of the build the slots are the best of all.
LEMMA BuildEndsBest ==
  ASSUME TypeInv, BuiltSoFar, next = N + 1, NEW op \in Ops
  PROVE  IF Candidates(op) = {} THEN slots[op] = EmptySlot
                                ELSE BestFor(slots[op].backend, op)
<1>1. Candidates(op) \subseteq 1..N
  BY DEF Candidates, Available, TypeInv, TypeOK, Backends
<1>2. Seen(op) = Candidates(op)
  BY <1>1, NAssumption DEF Seen
<1> QED BY <1>2 DEF BuiltSoFar, BestFor

LEMMA NextAutoInv == TypeInv /\ AutoInv /\ [Next]_vars => AutoInv'
<1> SUFFICES ASSUME TypeInv, AutoInv, [Next]_vars PROVE AutoInv'
  OBVIOUS
<1> USE DEF AutoInv
<1>1. /\ UNCHANGED <<compiled, supported, tables>>
      /\ Available' = Available
      /\ \A op : Candidates(op)' = Candidates(op)
  BY StepKinds DEF Available, Candidates
<1>2. CASE AutoRegister
  <2>1. pc = "auto" /\ pc' = "auto"
    BY <1>2 DEF AutoRegister
  <2> QED BY <1>2, <2>1, RegistrationKeepsBuiltSoFar DEF AutoIsBest
<1>3. CASE AutoFails
  <2>1. /\ pc' # "auto"
        /\ ~ \A b \in Available' : TableOK(tables'[b])
    BY <1>1, <1>3 DEF AutoFails, Raise
  <2> QED BY <2>1 DEF AutoIsBest
<1>4. CASE AutoFinish
  <2>1. pc = "auto" /\ pc' # "auto" /\ next = N + 1 /\ slots' = slots
    BY <1>4 DEF AutoFinish, Return
  <2>2. \A op \in Ops : BestFor(slots[op].backend, op)' <=>
                         BestFor(slots'[op].backend, op)
    BY <1>1 DEF BestFor
  <2> QED BY <1>1, <2>1, <2>2, BuildEndsBest DEF AutoIsBest, BestFor
<1>5. CASE Restart
  <2>1. \A op \in Ops : Seen(op)' = {}
    <3>1. \A op \in Ops : Candidates(op)' \subseteq 1..N
      BY <1>1 DEF Candidates, Available, TypeInv, TypeOK, Backends
    <3> QED BY <1>5, <3>1 DEF Seen, Restart
  <2> QED BY <1>5, <2>1 DEF Restart, AutoIsBest, BuiltSoFar, EmptySlots, NoBest
<1>6. ASSUME NEW b \in Backends, SetBackend(b) \/ SetBackendFails(b)
      PROVE  AutoInv'
  <2>1. requested' # AutoMode /\ pc' # "auto"
    BY <1>6 DEF SetBackend, SetBackendFails, Return, Raise, AutoMode, Backends
  <2> QED BY <2>1 DEF AutoIsBest
<1>7. CASE Quiet
  BY <1>1, <1>7 DEF Quiet, AutoIsBest, BestFor, TypeInv, TypeOK
<1>8. CASE UNCHANGED vars
  <2>1. UNCHANGED <<slots, best, next, pc, initialized, requested>>
    BY <1>8 DEF vars, route, loop
  <2> QED BY <1>1, <2>1 DEF AutoIsBest, BestFor, BuiltSoFar, Seen
<1> QED BY <1>2, <1>3, <1>4, <1>5, <1>6, <1>7, <1>8, ControlKinds

LEMMA AutoInvariant == Spec => [](TypeInv /\ SlotInv /\ AutoInv)
BY SlotInvariant, InitTypeInv, NextTypeInv, InitAutoInv, NextAutoInv, PTL
   DEF Spec

(***************************************************************************)
(* Whenever automatic selection is in force and no available backend is    *)
(* mis-wired, each operation goes to the best available backend that       *)
(* provides it, and every operation that some such backend provides goes   *)
(* somewhere.                                                              *)
(***************************************************************************)
THEOREM AutomaticSelectionIsBest == Spec => []AutoIsBest
<1>1. AutoInv => AutoIsBest
  BY DEF AutoInv
<1> QED BY <1>1, AutoInvariant, PTL

-----------------------------------------------------------------------------
(***************************************************************************)
(* The engine implements the contract as long as its backends are well     *)
(* wired: the steps of the automatic build are hidden, its end settles the *)
(* route, and everything else is one step of the contract or none.         *)
(***************************************************************************)

\* The refinement mapping, by the names the contract uses.
COffers == {p \in Available \X Ops : Provides(tables[p[1]], p[2])}
CRoute  == [op \in Ops |-> IF pc = "auto" THEN NoBackend ELSE slots[op].backend]
CPhase  == IF pc = "auto" THEN "resolving"
           ELSE IF initialized THEN "ready" ELSE "unresolved"
CRan    == IF outcome.kind = "ran" THEN <<call.op, outcome.kernel[1]>> ELSE <<>>

LEMMA InitContract == Init => Contract!Init
<1> SUFFICES ASSUME Init PROVE Contract!Init
  OBVIOUS
<1>1. COffers \subseteq Backends \X Ops
  BY DEF Init, COffers, Available
<1>2. CRoute = [op \in Ops |-> 0]
  BY DEF Init, CRoute, EmptySlots, EmptySlot, NoBackend
<1>3. CPhase = "unresolved" /\ CRan = <<>> /\ requested = 0
  BY DEF Init, CPhase, CRan, Done, Outcome, AutoMode
<1> QED BY <1>1, <1>2, <1>3
        DEF Contract!Init, Contract!NoRoute, Contract!Ops, Contract!Backends,
            COffers, CRoute, CPhase, CRan, Ops, Backends

\* Where the backends are well wired each of them can be selected by name.
LEMMA WellWiredSelectable ==
  ASSUME TypeInv, WellWired, NEW b \in Available
  PROVE  /\ Selectable(b)
         /\ \E op \in Ops : Provides(tables[b], op)
<1>1. b \in Backends /\ tables[b] \in KernelTable /\ tables[b] # <<>>
  BY TablesAssumption DEF TypeInv, TypeOK, Available, WellWired
<1>2. 1 \in DOMAIN tables[b]
  BY <1>1 DEF KernelTable
<1>3. tables[b][1].operation \in Ops
  BY <1>2 DEF WellWired, TableOK, RowOK
<1>4. Provides(tables[b], tables[b][1].operation)
  BY <1>2 DEF Provides, RowsFor
<1>5. Resolved(BackendSlots(b), tables[b][1].operation)
  BY <1>1, <1>3, <1>4, BackendSlotsSound
<1> QED BY <1>3, <1>4, <1>5 DEF Selectable, WellWired

LEMMA NextContract ==
  ASSUME TypeInv, SlotInv, AutoInv, WellWired, [Next]_vars
  PROVE  [Contract!Next]_(Contract!vars)
<1> USE DEF Contract!Ops, Contract!Backends
<1>1. COffers' = COffers
  BY StepKinds DEF COffers, Available
<1>2. CASE AutoRegister
  <2>1. CRoute' = CRoute /\ CPhase' = CPhase /\ CRan' = CRan /\ requested' = requested
    BY <1>2 DEF AutoRegister, CRoute, CPhase, CRan
  <2> QED BY <1>1, <2>1 DEF Contract!vars, COffers, CRoute, CPhase, CRan
<1>3. CASE AutoFails
  BY <1>3 DEF AutoFails, WellWired
<1>4. CASE AutoFinish
  <2>1. /\ pc = "auto" /\ pc' # "auto" /\ next = N + 1 /\ initialized'
        /\ slots' = slots /\ requested' = requested /\ call' = call
        /\ outcome'.kind = "ran" => outcome' = outcome
    BY <1>4 DEF AutoFinish, Return, Done, Outcome
  <2>2. CPhase = "resolving" /\ CPhase' = "ready"
    BY <2>1 DEF CPhase
  <2>3. CRoute' = [op \in Ops |-> slots[op].backend]
    BY <2>1 DEF CRoute
  <2>4. CRoute' \in [Ops -> 0..N]
    BY <2>3 DEF TypeInv, TypeOK, Slot
  <2>5. ASSUME NEW op \in Ops
        PROVE  \/ /\ <<CRoute'[op], op>> \in COffers
                  /\ \A a \in Backends \ {CRoute'[op]} :
                       <<a, op>> \in COffers => Better(CRoute'[op], a)
               \/ /\ CRoute'[op] = 0
                  /\ \A b \in Backends : <<b, op>> \notin COffers
    <3>1. \A b : <<b, op>> \in COffers <=> b \in Candidates(op)
      BY DEF COffers, Candidates
    <3>2. CASE Candidates(op) = {}
      <4>1. slots[op] = EmptySlot
        BY <2>1, <3>2, BuildEndsBest DEF AutoInv
      <4> QED BY <2>3, <3>1, <3>2, <4>1 DEF EmptySlot, NoBackend
    <3>3. CASE Candidates(op) # {}
      <4>1. BestFor(slots[op].backend, op)
        BY <2>1, <3>3, BuildEndsBest DEF AutoInv
      <4> QED BY <2>3, <3>1, <4>1 DEF BestFor
    <3> QED BY <3>2, <3>3
  <2>6. CRan' = CRan
    BY <2>1, <1>4 DEF CRan, AutoFinish, Return, Done, Pending, Outcome,
                      TypeInv, Ranges
  <2> QED BY <1>1, <2>1, <2>2, <2>4, <2>5, <2>6
          DEF Contract!Next, Contract!Settle, Contract!IsBest, Contract!Prefers,
              Better, COffers, CRoute, CPhase, CRan, Ops, Backends
<1>5. CASE Restart
  <2>1. CPhase # "resolving" /\ CPhase' = "resolving"
    BY <1>5 DEF Restart, CPhase
  <2>2. CRoute' = [op \in Ops |-> 0] /\ CRan' = <<>> /\ requested' = 0
    BY <1>5 DEF Restart, CRoute, CRan, NoBackend, AutoMode, Pending, Outcome
  <2> QED BY <1>1, <2>1, <2>2
          DEF Contract!Next, Contract!GoAuto, Contract!NoRoute,
              COffers, CRoute, CPhase, CRan, Ops
<1>6. ASSUME NEW b \in Backends, SetBackend(b)
      PROVE  Contract!Next
  <2>1. /\ pc = "idle" /\ pc' = "idle" /\ b \in Available
        /\ requested' = b /\ initialized' /\ slots' = BackendSlots(b)
        /\ outcome' = Done
    BY <1>6 DEF SetBackend, Return
  <2>2. CPhase # "resolving" /\ CPhase' = "ready" /\ CRan' = <<>>
    BY <2>1 DEF CPhase, CRan, Done, Outcome
  <2>3. \A op \in Ops : <<b, op>> \in COffers <=> Provides(tables[b], op)
    BY <2>1 DEF COffers
  <2>4. \E op \in Ops : <<b, op>> \in COffers
    BY <2>1, <2>3, WellWiredSelectable
  <2>5. ASSUME NEW op \in Ops
        PROVE  slots'[op].backend = IF <<b, op>> \in COffers THEN b ELSE 0
    BY <2>1, <2>3, BackendSlotsSound DEF EmptySlot, NoBackend
  <2>6. CRoute' = [op \in Ops |-> IF <<b, op>> \in COffers THEN b ELSE 0]
    BY <2>1, <2>5 DEF CRoute
  <2>7. Contract!GoExplicit(b)
    BY <1>1, <2>1, <2>2, <2>4, <2>6
       DEF Contract!GoExplicit, COffers, CRoute, CPhase, CRan, Ops
  <2> QED BY <2>7 DEF Contract!Next, Backends
<1>7. ASSUME NEW b \in Backends, SetBackendFails(b)
      PROVE  FALSE
  BY <1>7, WellWiredSelectable DEF SetBackendFails
<1>8. CASE Quiet
  <2>1. CRoute' = CRoute /\ CPhase' = CPhase /\ requested' = requested
    BY <1>8 DEF Quiet, CRoute, CPhase
  <2>2. CASE outcome'.kind # "ran"
    <3>1. CRan' = <<>>
      BY <2>2 DEF CRan
    <3>2. Contract!RunNothing
      BY <1>1, <2>1, <3>1
         DEF Contract!RunNothing, COffers, CRoute, CPhase, CRan
    <3> QED BY <3>2 DEF Contract!Next
  <2>3. CASE UNCHANGED <<outcome, call>>
    <3>1. CRan' = CRan
      BY <2>3 DEF CRan
    <3> QED BY <1>1, <2>1, <3>1 DEF Contract!vars, COffers, CRoute, CPhase, CRan
  <2>4. CASE InvokeRuns
    <3>1. /\ pc = "body" /\ initialized /\ call.op \in Ops
          /\ Resolved(slots, call.op)
          /\ call' = call /\ outcome' = Ran(slots[call.op].invoke)
      BY <2>4 DEF InvokeRuns, Return, TypeInv, Ranges
    <3>2. SlotSound(call.op)
      BY <3>1 DEF SlotInv, SlotsSound, Resolved, EmptySlot
    <3>3. /\ CPhase = "ready"
          /\ CRoute[call.op] = slots[call.op].backend
      BY <3>1 DEF CPhase, CRoute
    <3>4. slots[call.op].invoke[1] = slots[call.op].backend
      BY <3>2 DEF SlotSound, SlotOf
    <3>5. CRan' = <<call.op, CRoute[call.op]>>
      BY <3>1, <3>3, <3>4 DEF CRan, Ran
    <3>6. CRoute[call.op] # 0
      BY <3>2, <3>3 DEF SlotSound, Available, TypeInv, TypeOK, Backends
    <3>7. Contract!Run(call.op)
      BY <1>1, <2>1, <3>3, <3>5, <3>6
         DEF Contract!Run, COffers, CRoute, CPhase, CRan
    <3> QED BY <3>1, <3>7 DEF Contract!Next, Ops
  <2> QED BY <2>2, <2>3, <2>4, StepKinds
<1>9. CASE UNCHANGED vars
  <2>1. CRoute' = CRoute /\ CPhase' = CPhase /\ CRan' = CRan /\ requested' = requested
    BY <1>9 DEF vars, route, CRoute, CPhase, CRan
  <2> QED BY <1>1, <2>1 DEF Contract!vars, COffers, CRoute, CPhase, CRan
<1> QED BY <1>2, <1>3, <1>4, <1>5, <1>6, <1>7, <1>8, <1>9, ControlKinds

LEMMA WellWiredStays == WellWired /\ [Next]_vars => WellWired'
BY StepKinds DEF WellWired, Available

(***************************************************************************)
(* simd_dispatch.c implements DispatchContract for every package whose     *)
(* available backends are well wired.                                      *)
(***************************************************************************)
THEOREM ContractImplemented == WellWiredSpec => ContractHolds
<1>1. WellWiredSpec => [](TypeInv /\ SlotInv /\ AutoInv /\ WellWired)
  BY InitTypeInv, NextTypeInv, InitSlotInv, NextSlotInv, InitAutoInv,
     NextAutoInv, WellWiredStays, PTL DEF WellWiredSpec, WellWiredInit
<1>2. TypeInv /\ SlotInv /\ AutoInv /\ WellWired /\ [Next]_vars =>
        [Contract!Next]_(Contract!vars)
  BY NextContract
<1> QED BY <1>1, <1>2, InitContract, PTL
        DEF WellWiredSpec, WellWiredInit, ContractHolds, Contract!Spec

-----------------------------------------------------------------------------
(***************************************************************************)
(* Layer 4: the availability matrix, and who may reroute.                  *)
(***************************************************************************)

FullMatrix == {p \in Available \X Ops : Provides(tables[p[1]], p[2])}

AllOK == \A b \in Available : TableOK(tables[b])

MatrixInv ==
  /\ pc = "auto" =>
       /\ \A b \in Available : b < next => TableOK(tables[b])
       /\ initialized => call.fn = "set_backend"
  /\ pc = "matrix" =>
       /\ AllOK /\ ~ready
       /\ \A p \in Backends \X Ops :
            p[1] < next => (p \in matrix <=> p \in FullMatrix)
  /\ ready => initialized /\ AllOK /\ matrix = FullMatrix

LEMMA InitMatrixInv == Init => MatrixInv
BY DEF Init, MatrixInv

\* The steps that matter to the matrix.
LEMMA MatrixKinds ==
  ASSUME TypeInv, [Next]_vars
  PROVE  \/ AutoRegister \/ AutoFinish \/ Restart
         \/ MatrixRow \/ MatrixFinish
         \/ /\ pc' \notin {"auto", "matrix"}
            /\ UNCHANGED <<matrix, ready>>
            /\ initialized => initialized'
         \/ UNCHANGED vars
<1> USE DEF route, cache, loop
<1>1. CASE AutoFails
  BY <1>1 DEF AutoFails, Raise
<1>2. CASE InvokeUnavailable \/ InvokeMismatch \/ InvokeRuns \/ QueryReturns
  BY <1>2 DEF InvokeUnavailable, InvokeMismatch, InvokeRuns, QueryReturns,
              Return, Raise
<1>3. CASE External
  <2> DEFINE Elsewhere == /\ pc' \notin {"auto", "matrix"}
                          /\ UNCHANGED <<matrix, ready>>
                          /\ initialized => initialized'
  <2>1. ASSUME NEW h \in {"abort", "longjmp"}, SetErrorHandler(h)
        PROVE  Elsewhere
    BY <2>1 DEF SetErrorHandler, Return
  <2>2. ASSUME NEW c, Enter(c) PROVE Restart \/ Elsewhere
    BY <2>2 DEF Enter, StartAuto, Restart, TypeInv, TypeOK
  <2>3. CASE InvokeRefused
    BY <2>3 DEF InvokeRefused, Raise
  <2>4. CASE SetAuto
    BY <2>4 DEF SetAuto, StartAuto, Restart, CallSet, Call
  <2>5. ASSUME NEW b \in 0..N, SetRefused(b) PROVE Elsewhere
    BY <2>5 DEF SetRefused, Raise
  <2>6. ASSUME NEW b \in Backends, SetBackend(b) \/ SetBackendFails(b)
        PROVE  Elsewhere
    BY <2>6 DEF SetBackend, SetBackendFails, Return, Raise
  <2>7. ASSUME NEW b \in 0..N, NEW op \in 0..NumOps,
               AvailableFromMatrix(b, op) \/ AvailableFromTable(b, op)
        PROVE  Elsewhere
    BY <2>7 DEF AvailableFromMatrix, AvailableFromTable, Answer, Return, Raise
  <2> QED BY <1>3, <2>1, <2>2, <2>3, <2>4, <2>5, <2>6, <2>7 DEF External
<1>4. CASE Terminated
  BY <1>4 DEF Terminated
<1> QED BY <1>1, <1>2, <1>3, <1>4 DEF Next, Internal

LEMMA NextMatrixInv == TypeInv /\ MatrixInv /\ [Next]_vars => MatrixInv'
<1> SUFFICES ASSUME TypeInv, MatrixInv, [Next]_vars PROVE MatrixInv'
  OBVIOUS
<1> USE DEF MatrixInv
<1>1. /\ UNCHANGED <<compiled, supported, tables>>
      /\ Available' = Available /\ FullMatrix' = FullMatrix /\ AllOK' = AllOK
  BY StepKinds DEF Available, FullMatrix, AllOK
<1>2. Available \subseteq 1..N
  BY DEF Available, TypeInv, TypeOK, Backends
<1>3. CASE AutoRegister
  <2>1. /\ pc = "auto" /\ pc' = "auto" /\ next \in 1..N /\ next' = next + 1
        /\ next \in Available => TableOK(tables[next])
        /\ UNCHANGED <<initialized, call, matrix, ready>>
    BY <1>3 DEF AutoRegister, Backends, cache
  <2>2. \A b \in Available : b < next' => TableOK(tables[b])
    BY <2>1, <1>2
  <2> QED BY <1>1, <2>1, <2>2
<1>4. CASE AutoFinish
  <2>1. /\ pc = "auto" /\ next = N + 1 /\ initialized'
        /\ UNCHANGED <<matrix, ready>>
        /\ \/ pc' = "idle"
           \/ pc' = "matrix" /\ next' = 1 /\ call.fn # "set_backend"
    BY <1>4 DEF AutoFinish, Return, cache
  <2>2. AllOK
    BY <2>1, <1>2, NAssumption DEF AllOK
  <2>3. ASSUME pc' = "matrix" PROVE ~ready /\ next' = 1
    BY <2>1, <2>3
  <2> QED BY <1>1, <2>1, <2>2, <2>3 DEF Backends
<1>5. CASE Restart
  <2>1. UNCHANGED <<matrix, ready>>
    BY <1>5 DEF Restart
  <2>2. \A b \in Available : ~(b < next')
    BY <1>5, <1>2 DEF Restart
  <2> QED BY <1>1, <1>5, <2>1, <2>2 DEF Restart
<1>6. CASE MatrixRow
  <2>1. /\ pc = "matrix" /\ pc' = "matrix" /\ next \in 1..N /\ next' = next + 1
        /\ UNCHANGED <<initialized, ready>>
    BY <1>6 DEF MatrixRow, Backends, route
  <2>2. ASSUME NEW p \in Backends \X Ops, p[1] < next'
        PROVE  p \in matrix' <=> p \in FullMatrix
    <3>1. CASE p[1] = next
      <4>1. p \in matrix' <=> p[1] \in Available /\ Provides(tables[p[1]], p[2])
        BY <1>6, <3>1, <2>2 DEF MatrixRow
      <4> QED BY <4>1, <2>2 DEF FullMatrix
    <3>2. CASE p[1] # next
      <4>1. p \in matrix' <=> p \in matrix
        BY <1>6, <3>2 DEF MatrixRow
      <4>2. p[1] < next
        BY <2>1, <2>2, <3>2 DEF Backends
      <4> QED BY <4>1, <4>2, <2>1
    <3> QED BY <3>1, <3>2
  <2> QED BY <1>1, <2>1, <2>2
<1>7. CASE MatrixFinish
  <2>1. /\ pc = "matrix" /\ pc' = "body" /\ next = N + 1
        /\ UNCHANGED <<initialized, matrix>> /\ initialized
    BY <1>7 DEF MatrixFinish, route, TypeInv, Ranges
  <2>2. \A p \in Backends \X Ops : p[1] < next
    BY <2>1, NAssumption DEF Backends
  <2>3. FullMatrix \subseteq Backends \X Ops
    BY <1>2 DEF FullMatrix, Backends
  <2>4. matrix = FullMatrix
    BY <2>1, <2>2, <2>3 DEF TypeInv, TypeOK
  <2> QED BY <1>1, <2>1, <2>4
<1>8. CASE UNCHANGED vars
  BY <1>1, <1>8 DEF vars, cache, route, loop
<1> QED BY <1>1, <1>3, <1>4, <1>5, <1>6, <1>7, <1>8, MatrixKinds

LEMMA MatrixInvariant == Spec => [](TypeInv /\ MatrixInv)
BY InitTypeInv, NextTypeInv, InitMatrixInv, NextMatrixInv, PTL DEF Spec

(***************************************************************************)
(* The matrix that sd_init_dispatch fills stays right for the rest of the  *)
(* process, and it is never there while a backend is mis-wired.            *)
(***************************************************************************)
THEOREM MatrixIsRight == Spec => []MatrixAgrees
<1>1. MatrixInv => MatrixAgrees
  BY DEF MatrixInv, MatrixAgrees, AllOK, FullMatrix
<1> QED BY <1>1, MatrixInvariant, PTL

(***************************************************************************)
(* Once the engine is initialized, no function of the API but              *)
(* sd_set_backend changes a slot, the requested or the selected backend.   *)
(***************************************************************************)
THEOREM OnlySetBackendMayReroute == Spec => OnlySetBackendReroutes
<1>1. ASSUME TypeInv, MatrixInv, [Next]_vars, initialized
      PROVE  /\ initialized'
             /\ \/ UNCHANGED <<slots, requested, selected>>
                \/ call'.fn = "set_backend"
  <2>1. CASE AutoRegister \/ AutoFails \/ AutoFinish
    BY <1>1, <2>1 DEF AutoRegister, AutoFails, AutoFinish, Raise, Return,
                      MatrixInv, route
  <2>2. CASE Restart
    BY <1>1, <2>2 DEF Restart
  <2>3. ASSUME NEW b \in Backends, SetBackend(b) \/ SetBackendFails(b)
        PROVE  initialized' /\ call'.fn = "set_backend"
    BY <1>1, <2>3 DEF SetBackend, SetBackendFails, CallSet, Call
  <2>4. CASE Quiet
    BY <1>1, <2>4 DEF Quiet
  <2>5. CASE UNCHANGED vars
    BY <1>1, <2>5 DEF vars, route
  <2> QED BY <1>1, <2>1, <2>2, <2>3, <2>4, <2>5, ControlKinds
<1>2. TypeInv /\ MatrixInv /\ [Next]_vars =>
        [initialized =>
           /\ initialized'
           /\ <<slots, requested, selected>>' # <<slots, requested, selected>> =>
                call'.fn = "set_backend"]_vars
  BY <1>1
<1> QED BY <1>2, MatrixInvariant, PTL DEF Spec, OnlySetBackendReroutes

\* Where an answer comes from.
LEMMA AnswerKinds ==
  ASSUME [Next]_vars, outcome'.kind \in {"yes", "no"}
  PROVE  \/ UNCHANGED <<outcome, call>>
         \/ \E b \in 0..N, op \in 0..NumOps :
              AvailableFromMatrix(b, op) \/ AvailableFromTable(b, op)
<1> USE DEF Done, Error, Pending, Outcome
<1>1. CASE AutoRegister \/ AutoFails \/ AutoFinish
  BY <1>1 DEF AutoRegister, AutoFails, AutoFinish, Return, Raise
<1>2. CASE MatrixRow \/ MatrixFinish
  BY <1>2 DEF MatrixRow, MatrixFinish
<1>3. CASE InvokeUnavailable \/ InvokeMismatch \/ InvokeRuns \/ QueryReturns
  BY <1>3 DEF InvokeUnavailable, InvokeMismatch, InvokeRuns, QueryReturns,
              Return, Raise, Ran
<1>4. CASE External
  <2>1. ASSUME NEW h \in {"abort", "longjmp"}, SetErrorHandler(h) PROVE FALSE
    BY <2>1 DEF SetErrorHandler, Return
  <2>2. ASSUME NEW c, Enter(c) PROVE FALSE
    BY <2>2 DEF Enter, StartAuto
  <2>3. CASE InvokeRefused
    BY <2>3 DEF InvokeRefused, Raise
  <2>4. CASE SetAuto
    BY <2>4 DEF SetAuto, StartAuto
  <2>5. ASSUME NEW b \in 0..N, SetRefused(b) PROVE FALSE
    BY <2>5 DEF SetRefused, Raise
  <2>6. ASSUME NEW b \in Backends, SetBackend(b) \/ SetBackendFails(b)
        PROVE  FALSE
    BY <2>6 DEF SetBackend, SetBackendFails, Return, Raise
  <2> QED BY <1>4, <2>1, <2>2, <2>3, <2>4, <2>5, <2>6 DEF External
<1>5. CASE Terminated \/ UNCHANGED vars
  BY <1>5 DEF Terminated, vars
<1> QED BY <1>1, <1>2, <1>3, <1>4, <1>5 DEF Next, Internal

LEMMA NextAvailabilityAnswer ==
  TypeInv /\ MatrixInv /\ AvailabilityAnswer /\ [Next]_vars =>
    AvailabilityAnswer'
<1> SUFFICES ASSUME TypeInv, MatrixInv, AvailabilityAnswer, [Next]_vars,
                    outcome'.kind \in {"yes", "no"}
             PROVE  outcome'.kind = "yes" <=>
                      /\ call'.backend \in Available'
                      /\ call'.op \in Ops
                      /\ Provides(tables'[call'.backend], call'.op)
  BY DEF AvailabilityAnswer
<1> USE DEF Answer, Return, Yes, No, Outcome, CallAvailable, Call
<1>1. Available' = Available /\ tables' = tables
  BY StepKinds DEF Available
<1>2. CASE UNCHANGED <<outcome, call>>
  BY <1>1, <1>2 DEF AvailabilityAnswer
<1>3. ASSUME NEW b \in 0..N, NEW op \in 0..NumOps, AvailableFromMatrix(b, op)
      PROVE  outcome'.kind = "yes" <=>
               b \in Available /\ op \in Ops /\ Provides(tables[b], op)
  <2>1. b \in Available /\ op \in Ops =>
          (<<b, op>> \in matrix <=> Provides(tables[b], op))
    BY <1>3 DEF AvailableFromMatrix, MatrixInv, FullMatrix
  <2> QED BY <1>3, <2>1 DEF AvailableFromMatrix
<1>4. ASSUME NEW b \in 0..N, NEW op \in 0..NumOps, AvailableFromTable(b, op)
      PROVE  outcome'.kind = "yes" <=>
               b \in Available /\ op \in Ops /\ Provides(tables[b], op)
  <2>1. CASE b \in Available /\ op \in Ops
    <3>1. Resolved(BackendSlots(b), op) <=> Provides(tables[b], op)
      BY <2>1, BackendSlotsSound
         DEF TypeInv, TypeOK, Available, Resolved, EmptySlot
    <3>2. TableOK(tables[b])
      BY <1>4, <2>1 DEF AvailableFromTable, Raise, Error
    <3> QED BY <1>4, <2>1, <3>1, <3>2 DEF AvailableFromTable
  <2>2. CASE ~(b \in Available /\ op \in Ops)
    BY <1>4, <2>2 DEF AvailableFromTable
  <2> QED BY <2>1, <2>2
<1>5. ASSUME NEW b \in 0..N, NEW op \in 0..NumOps,
             AvailableFromMatrix(b, op) \/ AvailableFromTable(b, op)
      PROVE  call'.backend = b /\ call'.op = op
  BY <1>5 DEF AvailableFromMatrix, AvailableFromTable
<1> QED BY <1>1, <1>2, <1>3, <1>4, <1>5, AnswerKinds

(***************************************************************************)
(* sd_backend_operation_available tells the truth, from the matrix and     *)
(* from a rebuild alike, however initialization and selections went.       *)
(***************************************************************************)
THEOREM AvailabilityIsAnswered == Spec => []AvailabilityAnswer
<1>1. Init => AvailabilityAnswer
  BY DEF Init, AvailabilityAnswer, Done, Outcome
<1> QED BY <1>1, NextAvailabilityAnswer, InitTypeInv, NextTypeInv,
           InitMatrixInv, NextMatrixInv, PTL DEF Spec

-----------------------------------------------------------------------------
(***************************************************************************)
(* The summary that is made of a selection still tells what is in force.   *)
(***************************************************************************)

\* What a resolved slot says of its backend.
LEMMA ResolvedHasBackend ==
  ASSUME TypeInv, SlotInv, NEW op \in Ops
  PROVE  /\ Resolved(slots, op) <=> slots[op].backend # NoBackend
         /\ Resolved(slots, op) => slots[op].backend \in Available
<1>1. CASE slots[op] = EmptySlot
  BY <1>1 DEF Resolved, EmptySlot
<1>2. CASE SlotSound(op)
  <2>1. /\ slots[op].backend \in Available
        /\ slots[op].backend \in Backends
        /\ slots[op].invoke = <<slots[op].backend,
                                FirstRow(tables[slots[op].backend], op)>>
    BY <1>2 DEF SlotSound, SlotOf, Available, TypeInv, TypeOK
  <2> QED BY <2>1, NAssumption DEF Resolved, NoKernel, NoBackend, Backends
<1> QED BY <1>1, <1>2 DEF SlotInv, SlotsSound

LEMMA NextSummary ==
  TypeInv /\ SlotInv /\ SummaryTellsTheRoute /\ [Next]_vars =>
    SummaryTellsTheRoute'
<1> SUFFICES ASSUME TypeInv, SlotInv, SummaryTellsTheRoute, [Next]_vars
             PROVE  SummaryTellsTheRoute'
  OBVIOUS
<1>0. WellWired' <=> WellWired
  <2>1. tables' = tables /\ Available' = Available
    BY StepKinds DEF Available
  <2> QED BY <2>1 DEF WellWired
<1> SUFFICES ASSUME WellWired, initialized', pc' \in {"idle", "matrix", "body"}
             PROVE  SummaryTellsTheRoute'
  BY <1>0 DEF SummaryTellsTheRoute
<1>1. CASE Quiet \/ UNCHANGED vars
  <2>1. UNCHANGED <<slots, requested, selected, initialized>>
    BY <1>1 DEF Quiet, vars, route
  <2>2. pc \in {"idle", "matrix", "body"}
    BY <1>1 DEF Quiet, vars, TypeInv, TypeOK
  <2> QED BY <2>1, <2>2 DEF SummaryTellsTheRoute, Resolved
<1>2. CASE AutoFinish
  <2>1. /\ slots' = slots /\ requested' = AutoMode /\ selected' = AutoSummary
    BY <1>2 DEF AutoFinish, TypeInv, Ranges
  <2>2. \A op \in Ops : Resolved(slots, op)' <=> slots[op].backend \in Winners
    BY <2>1, ResolvedHasBackend DEF Winners, Resolved
  <2>3. CASE Winners = {}
    BY <2>1, <2>2, <2>3 DEF SummaryTellsTheRoute, AutoSummary, Unavailable
  <2>4. CASE \E a, b \in Winners : a # b
    <3>1. selected' = Mixed
      BY <2>1, <2>4 DEF AutoSummary
    <3>2. \E o, p \in Ops : /\ slots[o].backend # slots[p].backend
                            /\ slots[o].backend \in Winners
                            /\ slots[p].backend \in Winners
      BY <2>4 DEF Winners
    <3> QED BY <2>1, <2>2, <3>1, <3>2 DEF SummaryTellsTheRoute, Mixed
  <2>5. CASE Winners # {} /\ \A a, b \in Winners : a = b
    <3>1. PICK w \in Winners : selected' = Name(w)
      BY <2>1, <2>5 DEF AutoSummary
    <3>2. \E op \in Ops : slots[op].backend \in Winners
      BY <2>5 DEF Winners
    <3> QED BY <2>1, <2>2, <2>5, <3>1, <3>2 DEF SummaryTellsTheRoute, Name
  <2> QED BY <2>3, <2>4, <2>5
<1>3. ASSUME NEW b \in Backends, SetBackend(b) PROVE SummaryTellsTheRoute'
  <2>1. /\ slots' = BackendSlots(b) /\ requested' = b /\ Selectable(b)
        /\ selected' = IF \A op \in Ops : Resolved(BackendSlots(b), op)
                       THEN Name(b) ELSE Partial(b)
    BY <1>3 DEF SetBackend
  <2>2. \A op \in Ops : Resolved(slots, op)' <=> Resolved(BackendSlots(b), op)
    BY <2>1 DEF Resolved
  <2>3. \E op \in Ops : Resolved(BackendSlots(b), op)
    BY <2>1 DEF Selectable
  <2>4. \A op \in Ops : Resolved(BackendSlots(b), op) => slots'[op].backend = b
    BY <2>1, BackendSlotsSound DEF Resolved, EmptySlot
  <2>5. CASE \A op \in Ops : Resolved(BackendSlots(b), op)
    <3>1. selected' = Name(b)
      BY <2>1, <2>5
    <3> QED BY <2>1, <2>2, <2>3, <2>4, <2>5, <3>1
            DEF SummaryTellsTheRoute, Name
  <2>6. CASE ~\A op \in Ops : Resolved(BackendSlots(b), op)
    <3>1. selected' = Partial(b)
      BY <2>1, <2>6
    <3> QED BY <2>1, <2>2, <2>3, <2>4, <2>6, <3>1
            DEF SummaryTellsTheRoute, Partial
  <2> QED BY <2>5, <2>6
<1>4. ASSUME NEW b \in Backends, SetBackendFails(b) PROVE FALSE
  BY <1>4, WellWiredSelectable DEF SetBackendFails
<1>5. CASE AutoFails
  BY <1>5 DEF AutoFails, WellWired
<1>6. CASE AutoRegister \/ Restart
  BY <1>6 DEF AutoRegister, Restart
<1> QED BY <1>1, <1>2, <1>3, <1>4, <1>5, <1>6, ControlKinds

(***************************************************************************)
(* As long as no backend is mis-wired or empty, sd_selected_backend        *)
(* describes the table that is in force, whatever was selected since.      *)
(***************************************************************************)
THEOREM SummaryIsTrue == Spec => []SummaryTellsTheRoute
<1>1. Init => SummaryTellsTheRoute
  BY DEF Init, SummaryTellsTheRoute
<1> QED BY <1>1, NextSummary, InitTypeInv, NextTypeInv, InitSlotInv,
           NextSlotInv, PTL DEF Spec

-----------------------------------------------------------------------------
(***************************************************************************)
(* Where the backends are well wired a selection by name cannot fail       *)
(* half-way, so that the table is that backend's, whole.                   *)
(***************************************************************************)

ExplicitInv ==
  requested # AutoMode =>
    requested \in Available /\ slots = BackendSlots(requested)

LEMMA NextExplicitInv ==
  TypeInv /\ WellWired /\ ExplicitInv /\ [Next]_vars => ExplicitInv'
<1> SUFFICES ASSUME TypeInv, WellWired, ExplicitInv, [Next]_vars
             PROVE  ExplicitInv'
  OBVIOUS
<1> USE DEF ExplicitInv
<1>1. /\ Available' = Available
      /\ \A b : BackendSlots(b)' = BackendSlots(b)
  BY StepKinds DEF Available, BackendSlots
<1>2. CASE AutoRegister \/ AutoFinish \/ Restart
  <2>1. requested' = AutoMode
    BY <1>2 DEF AutoRegister, AutoFinish, Restart, TypeInv, Ranges
  <2> QED BY <2>1
<1>3. CASE AutoFails
  BY <1>3 DEF AutoFails, WellWired
<1>4. ASSUME NEW b \in Backends, SetBackend(b) PROVE ExplicitInv'
  BY <1>1, <1>4 DEF SetBackend
<1>5. ASSUME NEW b \in Backends, SetBackendFails(b) PROVE FALSE
  BY <1>5, WellWiredSelectable DEF SetBackendFails
<1>6. CASE Quiet \/ UNCHANGED vars
  BY <1>1, <1>6 DEF Quiet, vars, route
<1> QED BY <1>2, <1>3, <1>4, <1>5, <1>6, ControlKinds

\* All that is known of an engine whose backends are well wired.
WiredInv ==
  /\ TypeInv /\ SlotInv /\ AutoInv /\ SummaryTellsTheRoute
  /\ WellWired /\ ExplicitInv

LEMMA WiredInvariant == WellWiredSpec => []WiredInv
<1>1. Init => SummaryTellsTheRoute /\ ExplicitInv
  BY DEF Init, SummaryTellsTheRoute, ExplicitInv
<1> QED BY <1>1, InitTypeInv, NextTypeInv, InitSlotInv, NextSlotInv,
           InitAutoInv, NextAutoInv, NextSummary, NextExplicitInv,
           WellWiredStays, PTL
        DEF WellWiredSpec, WellWiredInit, WiredInv

(***************************************************************************)
(* In a package whose backends are well wired, as long as one is requested *)
(* by name the table is the one a build for that backend alone makes:      *)
(* every operation it provides goes to it, and no operation anywhere else. *)
(***************************************************************************)
THEOREM ExplicitSelectionIsWhole ==
  WellWiredSpec =>
    [](requested # AutoMode =>
         /\ requested \in Available
         /\ \A op \in Ops :
              IF Provides(tables[requested], op)
              THEN slots[op] = SlotOf(requested, tables[requested], op)
              ELSE slots[op] = EmptySlot)
<1>1. ASSUME WiredInv, requested # AutoMode
      PROVE  /\ requested \in Available
             /\ \A op \in Ops :
                  IF Provides(tables[requested], op)
                  THEN slots[op] = SlotOf(requested, tables[requested], op)
                  ELSE slots[op] = EmptySlot
  <2>1. /\ requested \in Available /\ requested \in Backends
        /\ slots = BackendSlots(requested)
    BY <1>1 DEF WiredInv, ExplicitInv, Available, TypeInv, TypeOK
  <2> QED BY <1>1, <2>1, BackendSlotsSound DEF WiredInv
<1> QED BY <1>1, WiredInvariant, PTL

\* A slot is resolved iff a backend that may be chosen provides the operation.
LEMMA ResolvedIffProvided ==
  ASSUME WiredInv, pc \in {"idle", "body"}, initialized, NEW op \in Ops
  PROVE  /\ requested = AutoMode =>
              IF Candidates(op) = {} THEN ~Resolved(slots, op)
              ELSE Resolved(slots, op) /\ BestFor(slots[op].backend, op)
         /\ requested # AutoMode =>
              /\ requested \in Available
              /\ Resolved(slots, op) <=> Provides(tables[requested], op)
<1> USE DEF WiredInv
<1>1. CASE requested = AutoMode
  <2>1. IF Candidates(op) = {} THEN slots[op] = EmptySlot
                               ELSE BestFor(slots[op].backend, op)
    BY <1>1 DEF AutoInv, AutoIsBest, WellWired
  <2>2. BestFor(slots[op].backend, op) => slots[op].backend # NoBackend
    BY DEF BestFor, Candidates, Available, TypeInv, TypeOK, Backends, NoBackend
  <2> QED BY <1>1, <2>1, <2>2, ResolvedHasBackend DEF Resolved, EmptySlot
<1>2. CASE requested # AutoMode
  <2>1. /\ requested \in Available /\ requested \in Backends
        /\ slots = BackendSlots(requested)
    BY <1>2 DEF ExplicitInv, Available, TypeInv, TypeOK
  <2> QED BY <1>2, <2>1, BackendSlotsSound DEF Resolved, EmptySlot
<1> QED BY <1>1, <1>2

(***************************************************************************)
(* The comment of simd_dispatch.h:93 on plain names, which the code does   *)
(* not keep in general (the run plain_name), does hold as long as the      *)
(* backends are well wired and one that is available provides every        *)
(* operation, as the scalar backend of the shipped catalog does.           *)
(***************************************************************************)
THEOREM PlainNameMeansAllIfOneOffersAll ==
  WellWiredInit /\ (\E b \in Available : \A op \in Ops : Provides(tables[b], op))
    /\ [][Next]_vars
  => []PlainNameMeansAll
<1> DEFINE OneOffersAll ==
      \E b \in Available : \A op \in Ops : Provides(tables[b], op)
<1>1. OneOffersAll /\ [Next]_vars => OneOffersAll'
  BY StepKinds DEF Available
<1>2. ASSUME WiredInv, OneOffersAll PROVE PlainNameMeansAll
  <2> SUFFICES ASSUME pc = "idle", initialized, selected.kind = "name",
                      NEW op \in Ops
               PROVE  slots[op].backend = selected.backend
    BY DEF PlainNameMeansAll
  <2> USE <1>2
  <2>1. Resolved(slots, op)
    <3>1. CASE requested = AutoMode
      BY <3>1, ResolvedIffProvided DEF Candidates
    <3>2. CASE requested # AutoMode
      <4>1. {o \in Ops : Resolved(slots, o)} = Ops
        BY <3>2 DEF SummaryTellsTheRoute, WiredInv
      <4> QED BY <4>1
    <3> QED BY <3>1, <3>2
  <2> QED BY <2>1 DEF SummaryTellsTheRoute, WiredInv
<1> HIDE DEF OneOffersAll
<1>3. WellWiredInit /\ OneOffersAll /\ [][Next]_vars => []PlainNameMeansAll
  BY <1>1, <1>2, WiredInvariant, PTL DEF WellWiredSpec
<1> QED BY <1>3 DEF OneOffersAll

-----------------------------------------------------------------------------
(***************************************************************************)
(* How invocations end, and that calls end.                                *)
(***************************************************************************)

\* The backend an operation should go to under the selection in force.
Chosen(b, op) ==
  IF requested = AutoMode THEN BestFor(b, op)
  ELSE b = requested /\ Provides(tables[b], op)

\* The signature of a resolved slot is that of its operation.
LEMMA SlotSignature ==
  ASSUME TypeInv, SlotInv, NEW op \in Ops, Resolved(slots, op)
  PROVE  slots[op].signature = OpSig[op]
<1>1. SlotSound(op)
  BY DEF SlotInv, SlotsSound, Resolved, EmptySlot
<1> DEFINE b == slots[op].backend
           i == FirstRow(tables[b], op)
<1>2. tables[b] \in KernelTable
  BY <1>1, TablesAssumption DEF SlotSound, TypeInv, TypeOK, Available
<1>3. i \in DOMAIN tables[b] /\ tables[b][i].operation = op
  BY <1>1, <1>2, FirstRowType DEF SlotSound
<1>4. slots[op].signature = tables[b][i].signature
  BY <1>1 DEF SlotSound, SlotOf
<1>5. tables[b][i].signature = ExpectedSignature(op)
  BY <1>1, <1>3 DEF SlotSound, TableOK, RowOK
<1> QED BY <1>4, <1>5 DEF ExpectedSignature

(***************************************************************************)
(* Every invocation ends as the selection in force and the caller's frame  *)
(* decide: the kernel that runs is the first row for the operation in the  *)
(* table of the backend that should be chosen, the signature is refused    *)
(* exactly where it is not the operation's, and there is no kernel only    *)
(* where no available backend, or not the one asked for, provides one.     *)
(***************************************************************************)
THEOREM InvocationsEndRight ==
  WellWiredSpec =>
    [][/\ InvokeRuns =>
            /\ call.sig = OpSig[call.op]
            /\ \E b \in Available :
                 /\ Chosen(b, call.op)
                 /\ outcome' = Ran(<<b, FirstRow(tables[b], call.op)>>)
       /\ InvokeMismatch =>
            /\ call.sig # OpSig[call.op]
            /\ \E b \in Available : Chosen(b, call.op)
       /\ InvokeUnavailable => \A b \in Available : ~Chosen(b, call.op)]_vars
<1>1. ASSUME WiredInv, pc = "body", call.fn = "invoke"
      PROVE  /\ initialized /\ call.op \in Ops
             /\ Resolved(slots, call.op) =>
                  /\ slots[call.op].signature = OpSig[call.op]
                  /\ slots[call.op].backend \in Available
                  /\ Chosen(slots[call.op].backend, call.op)
                  /\ slots[call.op].invoke =
                       <<slots[call.op].backend,
                         FirstRow(tables[slots[call.op].backend], call.op)>>
             /\ ~Resolved(slots, call.op) =>
                  \A b \in Available : ~Chosen(b, call.op)
  <2>1. initialized /\ call.op \in Ops
    BY <1>1 DEF WiredInv, TypeInv, Ranges
  <2>2. ASSUME Resolved(slots, call.op)
        PROVE  /\ slots[call.op].signature = OpSig[call.op]
               /\ slots[call.op].backend \in Available
               /\ Chosen(slots[call.op].backend, call.op)
               /\ slots[call.op].invoke =
                    <<slots[call.op].backend,
                      FirstRow(tables[slots[call.op].backend], call.op)>>
    <3>1. SlotSound(call.op)
      BY <1>1, <2>1, <2>2 DEF WiredInv, SlotInv, SlotsSound, Resolved, EmptySlot
    <3>2. slots[call.op].backend \in Backends
      BY <1>1, <3>1 DEF SlotSound, Available, WiredInv, TypeInv, TypeOK
    <3>3. requested # AutoMode => slots[call.op].backend = requested
      BY <1>1, <2>1, <2>2
         DEF WiredInv, SlotInv, ExplicitIsPure, Resolved, EmptySlot
    <3>4. requested = AutoMode => BestFor(slots[call.op].backend, call.op)
      BY <1>1, <2>1, <2>2, ResolvedIffProvided
    <3> QED BY <1>1, <2>1, <2>2, <3>1, <3>3, <3>4, SlotSignature
            DEF WiredInv, SlotSound, SlotOf, Chosen
  <2>3. ASSUME ~Resolved(slots, call.op), NEW b \in Available
        PROVE  ~Chosen(b, call.op)
    BY <1>1, <2>1, <2>3, ResolvedIffProvided DEF Chosen, BestFor
  <2> QED BY <2>1, <2>2, <2>3
<1>2. ASSUME WiredInv, InvokeRuns
      PROVE  /\ call.sig = OpSig[call.op]
             /\ \E b \in Available :
                  /\ Chosen(b, call.op)
                  /\ outcome' = Ran(<<b, FirstRow(tables[b], call.op)>>)
  BY <1>1, <1>2 DEF InvokeRuns, Return
<1>3. ASSUME WiredInv, InvokeMismatch
      PROVE  /\ call.sig # OpSig[call.op]
             /\ \E b \in Available : Chosen(b, call.op)
  BY <1>1, <1>3 DEF InvokeMismatch
<1>4. ASSUME WiredInv, InvokeUnavailable
      PROVE  \A b \in Available : ~Chosen(b, call.op)
  BY <1>1, <1>4 DEF InvokeUnavailable
<1> QED BY <1>2, <1>3, <1>4, WiredInvariant, PTL DEF WellWiredSpec

\* The steps that a call under way has left at most.
Work == CASE pc = "auto"   -> 2 * N + 4 - next
          [] pc = "matrix" -> N + 3 - next
          [] pc = "body"   -> 1
          [] OTHER         -> 0

(***************************************************************************)
(* A call under way always has a definite number of steps before it, at    *)
(* most 2 N + 3, and each step it makes leaves fewer; a call that has      *)
(* none left has ended, its result no longer pending.  That a call always  *)
(* can make its next step is what the run of CallsEnd adds.                *)
(***************************************************************************)
THEOREM CallsAreBounded ==
  Spec => /\ [](/\ Work \in 0..(2 * N + 3)
                /\ Work = 0 <=> outcome # Pending
                /\ Work = 0 <=> pc \in {"idle", "aborted"})
          /\ [][Internal => Work' < Work]_vars
<1> DEFINE Settled == outcome = Pending => pc \in {"auto", "matrix", "body"}
<1> USE NAssumption
<1>1. Init => Settled
  BY DEF Init, Done, Pending, Outcome
<1>2. ASSUME TypeInv, Settled, [Next]_vars PROVE Settled'
  <2> USE DEF Done, Pending, Error, Yes, No, Outcome, Return, Raise
  <2>1. CASE Internal
    BY <1>2, <2>1 DEF Internal, AutoRegister, AutoFails, AutoFinish, MatrixRow,
         MatrixFinish, InvokeUnavailable, InvokeMismatch, InvokeRuns,
         QueryReturns, Ran
  <2>2. CASE External
    <3>1. ASSUME NEW h \in {"abort", "longjmp"}, SetErrorHandler(h) PROVE Settled'
      BY <3>1 DEF SetErrorHandler
    <3>2. ASSUME NEW c, Enter(c) PROVE Settled'
      BY <3>2 DEF Enter, StartAuto
    <3>3. CASE InvokeRefused
      BY <3>3 DEF InvokeRefused
    <3>4. CASE SetAuto
      BY <3>4 DEF SetAuto, StartAuto
    <3>5. ASSUME NEW b \in 0..N, SetRefused(b) PROVE Settled'
      BY <3>5 DEF SetRefused
    <3>6. ASSUME NEW b \in Backends, SetBackend(b) \/ SetBackendFails(b)
          PROVE  Settled'
      BY <3>6 DEF SetBackend, SetBackendFails
    <3>7. ASSUME NEW b \in 0..N, NEW op \in 0..NumOps,
                 AvailableFromMatrix(b, op) \/ AvailableFromTable(b, op)
          PROVE  Settled'
      BY <3>7 DEF AvailableFromMatrix, AvailableFromTable, Answer
    <3> QED BY <2>2, <3>1, <3>2, <3>3, <3>4, <3>5, <3>6, <3>7 DEF External
  <2>3. CASE Terminated \/ UNCHANGED vars
    BY <1>2, <2>3 DEF Terminated, vars
  <2> QED BY <1>2, <2>1, <2>2, <2>3 DEF Next
<1>3. ASSUME TypeInv, Settled
      PROVE  /\ Work \in 0..(2 * N + 3)
             /\ Work = 0 <=> outcome # Pending
             /\ Work = 0 <=> pc \in {"idle", "aborted"}
  BY <1>3 DEF TypeInv, TypeOK, Ranges, Work
<1>4. ASSUME TypeInv, Internal PROVE Work' < Work
  <2> USE <1>4 DEF TypeInv, TypeOK, Ranges, Work, Backends, Return, Raise
  <2>1. CASE AutoRegister \/ MatrixRow
    BY <2>1 DEF AutoRegister, MatrixRow
  <2>2. CASE AutoFails
    BY <2>2 DEF AutoFails
  <2>3. CASE AutoFinish
    BY <2>3 DEF AutoFinish
  <2>4. CASE MatrixFinish
    BY <2>4 DEF MatrixFinish
  <2>5. CASE InvokeUnavailable \/ InvokeMismatch \/ InvokeRuns \/ QueryReturns
    BY <2>5 DEF InvokeUnavailable, InvokeMismatch, InvokeRuns, QueryReturns
  <2> QED BY <2>1, <2>2, <2>3, <2>4, <2>5 DEF Internal
<1>5. TypeInv /\ [Next]_vars => [Internal => Work' < Work]_vars
  BY <1>4
<1> HIDE DEF Settled
<1> QED BY <1>1, <1>2, <1>3, <1>5, InitTypeInv, NextTypeInv, PTL DEF Spec

-----------------------------------------------------------------------------
(***************************************************************************)
(* The catalog as shipped.  What its theorems assume of the constants is   *)
(* what operations.def and backends.def say, no more.                      *)
(***************************************************************************)

ShippedCatalog ==
  /\ N = 7 /\ NumOps = 2
  /\ OpSig[COUNT_NONZERO] = RAW_COUNT /\ OpSig[CONVOLVE1D] = F64_CONVOLVE
  /\ Priority = MCPriority

\* A processor is of one family, and runs the scalar code.
OneFamily ==
  /\ Scalar \in Available
  /\ \E f \in Families : Available \subseteq Generation(f, Len(f))

ShippedInv == OneFamily /\ tables = [b \in Backends |-> ShippedTable(b)]

LEMMA InitShippedInv == ShippedInit => ShippedInv
<1> SUFFICES ASSUME ShippedInit PROVE ShippedInv
  OBVIOUS
<1>1. PICK f \in Families :
        /\ supported \in {Generation(f, n) : n \in 0..Len(f)}
        /\ Scalar \in compiled /\ Scalar \in supported
  BY DEF ShippedInit, Init
<1>2. PICK n \in 0..Len(f) : supported = Generation(f, n)
  BY <1>1
<1>3. f \in {<<SSE2, SSE41, AVX2, AVX512>>, <<NEON>>, <<WASM_SIMD128>>}
  BY <1>1 DEF Families
<1>4. Generation(f, n) \subseteq Generation(f, Len(f))
  <2>1. Len(f) \in Nat /\ 1..n \subseteq 1..Len(f)
    BY <1>3
  <2> QED BY <2>1 DEF Generation
<1> QED BY <1>1, <1>2, <1>4 DEF ShippedInv, ShippedInit, OneFamily, Available

LEMMA NextShippedInv == ShippedInv /\ [Next]_vars => ShippedInv'
BY StepKinds DEF ShippedInv, OneFamily, Available

\* What the tables of the shipped kernels provide; all of their rows are good.
LEMMA ShippedTables ==
  ASSUME ShippedCatalog, ShippedInv, NEW b \in Backends
  PROVE  /\ TableOK(tables[b]) /\ tables[b] # <<>>
         /\ Provides(tables[b], COUNT_NONZERO)
         /\ Provides(tables[b], CONVOLVE1D) <=> b \notin {SSE2, SSE41}
<1>1. tables[b] = ShippedTable(b)
  BY DEF ShippedInv
<1>2. Ops = {COUNT_NONZERO, CONVOLVE1D}
  BY DEF Ops, ShippedCatalog, COUNT_NONZERO, CONVOLVE1D
<1>3. RowOK(CountRow) /\ RowOK(ConvolveRow)
  BY <1>2 DEF RowOK, CountRow, ConvolveRow, ExpectedSignature, ShippedCatalog,
              RAW_COUNT, F64_CONVOLVE, NoSignature
<1>4. CountRow.operation = COUNT_NONZERO /\ ConvolveRow.operation = CONVOLVE1D
  BY DEF CountRow, ConvolveRow
<1>5. COUNT_NONZERO # CONVOLVE1D
  BY DEF COUNT_NONZERO, CONVOLVE1D
<1>6. CASE b \in {SSE2, SSE41}
  <2>1. tables[b] = <<CountRow>>
    BY <1>1, <1>6 DEF ShippedTable
  <2> QED BY <1>3, <1>4, <1>5, <1>6, <2>1 DEF TableOK, Provides, RowsFor
<1>7. CASE b \notin {SSE2, SSE41}
  <2>1. tables[b] = <<CountRow, ConvolveRow>>
    BY <1>1, <1>7 DEF ShippedTable
  <2>2. DOMAIN tables[b] = {1, 2} /\ tables[b][1] = CountRow /\ tables[b][2] = ConvolveRow
    BY <2>1
  <2> QED BY <1>3, <1>4, <1>5, <1>7, <2>2 DEF TableOK, Provides, RowsFor
<1> QED BY <1>6, <1>7

\* The package as shipped is well wired, and everything known of such a
\* package holds of it.
LEMMA ShippedInvariant ==
  ASSUME ShippedCatalog
  PROVE  ShippedSpec => [](WiredInv /\ ShippedInv)
<1>1. ShippedInit => WellWiredInit
  BY InitShippedInv, InitTypeInv, ShippedTables
     DEF ShippedInit, WellWiredInit, WellWired, TypeInv, TypeOK, Available
<1> QED BY <1>1, WiredInvariant, InitShippedInv, NextShippedInv, PTL
        DEF ShippedSpec, WellWiredSpec

\* Whom the fastest backend of a shipped machine leaves the convolution to.
LEMMA ShippedBest ==
  ASSUME ShippedCatalog, WiredInv, ShippedInv, NEW b, Fastest(b), NEW c
  PROVE  /\ BestFor(c, COUNT_NONZERO) => c = b
         /\ BestFor(c, CONVOLVE1D) =>
              c = IF b \in {SSE2, SSE41} THEN Scalar ELSE b
<1> USE DEF SSE2, SSE41, AVX2, AVX512, NEON, WASM_SIMD128, Scalar
<1>1. Available \subseteq 1..7 /\ b \in Available
  BY DEF Fastest, Available, WiredInv, TypeInv, TypeOK, Backends, ShippedCatalog
<1>2. /\ \A a \in 1..7 : Priority[a] \in Nat
      /\ Priority[1] = 70 /\ Priority[2] = 40 /\ Priority[3] = 30
      /\ Priority[4] = 20 /\ Priority[5] = 10 /\ Priority[6] = 50
      /\ Priority[7] = 60
  BY DEF ShippedCatalog, MCPriority
<1>3. \A a, d \in 1..7 : Priority[a] = Priority[d] => a = d
  BY <1>2
<1>4. /\ Candidates(COUNT_NONZERO) = Available
      /\ Candidates(CONVOLVE1D) = Available \ {SSE2, SSE41}
  BY <1>1, ShippedTables DEF Candidates, Backends, ShippedCatalog
<1>5. \A a \in Available : Priority[b] <= Priority[a]
  BY DEF Fastest
<1>6. ASSUME NEW op \in Ops, BestFor(c, op), b \in Candidates(op)
      PROVE  c = b
  <2>1. c \in Available /\ (b # c => Better(c, b))
    BY <1>6 DEF BestFor, Candidates
  <2> QED BY <1>1, <1>2, <1>3, <1>5, <2>1 DEF Better
<1>7. ASSUME b \in {SSE2, SSE41}, BestFor(c, CONVOLVE1D)
      PROVE  c = Scalar
  <2>1. PICK f \in Families : Available \subseteq Generation(f, Len(f))
    BY DEF ShippedInv, OneFamily
  <2>2. CASE f = <<SSE2, SSE41, AVX2, AVX512>>
    <3>1. Available \subseteq {1, 2, 3, 4, 5}
      BY <2>1, <2>2 DEF Generation
    <3>2. 4 \notin Available /\ 5 \notin Available
      BY <1>2, <1>5, <1>7
    <3> QED BY <1>4, <1>7, <3>1, <3>2 DEF BestFor
  <2>3. CASE f = <<NEON>> \/ f = <<WASM_SIMD128>>
    <3>1. Available \subseteq {1, 6, 7}
      BY <2>1, <2>3 DEF Generation
    <3> QED BY <1>1, <1>7, <3>1
  <2> QED BY <2>2, <2>3 DEF Families
<1>8. COUNT_NONZERO \in Ops /\ CONVOLVE1D \in Ops
  BY DEF Ops, ShippedCatalog, COUNT_NONZERO, CONVOLVE1D
<1> QED BY <1>1, <1>4, <1>6, <1>7, <1>8

\* Both operations can be invoked under automatic selection.
LEMMA ShippedResolved ==
  ASSUME ShippedCatalog, WiredInv, ShippedInv, pc = "idle", initialized,
         requested = AutoMode, NEW op \in Ops
  PROVE  Resolved(slots, op) /\ BestFor(slots[op].backend, op)
<1>1. Scalar \in Candidates(op)
  <2>1. Scalar \in Available /\ Scalar \in Backends
    BY DEF ShippedInv, OneFamily, Available, WiredInv, TypeInv, TypeOK
  <2>2. op \in {COUNT_NONZERO, CONVOLVE1D} /\ Scalar \notin {SSE2, SSE41}
    BY DEF Ops, ShippedCatalog, COUNT_NONZERO, CONVOLVE1D, Scalar, SSE2, SSE41
  <2> QED BY <2>1, <2>2, ShippedTables DEF Candidates
<1> QED BY <1>1, ResolvedIffProvided

(***************************************************************************)
(* Automatic selection in the package as shipped, for every value of       *)
(* UINT_MAX and every further signature: the fastest backend counts, and   *)
(* it convolves too unless it is an SSE backend, which leaves that to the  *)
(* scalar code; sd_selected_backend tells these two cases apart.           *)
(***************************************************************************)
THEOREM ShippedSelection ==
  ASSUME ShippedCatalog
  PROVE  ShippedSpec => []AutoOnShippedCatalog
<1>1. ASSUME WiredInv, ShippedInv PROVE AutoOnShippedCatalog
  <2> SUFFICES ASSUME pc = "idle", initialized, requested = AutoMode,
                      NEW b \in Available, Fastest(b)
               PROVE  /\ slots[COUNT_NONZERO].backend = b
                      /\ slots[CONVOLVE1D].backend =
                           IF b \in {SSE2, SSE41} THEN Scalar ELSE b
                      /\ selected = IF b \in {SSE2, SSE41} THEN Mixed ELSE Name(b)
    BY DEF AutoOnShippedCatalog
  <2> USE <1>1
  <2>1. Ops = {COUNT_NONZERO, CONVOLVE1D}
    BY DEF Ops, ShippedCatalog, COUNT_NONZERO, CONVOLVE1D
  <2>2. /\ slots[COUNT_NONZERO].backend = b
        /\ slots[CONVOLVE1D].backend = IF b \in {SSE2, SSE41} THEN Scalar ELSE b
    BY <2>1, ShippedResolved, ShippedBest
  <2>3. {op \in Ops : Resolved(slots, op)} = Ops
    BY ShippedResolved
  <2>4. selected \in Summaries /\ WellWired
    BY DEF WiredInv, TypeInv, TypeOK
  <2>5. /\ selected.kind \in {"name", "partial"} =>
             \A op \in Ops : slots[op].backend = selected.backend
        /\ selected.kind \notin {"partial", "unavailable", "uninitialized"}
        /\ selected.kind = "mixed" =>
             \E o, p \in Ops : slots[o].backend # slots[p].backend
    BY <2>1, <2>3, <2>4 DEF WiredInv, SummaryTellsTheRoute
  <2>6. CASE b \in {SSE2, SSE41}
    <3>1. slots[COUNT_NONZERO].backend # slots[CONVOLVE1D].backend
      BY <2>2, <2>6 DEF Scalar, SSE2, SSE41
    <3>2. selected.kind = "mixed"
      BY <2>1, <2>4, <2>5, <3>1
         DEF Summaries, Name, Partial, Mixed, Unavailable, Uninitialized
    <3>3. selected = Mixed
      BY <2>4, <3>2
         DEF Summaries, Name, Partial, Mixed, Unavailable, Uninitialized
    <3> QED BY <2>2, <2>6, <3>3
  <2>7. CASE b \notin {SSE2, SSE41}
    <3>1. \A op \in Ops : slots[op].backend = b
      BY <2>1, <2>2, <2>7
    <3>2. selected.kind = "name" /\ selected.backend = b
      BY <2>1, <2>4, <2>5, <3>1
         DEF Summaries, Name, Partial, Mixed, Unavailable, Uninitialized
    <3>3. selected = Name(b)
      BY <2>4, <3>2
         DEF Summaries, Name, Partial, Mixed, Unavailable, Uninitialized
    <3> QED BY <2>2, <2>7, <3>3
  <2> QED BY <2>6, <2>7
<1> QED BY <1>1, ShippedInvariant, PTL

(***************************************************************************)
(* In the package as shipped the one thing that cannot be invoked is a     *)
(* convolution while an SSE backend is asked for by name, and              *)
(* sd_selected_backend then says "partial".                                *)
(***************************************************************************)
THEOREM ShippedOperationsAreAvailable ==
  ASSUME ShippedCatalog
  PROVE  ShippedSpec => []OnlySseCannotConvolve
<1>1. ASSUME WiredInv, ShippedInv PROVE OnlySseCannotConvolve
  <2> SUFFICES ASSUME pc = "idle", initialized,
                      NEW op \in Ops, ~Resolved(slots, op)
               PROVE  /\ op = CONVOLVE1D
                      /\ requested \in {SSE2, SSE41}
                      /\ selected = Partial(requested)
    BY DEF OnlySseCannotConvolve
  <2> USE <1>1
  <2>1. requested # AutoMode
    BY ShippedResolved
  <2>2. /\ requested \in Available /\ requested \in Backends
        /\ \A o \in Ops : Resolved(slots, o) <=> Provides(tables[requested], o)
    BY <2>1, ResolvedIffProvided DEF Available, WiredInv, TypeInv, TypeOK
  <2>3. Ops = {COUNT_NONZERO, CONVOLVE1D}
    BY DEF Ops, ShippedCatalog, COUNT_NONZERO, CONVOLVE1D
  <2>4. op = CONVOLVE1D /\ requested \in {SSE2, SSE41}
    BY <2>2, <2>3, ShippedTables
  <2>5. selected.kind = "partial" /\ selected.backend = requested
    <3>1. selected \in Summaries /\ WellWired
      BY DEF WiredInv, TypeInv, TypeOK
    <3>2. Resolved(slots, COUNT_NONZERO)
      BY <2>2, <2>3, ShippedTables
    <3>3. /\ {o \in Ops : Resolved(slots, o)} # Ops
          /\ {o \in Ops : Resolved(slots, o)} # {}
      BY <2>3, <3>2
    <3> QED BY <2>1, <3>1, <3>3
            DEF WiredInv, SummaryTellsTheRoute, Summaries, Name, Partial, Mixed,
                Unavailable, Uninitialized
  <2>6. selected = Partial(requested)
    BY <2>5 DEF WiredInv, TypeInv, TypeOK, Summaries, Name, Partial, Mixed,
                Unavailable, Uninitialized
  <2> QED BY <2>4, <2>6
<1> QED BY <1>1, ShippedInvariant, PTL

-----------------------------------------------------------------------------
(***************************************************************************)
(* The package as R sees it: all it does to the engine is to call it, so   *)
(* that what was proved of the engine holds in R.                          *)
(***************************************************************************)

LEMMA SomeTypes ==
  /\ 0 \in 0..N
  /\ CountNonzero \in Ops /\ OpSig[CountNonzero] \in 0..NumSigs
  /\ Convolve1d \in Ops /\ OpSig[Convolve1d] \in 0..NumSigs
BY NAssumption, NumSigsAssumption, OperationsAssumption, OpSigAssumption
   DEF Signatures

\* The calls of r_api.c and registration.c are calls of the engine's API.
LEMMA RStepIsStep ==
  ASSUME [RNext]_<<vars, rvars>>
  PROVE  [Next]_vars
<1>1. CASE LoadHandler \/ LoadSelect
  BY <1>1 DEF LoadHandler, LoadSelect, Next, External
<1>2. CASE LoadEnds \/ LoadAgain
  BY <1>2 DEF LoadEnds, LoadAgain
<1>3. CASE Internal /\ UNCHANGED rvars
  BY <1>3 DEF Next
<1>4. CASE RC_simd_set_backend
  BY <1>4 DEF RC_simd_set_backend, Next, External
<1>5. CASE RC_simd_backend
  BY <1>5 DEF RC_simd_backend, Next, External
<1>6. CASE RC_count_nonzero
  BY <1>6, SomeTypes DEF RC_count_nonzero, Next, External
<1>7. ASSUME NEW na \in 0..XLenMax, NEW nb \in 0..XLenMax, RC_convolve1d(na, nb)
      PROVE  [Next]_vars
  BY <1>7, SomeTypes DEF RC_convolve1d, Next, External
<1>8. CASE RC_simd_info
  BY <1>8 DEF RC_simd_info, InfoBegins, InfoInitializes, ReadRequested,
              ReadSelected, CountMembers, FillAvailable, FillProviders,
              ReadRoute, Reads, Next, External
<1>9. CASE UNCHANGED <<vars, rvars>>
  BY <1>9
<1> QED BY <1>1, <1>2, <1>3, <1>4, <1>5, <1>6, <1>7, <1>8, <1>9 DEF RNext

(***************************************************************************)
(* Whatever R does is a behaviour of the engine under its public API: the  *)
(* theorems above hold in a running R process.                             *)
(***************************************************************************)
THEOREM RDrivesTheEngine == RSpec => Spec
<1>1. RInit => Init
  BY DEF RInit
<1> QED BY <1>1, RStepIsStep, PTL DEF RSpec, Spec

\* What is never undone: the matrix stays, and an engine that is initialized
\* has a summary.
HasSummary == initialized => selected # Uninitialized

LEMMA EngineStays ==
  ASSUME TypeInv, HasSummary, [Next]_vars
  PROVE  (ready => ready') /\ HasSummary'
<1> USE DEF HasSummary
<1>1. ready => ready'
  BY MatrixKinds
     DEF AutoRegister, AutoFinish, Restart, MatrixRow, MatrixFinish, cache, vars
<1>2. CASE AutoRegister \/ AutoFails
  BY <1>1, <1>2 DEF AutoRegister, AutoFails, route
<1>3. CASE AutoFinish
  BY <1>1, <1>3
     DEF AutoFinish, AutoSummary, Mixed, Unavailable, Name, Uninitialized
<1>4. CASE Restart
  BY <1>1, <1>4 DEF Restart
<1>5. ASSUME NEW b \in Backends, SetBackend(b) \/ SetBackendFails(b)
      PROVE  HasSummary'
  <2>1. CASE SetBackend(b)
    <3>1. selected' \in {Name(b), Partial(b)}
      BY <2>1 DEF SetBackend
    <3> QED BY <3>1 DEF Name, Partial, Uninitialized
  <2>2. CASE SetBackendFails(b)
    BY <2>2 DEF SetBackendFails
  <2> QED BY <1>5, <2>1, <2>2
<1>6. CASE Quiet \/ UNCHANGED vars
  BY <1>1, <1>6 DEF Quiet, vars, route
<1> QED BY <1>1, <1>2, <1>3, <1>4, <1>5, <1>6, ControlKinds

(***************************************************************************)
(* How far loading got: R's handler is there before anything can raise,    *)
(* and sd_init_dispatch either fails before it has an effect that lasts    *)
(* or fills the matrix.                                                    *)
(***************************************************************************)
LoadInv ==
  /\ loading \in {"library", "select", "register", "failed", "loaded"}
  /\ pc # "aborted"
  /\ loading # "library" => handler = "longjmp"
  /\ loading \in {"library", "select", "failed"} =>
       pc = "idle" /\ (initialized => ready)
  /\ loading = "register" =>
       /\ call.fn = "init"
       /\ pc = "auto" => ~initialized
       /\ pc = "body" => ready
       /\ pc = "idle" => IF outcome = Error THEN ~initialized ELSE ready
  /\ loading = "loaded" => ready
  /\ at # "none" => loading = "loaded"

LEMMA InitLoadInv == RInit => LoadInv /\ HasSummary
BY DEF RInit, Init, LoadInv, HasSummary

LEMMA NextLoadInv ==
  TypeInv /\ HasSummary /\ LoadInv /\ [RNext]_<<vars, rvars>> => LoadInv'
<1> SUFFICES ASSUME TypeInv, HasSummary, LoadInv, [RNext]_<<vars, rvars>>
             PROVE  LoadInv'
  OBVIOUS
<1> USE DEF LoadInv, cache, route, loop, info
<1>1. ready => ready'
  BY RStepIsStep, EngineStays
<1>2. CASE LoadHandler
  BY <1>2 DEF LoadHandler, SetErrorHandler, Return
<1>3. CASE LoadSelect
  BY <1>3 DEF LoadSelect, Enter, StartAuto, Call
<1>4. CASE LoadEnds \/ LoadAgain
  BY <1>4 DEF LoadEnds, LoadAgain, vars
<1>5. CASE Internal /\ UNCHANGED rvars
  <2>1. /\ pc \in {"auto", "matrix", "body"}
        /\ UNCHANGED <<loading, at, handler, call>>
    BY <1>5 DEF Internal, rvars, AutoRegister, AutoFails, AutoFinish, MatrixRow,
                MatrixFinish, InvokeUnavailable, InvokeMismatch, InvokeRuns,
                QueryReturns
  <2>2. loading \in {"register", "loaded"} /\ handler = "longjmp"
    BY <2>1
  <2>3. pc' # "aborted"
    BY <1>5, <2>2 DEF Internal, AutoRegister, AutoFails, AutoFinish, MatrixRow,
          MatrixFinish, InvokeUnavailable, InvokeMismatch, InvokeRuns,
          QueryReturns, Return, Raise
  <2>4. ASSUME loading = "register"
        PROVE  /\ pc' = "auto" => ~initialized'
               /\ pc' = "body" => ready'
               /\ pc' = "idle" => IF outcome' = Error THEN ~initialized' ELSE ready'
    <3>1. CASE AutoRegister
      BY <2>4, <3>1 DEF AutoRegister
    <3>2. CASE AutoFails
      BY <2>4, <3>2 DEF AutoFails, Raise
    <3>3. CASE AutoFinish
      BY <2>4, <3>3 DEF AutoFinish
    <3>4. CASE MatrixRow \/ MatrixFinish
      BY <2>4, <3>4 DEF MatrixRow, MatrixFinish
    <3>5. CASE QueryReturns
      BY <2>4, <3>5 DEF QueryReturns, Return, Done, Error, Outcome
    <3>6. CASE InvokeUnavailable \/ InvokeMismatch \/ InvokeRuns
      BY <2>4, <3>6 DEF InvokeUnavailable, InvokeMismatch, InvokeRuns
    <3> QED BY <1>5, <3>1, <3>2, <3>3, <3>4, <3>5, <3>6 DEF Internal
  <2> QED BY <1>1, <2>1, <2>2, <2>3, <2>4
<1>6. CASE RC_simd_set_backend
  BY <1>1, <1>6 DEF RC_simd_set_backend, SetAuto, StartAuto, SetRefused,
                    SetBackend, SetBackendFails, Return, Raise
<1>7. ASSUME NEW c, loading = "loaded", Enter(c), loading' = loading
      PROVE  LoadInv'
  BY <1>1, <1>7 DEF Enter, StartAuto
<1>8. CASE RC_simd_backend \/ RC_count_nonzero
  <2>1. loading = "loaded" /\ loading' = loading /\ \E c : Enter(c)
    BY <1>8 DEF RC_simd_backend, RC_count_nonzero
  <2> QED BY <1>7, <2>1
<1>9. ASSUME NEW na \in 0..XLenMax, NEW nb \in 0..XLenMax, RC_convolve1d(na, nb)
      PROVE  LoadInv'
  BY <1>1, <1>7, <1>9 DEF RC_convolve1d, vars
<1>10. CASE InfoInitializes
  BY <1>1, <1>10 DEF InfoInitializes, Enter, StartAuto
<1>11. CASE RC_simd_info /\ ~InfoInitializes
  BY <1>11 DEF RC_simd_info, InfoBegins, ReadRequested, ReadSelected,
               CountMembers, FillAvailable, FillProviders, ReadRoute, Reads, vars
<1>12. CASE UNCHANGED <<vars, rvars>>
  BY <1>12 DEF vars, rvars
<1> QED BY <1>2, <1>3, <1>4, <1>5, <1>6, <1>8, <1>9, <1>10, <1>11, <1>12
        DEF RNext

LEMMA LoadInvariant == RSpec => [](TypeInv /\ MatrixInv /\ HasSummary /\ LoadInv)
<1>1. RInit => TypeInv /\ MatrixInv /\ HasSummary /\ LoadInv
  BY InitTypeInv, InitMatrixInv, InitLoadInv DEF RInit
<1>2. TypeInv /\ MatrixInv /\ HasSummary /\ LoadInv /\ [RNext]_<<vars, rvars>> =>
        (TypeInv /\ MatrixInv /\ HasSummary /\ LoadInv)'
  BY RStepIsStep, NextTypeInv, NextMatrixInv, EngineStays, NextLoadInv
<1> QED BY <1>1, <1>2, PTL DEF RSpec

(***************************************************************************)
(* Loading and using the package never aborts the R process, whatever the  *)
(* backends register.                                                      *)
(***************************************************************************)
THEOREM RIsNeverAborted == RSpec => []NeverAborts
<1>1. LoadInv => NeverAborts
  BY DEF LoadInv, NeverAborts
<1> QED BY <1>1, LoadInvariant, PTL

(***************************************************************************)
(* A package that is loaded has an engine that is initialized, with its    *)
(* matrix, and no call undoes that.                                        *)
(***************************************************************************)
THEOREM LoadingIsForGood == RSpec => []LoadedForGood
<1>1. MatrixInv /\ HasSummary /\ LoadInv => LoadedForGood
  BY DEF MatrixInv, HasSummary, LoadInv, LoadedForGood
<1> QED BY <1>1, LoadInvariant, PTL

-----------------------------------------------------------------------------
(***************************************************************************)
(* The length of the output of RC_convolve1d.                              *)
(***************************************************************************)

\* The test of RC_convolve1d is the test that is meant.
LEMMA TooLongIsTooLong ==
  ASSUME NEW na \in 1..XLenMax, NEW nb \in 1..XLenMax
  PROVE  /\ TooLong(na, nb) <=> na + nb - 1 > XLenMax
         /\ ~TooLong(na, nb) => Wrapped(na + nb - 1) = na + nb - 1
BY XLenAssumption DEF TooLong, Wrapped

LEMMA NextOutputFits ==
  OutputFits /\ [RNext]_<<vars, rvars>> => OutputFits'
<1> SUFFICES ASSUME OutputFits, [RNext]_<<vars, rvars>> PROVE OutputFits'
  OBVIOUS
<1> USE DEF OutputFits
<1>1. CASE shape' = NoShape
  BY <1>1 DEF NoShape, Shape
<1>2. CASE shape' = shape
  BY <1>2
<1>3. ASSUME NEW na \in 0..XLenMax, NEW nb \in 0..XLenMax, RC_convolve1d(na, nb)
      PROVE  OutputFits'
  <2>1. CASE shape' = Shape("empty", na, nb, 0) /\ (na = 0 \/ nb = 0)
    BY <2>1 DEF Shape
  <2>2. CASE shape' = Shape("refused", na, nb, 0) /\ na > 0 /\ nb > 0
             /\ TooLong(na, nb)
    <3>1. na \in 1..XLenMax /\ nb \in 1..XLenMax
      BY <2>2, XLenAssumption
    <3> QED BY <2>2, <3>1, TooLongIsTooLong DEF Shape
  <2>3. CASE shape' = Shape("dispatched", na, nb, Wrapped(na + nb - 1))
             /\ na > 0 /\ nb > 0 /\ ~TooLong(na, nb)
    <3>1. na \in 1..XLenMax /\ nb \in 1..XLenMax
      BY <2>3, XLenAssumption
    <3>2. na + nb - 1 \in 1..XLenMax
      BY <2>3, <3>1, TooLongIsTooLong, XLenAssumption
    <3>3. shape' = Shape("dispatched", na, nb, na + nb - 1)
      BY <2>3, <3>1, TooLongIsTooLong
    <3> QED BY <2>3, <3>2, <3>3 DEF Shape
  <2> QED BY <1>3, <2>1, <2>2, <2>3 DEF RC_convolve1d
<1>4. CASE LoadHandler \/ LoadSelect \/ LoadEnds \/ LoadAgain
  BY <1>2, <1>4 DEF LoadHandler, LoadSelect, LoadEnds, LoadAgain
<1>5. CASE RC_simd_set_backend \/ RC_simd_backend \/ RC_count_nonzero
  BY <1>1, <1>5 DEF RC_simd_set_backend, RC_simd_backend, RC_count_nonzero
<1>6. CASE RC_simd_info
  BY <1>1, <1>2, <1>6
     DEF RC_simd_info, InfoBegins, InfoInitializes, ReadRequested,
         ReadSelected, CountMembers, FillAvailable, FillProviders, ReadRoute,
         Reads
<1>7. CASE UNCHANGED rvars
  BY <1>2, <1>7 DEF rvars
<1> QED BY <1>3, <1>4, <1>5, <1>6, <1>7 DEF RNext

(***************************************************************************)
(* For every R_XLEN_T_MAX: the kernels of convolve1d get an output of      *)
(* na + nb - 1 cells, and inputs are refused exactly where that is not a   *)
(* length, although the test is made in the arithmetic that may overflow.  *)
(***************************************************************************)
THEOREM OutputAlwaysFits == RSpec => []OutputFits
<1>1. RInit => OutputFits
  BY DEF RInit, OutputFits, NoShape, Shape
<1> QED BY <1>1, NextOutputFits, PTL DEF RSpec

-----------------------------------------------------------------------------
(***************************************************************************)
(* What simd_info puts together.                                           *)
(***************************************************************************)

\* The backends the answer lists for an operation, or will.
Providing(o) == {b \in Backends : Offers(b, o)}

AnswerTypes ==
  /\ at \in {"none", "init", "requested", "selected", "available",
             "providers", "route"}
  /\ operation \in Ops
  /\ at \notin {"providers", "route"} => operation = 0
  /\ answer \in [requested : 0..N, selected : Summaries,
                 available : SUBSET Backends,
                 providers : [Ops -> SUBSET Backends],
                 route     : [Ops -> 0..N]]

\* What the steps so far have filled in.
Listed ==
  /\ counted # NotCounted =>
       /\ at \in {"available", "providers"}
       /\ counted = Cardinality(Members)
  /\ at \in {"providers", "route"} => answer.available = Available
  /\ \A o \in Ops :
       at = "route" \/ (at = "providers" /\ o < operation) =>
         answer.providers[o] = Providing(o)
  /\ \A o \in Ops : answer.route[o] # NoBackend =>
       at \in {"route", "none"} /\ Answered(o)

InfoInv == AnswerTypes /\ Listed

\* Every other step leaves the answer alone.
LEMMA InfoKinds ==
  ASSUME [RNext]_<<vars, rvars>>
  PROVE  \/ /\ UNCHANGED <<at, operation, counted, answer>>
            /\ RC_simd_set_backend \/ UNCHANGED moved
         \/ RC_simd_info
<1>1. CASE LoadHandler \/ LoadSelect \/ LoadEnds \/ LoadAgain
  BY <1>1 DEF LoadHandler, LoadSelect, LoadEnds, LoadAgain, info
<1>2. CASE RC_simd_set_backend \/ RC_simd_backend \/ RC_count_nonzero
  BY <1>2 DEF RC_simd_set_backend, RC_simd_backend, RC_count_nonzero, info
<1>3. ASSUME NEW na \in 0..XLenMax, NEW nb \in 0..XLenMax, RC_convolve1d(na, nb)
      PROVE  UNCHANGED <<at, operation, counted, answer, moved>>
  BY <1>3 DEF RC_convolve1d, info
<1>4. CASE UNCHANGED rvars
  BY <1>4 DEF rvars, info
<1> QED BY <1>1, <1>2, <1>3, <1>4 DEF RNext

LEMMA NextOperationType ==
  ASSUME AnswerTypes, NEW field, NextOperation(field)
  PROVE  /\ operation' \in Ops
         /\ \/ at' = at /\ operation' = operation + 1
            \/ /\ at' = field /\ operation' = 0
               /\ \A o \in Ops : o <= operation
BY NumOpsAssumption DEF AnswerTypes, NextOperation, Ops

LEMMA InitInfoInv == RInit => InfoInv
<1> SUFFICES ASSUME RInit PROVE InfoInv
  OBVIOUS
<1>1. 0 \in 0..N /\ 0 \in Ops /\ Uninitialized \in Summaries
  BY NAssumption, NumOpsAssumption DEF Ops, Summaries
<1>2. AnswerTypes
  BY <1>1 DEF RInit, AnswerTypes, NoAnswer, AutoMode, NoBackend
<1>3. Listed
  BY DEF RInit, Listed, NoAnswer
<1> QED BY <1>2, <1>3 DEF InfoInv

LEMMA NextAnswerTypes ==
  TypeInv /\ AnswerTypes /\ [RNext]_<<vars, rvars>> => AnswerTypes'
<1> SUFFICES ASSUME TypeInv, AnswerTypes, RC_simd_info PROVE AnswerTypes'
  BY InfoKinds DEF AnswerTypes
<1> USE DEF Reads
<1>1. CASE InfoBegins
  <2>1. 0 \in 0..N /\ Uninitialized \in Summaries
    BY NAssumption DEF Summaries
  <2> QED BY <1>1, <2>1
          DEF InfoBegins, AnswerTypes, NoAnswer, AutoMode, NoBackend
<1>2. CASE InfoInitializes \/ CountMembers
  BY <1>2 DEF InfoInitializes, CountMembers, AnswerTypes
<1>3. CASE ReadRequested \/ ReadSelected
  BY <1>3 DEF ReadRequested, ReadSelected, AnswerTypes, TypeInv, TypeOK
<1>4. Members \subseteq Backends
  BY DEF Members, Available, TypeInv, TypeOK
<1>5. CASE FillAvailable
  BY <1>4, <1>5 DEF FillAvailable, AnswerTypes
<1>6. CASE FillProviders
  <2>1. at = "providers" /\ at' \in {"providers", "route"} /\ operation' \in Ops
    BY <1>6, NextOperationType DEF FillProviders
  <2>2. answer' = [answer EXCEPT !.providers[operation] = Members]
    BY <1>6 DEF FillProviders
  <2> QED BY <1>4, <2>1, <2>2 DEF AnswerTypes
<1>7. CASE ReadRoute
  <2>1. at = "route" /\ operation' \in Ops
    BY <1>7, NextOperationType DEF ReadRoute
  <2>2. at' = "route" \/ (at' = "none" /\ operation' = 0)
    BY <1>7, NextOperationType DEF ReadRoute
  <2>3. slots[operation].backend \in 0..N
    BY DEF AnswerTypes, TypeInv, TypeOK, Slot
  <2>4. answer' = [answer EXCEPT !.route[operation] = slots[operation].backend]
    BY <1>7 DEF ReadRoute
  <2> QED BY <2>1, <2>2, <2>3, <2>4 DEF AnswerTypes
<1> QED BY <1>1, <1>2, <1>3, <1>5, <1>6, <1>7 DEF RC_simd_info

\* In a package that is loaded the lists depend on nothing that changes.
LEMMA ListsStay ==
  ASSUME TypeInv, MatrixInv, HasSummary, LoadInv, [RNext]_<<vars, rvars>>,
         loading = "loaded"
  PROVE  /\ loading' = "loaded"
         /\ Available' = Available
         /\ \A o \in Ops : Providing(o)' = Providing(o)
         /\ UNCHANGED <<at, operation>> => Members' = Members
<1>1. loading' = "loaded"
  BY InfoKinds
     DEF RNext, LoadHandler, LoadSelect, LoadEnds, LoadAgain, rvars,
         RC_simd_set_backend, RC_simd_backend, RC_count_nonzero, RC_convolve1d,
         RC_simd_info, InfoBegins, InfoInitializes, ReadRequested, ReadSelected,
         CountMembers, FillAvailable, FillProviders, ReadRoute, Reads
<1>2. Available' = Available /\ tables' = tables
  BY RStepIsStep, StepKinds DEF Available
<1>3. MatrixInv'
  BY RStepIsStep, NextMatrixInv
<1>4. ready /\ ready'
  BY RStepIsStep, EngineStays DEF LoadInv
<1>5. matrix' = matrix
  BY <1>2, <1>3, <1>4 DEF MatrixInv, FullMatrix
<1>6. \A b, o : Offers(b, o)' = Offers(b, o)
  BY <1>2, <1>5 DEF Offers
<1> QED BY <1>1, <1>2, <1>6 DEF Providing, Members

\* Where an operation goes is among the backends that are listed for it.
LEMMA RouteIsListed ==
  ASSUME TypeInv, SlotInv, MatrixInv, ready, NEW o \in Ops,
         slots[o].backend # NoBackend
  PROVE  slots[o].backend \in Available \cap Providing(o)
<1>1. SlotSound(o)
  BY DEF SlotInv, SlotsSound, EmptySlot
<1> DEFINE b == slots[o].backend
<1>2. b \in Available /\ b \in Backends /\ Provides(tables[b], o)
  BY <1>1 DEF SlotSound, Available, TypeInv, TypeOK
<1>3. <<b, o>> \in matrix
  BY <1>2 DEF MatrixInv, FullMatrix
<1> QED BY <1>2, <1>3 DEF Providing, Offers

EngineInv == TypeInv /\ SlotInv /\ MatrixInv /\ HasSummary /\ LoadInv

LEMMA NextListed ==
  EngineInv /\ InfoInv /\ [RNext]_<<vars, rvars>> => Listed'
<1> SUFFICES ASSUME EngineInv, InfoInv, [RNext]_<<vars, rvars>> PROVE Listed'
  OBVIOUS
<1> USE DEF EngineInv, InfoInv, Reads
<1>1. CASE UNCHANGED <<at, operation, counted, answer>>
  <2>1. \A o \in Ops : Answered(o)' <=> Answered(o)
    BY <1>1 DEF Answered
  <2>2. CASE loading = "loaded"
    BY <1>1, <2>1, <2>2, ListsStay DEF Listed
  <2>3. CASE loading # "loaded"
    <3>1. at = "none" /\ counted = NotCounted
      BY <2>3 DEF LoadInv, Listed
    <3> QED BY <1>1, <2>1, <3>1 DEF Listed, NotCounted
  <2> QED BY <2>2, <2>3
<1>2. CASE RC_simd_info
  <2>1. loading = "loaded"
    BY <1>2 DEF RC_simd_info, InfoBegins, InfoInitializes, ReadRequested,
                ReadSelected, CountMembers, FillAvailable, FillProviders,
                ReadRoute, LoadInv
  <2>2. /\ loading' = "loaded" /\ Available' = Available
        /\ \A o \in Ops : Providing(o)' = Providing(o)
        /\ UNCHANGED <<at, operation>> => Members' = Members
    BY <2>1, ListsStay
  <2>3. CASE InfoBegins \/ InfoInitializes \/ ReadRequested \/ ReadSelected
    <3>1. /\ counted' = NotCounted
          /\ at' \in {"init", "requested", "selected", "available"}
          /\ \A o \in Ops : answer'.route[o] = NoBackend
      BY <2>3 DEF InfoBegins, InfoInitializes, ReadRequested, ReadSelected,
                  Listed, AnswerTypes, NoAnswer, NotCounted
    <3> QED BY <3>1 DEF Listed, NotCounted
  <2>4. CASE CountMembers
    <3>1. /\ UNCHANGED <<at, operation, answer>>
          /\ at \in {"available", "providers"} /\ counted' = Cardinality(Members)
      BY <2>4 DEF CountMembers
    <3>2. \A o \in Ops : Answered(o)' <=> Answered(o)
      BY <3>1 DEF Answered
    <3> QED BY <2>2, <3>1, <3>2 DEF Listed
  <2>5. CASE FillAvailable
    <3>1. /\ counted' = NotCounted /\ at = "available" /\ at' = "providers"
          /\ operation' = operation /\ operation = 0
          /\ answer'.available = Available /\ answer'.route = answer.route
      BY <2>5 DEF FillAvailable, Members, AnswerTypes
    <3>2. \A o \in Ops : ~(o < 0) /\ answer'.route[o] = NoBackend
      BY <3>1 DEF Listed, Ops
    <3> QED BY <2>2, <3>1, <3>2 DEF Listed, NotCounted
  <2>6. CASE FillProviders
    <3>1. /\ counted' = NotCounted /\ at = "providers"
          /\ answer' = [answer EXCEPT !.providers[operation] = Members]
          /\ NextOperation("route")
      BY <2>6 DEF FillProviders
    <3>2. /\ answer'.available = answer.available /\ answer'.route = answer.route
          /\ answer'.providers[operation] = Providing(operation)
          /\ \A o \in Ops \ {operation} :
               answer'.providers[o] = answer.providers[o]
      BY <3>1 DEF AnswerTypes, Members, Providing
    <3>3. \A o \in Ops : answer'.route[o] = NoBackend
      BY <3>1, <3>2 DEF Listed
    <3>4. \A o \in Ops : o < operation => answer'.providers[o] = Providing(o)
      BY <3>1, <3>2 DEF Listed, Ops, AnswerTypes
    <3>5. \/ at' = "providers" /\ operation' = operation + 1
          \/ at' = "route" /\ \A o \in Ops : o <= operation
      BY <3>1, NextOperationType
    <3>6. \A o \in Ops : o <= operation => answer'.providers[o] = Providing(o)
      BY <3>2, <3>4, NumOpsAssumption DEF Ops, AnswerTypes
    <3>7. \A o \in Ops : o < operation + 1 => o <= operation
      BY NumOpsAssumption DEF Ops, AnswerTypes
    <3> QED BY <2>2, <3>1, <3>2, <3>3, <3>5, <3>6, <3>7 DEF Listed, NotCounted
  <2>7. CASE ReadRoute
    <3>1. /\ counted' = counted /\ at = "route" /\ at' \in {"route", "none"}
          /\ answer' = [answer EXCEPT !.route[operation] =
                          slots[operation].backend]
      BY <2>7, NextOperationType DEF ReadRoute
    <3>2. /\ answer'.available = Available
          /\ \A o \in Ops : answer'.providers[o] = Providing(o)
          /\ \A o \in Ops \ {operation} : answer'.route[o] = answer.route[o]
          /\ answer'.route[operation] = slots[operation].backend
      BY <3>1 DEF AnswerTypes, Listed
    <3>3. ready
      BY <2>1 DEF LoadInv
    <3>4. \A o \in Ops : Answered(o)'
      BY <3>1, <3>2, <3>3, RouteIsListed DEF Answered, AnswerTypes, Listed
    <3>5. counted' = NotCounted
      BY <3>1 DEF Listed, NotCounted
    <3> QED BY <2>2, <3>1, <3>2, <3>4, <3>5 DEF Listed, NotCounted
  <2> QED BY <1>2, <2>3, <2>4, <2>5, <2>6, <2>7 DEF RC_simd_info
<1> QED BY <1>1, <1>2, InfoKinds

(***************************************************************************)
(* As long as no selection goes ahead while simd_info runs, the engine it  *)
(* reads does not change.                                                  *)
(***************************************************************************)
Unmoved ==
  ~moved /\ at # "none" =>
    /\ pc \in {"idle", "body"}
    /\ at \notin {"init", "requested"} => answer.requested = requested
    /\ at \notin {"init", "requested", "selected"} => answer.selected = selected
    /\ at = "route" =>
         \A o \in Ops : o < operation => answer.route[o] = slots[o].backend

\* The answer describes its own operations.
Finished ==
  at = "none" /\ answer # NoAnswer /\ ~moved /\ WellWired => Described

\* A step that is no selection leaves the route of an engine that answers.
LEMMA RouteStays ==
  ASSUME EngineInv, [RNext]_<<vars, rvars>>, loading = "loaded",
         pc \in {"idle", "body"},
         ~RC_simd_set_backend \/ \E b \in 0..N : SetRefused(b)
  PROVE  /\ pc' \in {"idle", "body"}
         /\ UNCHANGED <<slots, requested, selected>>
<1> USE DEF EngineInv, LoadInv, MatrixInv, route, loop
<1>1. initialized /\ handler = "longjmp"
  OBVIOUS
<1>2. ASSUME NEW b \in 0..N, SetRefused(b)
      PROVE  pc' \in {"idle", "body"} /\ UNCHANGED <<slots, requested, selected>>
  BY <1>1, <1>2 DEF SetRefused, Raise
<1>3. CASE Internal
  BY <1>1, <1>3
     DEF Internal, AutoRegister, AutoFails, AutoFinish, MatrixRow, MatrixFinish,
         InvokeUnavailable, InvokeMismatch, InvokeRuns, QueryReturns,
         Raise, Return
<1>4. ASSUME NEW c, Enter(c)
      PROVE  pc' \in {"idle", "body"} /\ UNCHANGED <<slots, requested, selected>>
  BY <1>1, <1>4 DEF Enter
<1>5. CASE RC_simd_backend \/ RC_count_nonzero \/ InfoInitializes
  <2>1. \E c : Enter(c)
    BY <1>5 DEF RC_simd_backend, RC_count_nonzero, InfoInitializes
  <2> QED BY <1>4, <2>1
<1>6. ASSUME NEW na \in 0..XLenMax, NEW nb \in 0..XLenMax, RC_convolve1d(na, nb)
      PROVE  pc' \in {"idle", "body"} /\ UNCHANGED <<slots, requested, selected>>
  BY <1>4, <1>6 DEF RC_convolve1d, vars
<1>7. CASE RC_simd_info /\ ~InfoInitializes
  BY <1>7 DEF RC_simd_info, InfoBegins, ReadRequested, ReadSelected,
              CountMembers, FillAvailable, FillProviders, ReadRoute, Reads, vars
<1>8. CASE UNCHANGED vars
  BY <1>8 DEF vars
<1>9. ~LoadHandler /\ ~LoadSelect /\ ~LoadEnds /\ ~LoadAgain
  BY DEF LoadHandler, LoadSelect, LoadEnds, LoadAgain
<1> QED BY <1>2, <1>3, <1>5, <1>6, <1>7, <1>8, <1>9 DEF RNext

LEMMA NextUnmoved ==
  EngineInv /\ InfoInv /\ Unmoved /\ [RNext]_<<vars, rvars>> => Unmoved'
<1> SUFFICES ASSUME EngineInv, InfoInv, Unmoved, [RNext]_<<vars, rvars>>,
                    ~moved', at' # "none"
             PROVE  Unmoved'
  BY DEF Unmoved
<1> USE DEF EngineInv, InfoInv, AnswerTypes, Reads
<1>1. CASE InfoBegins
  BY <1>1 DEF InfoBegins, Unmoved, vars
<1>2. CASE ~InfoBegins
  <2>1. /\ ~moved /\ at # "none"
        /\ ~RC_simd_set_backend \/ \E b \in 0..N : SetRefused(b)
    <3>1. RC_simd_set_backend =>
            (\E b \in 0..N : SetRefused(b)) /\ moved' = moved
      BY DEF RC_simd_set_backend
    <3>2. RC_simd_info => at # "none" /\ moved' = moved
      BY <1>2 DEF RC_simd_info, InfoInitializes, ReadRequested, ReadSelected,
                  CountMembers, FillAvailable, FillProviders, ReadRoute
    <3>3. CASE RC_simd_info
      BY <3>1, <3>2, <3>3
    <3>4. CASE ~RC_simd_info
      BY <3>1, <3>4, InfoKinds
    <3> QED BY <3>3, <3>4
  <2>2. /\ pc' \in {"idle", "body"}
        /\ UNCHANGED <<slots, requested, selected>>
    BY <2>1, RouteStays DEF Unmoved, LoadInv
  <2>3. CASE UNCHANGED <<at, operation, answer>>
    BY <2>1, <2>2, <2>3 DEF Unmoved
  <2>4. CASE InfoInitializes
    BY <2>1, <2>2, <2>4 DEF InfoInitializes, Unmoved
  <2>5. CASE ReadRequested \/ ReadSelected
    BY <2>1, <2>2, <2>5 DEF ReadRequested, ReadSelected, Unmoved
  <2>6. CASE FillAvailable
    BY <2>1, <2>2, <2>6 DEF FillAvailable, Unmoved
  <2>7. CASE FillProviders
    <3>1. /\ at = "providers"
          /\ answer'.requested = answer.requested
          /\ answer'.selected = answer.selected
      BY <2>7 DEF FillProviders
    <3>2. at' = "providers" \/ (at' = "route" /\ operation' = 0)
      BY <2>7, <3>1, NextOperationType DEF FillProviders
    <3>3. \A o \in Ops : ~(o < 0)
      BY DEF Ops
    <3> QED BY <2>1, <2>2, <3>1, <3>2, <3>3 DEF Unmoved
  <2>8. CASE ReadRoute
    <3>1. /\ at = "route" /\ at' = at /\ operation' = operation + 1
          /\ answer' = [answer EXCEPT !.route[operation] =
                          slots[operation].backend]
      BY <2>8, NextOperationType DEF ReadRoute
    <3>2. ASSUME NEW o \in Ops, o < operation'
          PROVE  answer'.route[o] = slots[o].backend
      <4>1. o = operation \/ o < operation
        BY <3>1, <3>2, NumOpsAssumption DEF Ops
      <4> QED BY <2>1, <3>1, <4>1 DEF Unmoved
    <3> QED BY <2>1, <2>2, <3>1, <3>2 DEF Unmoved
  <2> QED BY <1>2, <2>3, <2>4, <2>5, <2>6, <2>7, <2>8, InfoKinds
          DEF RC_simd_info, CountMembers
<1> QED BY <1>1, <1>2

\* An answer that is completed while the engine is at rest is described by
\* its summary.
LEMMA SummaryDescribes ==
  ASSUME EngineInv, SummaryTellsTheRoute, WellWired,
         loading = "loaded", pc = "idle",
         answer'.requested = requested, answer'.selected = selected,
         \A o \in Ops : answer'.route[o] = slots[o].backend
  PROVE  Described'
<1> USE DEF EngineInv
<1> DEFINE routed == {answer'.route[o] : o \in Ops}
           users  == {o \in Ops : Resolved(slots, o)}
<1>1. /\ initialized /\ selected # Uninitialized
      /\ selected \in Summaries
  BY DEF LoadInv, MatrixInv, HasSummary, TypeInv, TypeOK
<1>2. /\ \A o \in users : answer'.route[o] \in routed \ {NoBackend}
      /\ \A o \in Ops \ users : answer'.route[o] = NoBackend
  BY ResolvedHasBackend
<1>3. 0 \in Ops
  BY NumOpsAssumption DEF Ops
<1>4. CASE selected = Mixed
  <2>1. requested = AutoMode
    BY <1>1, <1>4 DEF SummaryTellsTheRoute, Mixed
  <2>2. \E o, p \in users : slots[o].backend # slots[p].backend
    BY <1>1, <1>4 DEF SummaryTellsTheRoute, Mixed
  <2>3. PICK x \in routed, y \in routed : x # y
    BY <2>2
  <2>4. IsFiniteSet(routed)
    <3>1. routed \in SUBSET (0..N)
      BY DEF TypeInv, TypeOK, Slot
    <3>2. IsFiniteSet(0..N)
      <4>1. 0 \in Int /\ N \in Int
        BY NAssumption
      <4> QED BY <4>1, FS_Interval
    <3> QED BY <3>1, <3>2, FS_Subset
  <2>5. Cardinality(routed) \in Nat /\ Cardinality(routed) > 1
    <3> HIDE DEF routed
    <3>1. IsFiniteSet({x}) /\ Cardinality({x}) = 1
      BY FS_Singleton
    <3>2. Cardinality({x} \cup {y}) = 2
      <4>1. y \notin {x}
        BY <2>3
      <4>2. Cardinality({x} \cup {y}) = Cardinality({x}) + 1
        BY <3>1, <4>1, FS_AddElement
      <4> QED BY <3>1, <4>2
    <3>3. {x} \cup {y} \in SUBSET routed
      BY <2>3
    <3>4. Cardinality({x} \cup {y}) <= Cardinality(routed)
      BY <2>4, <3>3, FS_Subset
    <3>5. Cardinality(routed) \in Nat
      BY <2>4, FS_CardinalityType
    <3> QED BY <3>2, <3>4, <3>5
  <2> QED BY <1>4, <2>1, <2>5 DEF Described, Mixed
<1>5. CASE selected = Unavailable
  <2>1. users = {}
    BY <1>1, <1>5 DEF SummaryTellsTheRoute, Unavailable
  <2>2. routed = {NoBackend}
    BY <1>2, <1>3, <2>1
  <2> QED BY <1>5, <2>2 DEF Described, Unavailable
<1>6. ASSUME NEW b \in Backends, selected = Name(b) PROVE Described'
  <2>1. /\ \A o \in users : answer'.route[o] = b
        /\ requested # AutoMode => users = Ops /\ requested = b
    BY <1>1, <1>6 DEF SummaryTellsTheRoute, Name
  <2>2. routed \subseteq {b} \cup
          (IF requested = AutoMode THEN {NoBackend} ELSE {})
    BY <1>2, <2>1
  <2> QED BY <1>6, <2>1, <2>2 DEF Described, Name
<1>7. ASSUME NEW b \in Backends, selected = Partial(b) PROVE Described'
  <2>1. /\ \A o \in users : answer'.route[o] = b
        /\ users # {} /\ users # Ops /\ requested = b
    BY <1>1, <1>7 DEF SummaryTellsTheRoute, Partial
  <2>2. routed = {b, NoBackend}
    BY <1>2, <2>1
  <2> QED BY <1>7, <2>1, <2>2 DEF Described, Partial
<1> QED BY <1>1, <1>4, <1>5, <1>6, <1>7 DEF Summaries

LEMMA NextFinished ==
  /\ EngineInv /\ InfoInv /\ SummaryTellsTheRoute /\ Unmoved /\ Finished
  /\ [RNext]_<<vars, rvars>>
  => Finished'
<1> SUFFICES ASSUME EngineInv, InfoInv, SummaryTellsTheRoute, Unmoved, Finished,
                    [RNext]_<<vars, rvars>>
             PROVE  Finished'
  OBVIOUS
<1>1. WellWired' <=> WellWired
  <2>1. tables' = tables /\ Available' = Available
    BY RStepIsStep, StepKinds DEF Available
  <2> QED BY <2>1 DEF WellWired
<1>2. CASE UNCHANGED <<at, answer>> /\ (moved => moved')
  <2>1. Described' <=> Described
    BY <1>2 DEF Described
  <2>2. CASE answer = NoAnswer
    BY <1>2, <2>2 DEF Finished, NoAnswer, AutoMode, Uninitialized, NoBackend
  <2> QED BY <1>1, <1>2, <2>1, <2>2 DEF Finished
<1>3. CASE ReadRoute
  <2> SUFFICES ASSUME at' = "none", ~moved', WellWired PROVE Described'
    BY <1>1 DEF Finished
  <2>1. /\ at = "route" /\ pc = "idle" /\ ~moved
        /\ UNCHANGED vars
        /\ answer' = [answer EXCEPT !.route[operation] =
                        slots[operation].backend]
        /\ \A o \in Ops : o <= operation
    BY <1>3, NextOperationType DEF ReadRoute, Reads, InfoInv, AnswerTypes
  <2>2. /\ answer'.requested = requested /\ answer'.selected = selected
        /\ \A o \in Ops : o < operation => answer.route[o] = slots[o].backend
    BY <2>1 DEF Unmoved, InfoInv, AnswerTypes
  <2>3. ASSUME NEW o \in Ops PROVE answer'.route[o] = slots[o].backend
    <3>1. o = operation \/ o < operation
      BY <2>1, NumOpsAssumption DEF Ops, InfoInv, AnswerTypes
    <3> QED BY <2>1, <2>2, <3>1 DEF InfoInv, AnswerTypes
  <2>4. loading = "loaded"
    BY <2>1 DEF EngineInv, LoadInv
  <2> QED BY <2>1, <2>2, <2>3, <2>4, SummaryDescribes
<1>4. CASE RC_simd_info /\ ~ReadRoute /\ ~CountMembers
  <2>1. at' # "none"
    BY <1>4, NextOperationType
       DEF RC_simd_info, InfoBegins, InfoInitializes, ReadRequested,
           ReadSelected, FillAvailable, FillProviders, InfoInv, Reads
  <2> QED BY <2>1 DEF Finished
<1>5. CASE CountMembers
  BY <1>2, <1>5 DEF CountMembers, Reads
<1>6. CASE RC_simd_set_backend /\ UNCHANGED <<at, answer>>
  BY <1>2, <1>6 DEF RC_simd_set_backend
<1> QED BY <1>2, <1>3, <1>4, <1>5, <1>6, InfoKinds

(***************************************************************************)
(* simd_info is consistent whatever finalizers call while it allocates:    *)
(* its vectors have the lengths they were counted to have, its routes are  *)
(* among its lists, and unless a selection went ahead meanwhile the        *)
(* requested and the selected backend it reports describe its routes.      *)
(***************************************************************************)
THEOREM InfoAlwaysAgrees == RSpec => []InfoAgrees
<1> DEFINE Inv == /\ EngineInv /\ InfoInv /\ SummaryTellsTheRoute
                  /\ Unmoved /\ Finished
<1>1. RInit => Inv
  <2>1. RInit => EngineInv /\ InfoInv
    BY InitTypeInv, InitSlotInv, InitMatrixInv, InitLoadInv, InitInfoInv
       DEF RInit, EngineInv
  <2>2. RInit => SummaryTellsTheRoute /\ Unmoved /\ Finished
    BY DEF RInit, Init, SummaryTellsTheRoute, Unmoved, Finished
  <2> QED BY <2>1, <2>2
<1>2. Inv /\ [RNext]_<<vars, rvars>> => Inv'
  <2>1. Inv /\ [RNext]_<<vars, rvars>> => EngineInv' /\ SummaryTellsTheRoute'
    BY RStepIsStep, NextTypeInv, NextSlotInv, NextMatrixInv, EngineStays,
       NextLoadInv, NextSummary DEF EngineInv
  <2>2. Inv /\ [RNext]_<<vars, rvars>> => InfoInv'
    BY NextAnswerTypes, NextListed DEF InfoInv, EngineInv
  <2> QED BY <2>1, <2>2, NextUnmoved, NextFinished
<1>3. Inv => InfoAgrees
  BY DEF InfoInv, Listed, Finished, InfoAgrees, Answered
<1> HIDE DEF Inv
<1> QED BY <1>1, <1>2, <1>3, PTL DEF RSpec

-----------------------------------------------------------------------------
(***************************************************************************)
(* What the engine's theorems come to in R.                                *)
(***************************************************************************)

(***************************************************************************)
(* An R process that has loaded a well-wired package is served as          *)
(* DispatchContract says, whatever R calls, and also when finalizers call  *)
(* in the middle of simd_info.                                             *)
(***************************************************************************)
THEOREM RKeepsTheContract == RSpec /\ WellWired => ContractHolds
<1>1. RInit => Init
  BY DEF RInit
<1>2. RSpec /\ WellWired => WellWiredSpec
  BY <1>1, RDrivesTheEngine DEF RSpec, Spec, WellWiredSpec, WellWiredInit
<1> QED BY <1>2, ContractImplemented

\* What the entry points pass to sd_dispatch_invoke.
RFrames == call.fn = "invoke" => call.op \in Ops /\ call.sig = OpSig[call.op]

LEMMA NextRFrames ==
  TypeInv /\ LoadInv /\ RFrames /\ [RNext]_<<vars, rvars>> => RFrames'
<1> SUFFICES ASSUME TypeInv, LoadInv, RFrames, [RNext]_<<vars, rvars>>
             PROVE  RFrames'
  OBVIOUS
<1> USE DEF RFrames
<1>1. CASE UNCHANGED call
  BY <1>1
<1>2. ASSUME NEW op \in Ops, call' = CallInvoke(op, OpSig[op]) PROVE RFrames'
  BY <1>2 DEF CallInvoke, Call
<1>3. CASE LoadHandler \/ LoadSelect \/ RC_simd_backend \/ InfoInitializes
  BY <1>3 DEF LoadHandler, SetErrorHandler, LoadSelect, RC_simd_backend,
              InfoInitializes, Enter, Call
<1>4. CASE LoadEnds \/ LoadAgain
  BY <1>1, <1>4 DEF LoadEnds, LoadAgain, vars
<1>5. CASE Internal /\ UNCHANGED rvars
  BY <1>1, <1>5 DEF Internal, AutoRegister, AutoFails, AutoFinish, MatrixRow,
       MatrixFinish, InvokeUnavailable, InvokeMismatch, InvokeRuns, QueryReturns
<1>6. CASE RC_simd_set_backend
  BY <1>6 DEF RC_simd_set_backend, SetAuto, SetRefused, SetBackend,
              SetBackendFails, CallSet, Call
<1>7. CASE RC_count_nonzero
  BY <1>2, <1>7, SomeTypes DEF RC_count_nonzero, Enter
<1>8. ASSUME NEW na \in 0..XLenMax, NEW nb \in 0..XLenMax, RC_convolve1d(na, nb)
      PROVE  RFrames'
  BY <1>1, <1>2, <1>8, SomeTypes DEF RC_convolve1d, Enter, vars
<1>9. CASE RC_simd_info /\ ~InfoInitializes
  BY <1>1, <1>9 DEF RC_simd_info, InfoBegins, ReadRequested, ReadSelected,
       CountMembers, FillAvailable, FillProviders, ReadRoute, Reads, vars
<1>10. CASE UNCHANGED <<vars, rvars>>
  BY <1>1, <1>10 DEF vars
<1> QED BY <1>3, <1>4, <1>5, <1>6, <1>7, <1>8, <1>9, <1>10
        DEF RNext, RC_simd_info

(***************************************************************************)
(* The constants that r_api.c passes agree with operations.def: no call    *)
(* from R is ever refused for its signature, not even with backends that   *)
(* are mis-wired.                                                          *)
(***************************************************************************)
THEOREM RNeverMismatches == RSpec => [][~InvokeMismatch]_<<vars, rvars>>
<1>1. RInit => RFrames /\ SlotInv
  BY InitSlotInv DEF RInit, Init, RFrames, Call
<1>2. TypeInv /\ SlotInv /\ [RNext]_<<vars, rvars>> => SlotInv'
  BY RStepIsStep, NextSlotInv
<1>3. TypeInv /\ SlotInv /\ RFrames => ~InvokeMismatch
  BY SlotSignature DEF InvokeMismatch, RFrames
<1> QED BY <1>1, <1>2, <1>3, NextRFrames, LoadInvariant, PTL DEF RSpec

(***************************************************************************)
(* A package whose backends are well wired always loads.                   *)
(***************************************************************************)
THEOREM WellWiredPackageLoads == RSpec /\ WellWired => [](loading # "failed")
<1> DEFINE Succeeds ==
      /\ loading # "failed"
      /\ loading = "register" => outcome # Error
<1> USE DEF Done, Pending, Error, Outcome, Return
<1>1. RInit => Succeeds
  BY DEF RInit
<1>2. ASSUME TypeInv, LoadInv, WellWired, Succeeds, [RNext]_<<vars, rvars>>
      PROVE  Succeeds'
  <2> USE <1>2 DEF LoadInv
  <2>1. CASE LoadHandler \/ LoadSelect
    BY <2>1 DEF LoadHandler, LoadSelect, Enter, StartAuto
  <2>2. CASE LoadEnds \/ LoadAgain
    BY <2>2 DEF LoadEnds, LoadAgain
  <2>3. CASE Internal /\ UNCHANGED rvars
    <3>1. ~AutoFails
      BY DEF AutoFails, WellWired
    <3>2. loading = "register" => ~InvokeUnavailable /\ ~InvokeMismatch /\ ~InvokeRuns
      BY DEF InvokeUnavailable, InvokeMismatch, InvokeRuns
    <3>3. loading' = loading
      BY <2>3 DEF rvars
    <3> QED BY <2>3, <3>1, <3>2, <3>3
            DEF Internal, AutoRegister, AutoFinish, MatrixRow, MatrixFinish,
                QueryReturns
  <2>4. CASE loading = "loaded" /\ loading' = loading
    BY <2>4
  <2>5. CASE RC_simd_info
    BY <2>4, <2>5 DEF RC_simd_info, InfoBegins, InfoInitializes, ReadRequested,
         ReadSelected, CountMembers, FillAvailable, FillProviders, ReadRoute, Reads
  <2>6. CASE UNCHANGED <<vars, rvars>>
    BY <2>6 DEF vars, rvars
  <2> QED BY <2>1, <2>2, <2>3, <2>4, <2>5, <2>6
          DEF RNext, RC_simd_set_backend, RC_simd_backend, RC_count_nonzero,
              RC_convolve1d, info
<1>3. WellWired /\ [RNext]_<<vars, rvars>> => WellWired'
  BY RStepIsStep, WellWiredStays
<1>4. Succeeds => loading # "failed"
  OBVIOUS
<1> HIDE DEF Succeeds
<1> QED BY <1>1, <1>2, <1>3, <1>4, LoadInvariant, PTL DEF RSpec

=============================================================================
