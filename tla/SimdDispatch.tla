---------------------------- MODULE SimdDispatch ----------------------------
(***************************************************************************)
(* The dispatch engine of simd_dispatch.c: the globals, the build of the   *)
(* resolved slots, and the public functions of simd_dispatch.h as one      *)
(* client calls them, one at a time.                                       *)
(*                                                                         *)
(* What may stop half-way is taken in steps: the automatic build registers *)
(* one backend per step, because the registration of a mis-wired backend   *)
(* raises and the error handler may leave by longjmp, with the globals as  *)
(* far as they got.  A registration is one step (RegisterTable shows why). *)
(*                                                                         *)
(* Which backends are compiled and supported, and the tables they          *)
(* register, are fixed for the life of the process; TLC explores them all. *)
(***************************************************************************)
EXTENDS KernelTables

CONSTANT Tables   \* the tables a backend may register
ASSUME TablesAssumption == Tables \subseteq KernelTable

VARIABLES
  compiled,    \* backends whose SD_HAVE_* flag is set
  supported,   \* backends whose sd_cpu_has_* function answers 1
  tables,      \* backend -> the table it registers
  slots,       \* sd_active_slots
  initialized, \* sd_dispatch_initialized
  requested,   \* sd_requested_backend_buf, AutoMode or a backend
  selected,    \* sd_selected_backend_buf
  matrix,      \* sd_backend_op_matrix, as the set of pairs that hold 1
  ready,       \* sd_backend_op_matrix_ready
  handler,     \* "longjmp" if sd_error_handler leaves by longjmp, else "abort"
  best,        \* best_priority of the builder of the automatic build
  next,        \* the loop variable of the build and of the matrix loop
  pc,          \* where the running call is
  call,        \* the last call made
  outcome      \* what that call came to

env   == <<compiled, supported, tables>>
route == <<slots, initialized, requested, selected>>
cache == <<matrix, ready>>
loop  == <<best, next>>
vars  == <<env, route, cache, loop, handler, pc, call, outcome>>

AutoMode == 0

Available == compiled \cap supported

\* The values of sd_selected_backend.
Name(b)       == [kind |-> "name", backend |-> b]
Partial(b)    == [kind |-> "partial", backend |-> b]
Mixed         == [kind |-> "mixed", backend |-> NoBackend]
Unavailable   == [kind |-> "unavailable", backend |-> NoBackend]
Uninitialized == [kind |-> "uninitialized", backend |-> NoBackend]

Summaries ==
  {Mixed, Unavailable, Uninitialized}
    \cup {Name(b) : b \in Backends} \cup {Partial(b) : b \in Backends}

Calls == [fn  : {"none", "set_error_handler", "init", "set_backend", "invoke",
                 "selected", "operation_selected", "operation_available"},
          backend : 0..N, op : 0..NumOps, sig : 0..NumSigs]

\* A call with the arguments its function does not take left at 0.
Call(fn)            == [fn |-> fn, backend |-> 0, op |-> 0, sig |-> 0]
CallSet(b)          == [Call("set_backend") EXCEPT !.backend = b]
CallInvoke(op, sig) == [Call("invoke") EXCEPT !.op = op, !.sig = sig]
CallAvailable(b, op) ==
  [Call("operation_available") EXCEPT !.backend = b, !.op = op]

Outcomes == [kind   : {"pending", "done", "error", "yes", "no", "ran"},
             kernel : {NoKernel} \cup (Backends \X (Nat \ {0}))]

Outcome(kind) == [kind |-> kind, kernel |-> NoKernel]
Pending == Outcome("pending")
Done    == Outcome("done")
Error   == Outcome("error")
Yes     == Outcome("yes")
No      == Outcome("no")
Ran(k)  == [kind |-> "ran", kernel |-> k]

-----------------------------------------------------------------------------

Init ==
  /\ compiled \in {s \in SUBSET Backends : Scalar \in s}
  /\ supported \in {s \in SUBSET Backends : Scalar \in s}
  /\ tables \in [Backends -> Tables]
  /\ slots = EmptySlots
  /\ initialized = FALSE
  /\ requested = AutoMode
  /\ selected = Uninitialized
  /\ matrix = {}
  /\ ready = FALSE
  /\ handler = "abort"
  /\ best = NoBest
  /\ next = 0
  /\ pc = "idle"
  /\ call = Call("none")
  /\ outcome = Done

\* The running call returns to its caller.
Return(result) ==
  /\ pc' = "idle"
  /\ outcome' = result
  /\ best' = NoBest
  /\ next' = 0

\* sd_raise_error: a handler that leaves by longjmp (Rf_error does) ends the
\* call where it is.  The default handler aborts, and after a handler that
\* returns sd_raise_error itself does.
Raise ==
  /\ pc' = IF handler = "longjmp" THEN "idle" ELSE "aborted"
  /\ outcome' = Error
  /\ best' = NoBest
  /\ next' = 0

\* sd_set_error_handler; NULL restores the default handler.
SetErrorHandler(h) ==
  /\ pc = "idle"
  /\ handler' = h
  /\ call' = Call("set_error_handler")
  /\ Return(Done)
  /\ UNCHANGED <<env, route, cache>>

-----------------------------------------------------------------------------
(***************************************************************************)
(* The automatic build: sd_resolve_auto, and the sd_init_dispatch around   *)
(* it that every function of the API may run into first.                   *)
(***************************************************************************)

\* "auto" is written to the requested buffer and sd_build_auto_slots clears
\* the slots.
StartAuto ==
  /\ requested' = AutoMode
  /\ slots' = EmptySlots
  /\ best' = NoBest
  /\ next' = 1
  /\ pc' = "auto"
  /\ outcome' = Pending
  /\ UNCHANGED <<initialized, selected>>

\* Faulty variant: the initialized flag is not looked at.
EnterAgain(c) ==
  /\ pc = "idle"
  /\ call' = c
  /\ StartAuto
  /\ UNCHANGED <<env, cache, handler>>

\* A call c of a function that begins with sd_init_dispatch.
Enter(c) ==
  /\ pc = "idle"
  /\ call' = c
  /\ \/ /\ ~initialized
        /\ StartAuto
     \/ /\ initialized
        /\ pc' = "body"
        /\ outcome' = Pending
        /\ UNCHANGED <<route, loop>>
  /\ UNCHANGED <<env, cache, handler>>

\* Faulty variant: a compiled backend is registered without asking the CPU.
AutoRegisterCompiled ==
  /\ pc = "auto"
  /\ next \in Backends
  /\ next \in compiled => TableOK(tables[next])
  /\ IF next \in compiled
     THEN /\ slots' = InstallSlots(next, tables[next], slots, best)
          /\ best' = InstallBest(next, tables[next], best)
     ELSE UNCHANGED <<slots, best>>
  /\ next' = next + 1
  /\ UNCHANGED <<env, initialized, requested, selected, cache, handler,
                 pc, call, outcome>>

\* sd_register_available_backend for one row of backends.def
AutoRegister ==
  /\ pc = "auto"
  /\ next \in Backends
  /\ next \in Available => TableOK(tables[next])
  /\ IF next \in Available
     THEN /\ slots' = InstallSlots(next, tables[next], slots, best)
          /\ best' = InstallBest(next, tables[next], best)
     ELSE UNCHANGED <<slots, best>>
  /\ next' = next + 1
  /\ UNCHANGED <<env, initialized, requested, selected, cache, handler,
                 pc, call, outcome>>

\* The registration of a mis-wired backend raises.  The slots are those of
\* the backends before it, everything else is as StartAuto left it.
AutoFails ==
  /\ pc = "auto"
  /\ next \in Available
  /\ ~TableOK(tables[next])
  /\ Raise
  /\ UNCHANGED <<env, route, cache, handler, call>>

\* sd_update_selected_backend_summary
Winners == {slots[op].backend : op \in Ops} \ {NoBackend}

\* Faulty variant: the backend of some operation stands for all.
AutoSummaryOfOne ==
  IF Winners = {} THEN Unavailable ELSE Name(CHOOSE b \in Winners : TRUE)

\* Faulty variant: that there may be no backend at all is forgotten.
AutoSummaryOfNone ==
  IF \E a, b \in Winners : a # b THEN Mixed
  ELSE Name(IF Winners = {} THEN NoBackend ELSE CHOOSE b \in Winners : TRUE)

AutoSummary ==
  IF Winners = {} THEN Unavailable
  ELSE IF \E a, b \in Winners : a # b THEN Mixed
  ELSE Name(CHOOSE b \in Winners : TRUE)

\* The build is complete.  Under sd_set_backend that is the end of the call,
\* under sd_init_dispatch the matrix comes next.
AutoFinish ==
  /\ pc = "auto"
  /\ next = N + 1
  /\ selected' = AutoSummary
  /\ initialized' = TRUE
  /\ \/ /\ call.fn = "set_backend"
        /\ Return(Done)
     \/ /\ call.fn # "set_backend"
        /\ pc' = "matrix"
        /\ next' = 1
        /\ best' = NoBest
        /\ UNCHANGED outcome
  /\ UNCHANGED <<env, slots, requested, cache, handler, call>>

\* Faulty variant: a row is filled for a backend that is not available.
MatrixRowUngated ==
  /\ pc = "matrix"
  /\ next \in Backends
  /\ matrix' = {p \in matrix : p[1] # next} \cup
               {p \in {next} \X Ops : Provides(tables[next], p[2])}
  /\ next' = next + 1
  /\ UNCHANGED <<env, route, ready, handler, best, pc, call, outcome>>

\* One row of the matrix: a rebuild of the slots of that backend alone.  Its
\* registration cannot raise, the automatic build just went through it
\* (MatrixAgrees).
MatrixRow ==
  /\ pc = "matrix"
  /\ next \in Backends
  /\ matrix' = {p \in matrix : p[1] # next} \cup
               {p \in {next} \X Ops : /\ next \in Available
                                      /\ Provides(tables[next], p[2])}
  /\ next' = next + 1
  /\ UNCHANGED <<env, route, ready, handler, best, pc, call, outcome>>

\* Faulty variant: the loop runs one row too far.
MatrixFinishLate ==
  /\ pc = "matrix"
  /\ next = N + 2
  /\ ready' = TRUE
  /\ pc' = "body"
  /\ next' = 0
  /\ UNCHANGED <<env, route, matrix, handler, best, call, outcome>>

MatrixFinish ==
  /\ pc = "matrix"
  /\ next = N + 1
  /\ ready' = TRUE
  /\ pc' = "body"
  /\ next' = 0
  /\ UNCHANGED <<env, route, matrix, handler, best, call, outcome>>

-----------------------------------------------------------------------------
(***************************************************************************)
(* sd_set_backend                                                          *)
(***************************************************************************)

SetAuto ==
  /\ pc = "idle"
  /\ call' = CallSet(AutoMode)
  /\ StartAuto
  /\ UNCHANGED <<env, cache, handler>>

\* Faulty variant: the requested buffer is written before the checks.
SetRefusedWrites(b) ==
  /\ pc = "idle"
  /\ b \notin Available
  /\ call' = CallSet(b)
  /\ requested' = b
  /\ Raise
  /\ UNCHANGED <<env, slots, initialized, selected, cache, handler>>

\* A NULL, empty or unknown name (NoBackend here), a backend that is not
\* compiled or not supported: refused before anything is written.
SetRefused(b) ==
  /\ pc = "idle"
  /\ b \notin Available
  /\ call' = CallSet(b)
  /\ Raise
  /\ UNCHANGED <<env, route, cache, handler>>

BackendSlots(b) == InstallSlots(b, tables[b], EmptySlots, NoBest)

Selectable(b) ==
  TableOK(tables[b]) /\ \E op \in Ops : Resolved(BackendSlots(b), op)

\* Faulty variant: the slots are not cleared before the backend registers.
SetBackendKeeps(b) ==
  /\ pc = "idle"
  /\ b \in Available
  /\ Selectable(b)
  /\ call' = CallSet(b)
  /\ requested' = b
  /\ slots' = InstallSlots(b, tables[b], slots, NoBest)
  /\ selected' = IF \A op \in Ops : Resolved(BackendSlots(b), op)
                 THEN Name(b) ELSE Partial(b)
  /\ initialized' = TRUE
  /\ Return(Done)
  /\ UNCHANGED <<env, cache, handler>>

\* sd_resolve_backend
SetBackend(b) ==
  /\ pc = "idle"
  /\ b \in Available
  /\ Selectable(b)
  /\ call' = CallSet(b)
  /\ requested' = b
  /\ slots' = BackendSlots(b)
  /\ selected' = IF \A op \in Ops : Resolved(BackendSlots(b), op)
                 THEN Name(b) ELSE Partial(b)
  /\ initialized' = TRUE
  /\ Return(Done)
  /\ UNCHANGED <<env, cache, handler>>

\* Faulty variant: a failed selection leaves the slots of the one before.
SetBackendFailsDirty(b) ==
  /\ pc = "idle"
  /\ b \in Available
  /\ ~Selectable(b)
  /\ call' = CallSet(b)
  /\ requested' = b
  /\ Raise
  /\ UNCHANGED <<env, slots, initialized, selected, cache, handler>>

\* A mis-wired or empty table raises after the requested buffer is written
\* and the slots are cleared.
SetBackendFails(b) ==
  /\ pc = "idle"
  /\ b \in Available
  /\ ~Selectable(b)
  /\ call' = CallSet(b)
  /\ requested' = b
  /\ slots' = EmptySlots
  /\ Raise
  /\ UNCHANGED <<env, initialized, selected, cache, handler>>

-----------------------------------------------------------------------------
(***************************************************************************)
(* sd_dispatch_invoke                                                      *)
(***************************************************************************)

\* An operation out of range or a NULL call frame: refused before the
\* engine is initialized.
InvokeRefused ==
  /\ pc = "idle"
  /\ call' = Call("invoke")
  /\ Raise
  /\ UNCHANGED <<env, route, cache, handler>>

InvokeUnavailable ==
  /\ pc = "body"
  /\ call.fn = "invoke"
  /\ ~Resolved(slots, call.op)
  /\ Raise
  /\ UNCHANGED <<env, route, cache, handler, call>>

InvokeMismatch ==
  /\ pc = "body"
  /\ call.fn = "invoke"
  /\ Resolved(slots, call.op)
  /\ slots[call.op].signature # call.sig
  /\ Raise
  /\ UNCHANGED <<env, route, cache, handler, call>>

\* Faulty variant: the signature the caller passed is not compared.
InvokeRunsUnchecked ==
  /\ pc = "body"
  /\ call.fn = "invoke"
  /\ Resolved(slots, call.op)
  /\ Return(Ran(slots[call.op].invoke))
  /\ UNCHANGED <<env, route, cache, handler, call>>

InvokeRuns ==
  /\ pc = "body"
  /\ call.fn = "invoke"
  /\ Resolved(slots, call.op)
  /\ slots[call.op].signature = call.sig
  /\ Return(Ran(slots[call.op].invoke))
  /\ UNCHANGED <<env, route, cache, handler, call>>

(***************************************************************************)
(* sd_init_dispatch itself, and the queries that only read the globals     *)
(* once it has run: sd_selected_backend, sd_operation_selected_backend.    *)
(***************************************************************************)
QueryReturns ==
  /\ pc = "body"
  /\ call.fn # "invoke"
  /\ Return(Done)
  /\ UNCHANGED <<env, route, cache, handler, call>>

(***************************************************************************)
(* sd_backend_operation_available; it does not initialize the engine, and  *)
(* answers from the matrix only once that is there.  NoBackend stands for  *)
(* a name that is not in backends.def.                                     *)
(***************************************************************************)
Answer(yes) == Return(IF yes THEN Yes ELSE No)

AvailableFromMatrix(b, op) ==
  /\ pc = "idle"
  /\ ready
  /\ call' = CallAvailable(b, op)
  /\ Answer(b \in Available /\ op \in Ops /\ <<b, op>> \in matrix)
  /\ UNCHANGED <<env, route, cache, handler>>

\* Faulty variant: whether the CPU supports the backend is not asked.
AvailableFromTableUngated(b, op) ==
  /\ pc = "idle"
  /\ ~ready
  /\ call' = CallAvailable(b, op)
  /\ IF b \in compiled /\ op \in Ops
     THEN IF TableOK(tables[b]) THEN Answer(Resolved(BackendSlots(b), op))
                                ELSE Raise
     ELSE Answer(FALSE)
  /\ UNCHANGED <<env, route, cache, handler>>

\* The rebuild goes to slots on the stack; a mis-wired table raises.
AvailableFromTable(b, op) ==
  /\ pc = "idle"
  /\ ~ready
  /\ call' = CallAvailable(b, op)
  /\ IF b \in Available /\ op \in Ops
     THEN IF TableOK(tables[b]) THEN Answer(Resolved(BackendSlots(b), op))
                                ELSE Raise
     ELSE Answer(FALSE)
  /\ UNCHANGED <<env, route, cache, handler>>

\* The process is gone.
Terminated == pc = "aborted" /\ UNCHANGED vars

-----------------------------------------------------------------------------

\* The steps of a call under way.
Internal ==
  \/ AutoRegister \/ AutoFails \/ AutoFinish
  \/ MatrixRow \/ MatrixFinish
  \/ InvokeUnavailable \/ InvokeMismatch \/ InvokeRuns \/ QueryReturns

\* The calls a client may make.
External ==
  \/ \E h \in {"abort", "longjmp"} : SetErrorHandler(h)
  \/ Enter(Call("init"))
  \/ Enter(Call("selected"))
  \/ Enter(Call("operation_selected"))
  \/ \E op \in Ops, sig \in 0..NumSigs : Enter(CallInvoke(op, sig))
  \/ InvokeRefused
  \/ SetAuto
  \/ \E b \in 0..N : SetRefused(b)
  \/ \E b \in Backends : SetBackend(b) \/ SetBackendFails(b)
  \/ \E b \in 0..N, op \in 0..NumOps :
       AvailableFromMatrix(b, op) \/ AvailableFromTable(b, op)

Next == Internal \/ External \/ Terminated

\* A C function that is running goes on running; that the client calls any
\* function at all is not assumed.
Fairness == WF_vars(Internal)

Spec == Init /\ [][Next]_vars

FairSpec == Spec /\ Fairness

\* The tables of a package whose backends are wired as they should be.
WellWired ==
  \A b \in Available : TableOK(tables[b]) /\ tables[b] # <<>>

WellWiredInit == Init /\ WellWired

WellWiredSpec == WellWiredInit /\ [][Next]_vars

-----------------------------------------------------------------------------

TypeOK ==
  /\ compiled \subseteq Backends
  /\ supported \subseteq Backends
  /\ tables \in [Backends -> Tables]
  /\ slots \in [Ops -> Slot]
  /\ initialized \in BOOLEAN
  /\ requested \in 0..N
  /\ selected \in Summaries
  /\ matrix \subseteq Backends \X Ops
  /\ ready \in BOOLEAN
  /\ handler \in {"abort", "longjmp"}
  /\ best \in [Ops -> 0..UintMax]
  /\ next \in 0..(N + 1)
  /\ pc \in {"idle", "auto", "matrix", "body", "aborted"}
  /\ call \in Calls
  /\ outcome \in Outcomes

(***************************************************************************)
(* Whatever calls were made and wherever an error cut one off, a slot that *)
(* is resolved holds what a backend that is compiled and supported has for *)
(* that operation in a table without a bad row: a kernel that the CPU can  *)
(* run, of the operation of the slot, with its signature and the name of   *)
(* the same backend beside it.                                             *)
(***************************************************************************)
SlotSound(op) ==
  LET b == slots[op].backend IN
    /\ b \in Available
    /\ TableOK(tables[b])
    /\ Provides(tables[b], op)
    /\ slots[op] = SlotOf(b, tables[b], op)

SlotsSound == \A op \in Ops : slots[op] = EmptySlot \/ SlotSound(op)

(***************************************************************************)
(* A kernel that was run is a kernel of the operation that was asked for,  *)
(* takes the call frame that was passed and belongs to a backend that is   *)
(* available: sd_dispatch_invoke casts nothing to the wrong frame.         *)
(***************************************************************************)
KernelTakesTheFrame ==
  outcome.kind = "ran" =>
    LET b == outcome.kernel[1]
        r == tables[b][outcome.kernel[2]]
    IN  /\ b \in Available
        /\ r.operation = call.op
        /\ r.signature = call.sig

(***************************************************************************)
(* Automatic selection is per operation: a backend is chosen for an        *)
(* operation iff it is available, provides it and no other such backend    *)
(* has a smaller priority value, the earlier row of backends.def winning   *)
(* between equals; and an operation stays unresolved only if no available  *)
(* backend provides it.                                                    *)
(***************************************************************************)
Better(a, b) ==
  \/ Priority[a] < Priority[b]
  \/ Priority[a] = Priority[b] /\ a < b

Candidates(op) == {b \in Available : Provides(tables[b], op)}

BestFor(b, op) ==
  /\ b \in Candidates(op)
  /\ \A a \in Candidates(op) \ {b} : Better(b, a)

AutoIsBest ==
  (/\ pc \in {"idle", "matrix", "body"}
   /\ initialized
   /\ requested = AutoMode
   /\ \A b \in Available : TableOK(tables[b])) =>
     \A op \in Ops :
       IF Candidates(op) = {} THEN slots[op] = EmptySlot
                              ELSE BestFor(slots[op].backend, op)

(***************************************************************************)
(* While a backend is requested by name no operation is dispatched to any  *)
(* other, not even after the request failed half-way.                      *)
(***************************************************************************)
ExplicitIsPure ==
  requested # AutoMode =>
    \A op \in Ops : slots[op] = EmptySlot \/ slots[op].backend = requested

(***************************************************************************)
(* sd_selected_backend says of the table what its documentation says, as   *)
(* long as no backend is mis-wired or empty: a plain name or "partial" is  *)
(* the one backend of every resolved operation, "partial" means that some  *)
(* operation is not resolved and the backend was asked for by name,        *)
(* "mixed" that two operations go to different backends under automatic    *)
(* selection, and "unavailable" that none is resolved.                     *)
(***************************************************************************)
SummaryTellsTheRoute ==
  WellWired /\ initialized /\ pc \in {"idle", "matrix", "body"} =>
    LET users == {op \in Ops : Resolved(slots, op)} IN
      /\ selected.kind \in {"name", "partial"} =>
           /\ users # {}
           /\ \A op \in users : slots[op].backend = selected.backend
      /\ selected.kind = "partial" =>
           users # Ops /\ requested = selected.backend
      /\ selected.kind = "name" /\ requested # AutoMode =>
           users = Ops /\ requested = selected.backend
      /\ selected.kind = "mixed" =>
           /\ requested = AutoMode
           /\ \E o, p \in users : slots[o].backend # slots[p].backend
      /\ selected.kind = "unavailable" => users = {}
      /\ selected.kind # "uninitialized"

(***************************************************************************)
(* The matrix that is computed once and never again agrees with what a     *)
(* rebuild would find at any later time, and no backend that is available  *)
(* has a bad row once it is there (nor while it is computed, which is why  *)
(* that loop cannot raise).                                                *)
(***************************************************************************)
MatrixAgrees ==
  /\ ready \/ pc = "matrix" => \A b \in Available : TableOK(tables[b])
  /\ ready => matrix = {p \in Available \X Ops : Provides(tables[p[1]], p[2])}

(***************************************************************************)
(* sd_backend_operation_available answers the same before and after the    *)
(* engine is initialized: 1 iff the backend is available and its table     *)
(* provides the operation.                                                 *)
(***************************************************************************)
AvailabilityAnswer ==
  outcome.kind \in {"yes", "no"} =>
    (outcome.kind = "yes" <=> /\ call.backend \in Available
                              /\ call.op \in Ops
                              /\ Provides(tables[call.backend], call.op))

(***************************************************************************)
(* Once the engine is initialized only sd_set_backend changes where an     *)
(* operation goes, and nothing undoes the initialization: the functions    *)
(* that initialize lazily are without effect from then on.                 *)
(***************************************************************************)
OnlySetBackendReroutes ==
  [][initialized =>
       /\ initialized'
       /\ <<slots, requested, selected>>' # <<slots, requested, selected>> =>
            call'.fn = "set_backend"]_vars

(***************************************************************************)
(* Every call comes to an end: it returns, or it ends the process.         *)
(***************************************************************************)
CallsEnd == outcome.kind = "pending" ~> pc \in {"idle", "aborted"}

-----------------------------------------------------------------------------
(***************************************************************************)
(* The contract of DispatchContract, for well-wired backends.              *)
(***************************************************************************)
Contract == INSTANCE DispatchContract WITH
  offers <- {p \in Available \X Ops : Provides(tables[p[1]], p[2])},
  mode   <- requested,
  route  <- [op \in Ops |-> IF pc = "auto" THEN NoBackend
                                           ELSE slots[op].backend],
  phase  <- IF pc = "auto" THEN "resolving"
            ELSE IF initialized THEN "ready" ELSE "unresolved",
  ran    <- IF outcome.kind = "ran" THEN <<call.op, outcome.kernel[1]>>
                                    ELSE <<>>

ContractHolds == Contract!Spec

-----------------------------------------------------------------------------
(***************************************************************************)
(* What a comment of the code says, and the code does not do.              *)
(***************************************************************************)

\* simd_dispatch.h:93: a plain name means "all operations resolved to the
\* same backend".
PlainNameMeansAll ==
  pc = "idle" /\ initialized /\ selected.kind = "name" =>
    \A op \in Ops : slots[op].backend = selected.backend

=============================================================================
