-------------------------- MODULE DispatchThreads --------------------------
(***************************************************************************)
(* The globals of simd_dispatch.c under several threads: one selects or    *)
(* initializes while others dispatch.  Nothing in the code is atomic or    *)
(* locked; the comment above the globals leaves it to the caller to        *)
(* serialize, and Serialised says whether the caller does.                 *)
(*                                                                         *)
(* The stores of a build reach the other threads one by one and, between   *)
(* different locations, in any order; those to one location in the order   *)
(* they were made.  A thread sees its own at once.  A field of a slot is   *)
(* represented by the backend whose value it holds, NoBackend standing for *)
(* the zeros of memset.                                                    *)
(*                                                                         *)
(* The backends are wired as they should be; SimdDispatch has the others,  *)
(* and the error paths, for a single thread.                               *)
(***************************************************************************)
EXTENDS KernelTables

CONSTANTS
  Threads,
  Selectors,  \* the threads that call sd_set_backend
  Serialised, \* whether the caller keeps the thread-safety contract
  Ready,      \* whether the engine is initialized before the threads start
  Available,  \* the backends that are compiled and supported
  Tables,     \* backend -> its kernel table
  Fields      \* the members of SdResolvedSlot: the name may be left out

ASSUME SelectorsAssumption  == Selectors \subseteq Threads
ASSUME SerialisedAssumption == Serialised \in BOOLEAN /\ Ready \in BOOLEAN
ASSUME AvailableAssumption  == Available \subseteq Backends
ASSUME FieldsAssumption ==
  Fields \in {{"invoke", "signature"}, {"invoke", "signature", "backend"}}
ASSUME WiredAssumption ==
  /\ Tables \in [Backends -> KernelTable]
  /\ \A b \in Backends : TableOK(Tables[b]) /\ Tables[b] # <<>>

VARIABLES
  slots,       \* sd_active_slots, as the other threads see it
  initialized, \* sd_dispatch_initialized, likewise
  mode,        \* the last selection begun: AutoMode or a backend
  pending,     \* thread -> location -> its stores not visible to others yet
  flagging,    \* threads whose store to initialized is not visible yet
  pc,          \* thread -> where it is
  wants,       \* thread -> the selection it builds
  op,          \* thread -> the operation it dispatches, if it does
  seen,        \* thread -> the kernel its NULL check read, as a Slot names it
  last         \* how the last dispatch to end did so

memory == <<slots, initialized, pending, flagging>>
thread == <<pc, wants, op, seen>>
vars   == <<memory, mode, thread, last>>

AutoMode  == 0
Locations == Ops \X Fields
NoStores  == [l \in Locations |-> {}]

Kernels == {NoKernel} \cup (Backends \X (Nat \ {0}))

Result(kind, o, k) == [kind |-> kind, op |-> o, kernel |-> k]
Results == [kind : {"none", "ran", "crashed", "unavailable", "mismatch"},
            op : Ops, kernel : Kernels]
NoResult == Result("none", 0, NoKernel)

-----------------------------------------------------------------------------

Candidates(o) == {b \in Available : Provides(Tables[b], o)}

(***************************************************************************)
(* The values a build stores to each field of the slot of o, which it does *)
(* in increasing order: the memset, then every backend that beats those    *)
(* before it, or the one that was selected.                                *)
(***************************************************************************)
\* Faulty variant: the first backend to register keeps the slot.
StoresOnce ==
  [m \in 0..N |-> [o \in Ops |->
     {NoBackend} \cup
       IF m = AutoMode
       THEN {b \in Candidates(o) : \A a \in Candidates(o) : b <= a}
       ELSE {m} \cap Candidates(o)]]

Stores ==
  [m \in 0..N |-> [o \in Ops |->
     {NoBackend} \cup
       IF m = AutoMode
       THEN {b \in Candidates(o) :
               \A a \in Candidates(o) : a < b => Priority[b] < Priority[a]}
       ELSE {m} \cap Candidates(o)]]

\* What thread t reads from location l.
Sees(t, l, b) ==
  IF pending[t][l] = {} THEN b = slots[l]
  ELSE b \in pending[t][l] /\ \A a \in pending[t][l] : a <= b

(***************************************************************************)
(* b is the route of operation o under selection m: the best available     *)
(* backend that provides it, by priority and order of backends.def, or the *)
(* selected backend, or none.                                              *)
(***************************************************************************)
Better(a, b) ==
  \/ Priority[a] < Priority[b]
  \/ Priority[a] = Priority[b] /\ a < b

Routed(b, m, o) ==
  LET offered == IF m = AutoMode THEN Candidates(o) ELSE {m} \cap Candidates(o)
  IN  \/ offered = {} /\ b = NoBackend
      \/ b \in offered /\ \A a \in offered \ {b} : Better(b, a)

\* The pointer in the slot of o if it was stored for backend b.
KernelOf(b, o) ==
  IF b \in Backends /\ Provides(Tables[b], o)
  THEN SlotOf(b, Tables[b], o).invoke ELSE NoKernel

\* The signature in a slot whose signature was stored for backend b.
SignatureOf(b, o) ==
  IF b = NoBackend THEN NoSignature ELSE SlotOf(b, Tables[b], o).signature

Drained(t) == pending[t] = NoStores /\ t \notin flagging

Building(t) == pc[t] = "building"

(***************************************************************************)
(* The contract of the comment: initialization is complete before there    *)
(* are concurrent dispatches, and no selection runs beside anything else.  *)
(***************************************************************************)
\* Faulty variant: a selection does not wait for the dispatches under way.
MaySelectBesideCalls(t) ==
  Serialised => \A u \in Threads \ {t} : ~Building(u) /\ Drained(u)

MaySelect(t) ==
  Serialised => \A u \in Threads \ {t} : pc[u] = "idle" /\ Drained(u)

\* Faulty variant: a dispatch may begin as soon as the flag is set.
MayDispatchOnceFlagged(t) ==
  Serialised =>
    \A u \in Threads \ {t} : pc[u] = "idle" \/ (initialized /\ ~Building(u))

MayDispatch(t) ==
  Serialised =>
    \A u \in Threads \ {t} :
      /\ Drained(u)
      /\ pc[u] = "idle" \/ (initialized /\ ~Building(u))

-----------------------------------------------------------------------------

Init ==
  /\ mode = AutoMode
  /\ initialized = Ready
  /\ slots \in [Locations -> 0..N]
  /\ \A l \in Locations :
       IF Ready THEN Routed(slots[l], AutoMode, l[1])
                ELSE slots[l] = NoBackend
  /\ pending = [t \in Threads |-> NoStores]
  /\ flagging = {}
  /\ pc = [t \in Threads |-> "idle"]
  /\ wants = [t \in Threads |-> AutoMode]
  /\ op = [t \in Threads |-> NumOps]
  /\ seen = [t \in Threads |-> NoKernel]
  /\ last = NoResult

\* sd_build_auto_slots or sd_build_backend_slots on sd_active_slots.  The
\* stores of an earlier build by the same thread have all become visible.
Build(t, m) ==
  /\ Drained(t)
  /\ mode' = m
  /\ wants' = [wants EXCEPT ![t] = m]
  /\ pending' = [pending EXCEPT ![t] = [l \in Locations |-> Stores[m][l[1]]]]
  /\ pc' = [pc EXCEPT ![t] = "building"]
  /\ last' = NoResult
  /\ UNCHANGED <<slots, initialized, flagging, seen>>

\* sd_set_backend("auto"), or of a backend that is available.
Select(t, m) ==
  /\ t \in Selectors
  /\ pc[t] = "idle"
  /\ MaySelect(t)
  /\ Build(t, m)
  /\ UNCHANGED op

\* sd_dispatch_invoke finds the engine not initialized and does that first.
LazyInit(t, o) ==
  /\ pc[t] = "idle"
  /\ MayDispatch(t)
  /\ ~(initialized \/ t \in flagging)
  /\ Build(t, AutoMode)
  /\ op' = [op EXCEPT ![t] = o]

Dispatch(t, o) ==
  /\ pc[t] = "idle"
  /\ MayDispatch(t)
  /\ (initialized \/ t \in flagging)
  /\ pc' = [pc EXCEPT ![t] = "check"]
  /\ op' = [op EXCEPT ![t] = o]
  /\ last' = NoResult
  /\ UNCHANGED <<memory, mode, wants, seen>>

\* The store to sd_dispatch_initialized that ends sd_resolve_auto and
\* sd_resolve_backend; a dispatch that initialized goes on.
Finish(t) ==
  /\ Building(t)
  /\ wants[t] # AutoMode =>
       \E o \in Ops, b \in Available : Sees(t, <<o, "invoke">>, b)
  /\ flagging' = flagging \cup {t}
  /\ wants' = [wants EXCEPT ![t] = AutoMode]
  /\ pc' = [pc EXCEPT ![t] = IF op[t] \in Ops THEN "check" ELSE "idle"]
  /\ UNCHANGED <<slots, initialized, pending, mode, op, seen, last>>

\* sd_resolve_backend counts no kernel in the table, because another thread
\* cleared it, and raises.
FinishFails(t) ==
  /\ Building(t)
  /\ wants[t] # AutoMode
  /\ \A o \in Ops : Sees(t, <<o, "invoke">>, NoBackend)
  /\ pc' = [pc EXCEPT ![t] = "idle"]
  /\ wants' = [wants EXCEPT ![t] = AutoMode]
  /\ UNCHANGED <<memory, mode, op, seen, last>>

\* One more store of t to l is visible to all threads.
BecomesVisible(t, l) ==
  \E b \in pending[t][l] :
    /\ \A a \in pending[t][l] : b <= a
    /\ slots' = [slots EXCEPT ![l] = b]
    /\ pending' = [pending EXCEPT ![t][l] = @ \ {b}]
    /\ UNCHANGED <<initialized, flagging, mode, thread, last>>

FlagBecomesVisible(t) ==
  /\ t \in flagging
  /\ initialized' = TRUE
  /\ flagging' = flagging \ {t}
  /\ UNCHANGED <<slots, pending, mode, thread, last>>

\* The call of t ends; k is the kernel it ran.
End(t, kind, k) ==
  /\ pc' = [pc EXCEPT ![t] = "idle"]
  /\ last' = Result(kind, op[t], k)
  /\ op' = [op EXCEPT ![t] = NumOps]
  /\ seen' = [seen EXCEPT ![t] = NoKernel]
  /\ UNCHANGED <<memory, mode, wants>>

\* Faulty variant: the pointer that was checked is kept in a static.
CheckKernelStatic(t) ==
  /\ pc[t] = "check"
  /\ \E b \in 0..N :
       LET k == KernelOf(b, op[t]) IN
       /\ Sees(t, <<op[t], "invoke">>, b)
       /\ \/ /\ k = NoKernel
             /\ End(t, "unavailable", NoKernel)
          \/ /\ k # NoKernel
             /\ seen' = [u \in Threads |-> k]
             /\ pc' = [pc EXCEPT ![t] = "compare"]
             /\ UNCHANGED <<memory, mode, wants, op, last>>

\* sd_resolved_slots_has_operation
CheckKernel(t) ==
  /\ pc[t] = "check"
  /\ \E b \in 0..N :
       LET k == KernelOf(b, op[t]) IN
       /\ Sees(t, <<op[t], "invoke">>, b)
       /\ \/ /\ k = NoKernel
             /\ End(t, "unavailable", NoKernel)
          \/ /\ k # NoKernel
             /\ seen' = [seen EXCEPT ![t] = k]
             /\ pc' = [pc EXCEPT ![t] = "compare"]
             /\ UNCHANGED <<memory, mode, wants, op, last>>

\* The frame and the signature are those of the operation: the callers pass
\* both as constants.
CompareSignature(t) ==
  /\ pc[t] = "compare"
  /\ \E b \in 0..N :
       /\ Sees(t, <<op[t], "signature">>, b)
       /\ \/ /\ SignatureOf(b, op[t]) # OpSig[op[t]]
             /\ End(t, "mismatch", NoKernel)
          \/ /\ SignatureOf(b, op[t]) = OpSig[op[t]]
             /\ pc' = [pc EXCEPT ![t] = "call"]
             /\ UNCHANGED <<memory, mode, wants, op, seen, last>>

\* The pointer is read again, unless the compiler kept the one it checked.
RunKernel(t) ==
  /\ pc[t] = "call"
  /\ \/ End(t, "ran", seen[t])
     \/ \E b \in 0..N :
          LET k == KernelOf(b, op[t]) IN
          /\ Sees(t, <<op[t], "invoke">>, b)
          /\ End(t, IF k = NoKernel THEN "crashed" ELSE "ran", k)

Step(t) ==
  \/ Finish(t) \/ FinishFails(t)
  \/ CheckKernel(t) \/ CompareSignature(t) \/ RunKernel(t)

Call(t) ==
  \/ \E m \in {AutoMode} \cup Available : Select(t, m)
  \/ \E o \in Ops : LazyInit(t, o) \/ Dispatch(t, o)

Memory(t) == FlagBecomesVisible(t) \/ \E l \in Locations : BecomesVisible(t, l)

\* A jump to NULL ends the process.
Crashed == last.kind = "crashed" /\ UNCHANGED vars

Next ==
  \/ /\ last.kind # "crashed"
     /\ \E t \in Threads : Call(t) \/ Step(t) \/ Memory(t)
  \/ Crashed

Spec == Init /\ [][Next]_vars

\* Stores reach the memory, and a thread that is in a call goes on.
FairSpec == Spec /\ \A t \in Threads : WF_vars(Step(t)) /\ WF_vars(Memory(t))

-----------------------------------------------------------------------------

TypeOK ==
  /\ slots \in [Locations -> 0..N]
  /\ initialized \in BOOLEAN
  /\ mode \in 0..N
  /\ wants \in [Threads -> 0..N]
  /\ pending \in [Threads -> [Locations -> SUBSET (0..N)]]
  /\ flagging \subseteq Threads
  /\ pc \in [Threads -> {"idle", "building", "check", "compare", "call"}]
  /\ op \in [Threads -> 0..NumOps]
  /\ \A t \in Threads : pc[t] \in {"check", "compare", "call"} => op[t] \in Ops
  /\ seen \in [Threads -> Kernels]
  /\ last \in Results

(***************************************************************************)
(* However the threads race, also where the caller breaks the contract:    *)
(* the kernel that runs is in the table of an available backend, is there  *)
(* for the operation the dispatch was asked for, and takes its frame.  A   *)
(* torn slot mixes two backends, and a call under way meets a rebuild, but *)
(* no dispatch runs the kernel of another one.                             *)
(***************************************************************************)
FrameHolds ==
  last.kind = "ran" =>
    LET row == Tables[last.kernel[1]][last.kernel[2]]
    IN  /\ last.kernel[1] \in Available
        /\ row.operation = last.op
        /\ row.signature = OpSig[last.op]

(***************************************************************************)
(* Under the contract, a dispatch never jumps to NULL after it has checked *)
(* the pointer and never finds a signature that is not that of the kernel. *)
(***************************************************************************)
NeverTorn == Serialised => last.kind \notin {"crashed", "mismatch"}

(***************************************************************************)
(* Under the contract, a dispatch runs what the last selection decided for *)
(* its operation, and says that there is nothing only if it decided that.  *)
(***************************************************************************)
FollowsSelection ==
  Serialised /\ last.kind \in {"ran", "unavailable"} =>
    Routed(last.kernel[1], mode, last.op)

(***************************************************************************)
(* Under the contract a selection or an initialization takes effect in the *)
(* end: the table, as every thread sees it, becomes the one it decided,    *)
(* all fields of a slot from one backend, unless another selection is      *)
(* begun.                                                                  *)
(***************************************************************************)
\* Some build has ended, or a backend was asked for.
Selected == initialized \/ flagging # {} \/ mode # AutoMode

Whole(m) == \A l \in Locations : Routed(slots[l], m, l[1])

SelectionTakesEffect ==
  \A m \in {AutoMode} \cup Available :
    mode = m /\ Selected ~> mode # m \/ Whole(m)

-----------------------------------------------------------------------------
(***************************************************************************)
(* Under the contract the threads together implement what a single client  *)
(* is promised.                                                            *)
(***************************************************************************)
Resolving == \E t \in Threads : Building(t) /\ wants[t] = AutoMode

Offers == {p \in Available \X Ops : Provides(Tables[p[1]], p[2])}
Target == [m \in 0..N |-> [o \in Ops |-> CHOOSE b \in 0..N : Routed(b, m, o)]]

Route ==
  [o \in Ops |-> IF Selected /\ ~Resolving THEN Target[mode][o] ELSE NoBackend]

Phase ==
  IF Resolving THEN "resolving" ELSE IF Selected THEN "ready" ELSE "unresolved"

Ran == IF last.kind = "ran" THEN <<last.op, last.kernel[1]>> ELSE <<>>

Contract == INSTANCE DispatchContract WITH
  offers <- Offers, mode <- mode, route <- Route, phase <- Phase, ran <- Ran

ContractHolds == Contract!Spec

=============================================================================
