-------------------------------- MODULE RApi --------------------------------
(***************************************************************************)
(* The package as R sees it: R_init loads it, the .Call entry points of    *)
(* r_api.c drive the engine of SimdDispatch.                               *)
(*                                                                         *)
(* R has one thread, and all the same calls interleave: an entry point     *)
(* that allocates may start a garbage collection, and with it finalizers,  *)
(* R functions that may call this package.  Such a call runs to its end    *)
(* before the entry point goes on, and its errors end there.  The engine   *)
(* itself allocates nothing.  simd_info allocates between all its reads;   *)
(* it is the call that can be found in the middle here.                    *)
(*                                                                         *)
(* The checks of argument types have no effect on the engine and are left  *)
(* out, as are the fields of simd_info that never change.                  *)
(***************************************************************************)
EXTENDS SimdDispatch, FiniteSets

CONSTANT XLenMax \* R_XLEN_T_MAX, and the largest R_xlen_t where that is 32 bits
ASSUME XLenAssumption == XLenMax \in Nat \ {0}

\* operations.def
CountNonzero == 0
Convolve1d   == 1
ASSUME OperationsAssumption == {CountNonzero, Convolve1d} \subseteq Ops

VARIABLES
  loading,   \* how far R_init is
  at,        \* the field simd_info fills next, "none" while it does not run
  operation, \* its loop variable i
  counted,   \* n, the length of the vector it fills, or NotCounted
  answer,    \* the list it fills
  moved,     \* history: whether a selection went ahead since it began
  shape      \* the lengths and the end of the last call, if of RC_convolve1d

info  == <<at, operation, counted, answer, moved>>
rvars == <<loading, info, shape>>

NotCounted == N + 1

NoAnswer == [requested |-> AutoMode, selected |-> Uninitialized,
             available |-> {}, providers |-> [o \in Ops |-> {}],
             route |-> [o \in Ops |-> NoBackend]]

Shape(end, na, nb, nab) == [end |-> end, na |-> na, nb |-> nb, nab |-> nab]
NoShape == Shape("none", 0, 0, 0)

RInit ==
  /\ Init
  /\ loading = "library"
  /\ at = "none"
  /\ operation = 0
  /\ counted = NotCounted
  /\ answer = NoAnswer
  /\ moved = FALSE
  /\ shape = NoShape

-----------------------------------------------------------------------------
(***************************************************************************)
(* R_init: first the handler, then the selection.  After an error loading  *)
(* fails; the next attempt may find the library, with its globals, still   *)
(* mapped.                                                                 *)
(***************************************************************************)

\* Faulty variant: the handler is left for later.
LoadHandlerLater ==
  /\ loading = "library"
  /\ SetErrorHandler("abort")
  /\ loading' = "select"
  /\ UNCHANGED <<info, shape>>

LoadHandler ==
  /\ loading = "library"
  /\ SetErrorHandler("longjmp")
  /\ loading' = "select"
  /\ UNCHANGED <<info, shape>>

\* Faulty variant: sd_set_backend("auto") would do.
LoadSelectAuto ==
  /\ loading = "select"
  /\ SetAuto
  /\ loading' = "register"
  /\ UNCHANGED <<info, shape>>

LoadSelect ==
  /\ loading = "select"
  /\ Enter(Call("init"))
  /\ loading' = "register"
  /\ UNCHANGED <<info, shape>>

LoadEnds ==
  /\ loading = "register"
  /\ pc = "idle"
  /\ loading' = IF outcome = Error THEN "failed" ELSE "loaded"
  /\ UNCHANGED <<vars, info, shape>>

LoadAgain ==
  /\ loading = "failed"
  /\ loading' = "library"
  /\ UNCHANGED <<vars, info, shape>>

-----------------------------------------------------------------------------
(***************************************************************************)
(* Calls from R, by a user or, while simd_info runs, by a finalizer.       *)
(***************************************************************************)
RC_simd_set_backend ==
  /\ loading = "loaded"
  /\ \/ /\ \E b \in 0..N : SetRefused(b)
        /\ UNCHANGED moved
     \/ /\ SetAuto \/ \E b \in Backends : SetBackend(b) \/ SetBackendFails(b)
        /\ moved' = TRUE
  /\ shape' = NoShape
  /\ UNCHANGED <<loading, at, operation, counted, answer>>

RC_simd_backend ==
  /\ loading = "loaded"
  /\ Enter(Call("selected"))
  /\ shape' = NoShape
  /\ UNCHANGED <<loading, info>>

RC_count_nonzero ==
  /\ loading = "loaded"
  /\ Enter(CallInvoke(CountNonzero, OpSig[CountNonzero]))
  /\ shape' = NoShape
  /\ UNCHANGED <<loading, info>>

\* R_xlen_t arithmetic.
Wrapped(n) == IF n > XLenMax THEN n - 2 * (XLenMax + 1) ELSE n

\* Faulty variant: the output is taken to have na + nb cells.
TooLongByOne(na, nb) == na > Wrapped(XLenMax - nb)

TooLong(na, nb) == na > Wrapped(XLenMax - nb + 1)

RC_convolve1d(na, nb) ==
  /\ loading = "loaded"
  /\ pc = "idle"
  /\ \/ /\ na = 0 \/ nb = 0
        /\ shape' = Shape("empty", na, nb, 0)
        /\ UNCHANGED vars
     \/ /\ na > 0 /\ nb > 0 /\ TooLong(na, nb)
        /\ shape' = Shape("refused", na, nb, 0)
        /\ UNCHANGED vars
     \/ /\ na > 0 /\ nb > 0 /\ ~TooLong(na, nb)
        /\ shape' = Shape("dispatched", na, nb, Wrapped(na + nb - 1))
        /\ Enter(CallInvoke(Convolve1d, OpSig[Convolve1d]))
  /\ UNCHANGED <<loading, info>>

-----------------------------------------------------------------------------
(***************************************************************************)
(* RC_simd_info.  Each step but the first is one that a call may precede.  *)
(***************************************************************************)
InfoBegins ==
  /\ loading = "loaded" /\ pc = "idle" /\ at = "none"
  /\ at' = "init"
  /\ answer' = NoAnswer
  /\ moved' = FALSE
  /\ UNCHANGED <<vars, loading, operation, counted, shape>>

InfoInitializes ==
  /\ at = "init"
  /\ Enter(Call("init"))
  /\ at' = "requested"
  /\ shape' = NoShape
  /\ UNCHANGED <<loading, operation, counted, answer, moved>>

\* It goes on where no call of a finalizer is under way.
Reads(field) ==
  /\ at = field
  /\ pc = "idle"
  /\ UNCHANGED <<vars, loading, moved, shape>>

ReadRequested ==
  /\ Reads("requested")
  /\ answer' = [answer EXCEPT !.requested = requested]
  /\ at' = "selected"
  /\ UNCHANGED <<operation, counted>>

ReadSelected ==
  /\ Reads("selected")
  /\ answer' = [answer EXCEPT !.selected = selected]
  /\ at' = "available"
  /\ UNCHANGED <<operation, counted>>

\* sd_backend_operation_available, with the matrix there
Offers(b, o) == b \in Available /\ <<b, o>> \in matrix

\* The members of the vector that is filled next.
Members ==
  IF at = "available" THEN Available ELSE {b \in Backends : Offers(b, operation)}

\* The first loop counts, then the vector is allocated.
CountMembers ==
  /\ Reads("available") \/ Reads("providers")
  /\ counted = NotCounted
  /\ counted' = Cardinality(Members)
  /\ UNCHANGED <<at, operation, answer>>

\* The next operation, or the next field.
NextOperation(field) ==
  IF operation + 1 \in Ops
  THEN operation' = operation + 1 /\ UNCHANGED at
  ELSE operation' = 0 /\ at' = field

\* The second loop fills the vector, with an allocation for every name.
FillAvailable ==
  /\ Reads("available")
  /\ counted # NotCounted
  /\ counted' = NotCounted
  /\ answer' = [answer EXCEPT !.available = Members]
  /\ at' = "providers"
  /\ UNCHANGED operation

FillProviders ==
  /\ Reads("providers")
  /\ counted # NotCounted
  /\ counted' = NotCounted
  /\ answer' = [answer EXCEPT !.providers[operation] = Members]
  /\ NextOperation("route")

\* Faulty variant: the requested backend is reported where there is one.
ReadRouteRequested ==
  /\ Reads("route")
  /\ answer' = [answer EXCEPT !.route[operation] =
                  IF requested = AutoMode THEN slots[operation].backend
                                          ELSE requested]
  /\ NextOperation("none")
  /\ UNCHANGED counted

ReadRoute ==
  /\ Reads("route")
  /\ answer' = [answer EXCEPT !.route[operation] = slots[operation].backend]
  /\ NextOperation("none")
  /\ UNCHANGED counted

-----------------------------------------------------------------------------

RC_simd_info ==
  \/ InfoBegins \/ InfoInitializes
  \/ ReadRequested \/ ReadSelected \/ CountMembers
  \/ FillAvailable \/ FillProviders \/ ReadRoute

RNext ==
  \/ LoadHandler \/ LoadSelect \/ LoadEnds \/ LoadAgain
  \/ Internal /\ UNCHANGED rvars
  \/ RC_simd_set_backend \/ RC_simd_backend \/ RC_count_nonzero
  \/ \E na, nb \in 0..XLenMax : RC_convolve1d(na, nb)
  \/ RC_simd_info

RSpec == RInit /\ [][RNext]_<<vars, rvars>>

-----------------------------------------------------------------------------

(***************************************************************************)
(* No error of the engine ends the R process, not even one of a mis-wired  *)
(* backend while the package is loaded.                                    *)
(***************************************************************************)
NeverAborts == pc # "aborted"

(***************************************************************************)
(* In a package that is loaded, whatever is called, the engine stays       *)
(* initialized, raises R errors, answers for the availability of           *)
(* operations from the matrix and has a summary to report.                 *)
(***************************************************************************)
LoadedForGood ==
  loading = "loaded" =>
    /\ handler = "longjmp"
    /\ initialized /\ ready
    /\ selected # Uninitialized

(***************************************************************************)
(* Whatever finalizers call while simd_info runs: a vector has the length  *)
(* it was counted to have, and an operation is said to go to a backend     *)
(* that the same answer lists as providing it and as available.  If no     *)
(* finalizer made a selection, and no backend is mis-wired or empty, then  *)
(* the requested and the selected backend of the answer describe its       *)
(* operations, as they do in the engine.                                   *)
(***************************************************************************)
Answered(o) ==
  answer.route[o] # NoBackend =>
    answer.route[o] \in answer.providers[o] \cap answer.available

Described ==
  LET routed == {answer.route[o] : o \in Ops} IN
    CASE answer.selected.kind = "mixed"   ->
           answer.requested = AutoMode /\ Cardinality(routed) > 1
      [] answer.selected.kind = "partial" ->
           routed = {answer.requested, NoBackend}
      [] answer.selected.kind = "name"    ->
           /\ answer.requested \in {AutoMode, answer.selected.backend}
           /\ routed \subseteq {answer.selected.backend} \cup
                (IF answer.requested = AutoMode THEN {NoBackend} ELSE {})
      [] OTHER -> routed = {NoBackend}

InfoAgrees ==
  /\ counted # NotCounted => counted = Cardinality(Members)
  /\ \A o \in Ops : Answered(o)
  /\ at = "none" /\ answer # NoAnswer /\ ~moved /\ WellWired => Described

(***************************************************************************)
(* RC_convolve1d hands the kernels an output of na + nb - 1 cells exactly  *)
(* if neither input is empty and that number can be a length, and refuses  *)
(* only where it cannot; the test does not itself overflow.                *)
(***************************************************************************)
OutputFits ==
  CASE shape.end = "dispatched" ->
         /\ shape.na > 0 /\ shape.nb > 0
         /\ shape.nab = shape.na + shape.nb - 1 /\ shape.nab \in 1..XLenMax
    [] shape.end = "refused" -> shape.na + shape.nb - 1 > XLenMax
    [] shape.end = "empty"   -> shape.na = 0 \/ shape.nb = 0
    [] OTHER -> shape = NoShape

=============================================================================
