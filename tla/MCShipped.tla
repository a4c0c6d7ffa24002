----------------------------- MODULE MCShipped ------------------------------
(***************************************************************************)
(* The catalog that the package ships: the rows and priorities of          *)
(* backends.def, the two operations, and the tables of the kernel_*.c      *)
(* files.  Every build for a family of processors (the set of backends its *)
(* compiler accepted) meets every processor of that family.                *)
(***************************************************************************)
EXTENDS SimdDispatch, TLC

\* SdOperation and SdKernelSignature
COUNT_NONZERO == 0
CONVOLVE1D    == 1
RAW_COUNT     == 1
F64_CONVOLVE  == 2

\* backends.def
SSE2         == 2
SSE41        == 3
AVX2         == 4
AVX512       == 5
NEON         == 6
WASM_SIMD128 == 7

MCOpSig == (COUNT_NONZERO :> RAW_COUNT) @@ (CONVOLVE1D :> F64_CONVOLVE)

MCPriority == <<70, 40, 30, 20, 10, 50, 60>>

CountRow ==
  [operation |-> COUNT_NONZERO, signature |-> RAW_COUNT, invoke |-> TRUE]
ConvolveRow ==
  [operation |-> CONVOLVE1D, signature |-> F64_CONVOLVE, invoke |-> TRUE]

\* The SSE kernels count and do not convolve.
ShippedTable(b) == IF b \in {SSE2, SSE41} THEN <<CountRow>>
                                          ELSE <<CountRow, ConvolveRow>>

MCTables == {ShippedTable(b) : b \in Backends}

\* Families of processors, each in the order in which it grew: x86, ARM, a
\* WebAssembly runtime.
Families == {<<SSE2, SSE41, AVX2, AVX512>>, <<NEON>>, <<WASM_SIMD128>>}

\* The n oldest members of a family; every processor runs the scalar code.
Generation(f, n) == {Scalar} \cup {f[i] : i \in 1..n}

ShippedInit ==
  /\ tables = [b \in Backends |-> ShippedTable(b)]
  /\ \E f \in Families :
       /\ supported \in {Generation(f, n) : n \in 0..Len(f)}
       /\ compiled \in {{Scalar} \cup s : s \in SUBSET Generation(f, Len(f))}
  /\ Init

ShippedSpec == ShippedInit /\ [][Next]_vars

-----------------------------------------------------------------------------

\* No available backend has a smaller priority value.
Fastest(b) == b \in Available /\ \A a \in Available : Priority[b] <= Priority[a]

(***************************************************************************)
(* What automatic selection comes to in the package as shipped: everything *)
(* on the fastest available backend, except that where that is an SSE      *)
(* backend it only counts, and the scalar code convolves ("mixed").        *)
(***************************************************************************)
AutoOnShippedCatalog ==
  pc = "idle" /\ initialized /\ requested = AutoMode =>
    \A b \in Available : Fastest(b) =>
      /\ slots[COUNT_NONZERO].backend = b
      /\ slots[CONVOLVE1D].backend = IF b \in {SSE2, SSE41} THEN Scalar ELSE b
      /\ selected = IF b \in {SSE2, SSE41} THEN Mixed ELSE Name(b)

(***************************************************************************)
(* In the shipped catalog every operation the API offers can be invoked    *)
(* under automatic selection on every build and every machine: the only    *)
(* invocations that fail are refused calls, frames of another signature,   *)
(* and convolutions while an SSE backend is asked for by name.             *)
(***************************************************************************)
OnlySseCannotConvolve ==
  pc = "idle" /\ initialized =>
    \A op \in Ops : ~Resolved(slots, op) =>
      op = CONVOLVE1D /\ requested \in {SSE2, SSE41} /\ selected = Partial(requested)

=============================================================================
