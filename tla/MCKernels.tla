----------------------------- MODULE MCKernels -----------------------------
(***************************************************************************)
(* The kernels as shipped, with their block sizes in doubles or in bytes,  *)
(* on inputs whose lengths lie on both sides of every multiple of a block. *)
(* A behaviour is one call of one kernel, of either operation.             *)
(***************************************************************************)
EXTENDS ConvolveKernels, CountKernels, TLC

Scalar == [zero |-> 1, mul |-> 1]
Avx2   == [zero |-> 4, mul |-> 4]
Avx512 == [zero |-> 8, mul |-> 8]
Neon   == [zero |-> 1, mul |-> 2]
Wasm   == [zero |-> 2, mul |-> 2]

MCKernelSet == {Scalar, Avx2, Avx512, Neon, Wasm}

MCZeroStep == [s \in MCKernelSet |-> s.zero]

MCMulStep == [s \in MCKernelSet |-> s.mul]

MCLengthsA == 0..4

MCLengthsB == 0..18

\* Bytes per block.
MCStep ==
  "scalar" :> 1 @@ "sse2" :> 16 @@ "sse41" :> 16 @@ "avx2" :> 32 @@
  "avx512" :> 64 @@ "neon" :> 16 @@ "wasm_simd128" :> 16

MCCounters == DOMAIN MCStep

MCSkips == {"sse41"}

MCLengths == {0, 1, 15, 16, 17, 31, 32, 33, 47, 63, 64, 65, 128, 129}

Contents(len) ==
  LET all == 0..(len - 1) IN
    {{}, all} \cup {{p} : p \in all} \cup {all \ {p} : p \in all}

MCInputs ==
  UNION {{[n |-> len, nonzero |-> set] : set \in Contents(len)} :
          len \in MCLengths}

-----------------------------------------------------------------------------

NoConvolution ==
  /\ kernel = Scalar /\ na = 0 /\ nb = 0 /\ pc = "done"
  /\ k = 0 /\ i = 0 /\ j = 0
  /\ out = <<>> /\ stray = FALSE

NoCount ==
  /\ counter = "scalar" /\ n = 0 /\ nonzero = {} /\ phase = "done"
  /\ at = 0 /\ acc = 0 /\ overran = FALSE

CallInit == (Init /\ NoCount) \/ (CountInit /\ NoConvolution)

CallNext ==
  \/ Next /\ UNCHANGED countVars
  \/ CountNext /\ UNCHANGED vars

\* A kernel that runs goes on running.
CallSpec ==
  CallInit /\ [][CallNext]_<<vars, countVars>>
           /\ WF_<<vars, countVars>>(CallNext)

(***************************************************************************)
(* Every kernel returns, whatever its lengths are relative to its blocks.  *)
(***************************************************************************)
KernelReturns == <>(pc = "done" /\ phase = "done")

=============================================================================
