-------------------------- MODULE ConvolveKernels --------------------------
(***************************************************************************)
(* The convolution kernels (kernels/kernel_scalar.c, _avx2.c, _avx512.c,   *)
(* _neon.c, _wasm_simd128.c): clear the output, then add one row of        *)
(* products after another, in blocks with a tail.  They differ in the size *)
(* of the blocks only; the scalar kernel has blocks of one.                *)
(*                                                                         *)
(* Floating-point addition is not associative, so two kernels compute the  *)
(* same number for sure only if they add the same products in the same     *)
(* order.  A cell of the output is therefore the sequence of the products  *)
(* added to it since it was cleared, a product a[i] * b[j] being <<i, j>>. *)
(***************************************************************************)
EXTENDS Integers, Sequences

CONSTANTS
  Kernels,   \* the backends with a convolution kernel
  ZeroStep,  \* kernel -> cells cleared by one store
  MulStep,   \* kernel -> cells updated by one store
  LengthsA,  \* lengths of the two inputs
  LengthsB

ASSUME KernelAssumption ==
  /\ ZeroStep \in [Kernels -> Nat \ {0}]
  /\ MulStep \in [Kernels -> Nat \ {0}]

ASSUME LengthAssumption == LengthsA \subseteq Nat /\ LengthsB \subseteq Nat

VARIABLES
  kernel, na, nb,  \* the call
  pc,              \* "entry", "zero", "rows" or "done"
  k,               \* cells cleared so far
  i, j,            \* the row, and the products of it added so far
  out,             \* cell -> products added since it was cleared
  stray            \* history: something beyond b or out was accessed

call == <<kernel, na, nb>>
vars == <<call, pc, k, i, j, out, stray>>

nab == na + nb - 1

Cells == IF na = 0 \/ nb = 0 THEN {} ELSE 0..(nab - 1)

\* What the output buffer holds when it is handed over.
Junk == <<-1, -1>>

-----------------------------------------------------------------------------

Init ==
  /\ kernel \in Kernels
  /\ na \in LengthsA
  /\ nb \in LengthsB
  /\ pc = "entry"
  /\ k = 0
  /\ i = 0
  /\ j = 0
  /\ out = [x \in Cells |-> <<Junk>>]
  /\ stray = FALSE

ReturnEarly ==
  /\ pc = "entry"
  /\ na = 0 \/ nb = 0
  /\ pc' = "done"
  /\ UNCHANGED <<call, k, i, j, out, stray>>

Begin ==
  /\ pc = "entry"
  /\ na # 0 /\ nb # 0
  /\ pc' = "zero"
  /\ UNCHANGED <<call, k, i, j, out, stray>>

\* One store that clears width cells.
Clear(width) ==
  /\ out' = [x \in Cells |-> IF x \in k..(k + width - 1) THEN <<>> ELSE out[x]]
  /\ stray' = (stray \/ k + width > nab)
  /\ k' = k + width
  /\ UNCHANGED <<call, pc, i, j>>

ZeroBlock ==
  /\ pc = "zero"
  /\ k + ZeroStep[kernel] <= nab
  /\ Clear(ZeroStep[kernel])

\* Faulty variant: the cell is not counted.
ZeroTailStuck ==
  /\ pc = "zero"
  /\ k + ZeroStep[kernel] > nab
  /\ k < nab
  /\ out' = [out EXCEPT ![k] = <<>>]
  /\ UNCHANGED <<call, pc, k, i, j, stray>>

ZeroTail ==
  /\ pc = "zero"
  /\ k + ZeroStep[kernel] > nab
  /\ k < nab
  /\ Clear(1)

\* Faulty variant: the tail is not cleared.
StartRowsNoTail ==
  /\ pc = "zero"
  /\ k + ZeroStep[kernel] > nab
  /\ pc' = "rows"
  /\ UNCHANGED <<call, k, i, j, out, stray>>

StartRows ==
  /\ pc = "zero"
  /\ k >= nab
  /\ pc' = "rows"
  /\ UNCHANGED <<call, k, i, j, out, stray>>

\* Load width elements of b and of the output, multiply, add and store.
MulAdd(width) ==
  /\ out' = [x \in Cells |-> IF x \in (i + j)..(i + j + width - 1)
                             THEN Append(out[x], <<i, x - i>>)
                             ELSE out[x]]
  /\ stray' = (stray \/ j + width > nb \/ i + j + width > nab)
  /\ j' = j + width
  /\ UNCHANGED <<call, pc, k, i>>

\* Faulty variant: the last block may reach beyond the row.
MulBlockToEnd ==
  /\ pc = "rows"
  /\ i < na
  /\ j < nb
  /\ MulAdd(MulStep[kernel])

MulBlock ==
  /\ pc = "rows"
  /\ i < na
  /\ j + MulStep[kernel] <= nb
  /\ MulAdd(MulStep[kernel])

MulTail ==
  /\ pc = "rows"
  /\ i < na
  /\ j + MulStep[kernel] > nb
  /\ j < nb
  /\ MulAdd(1)

NextRow ==
  /\ pc = "rows"
  /\ i < na
  /\ j >= nb
  /\ i' = i + 1
  /\ j' = 0
  /\ UNCHANGED <<call, pc, k, out, stray>>

Return ==
  /\ pc = "rows"
  /\ i = na
  /\ pc' = "done"
  /\ UNCHANGED <<call, k, i, j, out, stray>>

Next ==
  \/ ReturnEarly \/ Begin
  \/ ZeroBlock \/ ZeroTail \/ StartRows
  \/ MulBlock \/ MulTail \/ NextRow \/ Return

Spec == Init /\ [][Next]_vars

-----------------------------------------------------------------------------

\* The first row with a product for cell x.
FirstRow(x) == IF x < nb THEN 0 ELSE x - nb + 1

\* The products of the first r rows that go to cell x, in the order of rows.
Products(x, r) ==
  LET last == IF r <= x THEN r ELSE x + 1 IN
    [t \in 1..(last - FirstRow(x)) |->
      <<FirstRow(x) + t - 1, x - (FirstRow(x) + t - 1)>>]

TypeOK ==
  /\ kernel \in Kernels /\ na \in Nat /\ nb \in Nat
  /\ pc \in {"entry", "zero", "rows", "done"}
  /\ k \in 0..(na + nb)
  /\ i \in 0..na
  /\ j \in 0..nb
  /\ DOMAIN out = Cells
  /\ stray \in BOOLEAN

(***************************************************************************)
(* No kernel reads or writes beyond the end of the second input or of the  *)
(* output, whatever the two lengths are relative to its blocks.            *)
(***************************************************************************)
InBounds == ~stray

(***************************************************************************)
(* A finished kernel, whatever its blocks, has added to each cell exactly  *)
(* the products that belong to it, each once, in the order in which the    *)
(* scalar kernel adds them, to a cell it had cleared.                      *)
(***************************************************************************)
SumsLikeScalar ==
  pc = "done" => \A x \in Cells : out[x] = Products(x, na)

=============================================================================
