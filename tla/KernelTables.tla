---------------------------- MODULE KernelTables ----------------------------
(***************************************************************************)
(* The catalogs of the dispatch engine and the kernel tables the backends  *)
(* hand to it: backends.def, operations.def, signatures.def and the        *)
(* SdKernelDef rows of kernel_*.c.                                         *)
(*                                                                         *)
(* A backend is its position in backends.def, counted from 1 (the scalar   *)
(* backend); an operation is its SdOperation value, counted from 0; a      *)
(* signature is its SdKernelSignature value, 0 being SD_SIG_NONE.          *)
(***************************************************************************)
EXTENDS Integers, Sequences

CONSTANTS
  N,         \* number of rows of backends.def
  NumOps,    \* SD_OP_COUNT
  NumSigs,   \* number of rows of signatures.def
  OpSig,     \* operation -> its canonical signature (operations.def)
  Priority,  \* backend -> its priority (backends.def), smaller is better
  UintMax    \* UINT_MAX, the priority of an empty slot

Backends   == 1..N
Ops        == 0..(NumOps - 1)
Signatures == 1..NumSigs

NoBackend   == 0
Scalar      == 1
NoSignature == 0

ASSUME NAssumption       == N \in Nat \ {0}
ASSUME NumOpsAssumption  == NumOps \in Nat \ {0}
ASSUME NumSigsAssumption == NumSigs \in Nat
ASSUME OpSigAssumption   == OpSig \in [Ops -> Signatures]
ASSUME UintMaxAssumption == UintMax \in Nat
ASSUME PriorityAssumption == Priority \in [Backends -> 0..(UintMax - 1)]

(***************************************************************************)
(* One SdKernelDef.  The operation may be any enumerator, SD_OP_COUNT      *)
(* included; the function pointer only matters as NULL or not.  The row    *)
(* {SD_OP_COUNT, SD_SIG_NONE, NULL} is the sentinel that ends the array,   *)
(* so that a table is a sequence of rows none of which is the sentinel.    *)
(***************************************************************************)
KernelDef ==
  [operation : 0..NumOps, signature : 0..NumSigs, invoke : BOOLEAN]

Sentinel ==
  [operation |-> NumOps, signature |-> NoSignature, invoke |-> FALSE]

KernelTable == Seq(KernelDef \ {Sentinel})

\* sd_operation_expected_signature
ExpectedSignature(op) == IF op \in Ops THEN OpSig[op] ELSE NoSignature

\* The four checks of the validation pass on one row.
RowOK(row) ==
  /\ row.invoke
  /\ row.operation \in Ops
  /\ row.signature # NoSignature
  /\ row.signature = ExpectedSignature(row.operation)

TableOK(table) == \A i \in DOMAIN table : RowOK(table[i])

RowsFor(table, op) == {i \in DOMAIN table : table[i].operation = op}

Provides(table, op) == RowsFor(table, op) # {}

\* Equal priorities do not replace each other, so of two rows for one
\* operation the earlier one is installed.
FirstRow(table, op) ==
  CHOOSE i \in RowsFor(table, op) : \A j \in RowsFor(table, op) : i <= j

(***************************************************************************)
(* SdResolvedSlot.  A kernel function is identified by the backend whose   *)
(* table names it and the row that does.                                   *)
(***************************************************************************)
NoKernel == <<NoBackend, 0>>

EmptySlot ==
  [invoke |-> NoKernel, signature |-> NoSignature, backend |-> NoBackend]

EmptySlots == [op \in Ops |-> EmptySlot]

NoBest == [op \in Ops |-> UintMax]

Slot == [invoke    : {NoKernel} \cup (Backends \X (Nat \ {0})),
         signature : 0..NumSigs,
         backend   : 0..N]

\* What a backend puts into the slot of an operation its table provides.
SlotOf(b, table, op) ==
  LET i == FirstRow(table, op)
  IN  [invoke |-> <<b, i>>, signature |-> table[i].signature, backend |-> b]

Resolved(slots, op) == slots[op].invoke # NoKernel

(***************************************************************************)
(* The installation pass over a whole table that passed validation.        *)
(* RegisterTable has the pass row by row.                                  *)
(***************************************************************************)
\* Faulty variant: a later row of backends.def wins a tie.
WinsTies(b, table, best, op) ==
  Provides(table, op) /\ Priority[b] <= best[op]

\* Faulty variant: the first backend to register keeps the slot.
WinsOnce(b, table, best, op) ==
  Provides(table, op) /\ best[op] = UintMax

Wins(b, table, best, op) ==
  Provides(table, op) /\ Priority[b] < best[op]

InstallSlots(b, table, slots, best) ==
  [op \in Ops |-> IF Wins(b, table, best, op)
                  THEN SlotOf(b, table, op) ELSE slots[op]]

InstallBest(b, table, best) ==
  [op \in Ops |-> IF Wins(b, table, best, op)
                  THEN Priority[b] ELSE best[op]]

=============================================================================
