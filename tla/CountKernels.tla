---------------------------- MODULE CountKernels ----------------------------
(***************************************************************************)
(* The kernels that count non-zero bytes (kernels/kernel_*.c): a block at  *)
(* a time, the number of zero bytes found by a comparison being taken off  *)
(* the size of the block, then a tail byte by byte.  The scalar kernel has *)
(* blocks of one; the SSE4.1 kernel skips blocks that are zero throughout. *)
(* The names differ from those of ConvolveKernels so that MCKernels can    *)
(* extend both.                                                            *)
(***************************************************************************)
EXTENDS Integers, FiniteSets

CONSTANTS
  Counters, \* the backends
  Step,     \* kernel -> bytes per block
  Skips,    \* the kernels that test a block for zero first
  Inputs    \* buffers: their length, and the positions that are not zero

ASSUME CounterAssumption ==
  /\ Step \in [Counters -> Nat \ {0}]
  /\ Skips \subseteq Counters

ASSUME InputAssumption ==
  \A input \in Inputs :
    /\ input.n \in Nat
    /\ input.nonzero \subseteq 0..(input.n - 1)

VARIABLES
  counter, n, nonzero,  \* the call
  phase,                \* "blocks", "tail" or "done"
  at,                   \* bytes looked at so far
  acc,                  \* those of them that are not zero
  overran               \* history: a byte beyond the buffer was read

countCall == <<counter, n, nonzero>>
countVars == <<countCall, phase, at, acc, overran>>

\* The positions of a load of width bytes.
Loaded(width) == at..(at + width - 1)

-----------------------------------------------------------------------------

CountInit ==
  /\ counter \in Counters
  /\ \E input \in Inputs : n = input.n /\ nonzero = input.nonzero
  /\ phase = "blocks"
  /\ at = 0
  /\ acc = 0
  /\ overran = FALSE

\* Faulty variant: a block is loaded wherever a byte is left.
HasRoomToEnd(width) == at < n

HasRoom(width) == at + width <= n

Advance(width) ==
  /\ at' = at + width
  /\ overran' = (overran \/ ~(Loaded(width) \subseteq 0..(n - 1)))
  /\ UNCHANGED <<countCall, phase>>

\* simde_mm_testz_si128
SkipBlock ==
  /\ phase = "blocks"
  /\ HasRoom(Step[counter])
  /\ counter \in Skips
  /\ Loaded(Step[counter]) \cap nonzero = {}
  /\ Advance(Step[counter])
  /\ UNCHANGED acc

CountBlock ==
  /\ phase = "blocks"
  /\ HasRoom(Step[counter])
  /\ counter \in Skips => Loaded(Step[counter]) \cap nonzero # {}
  /\ acc' = acc + Step[counter] - Cardinality(Loaded(Step[counter]) \ nonzero)
  /\ Advance(Step[counter])

\* Faulty variant: what is left after the last block is forgotten.
StartTailAtEnd ==
  /\ phase = "blocks"
  /\ ~HasRoom(Step[counter])
  /\ phase' = "tail"
  /\ at' = n
  /\ UNCHANGED <<countCall, acc, overran>>

StartTail ==
  /\ phase = "blocks"
  /\ ~HasRoom(Step[counter])
  /\ phase' = "tail"
  /\ UNCHANGED <<countCall, at, acc, overran>>

CountByte ==
  /\ phase = "tail"
  /\ at < n
  /\ acc' = acc + (IF at \in nonzero THEN 1 ELSE 0)
  /\ Advance(1)

CountReturn ==
  /\ phase = "tail"
  /\ at >= n
  /\ phase' = "done"
  /\ UNCHANGED <<countCall, at, acc, overran>>

CountNext == SkipBlock \/ CountBlock \/ StartTail \/ CountByte \/ CountReturn

CountSpec == CountInit /\ [][CountNext]_countVars

-----------------------------------------------------------------------------

CountTypeOK ==
  /\ counter \in Counters
  /\ n \in Nat
  /\ nonzero \subseteq 0..(n - 1)
  /\ phase \in {"blocks", "tail", "done"}
  /\ at \in 0..n
  /\ acc \in 0..n
  /\ overran \in BOOLEAN

(***************************************************************************)
(* No byte beyond the buffer is read, whatever its length.                 *)
(***************************************************************************)
CountInBounds == ~overran

(***************************************************************************)
(* A finished kernel returns the number of non-zero bytes of the buffer,   *)
(* none lost or counted twice where blocks and tail meet.                  *)
(***************************************************************************)
CountsEveryByte == phase = "done" => acc = Cardinality(nonzero)

=============================================================================
