--------------------------- MODULE MCRegisterTable --------------------------
(***************************************************************************)
(* Three backends, two operations with different signatures, tables of     *)
(* at most MaxRows rows, all drawn from a set with a good row for each     *)
(* operation and one row for each of the four checks.                      *)
(***************************************************************************)
EXTENDS RegisterTable, TLC

CONSTANT MaxRows

MCOpSig == (0 :> 1) @@ (1 :> 2)

\* The second entry beats the first, the third ties with the second.
MCPriority == <<70, 20, 20>>

MCRow(op, sig, invoke) ==
  [operation |-> op, signature |-> sig, invoke |-> invoke]

MCRows == {MCRow(0, 1, TRUE), MCRow(1, 2, TRUE),  \* good
           MCRow(0, 1, FALSE),                    \* NULL invoke
           MCRow(2, 1, TRUE),                     \* unknown operation
           MCRow(0, 0, TRUE),                     \* SD_SIG_NONE
           MCRow(1, 1, TRUE)}                     \* wrong signature

MCTables == UNION {[1..n -> MCRows] : n \in 0..MaxRows}

=============================================================================
