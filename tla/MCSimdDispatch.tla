--------------------------- MODULE MCSimdDispatch ---------------------------
(***************************************************************************)
(* Small catalogs for TLC.                                                 *)
(***************************************************************************)
EXTENDS SimdDispatch, TLC

\* Two operations with different call frames.
MCOpSig == (0 :> 1) @@ (1 :> 2)

\* Three entries after the pattern of backends.def: the second beats the
\* first, the third lies between them.
MCPriority == <<70, 20, 40>>

\* The third ties with the second.
MCTie == <<70, 20, 20>>

MCRow(op, sig, invoke) ==
  [operation |-> op, signature |-> sig, invoke |-> invoke]

Row0 == MCRow(0, 1, TRUE)
Row1 == MCRow(1, 2, TRUE)

\* Tables as backends have them, and as none should: empty, or with a bad
\* row after a good one.
MCAnyTables ==
  {<<Row0, Row1>>, <<Row0>>, <<>>, <<Row0, MCRow(1, 1, TRUE)>>}

\* A package whose backends all provide something, but not everything.
MCPartialTables == {<<Row0, Row1>>, <<Row0>>}

=============================================================================
