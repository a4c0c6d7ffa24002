------------------------------- MODULE MCRApi -------------------------------
(***************************************************************************)
(* The scalar backend and a better one, each with a table that is          *)
(* complete, partial, empty or mis-wired.                                  *)
(***************************************************************************)
EXTENDS RApi, TLC

MCOpSig == (CountNonzero :> 1) @@ (Convolve1d :> 2)

MCPriority == <<70, 20>>

MCRow(o, sig) == [operation |-> o, signature |-> sig, invoke |-> TRUE]

MCTables ==
  {<<MCRow(0, 1), MCRow(1, 2)>>, <<MCRow(0, 1)>>, <<>>,
   <<MCRow(0, 1), MCRow(1, 1)>>}

=============================================================================
