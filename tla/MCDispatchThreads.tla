------------------------- MODULE MCDispatchThreads -------------------------
(***************************************************************************)
(* Small instances of DispatchThreads.  The scalar backend has both        *)
(* operations, the third the first of them with a better priority, and the *)
(* second, the best of all, is not available.                              *)
(***************************************************************************)
EXTENDS DispatchThreads, TLC

MCOpSig == (0 :> 1) @@ (1 :> 2)

MCPriority == <<70, 20, 40>>

MCRow(o, sig) == [operation |-> o, signature |-> sig, invoke |-> TRUE]

MCTables == <<<<MCRow(0, 1), MCRow(1, 2)>>,
              <<MCRow(1, 2), MCRow(0, 1)>>,
              <<MCRow(0, 1)>>>>

MCAvailable == {1, 3}

-----------------------------------------------------------------------------
(***************************************************************************)
(* Where the caller keeps no contract the slots can be in very many        *)
(* states.  There the stores of a thread become visible in the order of    *)
(* the program: memset over all slots, then the fields of one slot after   *)
(* the other for each backend in turn, and the flag at the end.            *)
(***************************************************************************)
MCStoreOrder ==
  <<<<0, "invoke">>, <<0, "signature">>, <<1, "invoke">>, <<1, "signature">>>>

\* What becomes visible of t in this step is the first of its stores.
FirstStore(t) ==
  \E i \in DOMAIN MCStoreOrder :
    \E b \in pending[t][MCStoreOrder[i]] \ pending'[t][MCStoreOrder[i]] :
      \A j \in DOMAIN MCStoreOrder : \A a \in pending[t][MCStoreOrder[j]] :
        b < a \/ (b = a /\ i <= j)

MCProgramOrder ==
  \A t \in Threads :
    /\ pending[t] # NoStores /\ pending'[t] # pending[t] => FirstStore(t)
    /\ t \in flagging /\ t \notin flagging' => pending[t] = NoStores

=============================================================================
