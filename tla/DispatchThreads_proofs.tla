----------------------- MODULE DispatchThreads_proofs -----------------------
(***************************************************************************)
(* Theorems about the globals under several threads, for every number of   *)
(* threads, every catalog, every set of available backends and every set   *)
(* of well-wired tables.                                                   *)
(*                                                                         *)
(* The first invariant needs no contract: every value that is in a slot,   *)
(* on its way there or in the hands of a thread was put there by an        *)
(* available backend that provides the operation of that slot.  The second *)
(* is about callers that keep the contract.                                *)
(***************************************************************************)
EXTENDS DispatchThreads, KernelTables_proofs

\* What a field of the slot of o may hold.
From(o) == {NoBackend} \cup Candidates(o)

LEMMA CandidatesType ==
  ASSUME NEW o
  PROVE  /\ Candidates(o) \subseteq 1..N
         /\ From(o) \subseteq 0..N
         /\ NoBackend \notin Candidates(o)
<1>1. 1..N \subseteq 0..N /\ 0 \in 0..N /\ 0 \notin 1..N
  BY NAssumption
<1>2. Candidates(o) \subseteq 1..N
  BY AvailableAssumption DEF Candidates, Backends
<1> QED BY <1>1, <1>2 DEF From, NoBackend

LEMMA StoresType ==
  ASSUME NEW m \in 0..N, NEW o \in Ops
  PROVE  /\ Stores[m][o] \subseteq From(o)
         /\ Stores[m][o] \in SUBSET (0..N)
         /\ NoBackend \in Stores[m][o]
<1> DEFINE beating == {b \in Candidates(o) :
                         \A a \in Candidates(o) :
                           a < b => Priority[b] < Priority[a]}
           stored == IF m = AutoMode THEN beating ELSE {m} \cap Candidates(o)
<1>1. Stores[m][o] = {NoBackend} \cup stored
  BY DEF Stores
<1>2. stored \subseteq Candidates(o)
  OBVIOUS
<1> HIDE DEF stored
<1> QED BY <1>1, <1>2, CandidatesType DEF From

\* What an available backend stores as the signature is that of the operation.
LEMMA SignatureRight ==
  ASSUME NEW o \in Ops, NEW b \in Candidates(o)
  PROVE  SignatureOf(b, o) = OpSig[o]
<1>1. b \in Backends /\ b # NoBackend /\ Provides(Tables[b], o)
  BY CandidatesType DEF Candidates, Backends
<1>2. Tables[b] \in KernelTable /\ TableOK(Tables[b])
  BY <1>1, WiredAssumption
<1> DEFINE i == FirstRow(Tables[b], o)
<1>3. i \in DOMAIN Tables[b] /\ Tables[b][i].operation = o
  BY <1>1, <1>2, FirstRowType
<1>4. Tables[b][i].signature = OpSig[o]
  BY <1>2, <1>3 DEF TableOK, RowOK, ExpectedSignature
<1> QED BY <1>1, <1>4 DEF SignatureOf, SlotOf

LEMMA KernelsType ==
  /\ NoKernel \in Kernels /\ NoKernel[1] = NoBackend
  /\ \A k \in Kernels : k[1] \in 0..N /\ (k # NoKernel => k[1] # NoBackend)
<1>1. \A k \in Backends \X (Nat \ {0}) : k[1] \in Backends
  OBVIOUS
<1>2. 0 \in 0..N /\ Backends \subseteq 0..N /\ 0 \notin Backends
  BY NAssumption DEF Backends
<1>3. NoKernel[1] = 0
  BY DEF NoKernel, NoBackend
<1>4. \A k \in Kernels :
        k = NoKernel \/ k \in Backends \X (Nat \ {0})
  BY DEF Kernels
<1>5. NoKernel \in Kernels
  BY DEF Kernels
<1> QED BY <1>1, <1>2, <1>3, <1>4, <1>5 DEF NoBackend

\* Whatever is stored, a pointer is NULL or names a row.
LEMMA KernelOfType ==
  ASSUME NEW b, NEW o
  PROVE  KernelOf(b, o) \in Kernels
<1>1. CASE b \in Backends /\ Provides(Tables[b], o)
  <2>1. Tables[b] \in KernelTable
    BY <1>1, WiredAssumption
  <2>2. /\ FirstRow(Tables[b], o) \in Nat \ {0}
        /\ SlotOf(b, Tables[b], o).invoke = <<b, FirstRow(Tables[b], o)>>
    BY <1>1, <2>1, FirstRowType, SlotOfType
  <2> QED BY <1>1, <2>2 DEF KernelOf, Kernels
<1>2. CASE ~(b \in Backends /\ Provides(Tables[b], o))
  BY <1>2 DEF KernelOf, Kernels
<1> QED BY <1>1, <1>2

\* Of the values a field may hold, only the zeros make the pointer NULL.
LEMMA KernelOfBackend ==
  ASSUME NEW o \in Ops, NEW b \in From(o)
  PROVE  /\ KernelOf(b, o)[1] = b
         /\ KernelOf(b, o) = NoKernel <=> b = NoBackend
<1>1. CASE b = NoBackend
  <2>1. NoBackend \notin Backends
    BY NAssumption DEF NoBackend, Backends
  <2> QED BY <1>1, <2>1, KernelsType DEF KernelOf
<1>2. CASE b \in Candidates(o)
  <2>1. b \in Backends /\ b # NoBackend /\ Provides(Tables[b], o)
    BY <1>2, CandidatesType DEF Candidates, Backends
  <2>2. KernelOf(b, o) = <<b, FirstRow(Tables[b], o)>>
    BY <2>1, WiredAssumption, SlotOfType DEF KernelOf
  <2> QED BY <2>1, <2>2, KernelsType
<1> QED BY <1>1, <1>2 DEF From

\* The row it names is for the operation and has its signature.
LEMMA KernelRight ==
  ASSUME NEW o \in Ops, NEW b \in Candidates(o)
  PROVE  LET k == KernelOf(b, o)
         IN  /\ k[1] \in Available
             /\ Tables[k[1]][k[2]].operation = o
             /\ Tables[k[1]][k[2]].signature = OpSig[o]
<1>1. b \in Backends /\ b \in Available /\ Provides(Tables[b], o)
  BY CandidatesType DEF Candidates, Backends
<1>2. Tables[b] \in KernelTable /\ TableOK(Tables[b])
  BY <1>1, WiredAssumption
<1> DEFINE i == FirstRow(Tables[b], o)
<1>3. i \in DOMAIN Tables[b] /\ Tables[b][i].operation = o
  BY <1>1, <1>2, FirstRowType
<1>4. Tables[b][i].signature = OpSig[o]
  BY <1>2, <1>3 DEF TableOK, RowOK, ExpectedSignature
<1>5. KernelOf(b, o) = <<b, i>>
  BY <1>1, <1>2, SlotOfType DEF KernelOf
<1> HIDE DEF i
<1> QED BY <1>1, <1>3, <1>4, <1>5

-----------------------------------------------------------------------------
(***************************************************************************)
(* Types.                                                                  *)
(***************************************************************************)

LEMMA InitTypeOK == Init => TypeOK
<1> SUFFICES ASSUME Init PROVE TypeOK
  OBVIOUS
<1>1. 0 \in 0..N /\ 0 \in Ops /\ NumOps \in 0..NumOps
  BY NAssumption, NumOpsAssumption DEF Ops
<1>2. NoResult \in Results
  BY <1>1, KernelsType DEF NoResult, Result, Results
<1> QED BY <1>1, <1>2, KernelsType, SerialisedAssumption
        DEF Init, TypeOK, AutoMode, NoStores, NoBackend

LEMMA BuildType ==
  ASSUME TypeOK, NEW t \in Threads, NEW m \in 0..N, Build(t, m)
  PROVE  /\ pending' \in [Threads -> [Locations -> SUBSET (0..N)]]
         /\ last' \in Results
         /\ mode' \in 0..N /\ wants' \in [Threads -> 0..N]
         /\ pc' \in [Threads -> {"idle", "building", "check", "compare", "call"}]
<1>1. \A l \in Locations : Stores[m][l[1]] \in SUBSET (0..N)
  BY StoresType DEF Locations
<1>2. NoResult \in Results
  BY NumOpsAssumption, KernelsType DEF NoResult, Result, Results, Ops
<1> QED BY <1>1, <1>2 DEF TypeOK, Build

LEMMA NextTypeOK == TypeOK /\ [Next]_vars => TypeOK'
<1> SUFFICES ASSUME TypeOK, [Next]_vars PROVE TypeOK'
  OBVIOUS
<1>0. /\ 0 \in 0..N /\ NoResult \in Results /\ Ops \subseteq 0..NumOps
      /\ Candidates(0) \subseteq 1..N /\ NumOps \in 0..NumOps
      /\ Available \subseteq 0..N
  BY NAssumption, NumOpsAssumption, CandidatesType, AvailableAssumption, KernelsType
     DEF NoResult, Result, Results, Ops, Backends
<1>1. ASSUME NEW t \in Threads, NEW m \in {AutoMode} \cup Available, Select(t, m)
      PROVE  TypeOK'
  <2>1. m \in 0..N
    BY <1>0 DEF AutoMode
  <2> QED BY <1>1, <2>1, BuildType DEF TypeOK, Select, Build
<1>2. ASSUME NEW t \in Threads, NEW o \in Ops, LazyInit(t, o) PROVE TypeOK'
  BY <1>0, <1>2, BuildType DEF TypeOK, LazyInit, Build, AutoMode
<1>3. ASSUME NEW t \in Threads, NEW o \in Ops, Dispatch(t, o) PROVE TypeOK'
  BY <1>0, <1>3 DEF TypeOK, Dispatch, memory
<1>4. ASSUME NEW t \in Threads, Finish(t) PROVE TypeOK'
  BY <1>0, <1>4 DEF TypeOK, Finish, AutoMode
<1>5. ASSUME NEW t \in Threads, FinishFails(t) PROVE TypeOK'
  BY <1>0, <1>5 DEF TypeOK, FinishFails, memory, AutoMode
<1>6. ASSUME NEW t \in Threads, NEW k \in Kernels,
             NEW kind \in {"ran", "crashed", "unavailable", "mismatch"},
             End(t, kind, k), op[t] \in Ops
      PROVE  TypeOK'
  BY <1>0, <1>6, KernelsType DEF TypeOK, End, memory, Result, Results
<1>7. ASSUME NEW t \in Threads, CheckKernel(t) PROVE TypeOK'
  <2>1. PICK k \in Kernels :
          \/ End(t, "unavailable", NoKernel)
          \/ /\ seen' = [seen EXCEPT ![t] = k]
             /\ pc' = [pc EXCEPT ![t] = "compare"]
             /\ UNCHANGED <<memory, mode, wants, op, last>>
    BY <1>7, KernelOfType DEF CheckKernel
  <2>2. op[t] \in Ops
    BY <1>7 DEF CheckKernel, TypeOK
  <2>3. CASE End(t, "unavailable", NoKernel)
    BY <1>6, <2>2, <2>3, KernelsType
  <2> QED BY <2>1, <2>2, <2>3 DEF TypeOK, memory
<1>8. ASSUME NEW t \in Threads, CompareSignature(t) PROVE TypeOK'
  <2>1. op[t] \in Ops
    BY <1>8 DEF CompareSignature, TypeOK
  <2>2. CASE End(t, "mismatch", NoKernel)
    BY <1>6, <2>1, <2>2, KernelsType
  <2>3. CASE /\ pc' = [pc EXCEPT ![t] = "call"]
             /\ UNCHANGED <<memory, mode, wants, op, seen, last>>
    BY <2>1, <2>3 DEF TypeOK, memory
  <2> QED BY <1>8, <2>2, <2>3 DEF CompareSignature
<1>9. ASSUME NEW t \in Threads, RunKernel(t) PROVE TypeOK'
  <2>1. op[t] \in Ops
    BY <1>9 DEF RunKernel, TypeOK
  <2>2. PICK k \in Kernels : End(t, "ran", k) \/ End(t, "crashed", k)
    BY <1>9, KernelOfType DEF RunKernel, TypeOK
  <2> QED BY <1>6, <2>1, <2>2
<1>10. ASSUME NEW t \in Threads, FlagBecomesVisible(t) PROVE TypeOK'
  BY <1>10 DEF TypeOK, FlagBecomesVisible, thread
<1>11. ASSUME NEW t \in Threads, NEW l \in Locations, BecomesVisible(t, l)
       PROVE  TypeOK'
  BY <1>11 DEF TypeOK, BecomesVisible, thread
<1>12. CASE UNCHANGED vars
  BY <1>12 DEF vars, TypeOK, memory, thread
<1> QED BY <1>1, <1>2, <1>3, <1>4, <1>5, <1>7, <1>8, <1>9, <1>10, <1>11, <1>12
        DEF Next, Call, Step, Memory, Crashed

(***************************************************************************)
(* Every variable stays in its range, for any number of threads.           *)
(***************************************************************************)
THEOREM TypeCorrect == Spec => []TypeOK
<1>1. Init => TypeOK
  BY InitTypeOK
<1>2. TypeOK /\ [Next]_vars => TypeOK'
  BY NextTypeOK
<1> QED BY <1>1, <1>2, PTL DEF Spec

-----------------------------------------------------------------------------
(***************************************************************************)
(* Where the values come from: an invariant of all behaviours, those that  *)
(* break the contract included.                                            *)
(***************************************************************************)
KernelsFor(o) == {KernelOf(b, o) : b \in Candidates(o)}

Origin ==
  /\ \A l \in Locations : slots[l] \in From(l[1])
  /\ \A t \in Threads : \A l \in Locations : pending[t][l] \subseteq From(l[1])
  /\ \A t \in Threads :
       pc[t] \in {"compare", "call"} => seen[t] \in KernelsFor(op[t])
  /\ last.kind = "ran" => last.op \in Ops /\ last.kernel \in KernelsFor(last.op)

LEMMA LocationsType ==
  /\ \A l \in Locations : l[1] \in Ops
  /\ \A o \in Ops : /\ <<o, "invoke">> \in Locations
                    /\ <<o, "signature">> \in Locations
<1>1. "invoke" \in Fields /\ "signature" \in Fields
  BY FieldsAssumption
<1> QED BY <1>1 DEF Locations

\* What a thread reads has the same origin.
LEMMA SeesFrom ==
  ASSUME Origin, NEW t \in Threads, NEW o \in Ops,
         NEW f \in {"invoke", "signature"}, NEW b, Sees(t, <<o, f>>, b)
  PROVE  b \in From(o)
<1>1. <<o, f>> \in Locations /\ <<o, f>>[1] = o
  BY LocationsType
<1> DEFINE l == <<o, f>>
<1> HIDE DEF l
<1>2. slots[l] \in From(o) /\ pending[t][l] \subseteq From(o)
  BY <1>1 DEF Origin, l
<1> QED BY <1>2 DEF Sees, l

LEMMA RoutedOrigin ==
  ASSUME NEW b, NEW m, NEW o, Routed(b, m, o)
  PROVE  b \in From(o)
BY DEF Routed, From

LEMMA InitOrigin == Init => Origin
<1> SUFFICES ASSUME Init PROVE Origin
  OBVIOUS
<1>1. \A l \in Locations : slots[l] \in From(l[1])
  BY RoutedOrigin DEF Init, From
<1>2. \A t \in Threads : \A l \in Locations : pending[t][l] = {}
  BY DEF Init, NoStores
<1> QED BY <1>1, <1>2 DEF Init, Origin, NoResult, Result

LEMMA NextOrigin == TypeOK /\ Origin /\ [Next]_vars => Origin'
<1> SUFFICES ASSUME TypeOK, Origin, [Next]_vars PROVE Origin'
  OBVIOUS
<1>1. ASSUME NEW t \in Threads, NEW m \in {AutoMode} \cup Available, Build(t, m),
             op' = op \/ \E o \in Ops : op' = [op EXCEPT ![t] = o]
      PROVE  Origin'
  <2>1. m \in 0..N
    BY NAssumption, AvailableAssumption DEF AutoMode, Backends
  <2>2. \A u \in Threads : \A l \in Locations :
          pending'[u][l] \subseteq From(l[1])
    <3>1. \A l \in Locations : Stores[m][l[1]] \subseteq From(l[1])
      BY <2>1, StoresType, LocationsType
    <3> QED BY <1>1, <3>1 DEF Build, TypeOK, Origin
  <2>3. /\ last' = NoResult /\ slots' = slots /\ seen' = seen
        /\ pc' = [pc EXCEPT ![t] = "building"]
    BY <1>1 DEF Build
  <2>4. \A u \in Threads : pc'[u] \in {"compare", "call"} =>
          u # t /\ pc[u] = pc'[u] /\ op'[u] = op[u]
    BY <1>1, <2>3 DEF TypeOK
  <2> QED BY <2>2, <2>3, <2>4 DEF Origin, NoResult, Result
<1>2. ASSUME NEW t \in Threads, NEW m \in {AutoMode} \cup Available, Select(t, m)
      PROVE  Origin'
  BY <1>1, <1>2 DEF Select
<1>3. ASSUME NEW t \in Threads, NEW o \in Ops, LazyInit(t, o) PROVE Origin'
  BY <1>1, <1>3 DEF LazyInit
<1>4. ASSUME NEW t \in Threads, NEW o \in Ops, Dispatch(t, o) PROVE Origin'
  BY <1>4 DEF TypeOK, Origin, Dispatch, memory, NoResult, Result
<1>5. ASSUME NEW t \in Threads, Finish(t) \/ FinishFails(t) PROVE Origin'
  BY <1>5 DEF TypeOK, Origin, Finish, FinishFails, memory
<1>6. ASSUME NEW t \in Threads, NEW k, NEW kind, End(t, kind, k),
             kind = "ran" => op[t] \in Ops /\ k \in KernelsFor(op[t])
      PROVE  Origin'
  BY <1>6 DEF TypeOK, Origin, End, memory, Result
<1>7. ASSUME NEW t \in Threads, CheckKernel(t) PROVE Origin'
  <2>1. op[t] \in Ops
    BY <1>7 DEF CheckKernel, TypeOK
  <2>2. PICK b \in 0..N :
          /\ Sees(t, <<op[t], "invoke">>, b)
          /\ \/ End(t, "unavailable", NoKernel)
             \/ /\ KernelOf(b, op[t]) # NoKernel
                /\ seen' = [seen EXCEPT ![t] = KernelOf(b, op[t])]
                /\ pc' = [pc EXCEPT ![t] = "compare"]
                /\ UNCHANGED <<memory, mode, wants, op, last>>
    BY <1>7 DEF CheckKernel
  <2>3. b \in From(op[t])
    BY <2>1, <2>2, SeesFrom
  <2>4. CASE End(t, "unavailable", NoKernel)
    BY <1>6, <2>4
  <2>5. KernelOf(b, op[t]) # NoKernel => KernelOf(b, op[t]) \in KernelsFor(op[t])
    BY <2>1, <2>3, KernelOfBackend DEF From, KernelsFor
  <2> QED BY <2>2, <2>4, <2>5 DEF TypeOK, Origin, memory
<1>8. ASSUME NEW t \in Threads, CompareSignature(t) PROVE Origin'
  <2>1. CASE End(t, "mismatch", NoKernel)
    BY <1>6, <2>1
  <2>2. CASE /\ pc[t] = "compare"
             /\ pc' = [pc EXCEPT ![t] = "call"]
             /\ UNCHANGED <<memory, mode, wants, op, seen, last>>
    BY <2>2 DEF TypeOK, Origin, memory
  <2> QED BY <1>8, <2>1, <2>2 DEF CompareSignature
<1>9. ASSUME NEW t \in Threads, RunKernel(t) PROVE Origin'
  <2>1. op[t] \in Ops /\ pc[t] = "call"
    BY <1>9 DEF RunKernel, TypeOK
  <2>2. CASE End(t, "ran", seen[t])
    BY <1>6, <2>1, <2>2 DEF Origin
  <2>3. ASSUME NEW b \in 0..N, Sees(t, <<op[t], "invoke">>, b),
               End(t, IF KernelOf(b, op[t]) = NoKernel THEN "crashed" ELSE "ran",
                   KernelOf(b, op[t]))
        PROVE  Origin'
    <3>1. b \in From(op[t])
      BY <2>1, <2>3, SeesFrom
    <3>2. KernelOf(b, op[t]) # NoKernel => KernelOf(b, op[t]) \in KernelsFor(op[t])
      BY <2>1, <3>1, KernelOfBackend DEF From, KernelsFor
    <3> QED BY <1>6, <2>1, <2>3, <3>2
  <2> QED BY <1>9, <2>2, <2>3 DEF RunKernel
<1>10. ASSUME NEW t \in Threads, FlagBecomesVisible(t) PROVE Origin'
  BY <1>10 DEF Origin, FlagBecomesVisible, thread
<1>11. ASSUME NEW t \in Threads, NEW l \in Locations, BecomesVisible(t, l)
       PROVE  Origin'
  BY <1>11 DEF TypeOK, Origin, BecomesVisible, thread
<1>12. CASE UNCHANGED vars
  BY <1>12 DEF vars, Origin, memory, thread
<1> QED BY <1>2, <1>3, <1>4, <1>5, <1>7, <1>8, <1>9, <1>10, <1>11, <1>12
        DEF Next, Call, Step, Memory, Crashed

(***************************************************************************)
(* However many threads race and whatever the caller does: what runs is a  *)
(* kernel of an available backend for the operation that was asked for,    *)
(* and takes the frame that was passed.                                    *)
(***************************************************************************)
THEOREM FrameAlwaysHolds == Spec => []FrameHolds
<1>1. Init => TypeOK /\ Origin
  BY InitTypeOK, InitOrigin
<1>2. TypeOK /\ Origin /\ [Next]_vars => (TypeOK /\ Origin)'
  BY NextTypeOK, NextOrigin
<1>3. Origin => FrameHolds
  BY KernelRight DEF Origin, FrameHolds, KernelsFor
<1> QED BY <1>1, <1>2, <1>3, PTL DEF Spec

-----------------------------------------------------------------------------
(***************************************************************************)
(* The route of an operation: it exists, there is one, and of the values a *)
(* build stores it is the last.                                            *)
(***************************************************************************)
LEMMA RouteUnique ==
  ASSUME NEW m \in 0..N, NEW o \in Ops, NEW a, NEW b,
         Routed(a, m, o), Routed(b, m, o)
  PROVE  a = b
<1> DEFINE offered ==
             IF m = AutoMode THEN Candidates(o) ELSE {m} \cap Candidates(o)
<1>1. offered \subseteq Backends
  BY CandidatesType DEF Backends
<1>2. \A c, d \in Backends : ~(Better(c, d) /\ Better(d, c))
  BY PriorityAssumption, UintMaxAssumption, NAssumption DEF Better, Backends
<1>3. /\ \/ offered = {} /\ a = NoBackend
         \/ a \in offered /\ \A c \in offered \ {a} : Better(a, c)
      /\ \/ offered = {} /\ b = NoBackend
         \/ b \in offered /\ \A c \in offered \ {b} : Better(b, c)
  BY DEF Routed
<1> HIDE DEF offered
<1> QED BY <1>1, <1>2, <1>3

LEMMA RouteStored ==
  ASSUME NEW m \in 0..N, NEW o \in Ops
  PROVE  \E r \in Stores[m][o] :
           /\ Routed(r, m, o)
           /\ \A a \in Stores[m][o] : a <= r
<1> DEFINE C == Candidates(o)
           beating == {b \in C : \A a \in C : a < b => Priority[b] < Priority[a]}
<1>1. C \subseteq 1..N /\ \A b \in C : Priority[b] \in Nat
  BY CandidatesType, PriorityAssumption, UintMaxAssumption DEF Backends
<1>2. CASE m = AutoMode /\ C = {}
  <2>1. Stores[m][o] = {NoBackend}
    BY <1>2 DEF Stores
  <2>2. Routed(NoBackend, m, o)
    BY <1>2 DEF Routed
  <2> QED BY <2>1, <2>2 DEF NoBackend
<1>3. CASE m = AutoMode /\ C # {}
  <2> DEFINE P == {Priority[b] : b \in C}
  <2>1. PICK p \in P : \A q \in P : p <= q
    <3>1. P \subseteq Nat /\ P # {}
      BY <1>1, <1>3
    <3> HIDE DEF P
    <3> QED BY <3>1, LeastNatural
  <2> DEFINE D == {b \in C : Priority[b] = p}
  <2>2. PICK r \in D : \A b \in D : r <= b
    <3>1. D \subseteq Nat /\ D # {}
      BY <1>1, <2>1
    <3> HIDE DEF D
    <3> QED BY <3>1, LeastNatural
  <2>3. \A a \in C : Priority[r] <= Priority[a] /\ (Priority[a] = Priority[r] => r <= a)
    BY <2>1, <2>2
  <2>4. r \in beating
    <3>1. SUFFICES ASSUME NEW a \in C, a < r PROVE Priority[r] < Priority[a]
      BY <2>2
    <3> QED BY <1>1, <2>2, <2>3, <3>1
  <2>5. Stores[m][o] = {NoBackend} \cup beating
    <3>1. Stores[m][o] = {NoBackend} \cup (IF m = AutoMode THEN beating
                                           ELSE {m} \cap C)
      BY DEF Stores
    <3> HIDE DEF beating
    <3> QED BY <1>3, <3>1
  <2>6. Routed(r, m, o)
    <3>1. \A a \in C \ {r} : Better(r, a)
      BY <1>1, <2>2, <2>3 DEF Better
    <3> QED BY <1>3, <2>2, <3>1 DEF Routed
  <2>7. ASSUME NEW a \in beating PROVE a <= r
    <3>1. SUFFICES ASSUME r < a PROVE FALSE
      BY <1>1, <2>2
    <3>2. Priority[a] < Priority[r]
      BY <2>2, <3>1
    <3> QED BY <1>1, <2>2, <2>3, <3>2
  <2>8. NoBackend <= r
    BY <1>1, <2>2 DEF NoBackend
  <2> HIDE DEF beating
  <2> QED BY <2>4, <2>5, <2>6, <2>7, <2>8
<1>4. CASE m # AutoMode
  <2>1. Stores[m][o] = {NoBackend} \cup ({m} \cap C)
    <3>1. Stores[m][o] = {NoBackend} \cup (IF m = AutoMode THEN beating
                                           ELSE {m} \cap C)
      BY DEF Stores
    <3> HIDE DEF beating
    <3> QED BY <1>4, <3>1
  <2>2. CASE m \in C
    <3>1. Routed(m, m, o)
      BY <1>4, <2>2 DEF Routed
    <3> QED BY <2>1, <2>2, <3>1 DEF NoBackend
  <2>3. CASE m \notin C
    <3>1. Routed(NoBackend, m, o)
      BY <1>4, <2>3 DEF Routed
    <3> QED BY <2>1, <2>3, <3>1 DEF NoBackend
  <2> QED BY <2>2, <2>3
<1> QED BY <1>2, <1>3, <1>4

-----------------------------------------------------------------------------
(***************************************************************************)
(* What the contract gives: while a thread builds or has stores under way, *)
(* it is alone; once something was selected, what a location holds, or     *)
(* will hold when the stores to it are visible, is the route; and a thread *)
(* that checked an operation goes by that route.                           *)
(***************************************************************************)
Busy(t) == Building(t) \/ ~Drained(t)

Alone ==
  \A t \in Threads : Busy(t) =>
    \A u \in Threads \ {t} : pc[u] = "idle" /\ Drained(u)

Begun == initialized \/ flagging # {} \/ \E t \in Threads : Building(t)

InCall(t) == pc[t] \in {"check", "compare", "call"}

Settled(l) ==
  /\ (\A t \in Threads : pending[t][l] = {}) => Routed(slots[l], mode, l[1])
  /\ \A t \in Threads : pending[t][l] # {} =>
       \E r \in pending[t][l] :
         Routed(r, mode, l[1]) /\ \A a \in pending[t][l] : a <= r

Decided(t) ==
  /\ InCall(t) => initialized \/ t \in flagging
  /\ pc[t] \in {"compare", "call"} =>
       seen[t] # NoKernel /\ Routed(seen[t][1], mode, op[t])

Answered ==
  /\ last.kind \notin {"crashed", "mismatch"}
  /\ last.kind \in {"ran", "unavailable"} => Routed(last.kernel[1], mode, last.op)

Kept ==
  /\ Alone
  /\ Begun => \A l \in Locations : Settled(l)
  /\ \A t \in Threads : Decided(t)
  /\ Answered

\* In a call, and at the end of a build, a thread reads the route.
LEMMA SeesRoute ==
  ASSUME TypeOK, Kept, NEW t \in Threads, InCall(t) \/ Building(t),
         NEW o \in Ops, NEW f \in {"invoke", "signature"},
         NEW b \in 0..N, Sees(t, <<o, f>>, b)
  PROVE  Routed(b, mode, o)
<1> DEFINE l == <<o, f>>
<1>1. l \in Locations /\ l[1] = o
  BY LocationsType
<1> HIDE DEF l
<1>2. Settled(l)
  <2>1. initialized \/ t \in flagging \/ Building(t)
    BY DEF Kept, Decided
  <2> QED BY <1>1, <2>1 DEF Kept, Begun
<1>3. \A u \in Threads \ {t} : pending[u][l] = {}
  <2>1. \A u \in Threads \ {t} : ~Busy(u)
    BY DEF Kept, Alone, InCall, Building
  <2> QED BY <1>1, <2>1 DEF Busy, Drained, NoStores
<1>4. CASE pending[t][l] = {}
  <2>1. b = slots[l]
    BY <1>4 DEF Sees, l
  <2> QED BY <1>1, <1>2, <1>3, <1>4, <2>1 DEF Settled
<1>5. CASE pending[t][l] # {}
  <2>1. PICK r \in pending[t][l] :
          Routed(r, mode, o) /\ \A a \in pending[t][l] : a <= r
    BY <1>1, <1>2, <1>5 DEF Settled
  <2>2. b \in pending[t][l] /\ \A a \in pending[t][l] : a <= b
    BY <1>5 DEF Sees, l
  <2>3. r \in 0..N
    BY <1>1, <2>1 DEF TypeOK
  <2>4. r = b
    BY <2>1, <2>2, <2>3
  <2> QED BY <2>1, <2>4
<1> QED BY <1>4, <1>5

LEMMA InitKept == Init => Kept
<1> SUFFICES ASSUME Init PROVE Kept
  OBVIOUS
<1>1. \A t \in Threads : ~Busy(t) /\ ~InCall(t) /\ pc[t] = "idle"
  BY DEF Init, Busy, Building, Drained, InCall
<1>2. \A t \in Threads : \A l \in Locations : pending[t][l] = {}
  BY DEF Init, NoStores
<1>3. Begun => Ready
  BY <1>1 DEF Begun, Init, Busy
<1>4. Ready => \A l \in Locations : Settled(l)
  BY <1>2 DEF Init, Settled
<1>5. Answered
  BY DEF Init, Answered, NoResult, Result
<1> QED BY <1>1, <1>3, <1>4, <1>5 DEF Kept, Alone, Decided, InCall

\* A build begins when nothing else is going on.
LEMMA BuildKept ==
  ASSUME TypeOK, Kept, NEW t \in Threads, NEW m \in {AutoMode} \cup Available,
         Build(t, m), \A u \in Threads \ {t} : pc[u] = "idle" /\ Drained(u)
  PROVE  Kept'
<1>1. m \in 0..N
  BY NAssumption, AvailableAssumption DEF AutoMode, Backends
<1>2. /\ mode' = m /\ pc' = [pc EXCEPT ![t] = "building"] /\ last' = NoResult
      /\ pending' = [pending EXCEPT ![t] = [l \in Locations |-> Stores[m][l[1]]]]
      /\ slots' = slots /\ initialized' = initialized /\ flagging' = flagging
  BY DEF Build
<1>3. \A u \in Threads \ {t} :
        pc'[u] = "idle" /\ pending'[u] = NoStores /\ u \notin flagging'
  BY <1>2 DEF TypeOK, Drained
<1>4. Alone'
  BY <1>2, <1>3 DEF TypeOK, Alone, Busy, Building, Drained
<1>5. \A l \in Locations : Settled(l)'
  <2>1. TAKE l \in Locations
  <2>2. pending'[t][l] = Stores[m][l[1]]
    BY <1>2 DEF TypeOK
  <2>3. \A u \in Threads \ {t} : pending'[u][l] = {}
    BY <1>3 DEF NoStores
  <2>4. PICK r \in Stores[m][l[1]] :
          Routed(r, m, l[1]) /\ \A a \in Stores[m][l[1]] : a <= r
    BY <1>1, LocationsType, RouteStored
  <2>5. (~ \A u \in Threads : pending[u][l] = {})'
    BY <2>2, <2>4
  <2>6. (\A u \in Threads : pending[u][l] # {} =>
          \E q \in pending[u][l] :
            Routed(q, mode, l[1]) /\ \A a \in pending[u][l] : a <= q)'
    BY <1>2, <2>2, <2>3, <2>4 DEF Routed
  <2> QED BY <2>5, <2>6 DEF Settled
<1>6. \A u \in Threads : Decided(u)'
  BY <1>2, <1>3 DEF TypeOK, Decided, InCall
<1>7. Answered'
  BY <1>2 DEF Answered, NoResult, Result
<1> QED BY <1>4, <1>5, <1>6, <1>7 DEF Kept

\* A step of t that leaves memory and selection alone.
LEMMA LocalKept ==
  ASSUME TypeOK, Kept, NEW t \in Threads, UNCHANGED <<memory, mode>>,
         ~(\E u \in Threads \ {t} : Busy(u)),
         NEW p \in {"idle", "check", "compare", "call"},
         pc' = [pc EXCEPT ![t] = p],
         \A u \in Threads \ {t} : seen'[u] = seen[u] /\ op'[u] = op[u],
         Decided(t)', Answered'
  PROVE  Kept'
<1>1. Alone'
  <2>1. ~Building(t)' /\ \A u \in Threads \ {t} : ~Busy(u)'
    BY DEF TypeOK, Busy, Building, Drained, memory
  <2>2. Drained(t)' => Alone'
    BY <2>1 DEF Alone, Busy
  <2>3. ~Drained(t)' => \A u \in Threads \ {t} : pc'[u] = "idle"
    BY DEF TypeOK, Kept, Alone, Busy, Drained, memory
  <2> QED BY <2>1, <2>2, <2>3 DEF Alone, Busy
<1>2. Begun' => Begun
  BY DEF TypeOK, Begun, Building, memory
<1>3. \A l \in Locations : Settled(l) => Settled(l)'
  BY DEF Settled, Routed, memory
<1>4. \A u \in Threads \ {t} : Decided(u)'
  BY DEF TypeOK, Kept, Decided, InCall, Routed, memory
<1> QED BY <1>1, <1>2, <1>3, <1>4 DEF Kept

LEMMA EndKept ==
  ASSUME TypeOK, Kept, NEW t \in Threads, InCall(t), NEW k,
         NEW kind \in {"ran", "unavailable"}, End(t, kind, k),
         Routed(k[1], mode, op[t])
  PROVE  Kept'
<1>1. ~(\E u \in Threads \ {t} : Busy(u))
  BY DEF Kept, Alone, InCall
<1>2. Decided(t)'
  BY DEF TypeOK, End, Decided, InCall
<1>3. Answered'
  BY DEF End, Answered, Result, Routed
<1>4. \A u \in Threads \ {t} : seen'[u] = seen[u] /\ op'[u] = op[u]
  BY DEF TypeOK, End
<1> QED BY <1>1, <1>2, <1>3, <1>4, LocalKept DEF End

\* A call that begins now finds what the contract wants it to find.
Timely ==
  \A t \in Threads :
    /\ (\E m \in {AutoMode} \cup Available : Select(t, m))
         \/ (\E o \in Ops : LazyInit(t, o)) =>
         \A u \in Threads \ {t} : pc[u] = "idle" /\ Drained(u)
    /\ (\E o \in Ops : Dispatch(t, o)) =>
         \A u \in Threads \ {t} : ~Busy(u)

LEMMA NextKept == Timely /\ TypeOK /\ Kept /\ [Next]_vars => Kept'
<1> SUFFICES ASSUME Timely, TypeOK, Kept, [Next]_vars PROVE Kept'
  OBVIOUS
<1>1. ASSUME NEW t \in Threads, NEW m \in {AutoMode} \cup Available, Select(t, m)
      PROVE  Kept'
  <2>1. \A u \in Threads \ {t} : pc[u] = "idle" /\ Drained(u)
    BY <1>1 DEF Timely
  <2> QED BY <1>1, <2>1, BuildKept DEF Select
<1>2. ASSUME NEW t \in Threads, NEW o \in Ops, LazyInit(t, o) PROVE Kept'
  <2>1. \A u \in Threads \ {t} : pc[u] = "idle" /\ Drained(u)
    BY <1>2 DEF Timely
  <2> QED BY <1>2, <2>1, BuildKept DEF LazyInit
<1>3. ASSUME NEW t \in Threads, NEW o \in Ops, Dispatch(t, o) PROVE Kept'
  <2>1. ~(\E u \in Threads \ {t} : Busy(u))
    BY <1>3 DEF Timely
  <2>2. Decided(t)'
    BY <1>3 DEF TypeOK, Dispatch, Decided, memory
  <2>3. Answered'
    BY <1>3 DEF Dispatch, Answered, NoResult, Result
  <2>4. \A u \in Threads \ {t} : seen'[u] = seen[u] /\ op'[u] = op[u]
    BY <1>3 DEF TypeOK, Dispatch
  <2> QED BY <1>3, <2>1, <2>2, <2>3, <2>4, LocalKept DEF Dispatch
<1>4. ASSUME NEW t \in Threads, Finish(t) PROVE Kept'
  <2>1. /\ Building(t) /\ flagging' = flagging \cup {t}
        /\ UNCHANGED <<slots, initialized, pending, mode, op, seen, last>>
        /\ \E p \in {"check", "idle"} : pc' = [pc EXCEPT ![t] = p]
    BY <1>4 DEF Finish
  <2>2. \A u \in Threads \ {t} :
          /\ pc[u] = "idle" /\ pc'[u] = "idle"
          /\ pending[u] = NoStores /\ u \notin flagging'
    BY <2>1 DEF TypeOK, Kept, Alone, Busy, Drained
  <2>3. Alone'
    BY <2>1, <2>2 DEF TypeOK, Alone, Busy, Building, Drained
  <2>4. \A l \in Locations : Settled(l)'
    BY <2>1 DEF Kept, Begun, Settled, Routed
  <2>5. \A u \in Threads : Decided(u)'
    BY <2>1, <2>2 DEF TypeOK, Decided, InCall
  <2>6. Answered'
    BY <2>1 DEF Kept, Answered, Routed
  <2> QED BY <2>3, <2>4, <2>5, <2>6 DEF Kept
<1>5. ASSUME NEW t \in Threads, FinishFails(t) PROVE Kept'
  <2>1. ~(\E u \in Threads \ {t} : Busy(u))
    BY <1>5 DEF FinishFails, Kept, Alone, Busy, Building
  <2>2. Decided(t)' /\ Answered'
    BY <1>5 DEF TypeOK, FinishFails, Kept, Decided, InCall, Answered, Routed
  <2> QED BY <1>5, <2>1, <2>2, LocalKept DEF FinishFails
<1>6. ASSUME NEW t \in Threads, CheckKernel(t) PROVE Kept'
  <2>1. op[t] \in Ops /\ InCall(t)
    BY <1>6 DEF CheckKernel, TypeOK, InCall
  <2>2. PICK b \in 0..N :
          /\ Sees(t, <<op[t], "invoke">>, b)
          /\ \/ KernelOf(b, op[t]) = NoKernel /\ End(t, "unavailable", NoKernel)
             \/ /\ KernelOf(b, op[t]) # NoKernel
                /\ seen' = [seen EXCEPT ![t] = KernelOf(b, op[t])]
                /\ pc' = [pc EXCEPT ![t] = "compare"]
                /\ UNCHANGED <<memory, mode, wants, op, last>>
    BY <1>6 DEF CheckKernel
  <2> DEFINE k == KernelOf(b, op[t])
  <2>3. Routed(k[1], mode, op[t])
    <3>1. Routed(b, mode, op[t])
      BY <2>1, <2>2, SeesRoute
    <3>2. k[1] = b
      BY <2>1, <3>1, RoutedOrigin, KernelOfBackend
    <3> QED BY <3>1, <3>2
  <2> HIDE DEF k
  <2>4. CASE k = NoKernel /\ End(t, "unavailable", NoKernel)
    BY <2>1, <2>3, <2>4, EndKept
  <2>5. CASE /\ k # NoKernel
             /\ seen' = [seen EXCEPT ![t] = k]
             /\ pc' = [pc EXCEPT ![t] = "compare"]
             /\ UNCHANGED <<memory, mode, wants, op, last>>
    <3>1. ~(\E u \in Threads \ {t} : Busy(u))
      BY <2>1 DEF Kept, Alone, InCall
    <3>2. Decided(t)'
      BY <2>1, <2>3, <2>5 DEF TypeOK, Kept, Decided, InCall, Routed, memory
    <3>3. Answered'
      BY <2>5 DEF Kept, Answered, Routed
    <3> QED BY <2>5, <3>1, <3>2, <3>3, LocalKept DEF TypeOK
  <2> QED BY <2>2, <2>4, <2>5 DEF k
<1>7. ASSUME NEW t \in Threads, CompareSignature(t) PROVE Kept'
  <2>1. op[t] \in Ops /\ InCall(t) /\ pc[t] = "compare"
    BY <1>7 DEF CompareSignature, TypeOK, InCall
  <2>2. PICK b \in 0..N :
          /\ Sees(t, <<op[t], "signature">>, b)
          /\ \/ SignatureOf(b, op[t]) # OpSig[op[t]]
             \/ /\ pc' = [pc EXCEPT ![t] = "call"]
                /\ UNCHANGED <<memory, mode, wants, op, seen, last>>
    BY <1>7 DEF CompareSignature
  <2>3. Routed(b, mode, op[t])
    BY <2>1, <2>2, SeesRoute
  <2>4. Routed(seen[t][1], mode, op[t]) /\ seen[t][1] # NoBackend
    BY <2>1, KernelsType DEF TypeOK, Kept, Decided
  <2>5. b = seen[t][1]
    BY <2>1, <2>3, <2>4, RouteUnique DEF TypeOK
  <2>6. b \in Candidates(op[t])
    BY <2>3, <2>4, <2>5, RoutedOrigin DEF From
  <2>7. SignatureOf(b, op[t]) = OpSig[op[t]]
    BY <2>1, <2>6, SignatureRight
  <2>8. /\ pc' = [pc EXCEPT ![t] = "call"]
        /\ UNCHANGED <<memory, mode, wants, op, seen, last>>
    BY <2>2, <2>7
  <2>9. ~(\E u \in Threads \ {t} : Busy(u))
    BY <2>1 DEF Kept, Alone, InCall
  <2>10. Decided(t)'
    BY <2>1, <2>4, <2>8 DEF TypeOK, Kept, Decided, InCall, Routed, memory
  <2>11. Answered'
    BY <2>8 DEF Kept, Answered, Routed
  <2> QED BY <2>8, <2>9, <2>10, <2>11, LocalKept
<1>8. ASSUME NEW t \in Threads, RunKernel(t) PROVE Kept'
  <2>1. op[t] \in Ops /\ InCall(t) /\ pc[t] = "call"
    BY <1>8 DEF RunKernel, TypeOK, InCall
  <2>2. Routed(seen[t][1], mode, op[t]) /\ seen[t][1] # NoBackend
    BY <2>1, KernelsType DEF TypeOK, Kept, Decided
  <2>3. CASE End(t, "ran", seen[t])
    BY <2>1, <2>2, <2>3, EndKept
  <2>4. ASSUME NEW b \in 0..N, Sees(t, <<op[t], "invoke">>, b),
               End(t, IF KernelOf(b, op[t]) = NoKernel THEN "crashed" ELSE "ran",
                   KernelOf(b, op[t]))
        PROVE  Kept'
    <3>1. Routed(b, mode, op[t])
      BY <2>1, <2>4, SeesRoute
    <3>2. b = seen[t][1]
      BY <2>1, <2>2, <3>1, RouteUnique DEF TypeOK
    <3>3. KernelOf(b, op[t]) # NoKernel /\ KernelOf(b, op[t])[1] = b
      BY <2>1, <2>2, <3>1, <3>2, RoutedOrigin, KernelOfBackend
    <3>4. End(t, "ran", KernelOf(b, op[t]))
      BY <2>4, <3>3
    <3> QED BY <2>1, <3>1, <3>3, <3>4, EndKept
  <2> QED BY <1>8, <2>3, <2>4 DEF RunKernel
<1>9. ASSUME NEW t \in Threads, FlagBecomesVisible(t) PROVE Kept'
  <2>1. /\ t \in flagging /\ initialized' = TRUE /\ flagging' = flagging \ {t}
        /\ UNCHANGED <<slots, pending, mode, pc, op, seen, last>>
    BY <1>9 DEF FlagBecomesVisible, thread
  <2>2. Alone'
    BY <2>1 DEF Kept, Alone, Busy, Building, Drained
  <2>3. \A l \in Locations : Settled(l)'
    BY <2>1 DEF Kept, Begun, Settled, Routed
  <2>4. \A u \in Threads : Decided(u)'
    BY <2>1 DEF Kept, Decided, InCall, Routed
  <2>5. Answered'
    BY <2>1 DEF Kept, Answered, Routed
  <2> QED BY <2>2, <2>3, <2>4, <2>5 DEF Kept
<1>10. ASSUME NEW t \in Threads, NEW l \in Locations, BecomesVisible(t, l)
       PROVE  Kept'
  <2>1. PICK b \in pending[t][l] :
          /\ \A a \in pending[t][l] : b <= a
          /\ slots' = [slots EXCEPT ![l] = b]
          /\ pending' = [pending EXCEPT ![t][l] = @ \ {b}]
          /\ UNCHANGED <<initialized, flagging, mode, pc, op, seen, last>>
    BY <1>10 DEF BecomesVisible, thread
  <2>2. \A u \in Threads \ {t} :
          pc[u] = "idle" /\ pending[u] = NoStores /\ pending'[u] = NoStores
    <3>1. pending[t] # NoStores
      BY <2>1 DEF NoStores
    <3>2. \A u \in Threads \ {t} : pc[u] = "idle" /\ pending[u] = NoStores
      BY <3>1 DEF Kept, Alone, Busy, Drained
    <3>3. \A u \in Threads \ {t} : pending'[u] = pending[u]
      BY <2>1 DEF TypeOK
    <3> QED BY <3>2, <3>3
  <2>3. Alone'
    <3>1. \A u \in Threads \ {t} : (~Busy(u) /\ pc[u] = "idle" /\ Drained(u))'
      BY <2>1, <2>2 DEF Kept, Alone, Busy, Building, Drained, NoStores
    <3> QED BY <3>1 DEF Alone
  <2>4. ASSUME Begun', NEW k \in Locations PROVE Settled(k)'
    <3>1. Settled(k) /\ \A j \in Locations : Settled(j)
      BY <2>1, <2>4 DEF Kept, Begun, Building
    <3>2. CASE k # l
      <4>1. slots'[k] = slots[k] /\ \A u \in Threads : pending'[u][k] = pending[u][k]
        BY <2>1, <3>2 DEF TypeOK
      <4>2. mode' = mode
        BY <2>1
      <4> QED BY <3>1, <4>1, <4>2 DEF Settled, Routed
    <3>3. CASE k = l
      <4>1. PICK r \in pending[t][l] :
              Routed(r, mode, l[1]) /\ \A a \in pending[t][l] : a <= r
        BY <2>1, <3>1 DEF Settled
      <4>2. pending'[t][l] = pending[t][l] \ {b} /\ slots'[l] = b /\ mode' = mode
        BY <2>1 DEF TypeOK
      <4>3. \A u \in Threads \ {t} : pending'[u][l] = {}
        BY <2>2 DEF NoStores
      <4>4. b \in 0..N /\ r \in 0..N /\ pending[t][l] \subseteq 0..N
        BY <2>1, <4>1 DEF TypeOK
      <4>5. CASE r = b
        <5>1. pending'[t][l] = {}
          BY <2>1, <4>1, <4>2, <4>4, <4>5
        <5>2. (Routed(slots[l], mode, l[1]))'
          BY <4>1, <4>2, <4>5 DEF Routed
        <5> QED BY <3>3, <4>3, <5>1, <5>2 DEF Settled
      <4>6. CASE r # b
        <5>1. r \in pending'[t][l] /\ \A a \in pending'[t][l] : a <= r
          BY <4>1, <4>2, <4>6
        <5>2. Routed(r, mode', l[1])
          BY <4>1, <4>2
        <5>3. (\A u \in Threads : pending[u][l] # {} =>
                 \E q \in pending[u][l] :
                   Routed(q, mode, l[1]) /\ \A a \in pending[u][l] : a <= q)'
          BY <4>3, <5>1, <5>2 DEF Routed
        <5> QED BY <3>3, <5>1, <5>3 DEF Settled
      <4> QED BY <4>5, <4>6
    <3> QED BY <3>2, <3>3
  <2>5. \A u \in Threads : Decided(u)'
    BY <2>1 DEF Kept, Decided, InCall, Routed
  <2>6. Answered'
    BY <2>1 DEF Kept, Answered, Routed
  <2> QED BY <2>3, <2>4, <2>5, <2>6 DEF Kept
<1>11. CASE UNCHANGED vars
  BY <1>11 DEF vars, memory, thread, Kept, Alone, Busy, Building, Drained,
               Begun, Settled, Decided, InCall, Answered, Routed
<1> QED BY <1>1, <1>2, <1>3, <1>4, <1>5, <1>6, <1>7, <1>8, <1>9, <1>10, <1>11
        DEF Next, Call, Step, Memory, Crashed

\* Callers that keep the contract begin their calls in time, and whoever has
\* one thread does without doing anything for it.
OneThread == \A t, u \in Threads : t = u

Orderly == Serialised \/ OneThread

LEMMA OrderlyIsTimely == Orderly => Timely
BY DEF Orderly, OneThread, Timely, Select, MaySelect, LazyInit, MayDispatch, Dispatch,
       Busy, Building

LEMMA KeptInvariant == ASSUME Orderly PROVE Spec => [](TypeOK /\ Kept)
<1>1. Init => TypeOK /\ Kept
  BY InitTypeOK, InitKept
<1>2. TypeOK /\ Kept /\ [Next]_vars => (TypeOK /\ Kept)'
  BY NextTypeOK, NextKept, OrderlyIsTimely
<1> QED BY <1>1, <1>2, PTL DEF Spec

(***************************************************************************)
(* Callers that keep the contract never see a torn slot: no jump to NULL   *)
(* after the check, no signature that is not the kernel's.                 *)
(***************************************************************************)
THEOREM ContractPreventsTearing == Spec => []NeverTorn
<1>1. ASSUME Serialised PROVE Spec => []NeverTorn
  <2>1. TypeOK /\ Kept => NeverTorn
    BY DEF Kept, Answered, NeverTorn
  <2>2. Spec => [](TypeOK /\ Kept)
    BY <1>1, KeptInvariant DEF Orderly
  <2> QED BY <2>1, <2>2, PTL
<1>2. ASSUME ~Serialised PROVE Spec => []NeverTorn
  <2>1. NeverTorn
    BY <1>2 DEF NeverTorn
  <2> QED BY <2>1, PTL
<1> QED BY <1>1, <1>2

(***************************************************************************)
(* And every dispatch of theirs does what the last selection decided,      *)
(* although the stores of that selection became visible one by one.        *)
(***************************************************************************)
THEOREM ContractFollowsSelection == Spec => []FollowsSelection
<1>1. ASSUME Serialised PROVE Spec => []FollowsSelection
  <2>1. TypeOK /\ Kept => FollowsSelection
    BY DEF Kept, Answered, FollowsSelection
  <2>2. Spec => [](TypeOK /\ Kept)
    BY <1>1, KeptInvariant DEF Orderly
  <2> QED BY <2>1, <2>2, PTL
<1>2. ASSUME ~Serialised PROVE Spec => []FollowsSelection
  <2>1. FollowsSelection
    BY <1>2 DEF FollowsSelection
  <2> QED BY <2>1, PTL
<1> QED BY <1>1, <1>2

(***************************************************************************)
(* A program with one thread, as R is one, gets both for nothing (Answered *)
(* says both): the stores that are still under way are its own.            *)
(***************************************************************************)
THEOREM OneThreadNeedsNoContract ==
  ASSUME OneThread
  PROVE  Spec => []Answered
<1>1. Spec => [](TypeOK /\ Kept)
  BY KeptInvariant DEF Orderly
<1>2. TypeOK /\ Kept => Answered
  BY DEF Kept
<1> QED BY <1>1, <1>2, PTL

-----------------------------------------------------------------------------
(***************************************************************************)
(* Dispatches alone: the engine was initialized before the threads started *)
(* and none of them selects, so that nothing is stored any more.           *)
(***************************************************************************)
OnlyDispatches == Ready /\ Selectors = {}

Steady ==
  /\ initialized /\ flagging = {} /\ mode = AutoMode
  /\ \A t \in Threads : pending[t] = NoStores /\ ~Building(t)
  /\ \A l \in Locations : Routed(slots[l], AutoMode, l[1])

LEMMA SteadyStays ==
  ASSUME OnlyDispatches, TypeOK, Steady, [Next]_vars
  PROVE  Timely /\ Steady'
<1> USE DEF Steady, OnlyDispatches
<1>1. \A t \in Threads, m \in {AutoMode} \cup Available : ~Select(t, m)
  BY DEF Select
<1>2. \A t \in Threads, o \in Ops : ~LazyInit(t, o)
  BY DEF LazyInit
<1>3. \A t \in Threads : ~Busy(t)
  BY DEF Busy, Drained
<1>4. Timely
  BY <1>1, <1>2, <1>3 DEF Timely
<1>5. ASSUME NEW t \in Threads, NEW p \in {"idle", "check", "compare", "call"},
             UNCHANGED <<memory, mode>>, pc' = [pc EXCEPT ![t] = p]
      PROVE  Steady'
  BY <1>5 DEF TypeOK, memory, Building, Routed
<1>6. ASSUME NEW t \in Threads,
             \/ CheckKernel(t) \/ CompareSignature(t) \/ RunKernel(t)
             \/ \E o \in Ops : Dispatch(t, o)
      PROVE  Steady'
  <2>1. /\ UNCHANGED <<memory, mode>>
        /\ \E p \in {"idle", "check", "compare", "call"} :
             pc' = [pc EXCEPT ![t] = p]
    BY <1>6 DEF CheckKernel, CompareSignature, RunKernel, Dispatch, End
  <2> QED BY <1>5, <2>1
<1>7. ASSUME NEW t \in Threads PROVE ~Finish(t) /\ ~FinishFails(t)
  BY DEF Finish, FinishFails
<1>8. ASSUME NEW t \in Threads PROVE ~Memory(t)
  BY DEF Memory, FlagBecomesVisible, BecomesVisible, NoStores
<1>9. CASE UNCHANGED vars
  <2>1. UNCHANGED <<memory, mode, pc>>
    BY <1>9 DEF vars, thread
  <2> QED BY <1>4, <2>1 DEF memory, Building, Routed
<1> QED BY <1>1, <1>2, <1>4, <1>6, <1>7, <1>8, <1>9
        DEF Next, Call, Step, Crashed

(***************************************************************************)
(* The other side of the comment at simd_dispatch.c:288: with the engine   *)
(* initialized and nobody selecting, any number of concurrent dispatches   *)
(* needs no lock.  Automatic selection stays in force, none of them jumps  *)
(* to NULL or finds a wrong signature, each one runs the best kernel for   *)
(* its operation, and none says that there is nothing where there is       *)
(* something (Answered).                                                   *)
(***************************************************************************)
THEOREM DispatchesNeedNoLock ==
  ASSUME OnlyDispatches
  PROVE  Spec => [](mode = AutoMode /\ Answered)
<1>1. Init => TypeOK /\ Kept /\ Steady
  BY InitTypeOK, InitKept DEF OnlyDispatches, Init, Steady, Building
<1>2. TypeOK /\ Kept /\ Steady /\ [Next]_vars => (TypeOK /\ Kept /\ Steady)'
  BY NextTypeOK, NextKept, SteadyStays
<1>3. Kept /\ Steady => mode = AutoMode /\ Answered
  BY DEF Kept, Steady
<1> QED BY <1>1, <1>2, <1>3, PTL DEF Spec

-----------------------------------------------------------------------------
(***************************************************************************)
(* Refinement: the threads that keep the contract implement what a single  *)
(* client is promised.  A build is one step of the promise, taken when it  *)
(* begins if a backend is named and when it ends if none is; the steps     *)
(* that make stores visible are hidden.                                    *)
(***************************************************************************)

Chosen ==
  /\ \A t \in Threads : Building(t) => wants[t] = mode
  /\ mode # AutoMode => mode \in Available /\ Begun

LEMMA TargetIsRoute ==
  ASSUME NEW m \in 0..N, NEW o \in Ops
  PROVE  Target[m][o] \in 0..N /\ Routed(Target[m][o], m, o)
<1>1. \E b \in 0..N : Routed(b, m, o)
  BY RouteStored, StoresType
<1> QED BY <1>1 DEF Target

\* A backend that is available has a kernel: its build does not fail.
LEMMA AvailableProvides ==
  ASSUME NEW b \in Available
  PROVE  \E o \in Ops : b \in Candidates(o)
<1>1. b \in Backends /\ Tables[b] \in KernelTable /\ Tables[b] # <<>>
  BY AvailableAssumption, WiredAssumption
<1>2. 1 \in DOMAIN Tables[b]
  BY <1>1 DEF KernelTable
<1>3. Tables[b][1].operation \in Ops
  BY <1>1, <1>2, WiredAssumption DEF TableOK, RowOK
<1> QED BY <1>2, <1>3 DEF Candidates, Provides, RowsFor

LEMMA NoBuildFails ==
  ASSUME TypeOK, Kept, Chosen, NEW t \in Threads, FinishFails(t)
  PROVE  FALSE
<1>1. Building(t) /\ mode # AutoMode /\ mode \in Available
  BY DEF FinishFails, Chosen
<1>2. PICK o \in Ops : mode \in Candidates(o)
  BY <1>1, AvailableProvides
<1>3. Routed(NoBackend, mode, o)
  <2>1. Sees(t, <<o, "invoke">>, NoBackend) /\ NoBackend \in 0..N
    BY NAssumption DEF FinishFails, NoBackend
  <2> QED BY <1>1, <2>1, SeesRoute
<1> QED BY <1>1, <1>2, <1>3, CandidatesType DEF Routed

LEMMA NextChosen ==
  ASSUME Orderly, TypeOK, Kept, Chosen, [Next]_vars
  PROVE  Chosen'
<1>1. ASSUME NEW t \in Threads, NEW m \in {AutoMode} \cup Available, Build(t, m),
             \A u \in Threads \ {t} : pc[u] = "idle"
      PROVE  Chosen'
  BY <1>1 DEF TypeOK, Build, Chosen, Begun, Building
<1>2. ASSUME NEW t \in Threads,
             \/ \E m \in {AutoMode} \cup Available : Select(t, m)
             \/ \E o \in Ops : LazyInit(t, o)
      PROVE  Chosen'
  <2>1. \A u \in Threads \ {t} : pc[u] = "idle"
    BY <1>2 DEF Orderly, OneThread, Select, MaySelect, LazyInit, MayDispatch
  <2> QED BY <1>1, <1>2, <2>1 DEF Select, LazyInit
<1>3. ASSUME NEW t \in Threads, Finish(t) PROVE Chosen'
  <2>1. \A u \in Threads \ {t} : pc'[u] = "idle"
    BY <1>3 DEF TypeOK, Finish, Kept, Alone, Busy
  <2> QED BY <1>3, <2>1 DEF TypeOK, Finish, Chosen, Begun, Building
<1>4. ASSUME NEW t \in Threads, CheckKernel(t) \/ CompareSignature(t) \/ RunKernel(t)
                               \/ \E o \in Ops : Dispatch(t, o)
      PROVE  Chosen'
  <2>1. /\ UNCHANGED <<memory, mode, wants>>
        /\ ~Building(t) /\ \E p \in {"idle", "check", "compare", "call"} :
                              pc' = [pc EXCEPT ![t] = p]
    BY <1>4 DEF CheckKernel, CompareSignature, RunKernel, Dispatch, End, Building
  <2> QED BY <2>1 DEF TypeOK, Chosen, Begun, Building, memory
<1>5. ASSUME NEW t \in Threads, FlagBecomesVisible(t) PROVE Chosen'
  BY <1>5 DEF Chosen, FlagBecomesVisible, Begun, Building, thread
<1>6. ASSUME NEW t \in Threads, NEW l \in Locations, BecomesVisible(t, l)
      PROVE  Chosen'
  BY <1>6 DEF Chosen, BecomesVisible, Begun, Building, thread
<1>7. CASE UNCHANGED vars
  BY <1>7 DEF vars, memory, thread, Chosen, Begun, Building
<1> QED BY <1>2, <1>3, <1>4, <1>5, <1>6, <1>7, NoBuildFails
        DEF Next, Call, Step, Memory, Crashed

LEMMA OffersAre ==
  /\ Offers \subseteq Backends \X Ops
  /\ \A b, o : o \in Ops => (<<b, o>> \in Offers <=> b \in Candidates(o))
BY AvailableAssumption DEF Offers, Candidates

LEMMA InitContract == Init /\ ~Ready => Contract!Init
<1> SUFFICES ASSUME Init, ~Ready PROVE Contract!Init
  OBVIOUS
<1>1. ~Selected /\ ~Resolving
  BY DEF Init, Selected, Resolving, Building
<1>2. Route = [o \in Ops |-> 0] /\ Phase = "unresolved" /\ Ran = <<>>
  BY <1>1 DEF Init, Route, Phase, Ran, NoBackend, NoResult, Result
<1> QED BY <1>2, OffersAre
        DEF Init, AutoMode, Contract!Init, Contract!NoRoute, Contract!Ops,
            Contract!Backends, Ops, Backends

\* A step that changes none of the four is a step of the promise or none.
LEMMA SameRoute ==
  ASSUME mode' = mode, Selected' = Selected, Resolving' = Resolving
  PROVE  Route' = Route /\ Phase' = Phase
BY DEF Route, Phase

LEMMA QuietContract ==
  ASSUME mode' = mode, Route' = Route, Phase' = Phase, Ran' \in {Ran, <<>>}
  PROVE  [Contract!Next]_(Contract!vars)
<1>1. CASE Ran' = Ran
  BY <1>1 DEF Contract!vars, Offers
<1>2. CASE Ran' = <<>>
  <2>1. Contract!RunNothing
    BY <1>2 DEF Contract!RunNothing, Offers
  <2> QED BY <2>1 DEF Contract!Next
<1> QED BY <1>1, <1>2

LEMMA BuildContract ==
  ASSUME TypeOK, Chosen, NEW t \in Threads, NEW m \in {AutoMode} \cup Available,
         Build(t, m), \A u \in Threads : pc[u] = "idle"
  PROVE  [Contract!Next]_(Contract!vars)
<1>1. /\ mode' = m /\ wants' = [wants EXCEPT ![t] = m] /\ last' = NoResult
      /\ pc' = [pc EXCEPT ![t] = "building"]
  BY DEF Build
<1>2. ~Resolving /\ (Resolving' <=> m = AutoMode)
  BY <1>1 DEF TypeOK, Resolving, Building
<1>3. Phase # "resolving" /\ Ran' = <<>>
  BY <1>1, <1>2 DEF Phase, Ran, NoResult, Result
<1>4. CASE m = AutoMode
  <2>1. Phase' = "resolving" /\ Route' = [o \in Ops |-> 0]
    BY <1>2, <1>4 DEF Phase, Route, NoBackend
  <2>2. Contract!GoAuto
    BY <1>1, <1>3, <1>4, <2>1
       DEF Contract!GoAuto, Contract!NoRoute, Contract!Ops, Ops, AutoMode, Offers
  <2> QED BY <2>2 DEF Contract!Next
<1>5. CASE m # AutoMode
  <2>1. m \in Available /\ m \in 0..N /\ m \in Backends
    <3>1. m \in Available
      BY <1>5
    <3>2. 1..N \subseteq 0..N
      BY NAssumption
    <3> QED BY <3>1, <3>2, AvailableAssumption DEF Backends
  <2>2. Phase' = "ready"
    BY <1>1, <1>2, <1>5 DEF Phase, Selected
  <2>3. ASSUME NEW o \in Ops
        PROVE  Target[m][o] = IF <<m, o>> \in Offers THEN m ELSE 0
    <3>1. Routed(Target[m][o], m, o)
      BY <2>1, TargetIsRoute
    <3> QED BY <1>5, <3>1, OffersAre DEF Routed, NoBackend
  <2>4. Route' = [o \in Ops |-> IF <<m, o>> \in Offers THEN m ELSE 0]
    <3>1. Selected' /\ ~Resolving' /\ mode' = m
      BY <1>1, <1>2, <1>5 DEF Selected
    <3>2. Route' = [o \in Ops |-> Target[m][o]]
      BY <3>1 DEF Route, Target, Routed
    <3> QED BY <2>3, <3>2
  <2>5. \E o \in Ops : <<m, o>> \in Offers
    BY <2>1, AvailableProvides, OffersAre
  <2>6. Contract!GoExplicit(m)
    BY <1>1, <1>3, <2>2, <2>4, <2>5 DEF Contract!GoExplicit, Contract!Ops, Ops, Offers
  <2> QED BY <2>1, <2>6 DEF Contract!Next, Contract!Backends, Backends
<1> QED BY <1>4, <1>5

LEMMA FinishContract ==
  ASSUME TypeOK, Kept, Chosen, NEW t \in Threads, Finish(t)
  PROVE  [Contract!Next]_(Contract!vars)
<1>1. /\ Building(t) /\ wants[t] = mode /\ t \in flagging'
      /\ \A u \in Threads \ {t} : pc[u] = "idle"
      /\ pc'[t] # "building" /\ \A u \in Threads \ {t} : pc'[u] = pc[u]
      /\ mode' = mode /\ last' = last
  BY DEF TypeOK, Finish, Chosen, Kept, Alone, Busy
<1>2. Selected' /\ ~Resolving' /\ (Resolving <=> mode = AutoMode)
  BY <1>1 DEF Selected, Resolving, Building
<1>3. Ran' = Ran
  BY <1>1 DEF Ran
<1>4. CASE mode = AutoMode
  <2>1. Phase = "resolving" /\ Phase' = "ready"
    BY <1>2, <1>4 DEF Phase
  <2>2. Route' = [o \in Ops |-> Target[AutoMode][o]]
    BY <1>1, <1>2, <1>4 DEF Route, Target, Routed
  <2>3. AutoMode \in 0..N
    BY NAssumption DEF AutoMode
  <2>4. Route' \in [Ops -> 0..N]
    BY <2>2, <2>3, TargetIsRoute
  <2>5. ASSUME NEW o \in Ops
        PROVE  \/ Contract!IsBest(Route[o], o)'
               \/ Route'[o] = 0 /\ \A b \in Backends : <<b, o>> \notin Offers
    <3>1. Routed(Route'[o], AutoMode, o)
      BY <2>2, <2>3, TargetIsRoute
    <3> QED BY <3>1, OffersAre
            DEF Routed, Contract!IsBest, Contract!Prefers, Contract!Backends,
                Better, NoBackend, Backends, Offers
  <2>6. Contract!Settle
    BY <1>1, <1>3, <2>1, <2>4, <2>5
       DEF Contract!Settle, Contract!Ops, Contract!Backends, Contract!IsBest,
           Contract!Prefers, Ops, Backends, Offers
  <2> QED BY <2>6 DEF Contract!Next
<1>5. CASE mode # AutoMode
  <2>1. Route' = Route /\ Phase' = Phase
    <3>1. Resolving' = Resolving
      BY <1>2, <1>5 DEF Resolving
    <3>2. Selected' = Selected
      BY <1>1, <1>5 DEF Selected
    <3> QED BY <1>1, <3>1, <3>2, SameRoute
  <2> QED BY <1>1, <1>3, <2>1, QuietContract
<1> QED BY <1>4, <1>5

LEMMA NextContract ==
  ASSUME Orderly, TypeOK, Kept, Chosen, Kept', [Next]_vars
  PROVE  [Contract!Next]_(Contract!vars)
<1>1. ASSUME NEW t \in Threads,
             \/ \E m \in {AutoMode} \cup Available : Select(t, m)
             \/ \E o \in Ops : LazyInit(t, o)
      PROVE  [Contract!Next]_(Contract!vars)
  <2>1. \A u \in Threads : pc[u] = "idle"
    BY <1>1 DEF Orderly, OneThread, Select, MaySelect, LazyInit, MayDispatch
  <2> QED BY <1>1, <2>1, BuildContract DEF Select, LazyInit
<1>2. ASSUME NEW t \in Threads, NEW p \in {"idle", "check", "compare", "call"},
             ~Building(t), pc' = [pc EXCEPT ![t] = p],
             UNCHANGED <<memory, mode, wants>>
      PROVE  Route' = Route /\ Phase' = Phase /\ mode' = mode
  <2>1. Resolving' = Resolving /\ Selected' = Selected
    BY <1>2 DEF TypeOK, Resolving, Building, Selected, memory
  <2> QED BY <1>2, <2>1, SameRoute
<1>3. ASSUME NEW t \in Threads, NEW o \in Ops, Dispatch(t, o)
      PROVE  [Contract!Next]_(Contract!vars)
  <2>1. Ran' = <<>>
    BY <1>3 DEF Dispatch, Ran, NoResult, Result
  <2>2. Route' = Route /\ Phase' = Phase /\ mode' = mode
    BY <1>2, <1>3 DEF Dispatch, Building
  <2> QED BY <2>1, <2>2, QuietContract
<1>4. ASSUME NEW t \in Threads, CheckKernel(t) \/ CompareSignature(t) \/ RunKernel(t)
      PROVE  [Contract!Next]_(Contract!vars)
  <2>1. /\ InCall(t) /\ ~Building(t) /\ op[t] \in Ops
        /\ UNCHANGED <<memory, mode, wants>>
        /\ \E p \in {"idle", "check", "compare", "call"} :
             pc' = [pc EXCEPT ![t] = p]
    BY <1>4 DEF TypeOK, CheckKernel, CompareSignature, RunKernel, End, InCall, Building
  <2>2. Route' = Route /\ Phase' = Phase /\ mode' = mode
    BY <1>2, <2>1
  <2>3. CASE last' = last \/ last'.kind # "ran"
    <3>1. Ran' \in {Ran, <<>>}
      BY <2>3 DEF Ran
    <3> QED BY <2>2, <3>1, QuietContract
  <2>4. CASE last'.kind = "ran"
    <3>1. CASE last' = last
      BY <2>3, <3>1
    <3>2. CASE last' # last
      <4>1. last'.op = op[t]
        BY <1>4, <3>2 DEF CheckKernel, CompareSignature, RunKernel, End, Result
      <4>2. Routed(last'.kernel[1], mode, op[t]) /\ last'.kernel[1] # NoBackend
        <5>1. Routed(last'.kernel[1], mode', last'.op)
          BY <2>4 DEF Kept, Answered, Routed
        <5>2. last'.kernel \in Kernels /\ last'.kernel # NoKernel
          <6>1. CASE CheckKernel(t) \/ CompareSignature(t)
            BY <2>4, <3>2, <6>1 DEF CheckKernel, CompareSignature, End, Result
          <6>2. CASE RunKernel(t)
            <7>1. seen[t] \in Kernels /\ seen[t] # NoKernel
              BY <6>2 DEF TypeOK, Kept, Decided, RunKernel
            <7> QED BY <2>4, <6>2, <7>1, KernelOfType DEF RunKernel, End, Result
          <6> QED BY <1>4, <6>1, <6>2
        <5> QED BY <2>2, <4>1, <5>1, <5>2, KernelsType
      <4>3. Target[mode][op[t]] = last'.kernel[1]
        BY <2>1, <4>2, TargetIsRoute, RouteUnique DEF TypeOK
      <4>4. Selected /\ ~Resolving
        BY <2>1 DEF Kept, Decided, Alone, Busy, Building, InCall, Selected, Resolving
      <4>5. Phase = "ready" /\ Route[op[t]] = last'.kernel[1]
        BY <2>1, <4>3, <4>4 DEF Phase, Route
      <4>6. Ran' = <<op[t], Route[op[t]]>>
        BY <2>4, <4>1, <4>5 DEF Ran
      <4>7. Contract!Run(op[t])
        BY <2>2, <4>2, <4>5, <4>6 DEF Contract!Run, NoBackend, Offers
      <4> QED BY <2>1, <4>7 DEF Contract!Next, Contract!Ops, Ops
    <3> QED BY <3>1, <3>2
  <2> QED BY <2>3, <2>4
<1>5. ASSUME NEW t \in Threads,
             FlagBecomesVisible(t) \/ \E l \in Locations : BecomesVisible(t, l)
      PROVE  [Contract!Next]_(Contract!vars)
  <2>1. /\ UNCHANGED <<mode, pc, wants, last>>
        /\ (initialized' \/ flagging' # {}) = (initialized \/ flagging # {})
    BY <1>5 DEF TypeOK, FlagBecomesVisible, BecomesVisible, thread
  <2>2. Resolving' = Resolving /\ Selected' = Selected
    BY <2>1 DEF Resolving, Building, Selected
  <2>3. Ran' = Ran
    BY <2>1 DEF Ran
  <2> QED BY <2>1, <2>2, <2>3, SameRoute, QuietContract
<1>6. CASE UNCHANGED vars
  <2>1. Resolving' = Resolving /\ Selected' = Selected /\ mode' = mode
    BY <1>6 DEF vars, memory, thread, Resolving, Building, Selected
  <2>2. Ran' = Ran
    BY <1>6 DEF vars, Ran
  <2> QED BY <2>1, <2>2, SameRoute, QuietContract
<1> QED BY <1>1, <1>3, <1>4, <1>5, <1>6, FinishContract, NoBuildFails
        DEF Next, Call, Step, Memory, Crashed

(***************************************************************************)
(* Threads that keep the contract of the comment, or a single thread in    *)
(* any case, implement the promise of DispatchContract, from an engine     *)
(* that nobody has used.                                                   *)
(***************************************************************************)
THEOREM ThreadsImplementContract ==
  ASSUME Orderly, ~Ready
  PROVE  Spec => ContractHolds
<1>1. Init => TypeOK /\ Kept /\ Chosen /\ Contract!Init
  <2>1. Init => Chosen
    BY DEF Init, Chosen, Building
  <2> QED BY <2>1, InitTypeOK, InitKept, InitContract
<1>2. TypeOK /\ Kept /\ Chosen /\ [Next]_vars => (TypeOK /\ Kept /\ Chosen)'
  BY NextTypeOK, NextKept, NextChosen, OrderlyIsTimely
<1>3. TypeOK /\ Kept /\ Chosen /\ Kept' /\ [Next]_vars =>
        [Contract!Next]_(Contract!vars)
  BY NextContract
<1> QED BY <1>1, <1>2, <1>3, PTL DEF Spec, ContractHolds, Contract!Spec

-----------------------------------------------------------------------------
(***************************************************************************)
(* The safety half of SelectionTakesEffect, for every number of threads:   *)
(* once no build is under way and every store is visible, the table that   *)
(* all threads see is the one the last selection decided, all fields of a  *)
(* slot from one backend.                                                  *)
(***************************************************************************)
THEOREM SelectionIsWholeWhenVisible ==
  ASSUME Orderly
  PROVE  Spec => [](Selected /\ (\A t \in Threads : ~Building(t) /\ Drained(t))
                      => Whole(mode))
<1>1. Init => TypeOK /\ Kept /\ Chosen
  BY InitTypeOK, InitKept DEF Init, Chosen, Building
<1>2. TypeOK /\ Kept /\ Chosen /\ [Next]_vars => (TypeOK /\ Kept /\ Chosen)'
  BY NextTypeOK, NextKept, NextChosen, OrderlyIsTimely
<1>3. ASSUME TypeOK, Kept, Chosen, Selected,
             \A t \in Threads : ~Building(t) /\ Drained(t)
      PROVE  Whole(mode)
  <2>1. Begun
    BY <1>3 DEF Selected, Chosen, Begun
  <2>2. \A l \in Locations : \A t \in Threads : pending[t][l] = {}
    BY <1>3 DEF Drained, NoStores
  <2> QED BY <1>3, <2>1, <2>2 DEF Kept, Settled, Whole
<1>4. TypeOK /\ Kept /\ Chosen =>
        (Selected /\ (\A t \in Threads : ~Building(t) /\ Drained(t)) => Whole(mode))
  BY <1>3
<1> QED BY <1>1, <1>2, <1>4, PTL DEF Spec

=============================================================================
