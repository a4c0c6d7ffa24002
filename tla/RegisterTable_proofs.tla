----------------------- MODULE RegisterTable_proofs ------------------------
(***************************************************************************)
(* A kernel table is registered as a whole or not at all, and to the       *)
(* effect that SimdDispatch takes as one step: for every catalog and every *)
(* set of tables.                                                          *)
(***************************************************************************)
EXTENDS RegisterTable, KernelTables_proofs

\* The operations whose row the installation pass already went past.
Passed(op) == \E j \in RowsFor(table, op) : j < row

\* The builder in the middle of the installation pass: the slots of the
\* operations passed are those of the whole table, the others untouched.
PrefixInstalled ==
  \A op \in Ops :
    IF Passed(op) /\ Priority[backend] < before.best[op]
    THEN /\ slots[op] = SlotOf(backend, table, op)
         /\ best[op] = Priority[backend]
    ELSE /\ slots[op] = before.slots[op]
         /\ best[op] = before.best[op]

IInv ==
  /\ TypeOK
  /\ pass # "caller" => backend \in Backends
  /\ AllOrNothing
  /\ pass = "validate" => \A j \in DOMAIN table : j < row => RowOK(table[j])
  /\ pass = "install" => TableOK(table) /\ PrefixInstalled
  /\ InstallsTheTable

LEMMA InitIInv == Init => IInv
<1> SUFFICES ASSUME Init PROVE IInv
  OBVIOUS
<1>1. <<>> \in KernelTable
  BY DEF KernelTable
<1> QED BY <1>1, EmptyTypes, NAssumption
        DEF Init, IInv, TypeOK, AllOrNothing, InstallsTheTable, NoBackend

\* A step of the installation pass moves the boundary of what is installed
\* past one row.
LEMMA InstallRowIInv == IInv /\ InstallRow => IInv'
<1> SUFFICES ASSUME IInv, InstallRow PROVE IInv'
  OBVIOUS
<1> DEFINE r == table[row]
<1>1. /\ slots \in [Ops -> Slot] /\ best \in [Ops -> 0..UintMax]
      /\ backend \in Backends /\ table \in KernelTable
      /\ TableOK(table) /\ PrefixInstalled
      /\ pass = "install" /\ row \in DOMAIN table
      /\ UNCHANGED <<backend, table, pass, before>> /\ row' = row + 1
  BY DEF IInv, TypeOK, InstallRow
<1>2. row \in Nat \ {0} /\ row' \in 1..(Len(table') + 1)
  BY <1>1 DEF KernelTable
<1>3. PICK o \in Ops :
        RowOK(r) /\ o = r.operation /\ row \in RowsFor(table, o)
  BY <1>1 DEF TableOK, RowOK, RowsFor
<1>4. \A op \in Ops : RowsFor(table, op) \subseteq Nat
  BY <1>1 DEF KernelTable, RowsFor
<1>5. ASSUME NEW op \in Ops, op # o
      PROVE  Passed(op)' <=> Passed(op)
  <2>1. row \notin RowsFor(table, op)
    BY <1>3, <1>5 DEF RowsFor
  <2> QED BY <1>1, <1>2, <1>4, <2>1 DEF Passed
<1>6. Passed(o)'
  BY <1>1, <1>2, <1>3 DEF Passed
<1>7. PrefixInstalled' /\ slots' \in [Ops -> Slot] /\ best' \in [Ops -> 0..UintMax]
  <2>1. CASE ShouldUpdate(r)
    <3>1. Priority[backend] < best[o]
      BY <1>3, <2>1 DEF ShouldUpdate
    <3>2. ~Passed(o) /\ Priority[backend] < before.best[o]
      BY <1>1, <1>3, <3>1, PriorityAssumption DEF PrefixInstalled
    <3>3. FirstRow(table, o) = row
      <4>1. /\ FirstRow(table, o) \in RowsFor(table, o)
            /\ FirstRow(table, o) <= row
        BY <1>1, <1>3, FirstRowIsFirst DEF Provides
      <4>2. ~(FirstRow(table, o) < row)
        BY <3>2, <4>1 DEF Passed
      <4> QED BY <4>1, <4>2, <1>2, <1>3, <1>4
    <3>4. /\ slots' = [slots EXCEPT ![o] = SlotOf(backend, table, o)]
          /\ best' = [best EXCEPT ![o] = Priority[backend]]
      BY <1>3, <2>1, <3>3 DEF SlotOf, InstallRow
    <3>5. SlotOf(backend, table, o) \in Slot
      BY <1>1, <1>3, SlotOfType DEF Provides
    <3>6. Priority[backend] \in 0..UintMax
      BY <1>1, PriorityAssumption, UintMaxAssumption
    <3>7. ASSUME NEW op \in Ops
          PROVE  IF Passed(op)' /\ Priority[backend] < before.best[op]
                 THEN /\ slots'[op] = SlotOf(backend, table, op)
                      /\ best'[op] = Priority[backend]
                 ELSE /\ slots'[op] = before.slots[op]
                      /\ best'[op] = before.best[op]
      <4>1. CASE op = o
        BY <4>1, <1>1, <1>3, <1>6, <3>2, <3>4
      <4>2. CASE op # o
        BY <4>2, <1>1, <1>5, <3>4 DEF PrefixInstalled
      <4> QED BY <4>1, <4>2
    <3> QED BY <1>1, <1>3, <3>4, <3>5, <3>6, <3>7 DEF PrefixInstalled
  <2>2. CASE ~ShouldUpdate(r)
    <3>1. ~(Priority[backend] < best[o])
      BY <1>3, <2>2 DEF ShouldUpdate, RowOK
    <3>2. Priority[backend] < before.best[o] => Passed(o)
      BY <1>1, <1>3, <3>1 DEF PrefixInstalled
    <3>3. UNCHANGED <<slots, best>>
      BY <2>2 DEF InstallRow
    <3>4. ASSUME NEW op \in Ops, Priority[backend] < before.best[op]
          PROVE  Passed(op)' <=> Passed(op)
      <4>1. CASE op = o
        BY <4>1, <1>6, <3>2, <3>4
      <4>2. CASE op # o
        BY <4>2, <1>5
      <4> QED BY <4>1, <4>2
    <3> QED BY <1>1, <3>3, <3>4 DEF PrefixInstalled
  <2> QED BY <2>1, <2>2
<1> QED BY <1>1, <1>2, <1>7
        DEF IInv, TypeOK, AllOrNothing, InstallsTheTable

LEMMA NextIInv == IInv /\ [Next]_vars => IInv'
<1> SUFFICES ASSUME IInv, [Next]_vars PROVE IInv'
  OBVIOUS
<1> USE DEF IInv, TypeOK, KernelTable
<1>1. CASE BuilderInit
  BY <1>1, EmptyTypes, NAssumption
     DEF BuilderInit, AllOrNothing, InstallsTheTable, NoBackend
<1>2. ASSUME NEW b \in Backends, NEW t \in Tables, Register(b, t)
      PROVE IInv'
  BY <1>2, TablesAssumption
     DEF Register, AllOrNothing, InstallsTheTable, Backends
<1>3. CASE Validate
  BY <1>3 DEF Validate, AllOrNothing, InstallsTheTable
<1>4. CASE Reject
  BY <1>4 DEF Reject, AllOrNothing, InstallsTheTable
<1>5. CASE StartInstall
  <2>1. TableOK(table')
    BY <1>5 DEF StartInstall, TableOK
  <2>2. PrefixInstalled'
    BY <1>5 DEF StartInstall, PrefixInstalled, Passed, AllOrNothing, RowsFor
  <2> QED BY <1>5, <2>1, <2>2
          DEF StartInstall, AllOrNothing, InstallsTheTable
<1>6. CASE InstallRow
  BY <1>6, InstallRowIInv
<1>7. CASE Finish
  <2> USE DEF Finish
  <2>1. \A op \in Ops : Passed(op) <=> Provides(table, op)
    BY <1>7 DEF Passed, Provides, RowsFor
  <2>2. /\ slots = InstallSlots(backend, table, before.slots, before.best)
        /\ best = InstallBest(backend, table, before.best)
    BY <1>7, <2>1 DEF PrefixInstalled, InstallSlots, InstallBest, Wins
  <2> QED BY <1>7, <2>2 DEF AllOrNothing, InstallsTheTable
<1>8. CASE UNCHANGED vars
  BY <1>8 DEF vars, AllOrNothing, InstallsTheTable, PrefixInstalled, Passed
<1> QED BY <1>1, <1>2, <1>3, <1>4, <1>5, <1>6, <1>7, <1>8 DEF Next, Step

(***************************************************************************)
(* The inductive invariant of the two passes.                              *)
(***************************************************************************)
THEOREM Invariant == Spec => []IInv
BY InitIInv, NextIInv, PTL DEF Spec

(***************************************************************************)
(* sd_register_kernel_table changes nothing while it validates and nothing *)
(* when it raises.                                                         *)
(***************************************************************************)
THEOREM AtomicRegistration == Spec => []AllOrNothing
<1>1. IInv => AllOrNothing
  BY DEF IInv
<1> QED BY <1>1, Invariant, PTL

(***************************************************************************)
(* sd_register_kernel_table that returns found no bad row, and left the    *)
(* slots and priorities that SimdDispatch computes in one step.            *)
(***************************************************************************)
THEOREM CorrectRegistration == Spec => []InstallsTheTable
<1>1. IInv => InstallsTheTable
  BY DEF IInv
<1> QED BY <1>1, Invariant, PTL

-----------------------------------------------------------------------------
(***************************************************************************)
(* The two passes as one step.  What counts of the builder between calls   *)
(* is what it was on entry until the installation pass has met the         *)
(* sentinel.                                                               *)
(***************************************************************************)

Committed ==
  IF pass = "install" THEN before ELSE [slots |-> slots, best |-> best]

\* A registration in one step, on what is committed: the form in which
\* SimdDispatch has sd_register_kernel_table.
RegisterAtOnce ==
  /\ backend \in Backends
  /\ TableOK(table)
  /\ Committed' =
       [slots |-> InstallSlots(backend, table, Committed.slots, Committed.best),
        best  |-> InstallBest(backend, table, Committed.best)]

InitAtOnce == Committed' = [slots |-> EmptySlots, best |-> NoBest]

\* The installation pass starts from what the builder was on entry, and what
\* it installs does not show until it is over.
LEMMA StepIsAtOnceOrNothing ==
  ASSUME IInv, IInv', [Next]_vars, Committed' # Committed
  PROVE  InitAtOnce \/ RegisterAtOnce
<1>1. CASE BuilderInit
  BY <1>1 DEF BuilderInit, InitAtOnce, Committed
<1>2. ASSUME NEW b \in Backends, NEW t \in Tables, Register(b, t)
      PROVE  Committed' = Committed
  BY <1>2 DEF Register, Committed
<1>3. CASE Validate \/ Reject
  BY <1>3 DEF Validate, Reject, Committed
<1>4. CASE StartInstall
  <2>1. slots = before.slots /\ best = before.best /\ UNCHANGED before
    BY <1>4 DEF StartInstall, IInv, AllOrNothing
  <2>2. before = [slots |-> before.slots, best |-> before.best]
    BY DEF IInv, TypeOK
  <2>3. Committed' = Committed
    BY <1>4, <2>1, <2>2 DEF StartInstall, Committed
  <2> QED BY <2>3
<1>5. CASE InstallRow
  BY <1>5 DEF InstallRow, Committed
<1>6. CASE Finish
  <2>1. /\ backend \in Backends /\ TableOK(table)
        /\ backend' = backend /\ backend # NoBackend
        /\ UNCHANGED <<table, before, slots, best>>
        /\ pass' = "caller"
    BY <1>6 DEF Finish, IInv, Backends, NoBackend
  <2>2. /\ slots' = InstallSlots(backend, table, before.slots, before.best)
        /\ best' = InstallBest(backend, table, before.best)
    BY <2>1 DEF IInv, InstallsTheTable
  <2>3. Committed = before /\ Committed' = [slots |-> slots', best |-> best']
    BY <1>6, <2>1 DEF Finish, Committed
  <2>4. RegisterAtOnce
    BY <2>1, <2>2, <2>3 DEF RegisterAtOnce
  <2> QED BY <2>4
<1>7. CASE UNCHANGED vars
  BY <1>7 DEF vars, Committed
<1> QED BY <1>1, <1>2, <1>3, <1>4, <1>5, <1>6, <1>7 DEF Next, Step

(***************************************************************************)
(* sd_register_kernel_table, row by row, does what SimdDispatch has as a   *)
(* single step: the committed slots and priorities change only by a new    *)
(* sd_builder_init, or at once to those of a table without a bad row.      *)
(***************************************************************************)
THEOREM RegistrationIsOneStep ==
  Spec => [][InitAtOnce \/ RegisterAtOnce]_Committed
<1>1. IInv /\ IInv' /\ [Next]_vars => [InitAtOnce \/ RegisterAtOnce]_Committed
  BY StepIsAtOnceOrNothing
<1> QED BY <1>1, Invariant, PTL DEF Spec

\* The row the first pass stopped at, and none before it, is bad.
AtFirstBadRow ==
  /\ row \in DOMAIN table
  /\ ~RowOK(table[row])
  /\ \A j \in DOMAIN table : j < row => RowOK(table[j])

RaisesForBadTables ==
  /\ pass = "raised" => AtFirstBadRow /\ ~TableOK(table)
  /\ \/ pass = "install"
     \/ pass = "caller" /\ backend # NoBackend
     => TableOK(table)

(***************************************************************************)
(* sd_register_kernel_table raises exactly for the tables with a bad row,  *)
(* however many good rows or rows that would lose their slot it has, and   *)
(* what it raises is about the first bad one.                              *)
(***************************************************************************)
THEOREM RaisesExactlyForBadTables == Spec => []RaisesForBadTables
<1>1. Init => RaisesForBadTables
  BY DEF Init, RaisesForBadTables
<1>2. IInv /\ RaisesForBadTables /\ IInv' /\ [Next]_vars => RaisesForBadTables'
  <2> SUFFICES ASSUME IInv, RaisesForBadTables, IInv', [Next]_vars
               PROVE  RaisesForBadTables'
    OBVIOUS
  <2>1. pass' = "raised" => AtFirstBadRow'
    <3>1. CASE Reject
      BY <3>1 DEF Reject, IInv, AtFirstBadRow
    <3>2. CASE UNCHANGED vars
      BY <3>2 DEF vars, AtFirstBadRow, RaisesForBadTables
    <3>3. CASE Next /\ ~Reject
      BY <3>3 DEF Next, Step, BuilderInit, Register, Validate, StartInstall,
                  InstallRow, Finish
    <3> QED BY <3>1, <3>2, <3>3
  <2>2. AtFirstBadRow' => ~TableOK(table)'
    BY DEF AtFirstBadRow, TableOK
  <2> QED BY <2>1, <2>2 DEF RaisesForBadTables, IInv, InstallsTheTable
<1> QED BY <1>1, <1>2, Invariant, PTL DEF Spec

-----------------------------------------------------------------------------
(***************************************************************************)
(* Steps a registration still has to take, at most: what is left of the    *)
(* two passes, each of which also looks at the sentinel.                   *)
(***************************************************************************)
Work ==
  CASE pass = "validate" -> (Len(table) + 2 - row) + (Len(table) + 1)
    [] pass = "install"  -> Len(table) + 2 - row
    [] OTHER             -> 0

BoundedWork ==
  /\ Work \in 0..(2 * Len(table) + 2)
  /\ Work = 0 <=> pass \in {"caller", "raised"}

WorkShrinks == [][Step => Work' < Work]_vars

(***************************************************************************)
(* sd_register_kernel_table returns or raises after at most two looks at   *)
(* every row of the table and at the sentinel: no row is looked at again   *)
(* within a pass, and the second pass goes to the end.                     *)
(***************************************************************************)
THEOREM RegistrationsAreBounded == Spec => []BoundedWork /\ WorkShrinks
<1>1. IInv => BoundedWork
  <2> SUFFICES ASSUME IInv PROVE BoundedWork
    OBVIOUS
  <2>1. /\ Len(table) \in Nat
        /\ row \in 1..(Len(table) + 1)
        /\ pass \in {"caller", "validate", "install", "raised"}
    BY DEF IInv, TypeOK, KernelTable
  <2> QED BY <2>1 DEF BoundedWork, Work
<1>2. IInv /\ [Next]_vars => [Step => Work' < Work]_vars
  <2> SUFFICES ASSUME IInv, Step PROVE Work' < Work
    OBVIOUS
  <2>1. /\ Len(table) \in Nat
        /\ DOMAIN table = 1..Len(table)
        /\ row \in 1..(Len(table) + 1)
    BY DEF IInv, TypeOK, KernelTable
  <2>2. CASE Validate
    BY <2>1, <2>2 DEF Validate, Work
  <2>3. CASE Reject
    BY <2>1, <2>3 DEF Reject, Work
  <2>4. CASE StartInstall
    BY <2>1, <2>4 DEF StartInstall, Work
  <2>5. CASE InstallRow
    BY <2>1, <2>5 DEF InstallRow, Work
  <2>6. CASE Finish
    BY <2>1, <2>6 DEF Finish, Work
  <2> QED BY <2>2, <2>3, <2>4, <2>5, <2>6 DEF Step
<1> QED BY <1>1, <1>2, Invariant, PTL DEF Spec, WorkShrinks

=============================================================================
