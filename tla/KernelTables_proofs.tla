------------------------ MODULE KernelTables_proofs ------------------------
(***************************************************************************)
(* Lemmas about the operators of KernelTables, for every catalog and every *)
(* table.                                                                  *)
(***************************************************************************)
EXTENDS KernelTables, TLAPS, WellFoundedInduction, FiniteSetTheorems

(***************************************************************************)
(* A nonempty set of naturals has a least element.  The library states     *)
(* that with operator parameters; here it is taken from the well-founded   *)
(* ordering of the subsets of 0..n by strict inclusion.                    *)
(***************************************************************************)
LEMMA LeastNatural ==
  ASSUME NEW S, S \subseteq Nat, S # {}
  PROVE  \E m \in S : \A k \in S : m <= k
<1>1. PICK n \in S : TRUE
  OBVIOUS
<1> DEFINE R == StrictSubsetOrdering(0..n)
           W == FiniteSubsetsOf(0..n)
           T == {0..k : k \in {j \in S : j <= n}}
<1>2. IsFiniteSet(0..n)
  BY <1>1, FS_Interval
<1>3. IsWellFoundedOn(R, W)
  BY <1>2, FS_StrictSubsetOrderingWellFounded
<1>4. T \subseteq W /\ 0..n \in T
  <2>1. W = SUBSET (0..n)
    BY <1>2, FS_FiniteSubsetsOfFinite
  <2> HIDE DEF W
  <2> QED BY <2>1
<1>5. PICK x \in T : \A y \in T : <<y, x>> \notin R
  <2> HIDE DEF R, W, T
  <2> QED BY <1>3, <1>4, WFMin
<1>6. PICK m \in S : m <= n /\ x = 0..m
  BY <1>5
<1>7. ASSUME NEW k \in S, k < m PROVE FALSE
  <2>1. 0..k \in T
    BY <1>1, <1>6, <1>7
  <2>2. <<0..k, x>> \in R
    BY <1>1, <1>6, <1>7 DEF StrictSubsetOrdering
  <2> QED BY <1>5, <2>1, <2>2
<1> QED BY <1>6, <1>7

(***************************************************************************)
(* FirstRow is defined wherever a table provides the operation: it is a    *)
(* row for it, and none comes before it.                                   *)
(***************************************************************************)
LEMMA FirstRowIsFirst ==
  ASSUME NEW table \in KernelTable, NEW op, Provides(table, op)
  PROVE  /\ FirstRow(table, op) \in RowsFor(table, op)
         /\ \A j \in RowsFor(table, op) : FirstRow(table, op) <= j
<1>1. RowsFor(table, op) \subseteq Nat /\ RowsFor(table, op) # {}
  BY DEF KernelTable, RowsFor, Provides
<1>2. \E m \in RowsFor(table, op) : \A k \in RowsFor(table, op) : m <= k
  BY <1>1, LeastNatural
<1> QED BY <1>2 DEF FirstRow

LEMMA FirstRowType ==
  ASSUME NEW table \in KernelTable, NEW op, Provides(table, op)
  PROVE  /\ FirstRow(table, op) \in Nat \ {0}
         /\ FirstRow(table, op) \in DOMAIN table
         /\ table[FirstRow(table, op)] \in KernelDef
         /\ table[FirstRow(table, op)].operation = op
<1>1. FirstRow(table, op) \in RowsFor(table, op)
  BY FirstRowIsFirst
<1> QED BY <1>1 DEF KernelTable, RowsFor

(***************************************************************************)
(* What a backend puts into a slot is a slot, a resolved one, and its      *)
(* signature is the canonical one when the table has no bad row.           *)
(***************************************************************************)
LEMMA SlotOfType ==
  ASSUME NEW b \in Backends, NEW table \in KernelTable, NEW op,
         Provides(table, op)
  PROVE  /\ SlotOf(b, table, op) \in Slot
         /\ SlotOf(b, table, op).invoke = <<b, FirstRow(table, op)>>
         /\ SlotOf(b, table, op).invoke # NoKernel
         /\ SlotOf(b, table, op).backend = b
         /\ SlotOf(b, table, op) # EmptySlot
<1>1. /\ FirstRow(table, op) \in Nat \ {0}
      /\ table[FirstRow(table, op)].signature \in 0..NumSigs
  BY FirstRowType DEF KernelDef
<1>2. b \in 1..N /\ b # 0
  BY NAssumption DEF Backends
<1> QED BY <1>1, <1>2, NAssumption
        DEF SlotOf, Slot, NoKernel, NoBackend, Backends, EmptySlot

LEMMA EmptyTypes ==
  /\ EmptySlot \in Slot
  /\ EmptySlots \in [Ops -> Slot]
  /\ NoBest \in [Ops -> 0..UintMax]
BY NAssumption, NumSigsAssumption, UintMaxAssumption
   DEF EmptySlot, EmptySlots, NoBest, Slot, NoKernel, NoSignature, NoBackend

LEMMA InstallTypes ==
  ASSUME NEW b \in Backends, NEW table \in KernelTable,
         NEW slots \in [Ops -> Slot], NEW best \in [Ops -> 0..UintMax]
  PROVE  /\ InstallSlots(b, table, slots, best) \in [Ops -> Slot]
         /\ InstallBest(b, table, best) \in [Ops -> 0..UintMax]
<1>1. ASSUME NEW op \in Ops, Wins(b, table, best, op)
      PROVE  SlotOf(b, table, op) \in Slot
  BY <1>1, SlotOfType DEF Wins
<1>2. Priority[b] \in 0..UintMax
  BY PriorityAssumption, UintMaxAssumption
<1> QED BY <1>1, <1>2 DEF InstallSlots, InstallBest

=============================================================================
