---------------------------- MODULE RegisterTable ---------------------------
(***************************************************************************)
(* sd_register_kernel_table row by row: a first pass that validates every  *)
(* row of the table and raises at the first bad one, then a second pass    *)
(* that installs the rows that beat the priority their slot already has.   *)
(*                                                                         *)
(* The module drives one SdDispatchBuilder the way sd_build_auto_slots and *)
(* sd_build_backend_slots do: sd_builder_init, then one registration per   *)
(* backend, in the order of backends.def, each with some table.            *)
(***************************************************************************)
EXTENDS KernelTables

CONSTANT Tables   \* the tables a backend may register
ASSUME TablesAssumption == Tables \subseteq KernelTable

VARIABLES
  slots,    \* builder->slots
  best,     \* builder->best_priority
  backend,  \* builder->backend, NoBackend for NULL
  table,    \* the argument kernels
  pass,     \* "caller", "validate", "install", "raised"
  row,      \* the loop variable i, counted from 1
  before    \* history: slots and best on entry to the current registration

vars == <<slots, best, backend, table, pass, row, before>>

Init ==
  /\ slots = EmptySlots
  /\ best = NoBest
  /\ backend = NoBackend
  /\ table = <<>>
  /\ pass = "caller"
  /\ row = 1
  /\ before = [slots |-> slots, best |-> best]

\* memset of the slots and sd_builder_init: a new build, also after an error
\* left the previous one.
BuilderInit ==
  /\ pass \in {"caller", "raised"}
  /\ slots' = EmptySlots
  /\ best' = NoBest
  /\ backend' = NoBackend
  /\ table' = <<>>
  /\ pass' = "caller"
  /\ row' = 1
  /\ before' = [slots |-> slots', best |-> best']

\* The caller sets builder->backend and calls register_backend, which
\* passes the static table of its kernel_*.c.
Register(b, t) ==
  /\ pass = "caller"
  /\ b > backend
  /\ backend' = b
  /\ table' = t
  /\ pass' = "validate"
  /\ row' = 1
  /\ before' = [slots |-> slots, best |-> best]
  /\ UNCHANGED <<slots, best>>

\* Faulty variant: one pass that installs each row it found good.
ValidateInstalling ==
  /\ pass = "validate"
  /\ row \in DOMAIN table
  /\ RowOK(table[row])
  /\ slots' = [slots EXCEPT ![table[row].operation] =
                 [invoke    |-> <<backend, row>>,
                  signature |-> table[row].signature,
                  backend   |-> backend]]
  /\ row' = row + 1
  /\ UNCHANGED <<best, backend, table, pass, before>>

Validate ==
  /\ pass = "validate"
  /\ row \in DOMAIN table
  /\ RowOK(table[row])
  /\ row' = row + 1
  /\ UNCHANGED <<slots, best, backend, table, pass, before>>

\* sd_raise_error does not return: the builder is abandoned.
Reject ==
  /\ pass = "validate"
  /\ row \in DOMAIN table
  /\ ~RowOK(table[row])
  /\ pass' = "raised"
  /\ UNCHANGED <<slots, best, backend, table, row, before>>

\* The validation pass meets the sentinel.
StartInstall ==
  /\ pass = "validate"
  /\ row \notin DOMAIN table
  /\ pass' = "install"
  /\ row' = 1
  /\ UNCHANGED <<slots, best, backend, table, before>>

\* Faulty variant: <= for <.
ShouldUpdateTies(r) == Priority[backend] <= best[r.operation]

\* sd_builder_should_update
ShouldUpdate(r) ==
  /\ r.operation \in Ops
  /\ r.invoke
  /\ r.signature # NoSignature
  /\ Priority[backend] < best[r.operation]

InstallRow ==
  /\ pass = "install"
  /\ row \in DOMAIN table
  /\ LET r == table[row] IN
       IF ShouldUpdate(r)
       THEN /\ slots' = [slots EXCEPT ![r.operation] =
                           [invoke    |-> <<backend, row>>,
                            signature |-> r.signature,
                            backend   |-> backend]]
            /\ best' = [best EXCEPT ![r.operation] = Priority[backend]]
       ELSE UNCHANGED <<slots, best>>
  /\ row' = row + 1
  /\ UNCHANGED <<backend, table, pass, before>>

\* The installation pass meets the sentinel and the function returns.
Finish ==
  /\ pass = "install"
  /\ row \notin DOMAIN table
  /\ pass' = "caller"
  /\ UNCHANGED <<slots, best, backend, table, row, before>>

Step == Validate \/ Reject \/ StartInstall \/ InstallRow \/ Finish

Next ==
  \/ BuilderInit
  \/ \E b \in Backends, t \in Tables : Register(b, t)
  \/ Step

Spec == Init /\ [][Next]_vars

-----------------------------------------------------------------------------

TypeOK ==
  /\ slots \in [Ops -> Slot]
  /\ best \in [Ops -> 0..UintMax]
  /\ backend \in 0..N
  /\ table \in KernelTable
  /\ pass \in {"caller", "validate", "install", "raised"}
  /\ row \in 1..(Len(table) + 1)
  /\ before \in [slots : [Ops -> Slot], best : [Ops -> 0..UintMax]]

(***************************************************************************)
(* A table is installed as a whole or not at all: while it is being        *)
(* validated and after a bad row raised, the builder is what it was before *)
(* the registration, whichever row is the bad one (the reason the function *)
(* has two passes).                                                        *)
(***************************************************************************)
AllOrNothing ==
  pass \in {"validate", "raised"} =>
    slots = before.slots /\ best = before.best

(***************************************************************************)
(* A registration that returns has installed exactly the slots that        *)
(* InstallSlots says: per operation the first row of the table, and only   *)
(* where the priority of the backend beats what was there; and the table   *)
(* has no bad row, not even one that would have lost its slot.  This is    *)
(* what lets SimdDispatch take a registration as one step.                 *)
(***************************************************************************)
InstallsTheTable ==
  pass = "caller" /\ backend # NoBackend =>
    /\ TableOK(table)
    /\ slots = InstallSlots(backend, table, before.slots, before.best)
    /\ best = InstallBest(backend, table, before.best)

=============================================================================
