----------------------- MODULE ConfigureStage_proofs -----------------------
(***************************************************************************)
(* Theorems about the configure stage, for every set of backends, every    *)
(* case statement that stages no backend twice in one branch, and every    *)
(* prefix.                                                                 *)
(*                                                                         *)
(* The inductive invariant says how far a run has got: what is staged and  *)
(* what has been written at each phase, that what is staged was compiled   *)
(* by this run, and, as long as the temporary directory is there, that a   *)
(* backend already passed is left out only if it was refused.              *)
(***************************************************************************)
EXTENDS ConfigureStage, TLAPS

Required == {ScalarUnit, CpuUnit, EngineUnit}

\* The backends of the branch that the run has passed.
Passed == {Branch[arch][k] : k \in 1..(next - 1)}

Phase ==
  /\ pc = "scalar"   => staged = {} /\ have = {} /\ refused = {} /\ next = 1
  /\ pc = "kernels"  => staged = have \cup {ScalarUnit}
  /\ pc = "cpu"      => staged = have \cup {ScalarUnit}
  /\ pc = "engine"   => staged = have \cup {ScalarUnit, CpuUnit}
  /\ pc = "makevars" => staged = have \cup Required
  /\ pc \in {"cpu", "engine", "makevars"} => config = have
  /\ pc = "makevars" => engine = EngineFlags
  /\ pc # "idle" => result = "none"

Fresh == pc # "idle" => \A u \in staged : object[u] = "new"

Loop ==
  pc = "kernels" => have \subseteq Passed /\ refused \subseteq Passed

Complete ==
  /\ pc = "kernels" /\ confdir => have = Passed \ refused
  /\ pc \in {"cpu", "engine"} /\ confdir => have = IsasOf(arch) \ refused
  /\ pc = "makevars" => have = IsasOf(arch) \ refused

EngineHasConfig ==
  result = "ok" /\ EngineReadsConfig => engine = config

-----------------------------------------------------------------------------

\* The backends of a branch are backends, and distinct from the other units.
LEMMA BranchFacts ==
  ASSUME NEW a \in Archs
  PROVE  /\ Branch[a] \in Seq(Isas)
         /\ Len(Branch[a]) \in Nat
         /\ DOMAIN Branch[a] = 1..Len(Branch[a])
         /\ IsasOf(a) \subseteq Isas
         /\ \A k \in DOMAIN Branch[a] : Branch[a][k] \in Isas
  BY BranchAssumption DEF IsasOf

\* The backend the loop is at has not been passed yet; with it, those passed
\* are one more.
LEMMA OneMorePassed ==
  ASSUME arch \in Archs, arch' = arch,
         next \in DOMAIN Branch[arch], next' = next + 1
  PROVE  /\ Branch[arch][next] \notin Passed
         /\ Passed' = Passed \cup {Branch[arch][next]}
<1>1. /\ next \in Nat \ {0}
      /\ \A k \in 1..next : k \in DOMAIN Branch[arch]
  BY BranchFacts
<1>2. \A k \in 1..(next - 1) : Branch[arch][k] # Branch[arch][next]
  BY <1>1, BranchAssumption
<1>3. 1..(next' - 1) = (1..(next - 1)) \cup {next}
  BY <1>1
<1>4. QED
  BY <1>2, <1>3 DEF Passed

\* Past the end of the branch, all of it has been passed.
LEMMA AllPassed ==
  ASSUME TypeOK, next \notin DOMAIN Branch[arch]
  PROVE  Passed = IsasOf(arch)
<1>1. next = Len(Branch[arch]) + 1
  BY BranchFacts DEF TypeOK
<1>2. 1..(next - 1) = DOMAIN Branch[arch]
  BY <1>1, BranchFacts DEF TypeOK
<1>3. QED
  BY <1>2 DEF Passed, IsasOf


-----------------------------------------------------------------------------
(***************************************************************************)
(* Types.                                                                  *)
(***************************************************************************)

\* A required unit that is compiled, or not, leaves every variable in range.
LEMMA RequiredTypes ==
  ASSUME TypeOK, NEW u \in Required,
         NEW label \in {"kernels", "engine", "makevars"},
         CompileRequired(u, label)
  PROVE  /\ confdir' \in BOOLEAN
         /\ staged' \subseteq Units
         /\ pc' \in {"idle", label}
         /\ object' \in [Units -> {"absent", "old", "new"}]
         /\ result' \in {"none", "ok", "failed"}
  BY DEF TypeOK, CompileRequired, Compile, Exit, Required, Units

LEMMA TypesHold ==
  ASSUME TypeOK, [Next]_vars
  PROVE  TypeOK'
<1>1. ASSUME NEW a \in Archs, NEW macros \in SUBSET IsasOf(a),
             Start(a, macros)
      PROVE  TypeOK'
  <2>1. /\ 1 \in 1..(Len(Branch[a]) + 1)
        /\ macros \subseteq Isas
    BY BranchFacts
  <2>2. QED
    BY <1>1, <2>1 DEF TypeOK, Start
<1>2. CASE Interrupt
  BY <1>2 DEF TypeOK, Interrupt, disk, compiler
<1>3. CASE CompileScalar
  <2>1. CompileRequired(ScalarUnit, "kernels")
    BY <1>3 DEF CompileScalar
  <2>2. QED
    BY <1>3, <2>1, RequiredTypes DEF TypeOK, CompileScalar, Required, compiler
<1>4. CASE StageKernel
  <2> DEFINE i == Branch[arch][next]
  <2>1. /\ i \in Isas
        /\ i \in Units
        /\ next + 1 \in 1..(Len(Branch[arch]) + 1)
    BY <1>4, BranchFacts DEF TypeOK, StageKernel, Units
  <2>2. /\ object' \in [Units -> {"absent", "old", "new"}]
        /\ staged' \subseteq Units
        /\ have' \subseteq Isas
        /\ refused' \subseteq Isas
    <3>1. CASE KernelRefused(i)
      BY <2>1, <3>1 DEF TypeOK, KernelRefused, Compile
    <3>2. CASE KernelStaged(i)
      BY <2>1, <3>2 DEF TypeOK, KernelStaged, Compile
    <3>3. CASE KernelNotTried(i)
      BY <2>1, <3>3 DEF TypeOK, KernelNotTried, Compile
    <3>4. QED
      BY <1>4, <3>1, <3>2, <3>3 DEF StageKernel
  <2>3. QED
    BY <1>4, <2>1, <2>2 DEF TypeOK, StageKernel, compiler
<1>5. CASE WriteConfig
  BY <1>5 DEF TypeOK, WriteConfig, compiler
<1>6. CASE CompileCpu
  <2>1. CompileRequired(CpuUnit, "engine")
    BY <1>6 DEF CompileCpu
  <2>2. QED
    BY <1>6, <2>1, RequiredTypes DEF TypeOK, CompileCpu, Required, compiler
<1>7. CASE CompileEngine
  <2>1. CompileRequired(EngineUnit, "makevars")
    BY <1>7 DEF CompileEngine
  <2>2. engine' \subseteq Isas
    BY <1>7 DEF TypeOK, CompileEngine, EngineFlags
  <2>3. QED
    BY <1>7, <2>1, <2>2, RequiredTypes
    DEF TypeOK, CompileEngine, Required, compiler
<1>8. CASE WriteMakevars
  BY <1>8 DEF TypeOK, WriteMakevars, Exit, compiler
<1>9. CASE Cleanup
  BY <1>9 DEF TypeOK, Cleanup, compiler, shell
<1>10. CASE UNCHANGED vars
  BY <1>10 DEF TypeOK, vars, compiler, shell, disk
<1>11. QED
  BY <1>1, <1>2, <1>3, <1>4, <1>5, <1>6, <1>7, <1>8, <1>9, <1>10
  DEF Next, Step

-----------------------------------------------------------------------------
(***************************************************************************)
(* How far a run has got: one lemma for each kind of step.                 *)
(***************************************************************************)

Progress == Phase /\ Fresh /\ Loop /\ Complete

\* A required unit that compiles is staged, and the run goes on; if it does
\* not, the run is over.  Nothing else that is staged is touched.
LEMMA RequiredProgress ==
  ASSUME TypeOK, Fresh, pc # "idle",
         NEW u \in Required,
         NEW label \in {"kernels", "engine", "makevars"},
         CompileRequired(u, label)
  PROVE  /\ Fresh'
         /\ \/ /\ pc' = label
               /\ confdir /\ confdir'
               /\ staged' = staged \cup {u}
               /\ result' = result
            \/ /\ pc' = "idle"
               /\ result' = "failed"
  BY DEF TypeOK, Fresh, CompileRequired, Compile, Exit, Required, Units

LEMMA StageProgress ==
  ASSUME TypeOK, Progress, StageKernel
  PROVE  Progress'
<1> DEFINE i == Branch[arch][next]
<1>1. /\ i \in Isas
      /\ i \in Units
      /\ i # ScalarUnit
  BY BranchFacts, UnitsAssumption DEF StageKernel, TypeOK, Units
<1>2. /\ i \notin Passed
      /\ Passed' = Passed \cup {i}
  BY OneMorePassed DEF StageKernel, TypeOK, compiler
<1>3. i \notin staged
  BY <1>1, <1>2 DEF Progress, Phase, Loop, StageKernel
<1>4. CASE KernelRefused(i)
  BY <1>1, <1>2, <1>3, <1>4
  DEF Progress, Phase, Fresh, Loop, Complete, StageKernel, KernelRefused,
      Compile, TypeOK, compiler
<1>5. CASE KernelStaged(i)
  BY <1>1, <1>2, <1>3, <1>5
  DEF Progress, Phase, Fresh, Loop, Complete, StageKernel, KernelStaged,
      Compile, TypeOK, compiler
<1>6. CASE KernelNotTried(i)
  BY <1>1, <1>2, <1>3, <1>6
  DEF Progress, Phase, Fresh, Loop, Complete, StageKernel, KernelNotTried,
      Compile, TypeOK, compiler
<1>7. QED
  BY <1>4, <1>5, <1>6 DEF StageKernel

LEMMA ConfigProgress ==
  ASSUME TypeOK, Progress, WriteConfig
  PROVE  Progress'
<1>1. Passed = IsasOf(arch)
  BY AllPassed DEF WriteConfig
<1>2. QED
  BY <1>1
  DEF Progress, Phase, Fresh, Loop, Complete, WriteConfig, IsasOf, compiler

LEMMA ProgressHolds ==
  ASSUME TypeOK, Progress, [Next]_vars
  PROVE  Progress'
<1>1. ASSUME NEW a \in Archs, NEW macros \in SUBSET IsasOf(a),
             Start(a, macros)
      PROVE  Progress'
  BY <1>1 DEF Progress, Phase, Fresh, Loop, Complete, Start
<1>2. CASE Interrupt
  BY <1>2
  DEF Progress, Phase, Fresh, Loop, Complete, Interrupt, disk, compiler,
      Passed, IsasOf, EngineFlags, EngineReadsConfig, Substitute
<1>3. CASE CompileScalar
  <2>1. /\ CompileRequired(ScalarUnit, "kernels")
        /\ pc # "idle"
    BY <1>3 DEF CompileScalar
  <2>2. next' = 1 => Passed' = {}
    BY DEF Passed
  <2>3. QED
    BY <1>3, <2>1, <2>2, RequiredProgress
    DEF Progress, Phase, Loop, Complete, CompileScalar, Required
<1>4. CASE StageKernel
  BY <1>4, StageProgress
<1>5. CASE WriteConfig
  BY <1>5, ConfigProgress
<1>6. CASE CompileCpu
  <2>1. /\ CompileRequired(CpuUnit, "engine")
        /\ pc # "idle"
    BY <1>6 DEF CompileCpu
  <2>2. QED
    BY <1>6, <2>1, RequiredProgress
    DEF Progress, Phase, Loop, Complete, CompileCpu, Required, IsasOf,
        compiler
<1>7. CASE CompileEngine
  <2>1. /\ CompileRequired(EngineUnit, "makevars")
        /\ pc # "idle"
    BY <1>7 DEF CompileEngine
  <2>2. QED
    BY <1>7, <2>1, RequiredProgress
    DEF Progress, Phase, Loop, Complete, CompileEngine, Required, IsasOf,
        compiler, EngineFlags, EngineReadsConfig, Substitute
<1>8. CASE WriteMakevars
  BY <1>8
  DEF Progress, Phase, Fresh, Loop, Complete, WriteMakevars, Exit
<1>9. CASE Cleanup
  BY <1>9 DEF Progress, Phase, Fresh, Loop, Complete, Cleanup, shell
<1>10. CASE UNCHANGED vars
  BY <1>10
  DEF Progress, Phase, Fresh, Loop, Complete, vars, disk, shell, compiler,
      Passed, IsasOf, EngineFlags, EngineReadsConfig, Substitute
<1>11. QED
  BY <1>1, <1>2, <1>3, <1>4, <1>5, <1>6, <1>7, <1>8, <1>9, <1>10
  DEF Next, Step

-----------------------------------------------------------------------------
(***************************************************************************)
(* What a successful run leaves: the end of a run establishes it, and      *)
(* nothing that happens between runs disturbs it.                          *)
(***************************************************************************)

Outcome == LinksWhatConfigSays /\ CompleteOrFailed /\ EngineHasConfig

LEMMA OutcomeEstablished ==
  ASSUME TypeOK, Progress, WriteMakevars
  PROVE  Outcome'
<1>1. /\ config = have
      /\ staged = config \cup Required
      /\ engine = EngineFlags
      /\ have = IsasOf(arch) \ refused
      /\ \A u \in staged : object[u] = "new"
  BY DEF Progress, Phase, Fresh, Complete, WriteMakevars
<1>2. LinksWhatConfigSays'
  BY <1>1 DEF LinksWhatConfigSays, WriteMakevars, Required
<1>3. CompleteOrFailed'
  BY <1>1 DEF CompleteOrFailed, WriteMakevars, IsasOf, compiler
<1>4. EngineHasConfig'
  BY <1>1
  DEF EngineHasConfig, EngineFlags, EngineReadsConfig, Substitute,
      WriteMakevars
<1>5. QED
  BY <1>2, <1>3, <1>4 DEF Outcome

LEMMA OutcomeHolds ==
  ASSUME TypeOK, Progress, Outcome, [Next]_vars
  PROVE  Outcome'
<1>1. CASE WriteMakevars
  BY <1>1, OutcomeEstablished
<1>2. CASE UNCHANGED vars
  BY <1>2
  DEF Outcome, LinksWhatConfigSays, CompleteOrFailed, EngineHasConfig,
      EngineReadsConfig, Substitute, IsasOf, vars, disk, shell, compiler
<1>3. ASSUME Next, ~WriteMakevars
      PROVE  result' # "ok"
  <2>1. pc # "idle" => result = "none"
    BY DEF Progress, Phase
  <2>2. ASSUME NEW a \in Archs, NEW macros \in SUBSET IsasOf(a),
               Start(a, macros)
        PROVE  result' # "ok"
    BY <2>2 DEF Start
  <2>3. CASE Interrupt
    BY <2>1, <2>3 DEF Interrupt
  <2>4. CASE StageKernel \/ WriteConfig
    BY <2>1, <2>4 DEF StageKernel, WriteConfig
  <2>5. CASE CompileScalar \/ CompileCpu \/ CompileEngine
    BY <2>1, <2>5
    DEF CompileScalar, CompileCpu, CompileEngine, CompileRequired, Exit
  <2>6. CASE Cleanup
    BY <2>6 DEF Cleanup
  <2>7. QED
    BY <1>3, <2>2, <2>3, <2>4, <2>5, <2>6 DEF Next, Step
<1>4. result' # "ok" => Outcome'
  BY DEF Outcome, LinksWhatConfigSays, CompleteOrFailed, EngineHasConfig
<1>5. QED
  BY <1>1, <1>2, <1>3, <1>4

-----------------------------------------------------------------------------

LEMMA InitInv == Init => TypeOK /\ Progress /\ Outcome
<1> SUFFICES ASSUME Init PROVE TypeOK /\ Progress /\ Outcome
  OBVIOUS
<1>1. TypeOK
  <2>1. next \in 1..(Len(Branch[arch]) + 1)
    BY BranchFacts DEF Init
  <2>2. QED
    BY <2>1 DEF Init, TypeOK
<1>2. Progress
  BY DEF Init, Progress, Phase, Fresh, Loop, Complete
<1>3. Outcome
  BY DEF Init, Outcome, LinksWhatConfigSays, CompleteOrFailed,
         EngineHasConfig
<1>4. QED
  BY <1>1, <1>2, <1>3

LEMMA Invariance == Spec => [](TypeOK /\ Progress /\ Outcome)
<1>1. TypeOK /\ Progress /\ Outcome /\ [Next]_vars
        => (TypeOK /\ Progress /\ Outcome)'
  BY TypesHold, ProgressHolds, OutcomeHolds
<1>2. QED
  BY InitInv, <1>1, PTL DEF Spec

(***************************************************************************)
(* Every variable of the configure stage stays in its range.               *)
(***************************************************************************)
THEOREM TypeCorrect == Spec => []TypeOK
  BY Invariance, PTL

(***************************************************************************)
(* Whatever runs, interruptions and cleanups came before, a successful run *)
(* of configure-simd-dispatch.sh makes Makevars list the required objects  *)
(* and exactly the kernels config.h announces, all compiled by that run.   *)
(***************************************************************************)
THEOREM LinkedAsConfigured == Spec => []LinksWhatConfigSays
<1>1. Outcome => LinksWhatConfigSays
  BY DEF Outcome
<1>2. QED
  BY <1>1, Invariance, PTL

(***************************************************************************)
(* A successful run has left out just the backends the compiler refused,   *)
(* although the trap at configure-simd-dispatch.sh:97 lets an interrupted  *)
(* script go on and take every failure after it for missing support.       *)
(***************************************************************************)
THEOREM NothingSilentlyDropped == Spec => []CompleteOrFailed
<1>1. Outcome => CompleteOrFailed
  BY DEF Outcome
<1>2. QED
  BY <1>1, Invariance, PTL

(***************************************************************************)
(* With the prefix of RsimdDispatch itself the engine is compiled with     *)
(* exactly the backends that are linked.                                   *)
(***************************************************************************)
THEOREM EngineMatchesLink == Spec => []EngineKnowsTheKernels
<1>1. TypeOK /\ Outcome => EngineKnowsTheKernels
  <2> SUFFICES ASSUME TypeOK, Outcome, result = "ok", prefix = "SD"
               PROVE  engine = makevars \ Required
    BY DEF EngineKnowsTheKernels, Required
  <2>1. EngineReadsConfig
    BY DEF EngineReadsConfig, Substitute, OptionToken, GuardToken
  <2>2. engine = config
    BY <2>1 DEF Outcome, EngineHasConfig
  <2>3. makevars = config \cup Required
    BY DEF Outcome, LinksWhatConfigSays, Required
  <2>4. config \cap Required = {}
    BY UnitsAssumption DEF TypeOK, Required
  <2>5. QED
    BY <2>2, <2>3, <2>4
<1>2. QED
  BY <1>1, Invariance, PTL

(***************************************************************************)
(* Makevars changes only when a run succeeds, or is removed by a cleanup.  *)
(***************************************************************************)
THEOREM MakevarsOnlyOnSuccess == Spec => OnlySuccessWritesMakevars
<1>1. [Next]_vars
        => [makevars' # makevars => result' = "ok" \/ makevars' = {}]_vars
  BY DEF Next, Step, Start, Interrupt, CompileScalar, StageKernel,
         WriteConfig, CompileCpu, CompileEngine, WriteMakevars, Exit,
         Cleanup, vars, disk
<1>2. QED
  BY <1>1, PTL DEF Spec, OnlySuccessWritesMakevars

-----------------------------------------------------------------------------
(***************************************************************************)
(* What the engine was compiled with, for any prefix.                      *)
(***************************************************************************)

EngineHasItsFlags == result = "ok" => engine = EngineFlags

LEMMA FlagsHold ==
  ASSUME TypeOK, Progress, EngineHasItsFlags, [Next]_vars
  PROVE  EngineHasItsFlags'
<1> USE DEF EngineHasItsFlags, EngineFlags, EngineReadsConfig, Substitute
<1>1. CASE WriteMakevars
  BY <1>1 DEF WriteMakevars, Progress, Phase, compiler
<1>2. CASE UNCHANGED vars
  BY <1>2 DEF vars, disk, compiler
<1>3. ASSUME Next, ~WriteMakevars
      PROVE  result' # "ok"
  <2>1. pc # "idle" => result = "none"
    BY DEF Progress, Phase
  <2> QED
    BY <1>3, <2>1
    DEF Next, Step, Start, Interrupt, CompileScalar, StageKernel, WriteConfig,
        CompileCpu, CompileEngine, CompileRequired, Exit, Cleanup
<1>4. QED
  BY <1>1, <1>2, <1>3

(***************************************************************************)
(* The engine's flags are those of config.h in a package with the prefix   *)
(* of RsimdDispatch and those the compiler defines by itself, whatever was *)
(* staged and linked, in every other: the defect that the run of           *)
(* EngineIncludesConfig shows for one compiler is there for each of them.  *)
(***************************************************************************)
THEOREM EngineFlagsByPrefix ==
  Spec => [](/\ prefix = "SD" => EngineIncludesConfig
             /\ result = "ok" /\ prefix # "SD" => engine = defaults)
<1>1. Init => EngineHasItsFlags
  BY DEF Init, EngineHasItsFlags
<1>2. EngineHasItsFlags =>
        /\ prefix = "SD" => EngineIncludesConfig
        /\ result = "ok" /\ prefix # "SD" => engine = defaults
  BY DEF EngineHasItsFlags, EngineIncludesConfig, EngineFlags,
         EngineReadsConfig, Substitute, OptionToken, GuardToken
<1>3. TypeOK /\ Progress /\ EngineHasItsFlags /\ [Next]_vars
        => EngineHasItsFlags'
  BY FlagsHold
<1>4. QED
  BY <1>1, <1>2, <1>3, Invariance, PTL DEF Spec

-----------------------------------------------------------------------------
(***************************************************************************)
(* Steps a run still has to take, at most, by the phase it is in.          *)
(***************************************************************************)

PhasesLeft ==
  [idle |-> 0, makevars |-> 1, engine |-> 2, cpu |-> 3, kernels |-> 4,
   scalar |-> 5]

KernelsLeft ==
  IF pc \in {"scalar", "kernels"} THEN Len(Branch[arch]) + 1 - next ELSE 0

Remaining == PhasesLeft[pc] + KernelsLeft

BoundedRun ==
  /\ Remaining \in 0..(5 + Len(Branch[arch]))
  /\ Remaining = 0 <=> pc = "idle"

RunAdvances ==
  [][/\ Step => Remaining' < Remaining
     /\ Interrupt => Remaining' = Remaining]_vars

(***************************************************************************)
(* A run of configure-simd-dispatch.sh is over after a step for each       *)
(* backend of its branch and five more, and an interrupt, after which the  *)
(* script goes on, does not make it longer.                                *)
(***************************************************************************)
THEOREM RunsAreBounded == Spec => []BoundedRun /\ RunAdvances
<1>1. TypeOK => BoundedRun
  <2> SUFFICES ASSUME TypeOK PROVE BoundedRun
    OBVIOUS
  <2>1. /\ Len(Branch[arch]) \in Nat
        /\ next \in 1..(Len(Branch[arch]) + 1)
        /\ pc \in {"idle", "scalar", "kernels", "cpu", "engine", "makevars"}
    BY BranchFacts DEF TypeOK
  <2>2. /\ PhasesLeft[pc] \in 0..5
        /\ PhasesLeft[pc] = 0 <=> pc = "idle"
        /\ pc \in {"scalar", "kernels"} => PhasesLeft[pc] \in {4, 5}
    BY <2>1 DEF PhasesLeft
  <2>3. /\ KernelsLeft \in 0..Len(Branch[arch])
        /\ pc \notin {"scalar", "kernels"} => KernelsLeft = 0
    BY <2>1 DEF KernelsLeft
  <2>4. QED
    BY <2>1, <2>2, <2>3 DEF BoundedRun, Remaining
<1>2. TypeOK /\ [Next]_vars
        => [/\ Step => Remaining' < Remaining
            /\ Interrupt => Remaining' = Remaining]_vars
  <2> SUFFICES ASSUME TypeOK
               PROVE  /\ Step => Remaining' < Remaining
                      /\ Interrupt => Remaining' = Remaining
    OBVIOUS
  <2>1. /\ Len(Branch[arch]) \in Nat
        /\ DOMAIN Branch[arch] = 1..Len(Branch[arch])
        /\ next \in 1..(Len(Branch[arch]) + 1)
    BY BranchFacts DEF TypeOK
  <2> USE <2>1 DEF Remaining, PhasesLeft, KernelsLeft, Exit, compiler
  <2>2. ASSUME Interrupt PROVE Remaining' = Remaining
    BY <2>2 DEF Interrupt
  <2>3. ASSUME CompileScalar PROVE Remaining' < Remaining
    <3>1. /\ pc = "scalar" /\ pc' \in {"idle", "kernels"}
          /\ UNCHANGED <<arch, next>>
      BY <2>3 DEF CompileScalar, CompileRequired
    <3>2. QED
      BY <3>1
  <2>4. ASSUME StageKernel PROVE Remaining' < Remaining
    BY <2>4 DEF StageKernel
  <2>5. ASSUME WriteConfig PROVE Remaining' < Remaining
    BY <2>5 DEF WriteConfig
  <2>6. ASSUME CompileCpu PROVE Remaining' < Remaining
    <3>1. /\ pc = "cpu" /\ pc' \in {"idle", "engine"}
          /\ UNCHANGED <<arch, next>>
      BY <2>6 DEF CompileCpu, CompileRequired
    <3>2. QED
      BY <3>1
  <2>7. ASSUME CompileEngine PROVE Remaining' < Remaining
    <3>1. /\ pc = "engine" /\ pc' \in {"idle", "makevars"}
          /\ UNCHANGED <<arch, next>>
      BY <2>7 DEF CompileEngine, CompileRequired
    <3>2. QED
      BY <3>1
  <2>8. ASSUME WriteMakevars PROVE Remaining' < Remaining
    BY <2>8 DEF WriteMakevars
  <2>9. QED
    BY <2>2, <2>3, <2>4, <2>5, <2>6, <2>7, <2>8 DEF Step
<1>3. QED
  BY <1>1, <1>2, Invariance, PTL DEF Spec, RunAdvances

=============================================================================
