--------------------------- MODULE ConfigureStage ---------------------------
(***************************************************************************)
(* The configure stage of a package that carries the dispatch engine       *)
(* (tools/configure-simd-dispatch.sh): runs of the script one after        *)
(* another in one package tree, with whatever compiler each is given, what *)
(* each leaves on the disk, and what the next one finds there.             *)
(*                                                                         *)
(* Three parties must agree in the end: the kernel objects that Makevars   *)
(* tells the linker to take, the SD_HAVE_* flags of config.h, and the      *)
(* SD_HAVE_* flags simd_dispatch.c was compiled with.  The last are those  *)
(* of config.h only if the macro the script defines is the one the engine  *)
(* looks for; in a package that use_simd_dispatch generated both have gone *)
(* through the substitution of prefixes.                                   *)
(***************************************************************************)
EXTENDS Naturals, Sequences

CONSTANTS
  Isas,     \* the SIMD backends
  Archs,    \* the branches of the case statement
  Branch,   \* arch -> the backends its branch stages, in order
  Prefixes  \* upper-case C prefixes of packages, "SD" in RsimdDispatch itself

\* No branch stages a backend twice.
ASSUME BranchAssumption ==
  /\ Branch \in [Archs -> Seq(Isas)]
  /\ \A a \in Archs : \A j, k \in DOMAIN Branch[a] :
       Branch[a][j] = Branch[a][k] => j = k

\* The sources compiled: a kernel per backend, and these.
CONSTANTS ScalarUnit, CpuUnit, EngineUnit
ASSUME UnitsAssumption ==
  /\ {ScalarUnit, CpuUnit, EngineUnit} \cap Isas = {}
  /\ ScalarUnit # CpuUnit /\ ScalarUnit # EngineUnit /\ CpuUnit # EngineUnit

Units == Isas \cup {ScalarUnit, CpuUnit, EngineUnit}

VARIABLES
  prefix,        \* of the package
  arch,          \* the compiler of the present run compiles for
  defaults,      \* the backends whose macros CFLAGS alone makes the compiler
                 \* define in the present run
  confdir,       \* the temporary directory is there
  have,          \* the HAVE_* variables that are 1
  staged,        \* RSD_OBJECTS
  pc,            \* "idle", or the phase that comes next
  next,          \* position in the branch of the case statement
  object,        \* unit -> "absent", "old" (of an earlier run), "new"
  config,        \* the flags that are 1 in config.h, {} if there is no file
  engine,        \* the flags simd_dispatch.o was compiled with
  makevars,      \* the objects listed in Makevars, {} if there is no file
  result,        \* how the last run ended: "none", "ok" or "failed"
  refused        \* history: the backends the compiler was asked for in this
                 \* run, and whose flags or kernel it did not take

compiler == <<arch, defaults>>
shell    == <<confdir, have, staged, pc, next, refused>>
disk     == <<object, config, engine, makevars>>
vars     == <<prefix, compiler, shell, disk, result>>

IsasOf(a) == {Branch[a][i] : i \in DOMAIN Branch[a]}

(***************************************************************************)
(* rsd_template_substitute replaces SD_ where a word begins.  The guard of *)
(* the engine, defined(SD_HAVE_CONFIG_H), is a word of its own; in the     *)
(* option -DSD_HAVE_CONFIG_H of the script the word begins with the D.     *)
(***************************************************************************)
OptionToken == [name |-> "SD", startsWord |-> FALSE]
GuardToken  == [name |-> "SD", startsWord |-> TRUE]

Substitute(token) == IF token.startsWord THEN prefix ELSE token.name

EngineReadsConfig == Substitute(OptionToken) = Substitute(GuardToken)

-----------------------------------------------------------------------------

Init ==
  /\ arch \in Archs
  /\ prefix \in Prefixes
  /\ defaults = {}
  /\ confdir = FALSE
  /\ have = {}
  /\ staged = {}
  /\ pc = "idle"
  /\ next = 1
  /\ object = [u \in Units |-> "absent"]
  /\ config = {}
  /\ engine = {}
  /\ makevars = {}
  /\ result = "none"
  /\ refused = {}

\* The script starts, with a compiler for a and flags that make it define
\* the macros; what earlier runs left is still there.
Start(a, macros) ==
  /\ pc = "idle"
  /\ arch' = a
  /\ defaults' = macros
  /\ confdir' = TRUE
  /\ have' = {}
  /\ staged' = {}
  /\ pc' = "scalar"
  /\ next' = 1
  /\ object' = [u \in Units |-> IF object[u] = "new" THEN "old" ELSE object[u]]
  /\ result' = "none"
  /\ refused' = {}
  /\ UNCHANGED <<prefix, config, engine, makevars>>

\* The trap on INT, HUP and TERM removes the temporary directory and does
\* not exit: the script goes on.
Interrupt ==
  /\ pc # "idle"
  /\ confdir
  /\ confdir' = FALSE
  /\ UNCHANGED <<prefix, compiler, have, staged, pc, next, refused, disk,
                 result>>

\* Faulty variant: a run that fails starts over.
ExitRetrying(status) ==
  /\ pc' = IF status = "failed" THEN "scalar" ELSE "idle"
  /\ confdir' = FALSE
  /\ result' = status

\* The trap on EXIT removes the temporary directory.
Exit(status) ==
  /\ pc' = "idle"
  /\ confdir' = FALSE
  /\ result' = status

\* compile_kernel and compile_lib: the object is removed, then compiled, and
\* the compiler's messages go to a log in the temporary directory, without
\* which the shell does not even start it.
Compile(u, ok) ==
  /\ ok => confdir
  /\ object' = [object EXCEPT ![u] = IF ok THEN "new" ELSE "absent"]

\* A unit the package cannot do without; label is the phase that follows.
CompileRequired(u, label) ==
  \/ /\ Compile(u, TRUE)
     /\ staged' = staged \cup {u}
     /\ pc' = label
     /\ UNCHANGED <<confdir, result>>
  \/ /\ Compile(u, FALSE)
     /\ Exit("failed")
     /\ UNCHANGED staged

CompileScalar ==
  /\ pc = "scalar"
  /\ CompileRequired(ScalarUnit, "kernels")
  /\ UNCHANGED <<prefix, compiler, have, next, refused, config, engine,
                 makevars>>

\* Faulty variant: an object that failed to compile stays listed.
KernelRefusedListed(i) ==
  /\ confdir
  /\ refused' = refused \cup {i}
  /\ \/ UNCHANGED <<object, staged>>
     \/ Compile(i, FALSE) /\ staged' = staged \cup {i}
  /\ UNCHANGED have

\* check_cflag or append_compiled_kernel fails.
KernelRefused(i) ==
  /\ confdir
  /\ refused' = refused \cup {i}
  /\ UNCHANGED object \/ Compile(i, FALSE)
  /\ UNCHANGED <<have, staged>>

\* Both succeed.
KernelStaged(i) ==
  /\ Compile(i, TRUE)
  /\ staged' = staged \cup {i}
  /\ have' = have \cup {i}
  /\ UNCHANGED refused

\* Without the temporary directory one or the other fails, whatever the
\* compiler could do.
KernelNotTried(i) ==
  /\ ~confdir
  /\ UNCHANGED object \/ Compile(i, FALSE)
  /\ UNCHANGED <<have, staged, refused>>

\* One backend of the branch: if check_cflag && append_compiled_kernel.
StageKernel ==
  /\ pc = "kernels"
  /\ next \in DOMAIN Branch[arch]
  /\ LET i == Branch[arch][next] IN
       KernelRefused(i) \/ KernelStaged(i) \/ KernelNotTried(i)
  /\ next' = next + 1
  /\ UNCHANGED <<prefix, compiler, confdir, pc, config, engine, makevars,
                 result>>

\* Faulty variant: Makevars is written too, before the library is compiled.
WriteConfigAndMakevars ==
  /\ pc = "kernels"
  /\ next \notin DOMAIN Branch[arch]
  /\ config' = have
  /\ makevars' = staged \cup {CpuUnit, EngineUnit}
  /\ pc' = "cpu"
  /\ UNCHANGED <<prefix, compiler, confdir, have, staged, next, refused,
                 object, engine, result>>

WriteConfig ==
  /\ pc = "kernels"
  /\ next \notin DOMAIN Branch[arch]
  /\ config' = have
  /\ pc' = "cpu"
  /\ UNCHANGED <<prefix, compiler, confdir, have, staged, next, refused,
                 object, engine, makevars, result>>

\* Faulty variant: the temporary directory is not needed.
CompileCpuNoLog ==
  /\ pc = "cpu"
  /\ object' = [object EXCEPT ![CpuUnit] = "new"]
  /\ staged' = staged \cup {CpuUnit}
  /\ pc' = "engine"
  /\ confdir' = TRUE
  /\ UNCHANGED <<prefix, compiler, have, next, refused, config, engine,
                 makevars, result>>

CompileCpu ==
  /\ pc = "cpu"
  /\ CompileRequired(CpuUnit, "engine")
  /\ UNCHANGED <<prefix, compiler, have, next, refused, config, engine,
                 makevars>>

\* Faulty variant: the option is not passed.
EngineFlagsNoOption == defaults

\* Without config.h the flags are those of the compiler's own macros.
EngineFlags == IF EngineReadsConfig THEN config ELSE defaults

CompileEngine ==
  /\ pc = "engine"
  /\ CompileRequired(EngineUnit, "makevars")
  /\ engine' = IF pc' = "makevars" THEN EngineFlags ELSE {}
  /\ UNCHANGED <<prefix, compiler, have, next, refused, config, makevars>>

WriteMakevars ==
  /\ pc = "makevars"
  /\ makevars' = staged
  /\ Exit("ok")
  /\ UNCHANGED <<prefix, compiler, have, staged, next, refused, object,
                 config, engine>>

\* The cleanup script.
Cleanup ==
  /\ pc = "idle"
  /\ object' = [u \in Units |-> "absent"]
  /\ config' = {}
  /\ engine' = {}
  /\ makevars' = {}
  /\ result' = "none"
  /\ UNCHANGED <<prefix, compiler, shell>>

Step ==
  \/ CompileScalar \/ StageKernel \/ WriteConfig
  \/ CompileCpu \/ CompileEngine \/ WriteMakevars

Next ==
  \/ \E a \in Archs : \E macros \in SUBSET IsasOf(a) : Start(a, macros)
  \/ Interrupt
  \/ Step
  \/ Cleanup

\* A script that was started goes on; the compiler returns.
Fairness == WF_vars(Step)

Spec == Init /\ [][Next]_vars

FairSpec == Spec /\ Fairness

-----------------------------------------------------------------------------

TypeOK ==
  /\ arch \in Archs /\ prefix \in Prefixes
  /\ defaults \subseteq Isas
  /\ confdir \in BOOLEAN
  /\ have \subseteq Isas
  /\ staged \subseteq Units
  /\ pc \in {"idle", "scalar", "kernels", "cpu", "engine", "makevars"}
  /\ next \in 1..(Len(Branch[arch]) + 1)
  /\ object \in [Units -> {"absent", "old", "new"}]
  /\ config \subseteq Isas
  /\ engine \subseteq Isas
  /\ makevars \subseteq Units
  /\ result \in {"none", "ok", "failed"}
  /\ refused \subseteq Isas

(***************************************************************************)
(* After a successful run, whatever earlier runs with other compilers or   *)
(* an interruption left behind, the linker is told to take the scalar      *)
(* kernel, the engine, the probes and exactly the kernels config.h says    *)
(* there are, and every one of these objects is of this run.               *)
(***************************************************************************)
LinksWhatConfigSays ==
  result = "ok" =>
    /\ makevars = config \cup {ScalarUnit, CpuUnit, EngineUnit}
    /\ \A u \in makevars : object[u] = "new"

(***************************************************************************)
(* A successful run has left out those kernels that the compiler was asked *)
(* to build and did not, and no others: the script does not exit when it   *)
(* is interrupted and takes the failures that follow for missing compiler  *)
(* support, but it does not get to a successful end then.                  *)
(***************************************************************************)
CompleteOrFailed ==
  result = "ok" => config = IsasOf(arch) \ refused

(***************************************************************************)
(* In a package with the prefix of RsimdDispatch the engine knows of the   *)
(* kernels that are linked and of no others: the names it refers to are    *)
(* there, and no kernel is linked that could not be selected.              *)
(***************************************************************************)
EngineKnowsTheKernels ==
  result = "ok" /\ prefix = "SD" =>
    engine = makevars \ {ScalarUnit, CpuUnit, EngineUnit}

(***************************************************************************)
(* Makevars changes at the end of a successful run and at no other time    *)
(* but a cleanup: a run that fails does not leave a list of its own.       *)
(***************************************************************************)
OnlySuccessWritesMakevars ==
  [][makevars' # makevars => result' = "ok" \/ makevars' = {}]_vars

(***************************************************************************)
(* A run comes to an end, interrupted or not.                              *)
(***************************************************************************)
RunsEnd == pc = "scalar" ~> pc = "idle"

(***************************************************************************)
(* configure-simd-dispatch.sh:145: "simd_dispatch.c also receives          *)
(* -DSD_HAVE_CONFIG_H so it includes config.h rather than relying on the   *)
(* compiler-macro fallback path."  Not in a package with another prefix.   *)
(***************************************************************************)
EngineIncludesConfig == result = "ok" => engine = config

=============================================================================
