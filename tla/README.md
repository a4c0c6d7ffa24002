# Verification of RsimdDispatch

RsimdDispatch is a C library, and an R package around it, that keeps several
implementations ("backends": scalar code, SSE2, SSE4.1, AVX2, AVX-512, NEON,
WebAssembly SIMD) of the same operations in one shared object and decides at
run time which one each operation goes to. This directory holds TLA+ models of
it, the configurations TLC checks them with, and proofs for TLAPS.

Throughout, *engine* is `tools/simdDispatch/simd_dispatch.c`, *catalogs* are its
X-macro files (`backends.def`, `kernels/operations.def`,
`kernels/signatures.def`), and line numbers are those of the engine unless a
file is named.

## 1. Inventory

| Component | State | Operations | Talks to |
|---|---|---|---|
| Dispatch engine (`simd_dispatch.c/.h`) | `sd_active_slots`, `sd_dispatch_initialized`, the requested and selected names, the availability matrix and its flag, the error handler | init, set backend, invoke, the queries, set error handler | registers kernel tables, asks the CPU probes, jumps into kernels, leaves through the error handler |
| Kernel-table registration (`sd_register_kernel_table`) | an `SdDispatchBuilder`: slots and best priority per operation | validate all rows, then install | called back by each backend's `sd_register_*`, itself called by the engine |
| CPU feature detection (`cpu_features.c`) | none; reads cpuid and XCR0 | one probe per backend | called by the engine whenever availability is asked |
| Kernels (`kernels/kernel_*.c`) | none; the call frame | count non-zero bytes, convolve | invoked through `void *` frames |
| R interface (`src/r_api.c`, `registration.c`, `R/dispatch.R`) | R objects under construction | five `.Call` entries, package load | the engine, single-threaded, errors by longjmp; R's collector calls back |
| Configure stage (`tools/configure-simd-dispatch.sh`) | object files, `config.h`, `Makevars` | probe the compiler, stage kernels, write `config.h`, stage the engine | decides what `SD_HAVE_*` says to the engine |
| Package template (`R/template.R`, `inst/templates`) | the files of the target package | copy, substitute prefixes, update `DESCRIPTION` and ignore files | produces a configure stage and an engine that must still agree |
| Standalone build, C tests, SIMDe information, vendored SIMDe, maintenance scripts | | | |

**Dispatch engine.** Hard: every function may initialize the engine first; an
error may leave any of them in the middle (R's handler longjmps), with the
globals as far as they got; an answer is cached for the life of the process; a
slot resolved long ago is called through `void *` now; under threads nothing is
atomic or locked, and a comment leaves it to the caller to serialize. Correct
if: a resolved slot always holds a kernel of its operation, with its signature,
of a backend the CPU can run; a kernel is only given the frame it expects;
automatic selection is the best available backend per operation; an explicit
selection uses that backend or none; nothing but `sd_set_backend` reroutes; the
cached matrix never goes stale; the summary describes the table; every call
ends; and threads that keep to the comment notice nothing of each other.

**Registration.** Hard: a table is data written by hand in each `kernel_*.c`; a
bad row may be anywhere, and rows before it must not have been installed; ties.
Correct if: all or nothing, and what is installed is the first row per
operation where the priority beats what is there.

**CPU feature detection.** Hard: the order of the reads (`xgetbv` faults where
the operating system has not enabled it, a leaf beyond the highest is garbage),
three ways to execute cpuid. Correct if: it never faults, never claims what the
machine cannot run, never misses what it can.

**Kernels.** Hard: block loops with tails, size arithmetic. Correct if each
agrees with the scalar definition, reads and writes in bounds, and ends.

**R interface.** Hard: allocation (hence garbage collection, hence finalizers
that may call back) between reads of the engine's state, vectors counted first
and filled later, errors while the package is loaded, length arithmetic.
Correct if: no error ends the process, the answer of `simd_info` is consistent,
the output of a convolution has the right length.

**Configure stage and template.** Hard: three parties (staged objects,
`config.h`, the macros the engine is compiled with) must agree, in a package
where every name has been substituted; both run in a tree that keeps what
earlier, failed or interrupted, runs left. Correct if: a run that succeeds
leaves parties that agree; a copy that succeeds leaves a complete scaffold and
what the author had.

The hazards found in the survey are listed, each at its line and with the
properties that cover it or the reason none does, in `PROJECT.json`.

## 2. Modules

| Module | Models | Kind |
|---|---|---|
| `KernelTables` | catalogs, kernel tables, slots; the effect of a whole registration | operators |
| `RegisterTable` | `sd_register_kernel_table` row by row, driven as a build drives it | state machine |
| `SimdDispatch` | the engine: all its globals and public functions | state machine |
| `DispatchContract` | what the engine promises, without slots, builders or a matrix | abstract specification |
| `DispatchThreads` | the globals of the engine under several threads | state machine |
| `RApi` | the package in R: `R_init`, the `.Call` entries, finalizers, driving `SimdDispatch` | composition |
| `CpuFeatures` | the probes of `cpu_features.c`, one register read per step | state machine |
| `ConfigureStage` | runs of `configure-simd-dispatch.sh` in one package tree | state machine |
| `TemplateDeploy` | calls of `use_simd_dispatch` in one package | state machine |
| `ConvolveKernels`, `CountKernels` | the loops of `kernels/kernel_*.c`, for any block size | state machines |
| `MCRegisterTable`, `MCSimdDispatch`, `MCShipped`, `MCDispatchThreads`, `MCRApi`, `MCConfigureStage`, `MCKernels` | small catalogs, the shipped one, a small case statement, the shipped kernels | TLC instances |
| `KernelTables_proofs`, `RegisterTable_proofs`, `SimdDispatch_proofs` (with those about `RApi` and the catalog of `MCShipped`), `DispatchThreads_proofs`, `CpuFeatures_proofs`, `ConfigureStage_proofs`, `TemplateDeploy_proofs`, `Kernels_proofs` | | proofs |

`RegisterTable`, `SimdDispatch` and `DispatchThreads` extend `KernelTables`;
`SimdDispatch` and `DispatchThreads` each instantiate `DispatchContract` with a
refinement mapping; `RApi` extends `SimdDispatch`, whose actions are the calls
its own actions make.

### How the state corresponds to the code

A backend is its position in `backends.def`, from 1 (scalar); 0 is `NULL`. An
operation is its `SdOperation` value; a signature its `SdKernelSignature`, 0
being `SD_SIG_NONE`. A kernel function is named by the backend and the row of
the table that holds its pointer, so that "the right kernel" can be said. A
kernel table is the sequence of its rows before the sentinel.

`SimdDispatch`: `slots`, `initialized`, `requested`, `selected`, `matrix`,
`ready`, `handler` are the globals of lines 97 and 301-327. `best` and `next`
are the locals of a build or of the matrix loop, `pc` says where the running
call is. `compiled`, `supported` and `tables` never change: they are the build,
the machine and the tables in `kernel_*.c`, and TLC explores every choice.
`call` and `outcome` record the last call and what it came to; they are what
the client sees.

*Grain.* For a single client a step matters only where a call can stop: the
automatic build takes one step per backend, because the registration of a
mis-wired one raises and the handler may longjmp. A registration is one step:
`RegisterTable` shows that it changes nothing if it raises and equals
`InstallSlots` if it returns. A selection by name is one step for the same
reason: the request is written, the slots are cleared and rebuilt, and either
everything is written or the call raises with the slots empty (`SetBackend`,
`SetBackendFails`).

*Errors.* `Raise` is `sd_raise_error`: the handler installed by R leaves by
longjmp and the call is over, the globals staying as they are; the default
handler aborts, and so does `sd_raise_error` itself after a handler that
returns, whence the two values of `handler`.

*Lazy initialization.* `Enter(c)` is any function that begins with
`sd_init_dispatch`; the call continues in `pc = "body"` once the engine is
initialized. The two order checks of the catalogs in `sd_init_dispatch` (lines
605-632) hold by construction of the X-macros, both the enum and the array
coming from the same file, and never raise; they have no counterpart.

`DispatchThreads`: here the grain is the single store. A build (lines 501-517)
clears every slot and writes it anew, one plain store per field, and nothing
orders the stores to different locations. So `Build` hands the thread the
values it stores to each field (`Stores`), the thread sees its own at once
(`Sees`), and `BecomesVisible` shows the others one more store to one location,
any location first; `flagging` and `FlagBecomesVisible` are the store to
`sd_dispatch_initialized`. A field holds a backend, namely the one whose value
was stored there, so that a slot of two backends can be told. A dispatch takes
three steps: the `NULL` check, the comparison of the signature and the call,
where the pointer may be read again or not (`CheckKernel`, `CompareSignature`,
`RunKernel`). The pointer a thread has read, and the kernel it ran, are named as
in a slot, by backend and row (`seen`, `last.kernel`): the row, not the model,
says which operation and which signature the kernel is for. `Serialised` is the contract of lines 288-300, as guards of the
caller (`MaySelect`, `MayDispatch`); without it, `mode` is only the selection
begun last. The cleared locations and the order of a build's stores to one
location are those of the code: the zeros of `memset`, then each backend that
beats those before it.

`RApi`: `loading` is how far `R_init_RsimdDispatch` is; after an error it may be
run again with the globals as they are (`LoadAgain`), since R need not unmap
the library. R has one thread, but an allocation may run finalizers, R
functions that may call the package, each to its end. Only `RC_simd_info` reads
the engine between allocations, so it alone is cut into steps: `at` is the field
it fills next, `operation` its loop variable, `counted` the length of the vector
it has counted but not filled, `answer` the list; the other entries are one call
of the engine each, possible between any two of those steps. `moved` remembers
whether one of them made a selection. `shape` holds the lengths of the last
convolution, computed in an `R_xlen_t` that wraps at `XLenMax`.

`CpuFeatures`: `cpu` is the machine, its registers as sets of the numbers of
the bits that are 1, restricted to the bits the file looks at; `target` the
compile-time branch; `pc` the register read next; "fault" the
invalid-instruction trap of `xgetbv`. A plain `cpuid` of a leaf beyond the
highest yields any value.

`ConfigureStage`: `object`, `config`, `engine` and `makevars` are the tree: which
objects are there and whether the present run compiled them, the flags that are
1 in `config.h`, the flags `simd_dispatch.o` was compiled with, the objects
`Makevars` lists. `have`, `staged`, `confdir` and `next` are the script's
variables and its place in the case statement; `pc` is the phase. Each run may
have another compiler (`arch`) and other flags (`defaults`, the backends whose
macros the compiler then defines by itself). One step per compilation, because
each may fail and a signal may come between any two. A signal removes the
temporary directory without ending the script, whose probes and logs need it:
`KernelNotTried` is a backend passed over for that reason. `Substitute` is what
`rsd_template_substitute` makes of a name that does or does not start a word;
`prefix` is the one of the package. `refused` is a history variable.

`TemplateDeploy`: `disk` is the package: who wrote each file of the template and
whether to its end, which files are executable, whether `DESCRIPTION` is there,
whole, and declares `LinkingTo`, and how often each line is in the two ignore
files. `at` and `next` are the place of the call, `before` the package as it
found it. Every write has a form that is cut off (`CutFile`, `CutDescription`,
`CutIgnores`), by an interrupt or a full disk, and `GiveUp` stops between two;
between calls the author edits and deletes files.

`ConvolveKernels`: one step per store. A cell of the output is the sequence of
the products added to it since it was cleared, so that the order of the
additions, on which a sum of doubles depends, is part of the state; before, it
holds what the buffer held. `k`, `i`, `j` are the loop variables; `stray` records
an access beyond a buffer. `CountKernels`: one step per load; the buffer is the
set of positions that are not zero. The kernels differ in their block sizes,
which are constants, and the SSE4.1 one skips blocks (`SkipBlock`). Of the
additions that the compiler may contract into fused ones nothing is said.

## 3. What TLC checks

| Run | Module, configuration | Question | Bounds |
|---|---|---|---|
| `register_table` | `MCRegisterTable` | Is a table installed as a whole or not at all, and as `InstallSlots` says? | 3 backends (two tie), 2 operations, every table of at most 3 rows out of two good rows and one for each of the four checks |
| `any_tables` | `MCSimdDispatch`, `AnyTables` | What survives empty and mis-wired tables and errors in mid-call, and is automatic selection the best where all is well? | 3 backends (two tie), four tables (full, partial, empty, bad second row); every subset compiled and supported |
| `shipped` | `MCShipped`, `Shipped` | What do users of the package get, and does the engine keep its contract? | the seven backends, their priorities and tables; every build for a family of processors (x86, ARM, WebAssembly), every generation of it |
| `cpu_features` | `CpuFeatures` | Do the probes tell the truth, and do they ever fault? | complete for the bits the file reads: 13 register bits, two values of the highest leaf, 7 targets |
| `configure` | `MCConfigureStage` | Do objects, `config.h` and the engine's flags agree after a success, whatever came before? | two branches of the case statement, with two backends and one; both kinds of prefix; any number of runs, interruptions and cleanups |
| `kernels` | `MCKernels`, `Kernels` | Do all kernels stay in bounds, compute what the scalar ones do, and end? | convolution: five kernels with blocks of 1 to 8 doubles, lengths 0 to 4 and 0 to 18; counting: seven kernels with blocks of 1 to 64 bytes, 14 lengths up to 129, buffers uniform but for at most one byte |
| `threads_contract` | `MCDispatchThreads`, `ThreadsContract` | Does the contract of lines 288-300 suffice? | 2 threads, both select and dispatch; 3 backends, one of them not available, 2 operations; two fields per slot |
| `threads_racing` | `MCDispatchThreads`, `ThreadsRacing` | What is left when the caller breaks it? | 2 threads, both dispatch and initialize lazily, one selects; the same backends and 2 operations with 2 signatures; stores in the order of the program |
| `template` | `TemplateDeploy`, `Template` | What does a call find, leave and refuse, whatever was cut off before? | 2 files, one of them a script; 2 prefixes; 1 line per ignore file; any number of calls and edits |
| `rapi` | `MCRApi`, `RApi` | Is R safe from the engine's errors and `simd_info` from finalizers? | 2 backends, 2 operations, tables full, partial, empty, mis-wired; lengths up to 2 in an `R_xlen_t` that wraps after 2 |

Why these bounds are enough: an invariant of the engine relates an operation, a
backend and at most one rival; three backends give a loser, a winner and a
third in between (or a tie), and two operations with different signatures give
the wrong frame and the partial backend. A registration compares a row with the
earlier rows for the same operation, and three rows give a good row, a bad row
and a duplicate in each order. `N`, `NumOps`, `NumSigs`, `UintMax` are the
catalog sizes and `UINT_MAX`; `MaxRows` bounds the tables; nothing else is
bounded, the state spaces being finite. For the configure stage two backends in
one branch give one before and one after an interruption, and the other branch
leaves objects of another architecture behind. The kernels' lengths lie on both
sides of one and of two blocks. A race needs two threads; the one that dispatches
is not disturbed by a third it does not share a slot with, and the proofs are
for any number. The field for the name of a slot is left out of the threaded
runs (the dispatch does not read it). Without serialization the slots are in
very many states; `threads_racing` therefore lets one thread select, which meets
the dispatches and the lazy initialization of the other, and shows a thread's
stores to the other in the order of the program (`MCProgramOrder`: `memset`,
then slot by slot for each backend in turn, the flag last), while
`threads_contract` has every order and two selectors. Every order without the
contract, and any number of selectors, is the theorem `FrameAlwaysHolds`. A copy needs a file before
and one after the place where it stops. For `rapi` two backends give every kind
of summary but need no third: what `simd_info` reads it reads per backend.
No run uses symmetry: the threads of `threads_racing` differ, `threads_contract`
checks liveness, and the order of backends and files matters.

What the properties say:

* `AllOrNothing`, `InstallsTheTable`: the two halves of an atomic registration.
* `SlotsSound`: whatever was called and wherever an error cut it off, a resolved
  slot holds a kernel of its operation with its signature, of a backend that is
  compiled and supported and whose table has no bad row.
* `KernelTakesTheFrame`: a kernel that runs is of the operation asked for and
  takes the frame passed.
* `AutoIsBest`: per operation the available provider of smallest priority value,
  the earlier row of `backends.def` between equals; unresolved only if there is
  no provider.
* `ExplicitIsPure`: while a backend is requested by name, no operation goes to
  another, not even after the request failed half-way.
* `SummaryTellsTheRoute`: what `sd_selected_backend` returns is true of the
  table.
* `MatrixAgrees`, `AvailabilityAnswer`: the cached matrix is what a rebuild would
  find, and the answer is the same before and after it is filled.
* `OnlySetBackendReroutes`: once initialized, only `sd_set_backend` changes
  where an operation goes.
* `CallsEnd`: every call returns or ends the process.
* `ContractHolds`: `SimdDispatch`, and the threads that keep the contract,
  implement `DispatchContract`.
* `AutoOnShippedCatalog`, `OnlySseCannotConvolve`: what the rules come to for
  the shipped catalog: everything goes to the fastest available backend, except
  that the SSE backends count and do not convolve; no other operation can be
  left without a backend.
* `NeverTorn`, `FollowsSelection`: under the contract no dispatch jumps to
  `NULL` or meets a signature that is not its kernel's, and each does what the
  last selection decided.
* `SelectionTakesEffect`: a selection whose stores nothing orders still becomes
  the table every thread sees, all fields of a slot from one backend, unless
  another is begun.
* `FrameHolds`: even without the contract the kernel that runs is in the table
  of an available backend, and its row is for the operation asked for and has
  the signature of the frame, because no slot and no pointer is shared between
  dispatches: keep the checked pointer in a static and two threads that dispatch
  different operations run each other's kernels, which one thread never shows
  (`CheckKernelStatic`). That a race can jump to `NULL` between check and call is so in the
  code (`last.kind = "crashed"` is reachable in `threads_racing`); the contract
  excludes it.
* `NeverFaults`, `NeverOverclaims`, `NeverUnderclaims`: the probes. The last one
  excepts processors that report OSXSAVE without XSAVE, which the architecture
  rules out.
* `LinksWhatConfigSays`, `EngineKnowsTheKernels`: after a successful configure
  run the objects listed in `Makevars`, the flags of `config.h` and, in this
  package, the flags of the engine are the same backends, and no listed object
  is left from an earlier run.
* `CompleteOrFailed`: a signal in the middle does not lead to a successful run
  that silently lacks backends; the script reaches the library, whose
  compilation needs the directory the trap removed, and fails there.
* `OnlySuccessWritesMakevars`, `RunsEnd`: a failing run leaves no `Makevars` of
  its own; every run ends.
* `Deployed`: a call of `use_simd_dispatch` that returns leaves all files whole
  and of one prefix, scripts executable, the dependency declared, each ignore
  line once more only if it was missing, and the author's own text.
* `RefusesToOverwrite`: without `overwrite` nothing that was there is touched,
  and the call returns only into a package that had none of the files. After a
  call cut off half-way this means that another one without `overwrite` fails
  too.
* `LinkingComesLast`: `DESCRIPTION` comes to declare the dependency only with
  the complete scaffold in place.
* `NeverAborts`, `LoadedForGood`: no error of the engine ends the R process, not
  even while the package is loaded with a mis-wired backend; a loaded package
  has an engine that is initialized, with its matrix, for good.
* `InfoAgrees`: whatever finalizers do, each vector of `simd_info` is as long as
  it was counted to be and the operations go to backends the same answer lists;
  without a selection in between, the requested and the selected backend
  describe the operations too.
* `OutputFits`: the output of a convolution has `na + nb - 1` cells, and is
  refused only if no vector can be that long.
* `InBounds`, `CountInBounds`, `SumsLikeScalar`, `CountsEveryByte`,
  `KernelReturns`: each kernel stays in its buffers, computes what the scalar
  one computes, and ends.

Every property has a faulty variant of some definition of the code (the
operators commented "Faulty variant") under which TLC finds it violated.

**Fairness.** `FairSpec` is weakly fair on the steps of a call under way
(`Internal` in `SimdDispatch`, `Step` in `ConfigureStage`, the steps of a
kernel) and on nothing else: a C function or a script that runs goes on running
and compilers return; no client is assumed to call. In `DispatchThreads` it is
weakly fair, per thread, on the steps of its call and on its stores becoming
visible: a store buffer drains. Deadlock is checked everywhere but for the
kernels, which stop when they return; an aborted process, and one that jumped
to `NULL`, stutter by an explicit action, since that is where they may really
stop.

### Where the code and its documentation differ

Two runs show the code doing something a comment of it denies:

* `plain_name`: under automatic selection a plain backend name is reported
  although an operation has no backend at all; `simd_dispatch.h:93` says all
  operations are resolved to it. It takes a package none of whose available
  backends provides that operation, so the shipped catalog is not affected
  (`OnlySseCannotConvolve`).
* `config_ignored`: in a package generated by `use_simd_dispatch`,
  `rsd_template_substitute` renames the macro the engine tests
  (`defined(SD_HAVE_CONFIG_H)`) but not the one the configure script defines,
  because `\bSD_` does not match inside `-DSD_HAVE_CONFIG_H`
  (`R/template.R:111`, `configure-simd-dispatch.sh:289`). `config.h` is never
  included, although line 145 of the script says it is, and the engine knows
  only the backends whose macros `CFLAGS` alone enable: SSE2 on x86-64. The
  other kernels are compiled and linked and never selected.

Two smaller ones are visible in the model and have no run: a selection of a
backend with an empty table raises with nothing resolved, while
`sd_selected_backend` names the backend of before (`SetBackendFails`; no backend
of the package has an empty table); and `sd_set_backend` before
`sd_init_dispatch` leaves the matrix unfilled (line 312 says it is populated
during the latter), which only a standalone program can do, since R initializes
first (`LoadedForGood`).

## 4. What is proved

For every catalog (any number of backends, operations and signatures, any
priorities below `UINT_MAX`, any tables) that satisfies the assumptions of
`KernelTables`; for any set of register bits in `CpuFeatures`, any case
statement in `ConfigureStage`, any number of threads in `DispatchThreads`, any
block sizes and lengths in the kernels, any number of files, prefixes and lines
in `TemplateDeploy`, and any width of `R_xlen_t` in `RApi`:

| Theorem | States |
|---|---|
| `RegisterTable_proofs!AtomicRegistration` | `[]AllOrNothing` |
| `RegisterTable_proofs!CorrectRegistration` | `[]InstallsTheTable` |
| `RegisterTable_proofs!RegistrationIsOneStep` | each step is a new build, or the one-step registration of `SimdDispatch`, or changes nothing that is committed |
| `RegisterTable_proofs!RaisesExactlyForBadTables` | it raises exactly for a table with a bad row, at the first one |
| `RegisterTable_proofs!RegistrationsAreBounded` | at most two looks at each row and at the sentinel |
| `SimdDispatch_proofs!TypeCorrect` | `[]TypeOK` |
| `SimdDispatch_proofs!ResolvedSlotsAreSound` | `[]SlotsSound` |
| `SimdDispatch_proofs!KernelsRunOnTheirFrames` | `[]KernelTakesTheFrame` |
| `SimdDispatch_proofs!ExplicitSelectionIsPure` | `[]ExplicitIsPure` |
| `SimdDispatch_proofs!AutomaticSelectionIsBest` | `[]AutoIsBest` |
| `SimdDispatch_proofs!MatrixIsRight` | `[]MatrixAgrees` |
| `SimdDispatch_proofs!AvailabilityIsAnswered` | `[]AvailabilityAnswer` |
| `SimdDispatch_proofs!SummaryIsTrue` | `[]SummaryTellsTheRoute` |
| `SimdDispatch_proofs!OnlySetBackendMayReroute` | `OnlySetBackendReroutes` |
| `SimdDispatch_proofs!CallsAreBounded` | a call under way has at most 2N + 3 steps left, each step leaves fewer, none is left exactly when it has ended |
| `SimdDispatch_proofs!ExplicitSelectionIsWhole` | `WellWiredSpec`: while a backend is requested by name, the table is exactly that backend's |
| `SimdDispatch_proofs!InvocationsEndRight` | `WellWiredSpec`: each of the three ends of `sd_dispatch_invoke` is reached exactly where it should be |
| `SimdDispatch_proofs!PlainNameMeansAllIfOneOffersAll` | `[]PlainNameMeansAll`, if backends are well wired and an available one provides every operation |
| `SimdDispatch_proofs!ContractImplemented` | `WellWiredSpec => ContractHolds` |
| `SimdDispatch_proofs!ShippedSelection` | `ShippedSpec => []AutoOnShippedCatalog` |
| `SimdDispatch_proofs!ShippedOperationsAreAvailable` | `ShippedSpec => []OnlySseCannotConvolve` |
| `SimdDispatch_proofs!RDrivesTheEngine` | `RSpec => Spec` |
| `SimdDispatch_proofs!RIsNeverAborted` | `[]NeverAborts` |
| `SimdDispatch_proofs!LoadingIsForGood` | `[]LoadedForGood` |
| `SimdDispatch_proofs!OutputAlwaysFits` | `[]OutputFits` |
| `SimdDispatch_proofs!InfoAlwaysAgrees` | `[]InfoAgrees` |
| `SimdDispatch_proofs!RKeepsTheContract` | `RSpec /\ WellWired => ContractHolds` |
| `SimdDispatch_proofs!RNeverMismatches` | no call from R is refused for its signature |
| `SimdDispatch_proofs!WellWiredPackageLoads` | a package whose backends are well wired never fails to load |
| `DispatchThreads_proofs!FrameAlwaysHolds` | `[]FrameHolds`, contract or not |
| `DispatchThreads_proofs!ContractPreventsTearing` | `[]NeverTorn` |
| `DispatchThreads_proofs!ContractFollowsSelection` | `[]FollowsSelection` |
| `DispatchThreads_proofs!ThreadsImplementContract` | `Spec => ContractHolds`, under the contract or with one thread, from an engine nobody has used |
| `DispatchThreads_proofs!OneThreadNeedsNoContract` | one thread gets the answers of the contract without it |
| `DispatchThreads_proofs!DispatchesNeedNoLock` | any number of threads that only dispatch, on an initialized engine, need no lock |
| `DispatchThreads_proofs!SelectionIsWholeWhenVisible` | safety half of `SelectionTakesEffect` |
| `CpuFeatures_proofs!ProbesNeverFault` | `[]NeverFaults` |
| `CpuFeatures_proofs!ProbesNeverOverclaim` | `[]NeverOverclaims` |
| `CpuFeatures_proofs!ProbesNeverUnderclaim` | `[]NeverUnderclaims` |
| `ConfigureStage_proofs!LinkedAsConfigured` | `[]LinksWhatConfigSays` |
| `ConfigureStage_proofs!NothingSilentlyDropped` | `[]CompleteOrFailed` |
| `ConfigureStage_proofs!EngineMatchesLink` | `[]EngineKnowsTheKernels` |
| `ConfigureStage_proofs!MakevarsOnlyOnSuccess` | `OnlySuccessWritesMakevars` |
| `ConfigureStage_proofs!EngineFlagsByPrefix` | after a success: `EngineIncludesConfig` with the prefix `SD`, the flags of the compiler alone with any other |
| `ConfigureStage_proofs!RunsAreBounded` | a run takes at most a step per backend of its branch and five more, interrupted or not |
| `TemplateDeploy_proofs!DeploysCompletely` | `[]Deployed` |
| `TemplateDeploy_proofs!NeverOverwrites` | `[]RefusesToOverwrite` |
| `TemplateDeploy_proofs!DeclaresLast` | `LinkingComesLast` |
| `Kernels_proofs!KernelsStayInBounds` | `[]InBounds` |
| `Kernels_proofs!KernelsSumAlike` | `[]SumsLikeScalar` |
| `Kernels_proofs!ConvolutionsAreBounded` | each step leaves fewer to take: no loop turns without advancing |
| `Kernels_proofs!CountersStayInBounds` | `[]CountInBounds` |
| `Kernels_proofs!CountersCountAlike` | `[]CountsEveryByte` |
| `Kernels_proofs!CountsAreBounded` | at most two steps more than the buffer has bytes |

`DispatchThreads_proofs`, `ConfigureStage_proofs` and `TemplateDeploy_proofs`
prove the type invariants of their modules too.

*Assumptions.* The catalogs have at least one row, every operation has a
signature of `signatures.def`, and every priority is smaller than `UINT_MAX` (a
backend of priority `UINT_MAX` would never win an empty slot; `backends.def` has
10 to 70). `DispatchThreads`: the tables are well wired, the error paths being
those of `SimdDispatch`; those of its theorems that need it assume `Orderly`
(the contract of lines 288-300 is kept, or there is one thread), or
`OnlyDispatches` (the engine is initialized and nobody selects), by name.
`ConfigureStage`: no branch of the case statement stages a backend twice, since
a second compilation that fails would remove the object the first one listed.
`TemplateDeploy`: the names that stand for no author, the package's author and
each prefix differ. `RApi`: `R_XLEN_T_MAX` is positive, and is taken to be the
largest `R_xlen_t` too, as it is on 32 bits: the case in which the arithmetic
could overflow. `WellWired`, where a theorem needs it, says that no table of an
available backend is empty or has a bad row; the theorems about the engine
without it cover mis-wired tables. `ShippedCatalog` says that the constants have
the values of `backends.def` and `operations.def` (the tables of `kernel_*.c`
are those of `ShippedSpec`); `UINT_MAX` and further signatures are left open,
and the run `shipped` instantiates it.

*The arguments.* `RegisterTable`: the invariant says, for each point of the two
passes, how much of the table has been validated or installed; at row `i` of the
second pass an operation holds what `InstallSlots` says of the first `i - 1`
rows. Needed because `InstallsTheTable` speaks only of the end, and because the
first row that provides an operation is a `CHOOSE`, whose existence is the
well-foundedness of the naturals (`KernelTables_proofs!LeastNatural`).
`RegistrationIsOneStep` follows from it with a mapping: until the second pass
has met the sentinel, what counts of the builder is what it was on entry
(`Committed`).

`SimdDispatch`: the inductive invariant comes in layers, each using those below
it. *Types*, strengthened by where each local is meaningful. *Slots*:
`SlotsSound`, with the request and what has run; a failed build leaves sound
slots because `InstallSlots` puts only sound ones in and clearing leaves empty
ones. *Automatic build*: before backend `n` registers, each slot holds the best
of the backends below `n`, with its priority in `best`; at `n = N + 1` that is
`AutoIsBest`, and it stays true as long as the request is automatic and the
engine initialized. *Matrix*: the rows below `n` are right, and no available
backend has a bad row once the build before it went through. *Answers* and
*summary* rest on the layers before: the answer is computed in the step that
gives it, and the summary is written in the steps that end a build, from the
slots. `ExplicitInv` adds to them that under a request by name the slots are
those of that backend's table, which needs well-wired tables: a build that fails
leaves the request with empty slots. `InvocationsEndRight` puts this and
`AutoIsBest` together (`Chosen`). `ShippedInv` pins the machine and the build to
one family of processors; the rest is arithmetic on seven priorities and two
operations, over the slots that `AutoIsBest` describes. The refinement adds
nothing to the first three layers: the abstract `Settle` is the step that ends
the build, and each of the others maps to one abstract step or to a stutter.

`RApi`: each action is a step of `SimdDispatch` or leaves its variables alone
(`RDrivesTheEngine`), so that every theorem about the engine holds in R.
`LoadInv` says where loading is: R's handler is in place before anything can
raise, and `sd_init_dispatch` either fails before `sd_dispatch_initialized` is
set, or fills the matrix before it returns, which nothing undoes. For
`InfoAgrees`, `InfoInv` says what the fields filled so far hold: availability
and providers are those of the machine, the tables and the matrix, which no
selection changes, so the second pass finds what the first counted; a route read
later is a sound slot, hence among them. The last clause, about answers with no
selection in between, adds that the fields read so far are those of the engine
now, and at the end `SummaryTellsTheRoute` and `ExplicitIsPure` do the rest.

`DispatchThreads`: without the contract, every value in a slot or on its way
there was put there by an available backend that provides the operation, and the
pointer in the hands of a thread names a row of such a backend for the operation
that thread dispatches (`Origin`); the row being right (`KernelRight`) that is
`FrameHolds`. With it, at most one thread is
busy while any store is pending, the value each thread sees in a field is then
the last one stored there, and that is the route of the selection
(`RouteStored`: of the values a build stores, the last is the best). A build is
one step of the promise, when it begins if a backend is named and when it ends
if none is; stores becoming visible are stutters. The invariant needs of the
contract only that nobody is in the way of a thread that selects or dispatches
(`Timely`), which a single thread has by being alone; where nobody selects,
nothing is ever pending (`Steady`).

`CpuFeatures`: at each `pc` the invariant says which facts about the machine the
earlier reads have established.

`ConfigureStage`: the invariant says, per phase, what is staged and written;
that what is staged was compiled by this run; and, as long as the temporary
directory is there, that what has been passed and is not in `have` was refused.
The last clause survives an interruption only as an implication, and becomes
unconditional when the engine, which needs the directory, has been compiled.
What the engine was compiled with (`EngineFlags`) is part of it for any prefix;
`EngineFlagsByPrefix` works out the substitution, and so says of every compiler
what the run `config_ignored` shows of one.

`TemplateDeploy`: the invariant says how far a call has come: the files it has
written are whole and of its prefix, those after are as it found them, and which
of the other three files are still untouched. `RefusesToOverwrite` also speaks
of calls that failed, whose files are therefore part of it (`Found`).

`ConvolveKernels`: while rows are added, cell `x` holds the products of the rows
before `i`, and that of row `i` if the pass over it has come by (`RowsAdded`).
Needed because a store adds to several cells at once; the lemmas
`OneMoreProduct` and `NoMoreProduct` say what one more row does to a cell it
reaches and to one it does not. `CountKernels`: `acc` is the cardinality of the
non-zero positions below `at`.

*Ends of calls.* `CallsAreBounded`, `RegistrationsAreBounded`, `RunsAreBounded`,
`ConvolutionsAreBounded` and `CountsAreBounded` give each a measure that is a
natural number and that every step makes smaller: no loop turns without
advancing, for any size. That there is always a next step to take, the other
half of the liveness properties, TLC checks (deadlock and `CallsEnd`, `RunsEnd`,
`KernelReturns`).

*Not proved, model-checked only.* Liveness under fairness (`CallsEnd`,
`RunsEnd`, `KernelReturns`, `SelectionTakesEffect`), which is beyond the prover,
except for the halves just named and `SelectionIsWholeWhenVisible`. Every other
property of the passing runs is a theorem, and each of the two properties that a
run refutes is proved under the condition that makes it true.

## 5. How the parts were built up

The engine and its contract came first, on the operators of `KernelTables`, with
`RegisterTable` to justify that a registration is one step; then the parts that
decide what the engine is compiled with (`ConfigureStage`) and what it believes
of the machine (`CpuFeatures`), and the kernels it calls. On these rest the two
compositions, the engine under threads against the same contract, and the
engine inside R, and the template that carries all of it into another package.

A composition of `ConfigureStage`, `CpuFeatures` and `SimdDispatch` in one state
machine was considered and left out: they meet only in two constants of the
engine, `compiled`, which is what `EngineKnowsTheKernels` says the engine was
built with, and `supported`, which is what `NeverOverclaims` and
`NeverUnderclaims` say of the answers of the probes; the engine is checked and
proved for every value of both.

## 6. Not modelled

* *Vendored SIMDe* (`inst/include/simde`, about 255 000 of the repository's
  259 000 implementation lines) is third-party: header-only emulations of
  single instructions, without state. The kernels use a handful of its loads,
  stores and additions, which appear in the kernel models as what they do to a
  block. The share of all lines that the models cover is small for this reason.
* *The scaffold in `inst/templates/dispatch-c`* repeats the engine, the probes,
  the kernels and the configure script of `tools/`; the models of those stand
  for both, and `ConfigureStage` has the prefix in which they differ.
* *Standalone build and C tests*: a Makefile of compiler commands, and tests read
  as statements about the engine. *SIMDe information* (`R/simde.R`) reads
  provenance files. *Maintenance scripts* vendor headers, collect authors and
  drive CI.
* Of the engine: the texts of error messages and the 32-byte buffers of the two
  backend names (the longest summary of the shipped catalog,
  `partial:wasm_simd128`, takes 21 bytes); `sd_target_arch`, `sd_target_os`,
  `sd_dispatch_mode` and the pure lookups of the catalogs (`sd_operation_name`,
  `sd_signature_name`); a kernel table without a sentinel, which would be read
  beyond its end. Under threads: the two name buffers, the matrix, and the
  error paths.
* Of the R interface: the checks of argument types, which change nothing, the
  protect stack, which R restores itself when an error leaves a call, and the
  fields of `simd_info` that never change.
* Of the kernels: the overflow guard of the scalar convolution
  (`kernel_scalar.c:22`), whose lengths no address space holds as doubles.
* Of the configure script: the checks that exit before anything is written, a
  full disk and a missing source file.
* Of the template: the arguments that are refused before anything is written and
  the spelling of the substituted names, except for the one macro that
  `ConfigureStage` follows.

## 7. Running

    tlc -workers 2 -config AnyTables.cfg MCSimdDispatch
    tlapm SimdDispatch_proofs.tla

Each run of section 3 names its module; the configuration is named there or
after the module. `PlainName.cfg` (for `MCSimdDispatch`) and `ConfigIgnored.cfg`
(for `MCConfigureStage`) are the two expected to fail.
