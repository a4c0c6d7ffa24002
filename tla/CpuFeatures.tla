---------------------------- MODULE CpuFeatures ----------------------------
(***************************************************************************)
(* The runtime feature probes of cpu_features.c, one register read per     *)
(* step: cpuid leaf 0, 1 and 7 and XCR0, with the early returns between    *)
(* them.  A register is the set of the numbers of its bits that are 1.     *)
(*                                                                         *)
(* The order of the reads matters to the processor: xgetbv is an invalid   *)
(* instruction unless the operating system has set CR4.OSXSAVE, and a      *)
(* plain cpuid of a leaf beyond the highest one returns the registers of   *)
(* another leaf.                                                           *)
(***************************************************************************)
EXTENDS Naturals

CONSTANTS
  Targets,   \* what the library may be compiled for, see Target
  Leaf1Ecx, Leaf1Edx, Leaf7Ebx, Xcr0   \* the bits a register may have set

\* The compile-time branches of the file: x86 with <cpuid.h>, whose helper
\* refuses a leaf beyond the highest; x86 with a plain cpuid instruction
\* (MSVC, or no <cpuid.h>); x86 with neither; and the other platforms, where
\* the answers are constants.
Target == {"x86_helper", "x86_plain", "x86_unknown",
           "aarch64", "arm_neon", "wasm", "other"}

ASSUME TargetsAssumption == Targets \subseteq Target

X86 == {"x86_helper", "x86_plain", "x86_unknown"}

X86Probes == {"sse2", "sse41", "avx2", "avx512"}
Probes    == X86Probes \cup {"neon", "wasm_simd128"}

\* Leaves are as high as 1 at least; 7 is the highest the probes ask for.
MaxLeaves == {1, 7}

VARIABLES
  target, \* one of Targets
  cpu,    \* the processor: highest leaf and registers
  probe,  \* the feature asked for by the running or the last call
  pc,     \* "idle", the register read next, or "fault"
  leaf1,  \* local copy of leaf 1, valid from "xcr0" on
  answer  \* what the last call returned

vars == <<target, cpu, probe, pc, leaf1, answer>>

Unread == [ecx |-> {}, edx |-> {}]

Init ==
  /\ target \in Targets
  /\ cpu \in [max  : MaxLeaves,
              ecx1 : SUBSET Leaf1Ecx, edx1 : SUBSET Leaf1Edx,
              ebx7 : SUBSET Leaf7Ebx, xcr0 : SUBSET Xcr0]
  /\ probe = "sse2"
  /\ pc = "idle"
  /\ leaf1 = Unread
  /\ answer = "none"

Return(yes) ==
  /\ pc' = "idle"
  /\ answer' = IF yes THEN "yes" ELSE "no"
  /\ leaf1' = Unread

Goto(label) ==
  /\ pc' = label
  /\ UNCHANGED answer

\* sd_cpuid fails without an instruction to use; the helper fails for a leaf
\* beyond the highest one.
CpuidFails(leaf) ==
  \/ target = "x86_unknown"
  \/ target = "x86_helper" /\ cpu.max < leaf

\* A probe of an x86 extension begins.
Call(p) ==
  /\ pc = "idle"
  /\ target \in X86
  /\ p \in X86Probes
  /\ probe' = p
  /\ pc' = IF p \in {"avx2", "avx512"} THEN "leaf0" ELSE "leaf1"
  /\ answer' = "none"
  /\ UNCHANGED <<target, cpu, leaf1>>

\* On other platforms the x86 probes return 0, and everywhere the NEON and
\* WebAssembly probes return a constant of the build.
CallConstant(p) ==
  /\ pc = "idle"
  /\ p \in X86Probes => target \notin X86
  /\ probe' = p
  /\ Return(\/ p = "neon" /\ target \in {"aarch64", "arm_neon"}
            \/ p = "wasm_simd128" /\ target = "wasm")
  /\ UNCHANGED <<target, cpu>>

\* Faulty variant: the highest leaf is not looked at.
ReadLeaf0Unchecked ==
  /\ pc = "leaf0"
  /\ Goto("leaf1")
  /\ UNCHANGED <<target, cpu, probe, leaf1>>

\* sd_max_leaf_at_least(7)
ReadLeaf0 ==
  /\ pc = "leaf0"
  /\ IF CpuidFails(0) \/ cpu.max < 7
     THEN Return(FALSE)
     ELSE Goto("leaf1") /\ UNCHANGED leaf1
  /\ UNCHANGED <<target, cpu, probe>>

\* sd_cpuid(1, 0, &leaf1).  The SSE probes answer from it, AVX2 asks for the
\* AVX bit before it looks at the operating system, AVX-512 does not.
ReadLeaf1 ==
  /\ pc = "leaf1"
  /\ IF CpuidFails(1)
     THEN Return(FALSE)
     ELSE \/ /\ probe = "sse2"
             /\ Return(26 \in cpu.edx1)
          \/ /\ probe = "sse41"
             /\ Return(19 \in cpu.ecx1)
          \/ /\ probe = "avx2"
             /\ 28 \notin cpu.ecx1
             /\ Return(FALSE)
          \/ /\ probe \in {"avx2", "avx512"}
             /\ probe = "avx2" => 28 \in cpu.ecx1
             /\ leaf1' = [ecx |-> cpu.ecx1, edx |-> cpu.edx1]
             /\ Goto("xcr0")
  /\ UNCHANGED <<target, cpu, probe>>

\* Faulty variant: AVX2 waits for the AVX-512 state.
MaskWide == {1, 2, 5, 6, 7}

\* The masks 0x6 (XMM, YMM) and 0xE6 (and opmask, ZMM_Hi256, Hi16_ZMM).
Mask == IF probe = "avx512" THEN {1, 2, 5, 6, 7} ELSE {1, 2}

\* Faulty variant: XSAVE is taken for OSXSAVE.
OsSupportsAvxByXsave == 26 \in leaf1.ecx

\* sd_os_supports_avx looks at XSAVE and OSXSAVE before xgetbv
\* (sd_os_supports_avx512 then repeats the read with the wider mask).
OsSupportsAvx == {26, 27} \subseteq leaf1.ecx

SkipXcr0 ==
  /\ pc = "xcr0"
  /\ ~OsSupportsAvx
  /\ Return(FALSE)
  /\ UNCHANGED <<target, cpu, probe>>

\* xgetbv: without OSXSAVE the processor raises an invalid-opcode fault.
ReadXcr0 ==
  /\ pc = "xcr0"
  /\ OsSupportsAvx
  /\ IF 27 \notin cpu.ecx1
     THEN Goto("fault") /\ UNCHANGED leaf1
     ELSE IF Mask \subseteq cpu.xcr0
          THEN Goto("leaf7") /\ UNCHANGED leaf1
          ELSE Return(FALSE)
  /\ UNCHANGED <<target, cpu, probe>>

\* What a plain cpuid of leaf 7 puts into ebx.
Leaf7 == IF cpu.max >= 7 THEN {cpu.ebx7} ELSE SUBSET Leaf7Ebx

Needed == IF probe = "avx512" THEN {16, 30, 31} ELSE {5}

\* sd_cpuid(7, 0, &leaf7)
ReadLeaf7 ==
  /\ pc = "leaf7"
  /\ IF CpuidFails(7)
     THEN Return(FALSE)
     ELSE \E ebx \in Leaf7 : Return(Needed \subseteq ebx)
  /\ UNCHANGED <<target, cpu, probe>>

Step == ReadLeaf0 \/ ReadLeaf1 \/ SkipXcr0 \/ ReadXcr0 \/ ReadLeaf7

Next ==
  \/ Step
  \/ \E p \in Probes : Call(p) \/ CallConstant(p)

Spec == Init /\ [][Next]_vars

-----------------------------------------------------------------------------

TypeOK ==
  /\ target \in Targets
  /\ cpu \in [max  : MaxLeaves,
              ecx1 : SUBSET Leaf1Ecx, edx1 : SUBSET Leaf1Edx,
              ebx7 : SUBSET Leaf7Ebx, xcr0 : SUBSET Xcr0]
  /\ probe \in Probes
  /\ pc \in {"idle", "leaf0", "leaf1", "xcr0", "leaf7", "fault"}
  /\ leaf1 \in [ecx : SUBSET Leaf1Ecx, edx : SUBSET Leaf1Edx]
  /\ answer \in {"none", "yes", "no"}

(***************************************************************************)
(* A probe never executes xgetbv on a machine that faults on it.           *)
(***************************************************************************)
NeverFaults == pc # "fault"

(***************************************************************************)
(* What a kernel of the backend needs to run: the instructions, and for    *)
(* the wide registers an operating system that saves them.                 *)
(***************************************************************************)
OsSaves(bits) == 27 \in cpu.ecx1 /\ bits \subseteq cpu.xcr0

CanRun(p) ==
  CASE p = "sse2"   -> 26 \in cpu.edx1
    [] p = "sse41"  -> 19 \in cpu.ecx1
    [] p = "avx2"   -> /\ cpu.max >= 7 /\ 28 \in cpu.ecx1 /\ 5 \in cpu.ebx7
                       /\ OsSaves({1, 2})
    [] p = "avx512" -> /\ cpu.max >= 7 /\ {16, 30, 31} \subseteq cpu.ebx7
                       /\ OsSaves({1, 2, 5, 6, 7})

(***************************************************************************)
(* A backend whose probe answers 1 can run: no instruction is dispatched   *)
(* to that the processor does not have or the operating system has not     *)
(* enabled, whatever other features are there or missing.                  *)
(***************************************************************************)
NeverOverclaims ==
  answer = "yes" /\ probe \in X86Probes => target \in X86 /\ CanRun(probe)

(***************************************************************************)
(* No probe misses a feature it could have used, so a backend is not       *)
(* passed over for a slower one.  The builds that have no cpuid to use are *)
(* excepted, and a processor that reports OSXSAVE without XSAVE, which the *)
(* architecture rules out.                                                 *)
(***************************************************************************)
NeverUnderclaims ==
  (/\ answer = "no"
   /\ probe \in X86Probes
   /\ target \in {"x86_helper", "x86_plain"}
   /\ 27 \in cpu.ecx1 => 26 \in cpu.ecx1) => ~CanRun(probe)

=============================================================================
