------------------------- MODULE CpuFeatures_proofs -------------------------
(***************************************************************************)
(* The probes are safe and their answers right, for every target and every *)
(* processor.                                                              *)
(***************************************************************************)
EXTENDS CpuFeatures, TLAPS

(***************************************************************************)
(* What a probe has established by the time it reads a register.           *)
(***************************************************************************)
Established ==
  /\ pc # "idle" => answer = "none"
  /\ pc \in {"leaf0", "xcr0", "leaf7"} => probe \in {"avx2", "avx512"}
  /\ pc \in {"leaf0", "leaf1", "xcr0", "leaf7"} =>
       target \in X86 /\ probe \in X86Probes
  /\ pc = "leaf1" /\ probe \in {"avx2", "avx512"} => cpu.max >= 7
  /\ pc \in {"xcr0", "leaf7"} =>
       /\ cpu.max >= 7
       /\ probe = "avx2" => 28 \in cpu.ecx1
  /\ pc = "xcr0" => leaf1.ecx = cpu.ecx1
  /\ pc = "leaf7" => OsSaves(Mask)

IInv == TypeOK /\ Established /\ NeverFaults /\ NeverOverclaims

LEMMA InitIInv == Init => IInv
BY TargetsAssumption
   DEF Init, IInv, TypeOK, Established, NeverFaults, NeverOverclaims, Unread,
       Probes, X86Probes

LEMMA NextIInv == IInv /\ [Next]_vars => IInv'
<1> SUFFICES ASSUME IInv, [Next]_vars PROVE IInv'
  OBVIOUS
<1> USE DEF IInv, TypeOK, NeverFaults, NeverOverclaims, Return, Goto, Unread
<1>1. ASSUME NEW p \in Probes, Call(p) PROVE IInv'
  BY <1>1 DEF Call, Established, X86, X86Probes
<1>2. ASSUME NEW p \in Probes, CallConstant(p) PROVE IInv'
  BY <1>2 DEF CallConstant, Established, X86, X86Probes
<1>3. CASE ReadLeaf0
  <2>1. CASE CpuidFails(0) \/ cpu.max < 7
    BY <1>3, <2>1 DEF ReadLeaf0, Established
  <2>2. CASE ~(CpuidFails(0) \/ cpu.max < 7)
    <3>1. cpu.max >= 7
      BY <2>2 DEF MaxLeaves
    <3> QED BY <1>3, <2>2, <3>1 DEF ReadLeaf0, Established
  <2> QED BY <2>1, <2>2
<1>4. CASE ReadLeaf1
  <2>1. /\ pc = "leaf1" /\ UNCHANGED <<target, cpu, probe>>
        /\ answer = "none" /\ target \in X86 /\ probe \in X86Probes
        /\ probe \in {"avx2", "avx512"} => cpu.max >= 7
    BY <1>4 DEF ReadLeaf1, Established
  <2>2. \/ Return(FALSE)
        \/ probe = "sse2" /\ Return(26 \in cpu.edx1)
        \/ probe = "sse41" /\ Return(19 \in cpu.ecx1)
        \/ /\ probe \in {"avx2", "avx512"}
           /\ probe = "avx2" => 28 \in cpu.ecx1
           /\ leaf1' = [ecx |-> cpu.ecx1, edx |-> cpu.edx1]
           /\ Goto("xcr0")
    BY <1>4 DEF ReadLeaf1
  <2>3. CASE Return(FALSE)
    BY <2>1, <2>3 DEF Established
  <2>4. CASE probe = "sse2" /\ Return(26 \in cpu.edx1)
    BY <2>1, <2>4 DEF Established, CanRun
  <2>5. CASE probe = "sse41" /\ Return(19 \in cpu.ecx1)
    BY <2>1, <2>5 DEF Established, CanRun
  <2>6. CASE /\ probe \in {"avx2", "avx512"}
             /\ probe = "avx2" => 28 \in cpu.ecx1
             /\ leaf1' = [ecx |-> cpu.ecx1, edx |-> cpu.edx1]
             /\ Goto("xcr0")
    BY <2>1, <2>6 DEF Established
  <2> QED BY <2>2, <2>3, <2>4, <2>5, <2>6
<1>5. CASE SkipXcr0
  BY <1>5 DEF SkipXcr0, Established
<1>6. CASE ReadXcr0
  <2>1. /\ pc = "xcr0" /\ UNCHANGED <<target, cpu, probe>>
        /\ answer = "none" /\ 27 \in cpu.ecx1
    BY <1>6 DEF ReadXcr0, Established, OsSupportsAvx
  <2>2. CASE Mask \subseteq cpu.xcr0
    <3>1. Goto("leaf7") /\ UNCHANGED leaf1
      BY <1>6, <2>1, <2>2 DEF ReadXcr0
    <3>2. OsSaves(Mask)'
      BY <2>1, <2>2 DEF OsSaves, Mask
    <3> QED BY <2>1, <3>1, <3>2 DEF Established
  <2>3. CASE ~(Mask \subseteq cpu.xcr0)
    <3>1. Return(FALSE)
      BY <1>6, <2>1, <2>3 DEF ReadXcr0
    <3> QED BY <2>1, <3>1 DEF Established
  <2> QED BY <2>2, <2>3
<1>7. CASE ReadLeaf7
  <2>1. Leaf7 = {cpu.ebx7}
    BY <1>7 DEF ReadLeaf7, Established, Leaf7
  <2>2. PICK yes \in BOOLEAN : Return(yes) /\ (yes => Needed \subseteq cpu.ebx7)
    BY <1>7, <2>1 DEF ReadLeaf7
  <2>3. /\ pc = "leaf7" /\ pc' = "idle" /\ UNCHANGED <<target, cpu, probe>>
    BY <1>7, <2>2 DEF ReadLeaf7
  <2>4. ASSUME yes PROVE CanRun(probe)
    BY <2>2, <2>3, <2>4 DEF Established, CanRun, Needed, OsSaves, Mask
  <2>5. NeverOverclaims'
    BY <2>2, <2>3, <2>4 DEF Established, CanRun, OsSaves
  <2> QED BY <2>2, <2>3, <2>5 DEF Established
<1>8. CASE UNCHANGED vars
  BY <1>8 DEF vars, Established, OsSaves, Mask, CanRun
<1> QED BY <1>1, <1>2, <1>3, <1>4, <1>5, <1>6, <1>7, <1>8 DEF Next, Step

LEMMA Invariant == Spec => []IInv
BY InitIInv, NextIInv, PTL DEF Spec

(***************************************************************************)
(* No probe executes xgetbv on a processor that faults on it.              *)
(***************************************************************************)
THEOREM ProbesNeverFault == Spec => []NeverFaults
<1>1. IInv => NeverFaults
  BY DEF IInv
<1> QED BY <1>1, Invariant, PTL

(***************************************************************************)
(* An x86 backend is reported supported only where its instructions exist  *)
(* and the operating system saves its registers.                           *)
(***************************************************************************)
THEOREM ProbesNeverOverclaim == Spec => []NeverOverclaims
<1>1. IInv => NeverOverclaims
  BY DEF IInv
<1> QED BY <1>1, Invariant, PTL

-----------------------------------------------------------------------------
(***************************************************************************)
(* The other direction, where there is a cpuid to use.                     *)
(***************************************************************************)

\* The processors and builds of NeverUnderclaims.
Probed ==
  /\ target \in {"x86_helper", "x86_plain"}
  /\ 27 \in cpu.ecx1 => 26 \in cpu.ecx1

\* A step that answers 0 has seen what the feature lacks.
LEMMA NoMeansCannot ==
  ASSUME IInv, Step, Probed, answer' = "no"
  PROVE  ~CanRun(probe)
<1> USE DEF IInv, TypeOK, Return, Goto, Probed, CpuidFails
<1>1. CASE ReadLeaf0
  <2>1. probe \in {"avx2", "avx512"} /\ answer = "none"
    BY <1>1 DEF ReadLeaf0, Established
  <2>2. ~(cpu.max >= 7)
    BY <1>1, <2>1 DEF ReadLeaf0, MaxLeaves
  <2> QED BY <2>1, <2>2 DEF CanRun
<1>2. CASE ReadLeaf1
  <2>1. ~CpuidFails(1) /\ answer = "none" /\ probe \in X86Probes
    BY <1>2 DEF ReadLeaf1, Established, MaxLeaves
  <2>2. \/ probe = "sse2" /\ 26 \notin cpu.edx1
        \/ probe = "sse41" /\ 19 \notin cpu.ecx1
        \/ probe = "avx2" /\ 28 \notin cpu.ecx1
    BY <1>2, <2>1 DEF ReadLeaf1
  <2> QED BY <2>2 DEF CanRun
<1>3. CASE SkipXcr0
  BY <1>3 DEF SkipXcr0, Established, OsSupportsAvx, CanRun, OsSaves
<1>4. CASE ReadXcr0
  <2>1. ~(Mask \subseteq cpu.xcr0) /\ probe \in {"avx2", "avx512"}
    BY <1>4 DEF ReadXcr0, Established
  <2> QED BY <2>1 DEF Mask, CanRun, OsSaves
<1>5. CASE ReadLeaf7
  <2>1. Leaf7 = {cpu.ebx7} /\ cpu.max >= 7 /\ probe \in {"avx2", "avx512"}
    BY <1>5 DEF ReadLeaf7, Established, Leaf7
  <2>2. ~CpuidFails(7)
    BY <2>1 DEF MaxLeaves
  <2>3. Return(Needed \subseteq cpu.ebx7)
    BY <1>5, <2>1, <2>2 DEF ReadLeaf7
  <2>4. ~(Needed \subseteq cpu.ebx7)
    BY <2>3
  <2> QED BY <2>1, <2>4 DEF Needed, CanRun
<1> QED BY <1>1, <1>2, <1>3, <1>4, <1>5 DEF Step

LEMMA NextNeverUnderclaims ==
  IInv /\ NeverUnderclaims /\ [Next]_vars => NeverUnderclaims'
<1> SUFFICES ASSUME IInv, NeverUnderclaims, [Next]_vars PROVE NeverUnderclaims'
  OBVIOUS
<1>1. CASE Step
  <2>1. UNCHANGED <<target, cpu, probe>>
    BY <1>1 DEF Step, ReadLeaf0, ReadLeaf1, SkipXcr0, ReadXcr0, ReadLeaf7
  <2>2. CanRun(probe)' <=> CanRun(probe)
    BY <2>1 DEF CanRun, OsSaves
  <2> QED BY <1>1, <2>1, <2>2, NoMeansCannot DEF NeverUnderclaims, Probed
<1>2. ASSUME NEW p \in Probes, Call(p) PROVE NeverUnderclaims'
  BY <1>2 DEF Call, NeverUnderclaims
<1>3. ASSUME NEW p \in Probes, CallConstant(p) PROVE NeverUnderclaims'
  BY <1>3 DEF CallConstant, NeverUnderclaims, X86
<1>4. CASE UNCHANGED vars
  BY <1>4 DEF vars, NeverUnderclaims, CanRun, OsSaves
<1> QED BY <1>1, <1>2, <1>3, <1>4 DEF Next

(***************************************************************************)
(* An x86 build that can ask the processor passes over no backend the      *)
(* processor and the operating system could run.                           *)
(***************************************************************************)
THEOREM ProbesNeverUnderclaim == Spec => []NeverUnderclaims
<1>1. Init => NeverUnderclaims
  BY DEF Init, NeverUnderclaims
<1> QED BY <1>1, InitIInv, NextIInv, NextNeverUnderclaims, PTL DEF Spec

=============================================================================
