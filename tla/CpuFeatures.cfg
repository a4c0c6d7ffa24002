SPECIFICATION Spec
CONSTANTS
  Targets = {"x86_helper", "x86_plain", "x86_unknown", "aarch64", "arm_neon", "wasm", "other"}
  Leaf1Ecx = {19, 26, 27, 28}
  Leaf1Edx = {26}
  Leaf7Ebx = {5, 16, 30, 31}
  Xcr0 = {1, 2, 5, 6, 7}
INVARIANTS
  NeverFaults
  NeverOverclaims
  NeverUnderclaims
