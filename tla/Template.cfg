SPECIFICATION Spec
CONSTANTS
  NumFiles = 2
  Scripts = {1}
  Prefixes = {p, q}
  Lines = {line}
INVARIANTS
  Deployed
  RefusesToOverwrite
PROPERTIES
  LinkingComesLast
