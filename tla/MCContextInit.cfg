\* Every configuration over five keys; a refused one is tried again.
SPECIFICATION Spec
CONSTANTS
  Configs <- MCConfigs
  MaxCalls = 2
INVARIANTS
  OutcomeFromValues
  ContextsAccounted
  GarbageOnlyIfAbsent
CHECK_DEADLOCK FALSE
