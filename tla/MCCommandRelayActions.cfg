\* Do only the action types of the README reach a device?
SPECIFICATION Spec
CONSTANTS
  ByteSize = 8
  WordSize = 16
  OutputsOf <- MCOutputsOf
  PostedCommands <- MCPostedCommands
INVARIANTS
  KnownActionsOnly
