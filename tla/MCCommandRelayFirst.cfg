\* Does a first command name outputs the device has?
SPECIFICATION Spec
CONSTANTS
  ByteSize = 8
  WordSize = 16
  OutputsOf <- MCOutputsOf
  PostedCommands <- MCPostedCommands
INVARIANTS
  FirstCommandNamesOutputs
