\* Is the example command of server.py accepted for an Opta?
SPECIFICATION Spec
CONSTANTS
  ByteSize = 8
  WordSize = 16
  OutputsOf <- MCOutputsOf
  PostedCommands <- MCPostedCommands
INVARIANTS
  ExampleCommandTaken
