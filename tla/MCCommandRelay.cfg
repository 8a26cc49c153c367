\* Any device, with posted commands of every kind and those of server.py.
SPECIFICATION Spec
CONSTANTS
  ByteSize = 8
  WordSize = 16
  OutputsOf <- MCOutputsOf
  PostedCommands <- MCPostedCommands
INVARIANTS
  TypeOK
  GivenIsReadable
  PostedActionsKept
  OutputsAsPosted
