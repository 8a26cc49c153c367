\* Replies in time-stamp order, every failed request throws, one restart.
SPECIFICATION PathSpec
CONSTANTS
  Messages = {own1, own2, own3, bad}
  IOCommands = {own1, own2, own3, bad}
  Malformed = {bad}
  SortedReplies = TRUE
  FailedReplies = FALSE
  MaxTime = 4
  MaxRestarts = 1
  ByteSize = 4
  WordSize = 4
  Payload <- MCPayload
  Nobody = Nobody
SYMMETRY Symmetry
INVARIANTS
  NoCommandLost
  NewestFirst
  StaleNeverOverrules
  OldestOfDrainStays
PROPERTIES
  KeepsPromise
