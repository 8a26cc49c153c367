\* Replies in any order, several messages on one stamp, one restart, and a fair
\* command thread.
SPECIFICATION FairSpec
CONSTANTS
  Messages = {own1, own2, bad, other}
  IOCommands = {own1, own2, bad}
  Malformed = {bad}
  SortedReplies = FALSE
  FailedReplies = TRUE
  MaxTime = 4
  MaxRestarts = 1
INVARIANTS
  PopHasCommand
  FetchedOnce
  OnlyBacklogDiscarded
  StrandedOnlyByFailure
  IndInv
PROPERTIES
  MarkOnlyGrows
  EveryCommandSettles
