\* Three command threads, three commands, any number of contexts, requests that
\* fail by an exception or unseen.
SPECIFICATION FairSpec
CONSTANTS
  Threads = {t1, t2, t3}
  Nobody = Nobody
  MaxCommands = 3
  Malformed = {2}
  FailedReplies = TRUE
INVARIANTS
  OnlyPopRaces
  PopTakesWhatItCopied
  QueuedByOne
PROPERTIES
  KeepsPromise
  StopCompletes
