\* Three devices, memory for two entries and a half, two threads that forward; buffers
\* and threads are interchangeable.
SPECIFICATION Spec
CONSTANTS
  None = None
  b1 = b1
  b2 = b2
  b3 = b3
  b4 = b4
  b5 = b5
  t1 = t1
  t2 = t2
  Devices <- MCDevices
  Buffers <- MCBuffers
  Threads <- MCThreads
SYMMETRY Symmetry
INVARIANTS
  EntriesOwnTheirBuffers
  LeaksAccounted
  RegistryCountsCalls
  MixedUpOnlyByOverlap
