\* Any device, regular and odd documents, the connection going up and down.
SPECIFICATION Spec
CONSTANTS
  None = None
  ByteSize = 4
  WordSize = 8
  InputsOf <- MCInputsOf
  OutputsOf <- MCOutputsOf
  Documents <- MCDocuments
  MaxStatuses = 3
INVARIANTS
  TypeOK
  CurrentIsLast
  AppSeesCurrent
  NoPressHeldBack
  
