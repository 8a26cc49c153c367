\* The same devices and documents, for what the documentation says of errors.
SPECIFICATION Spec
CONSTANTS
  None = None
  ByteSize = 4
  WordSize = 8
  InputsOf <- MCInputsOf
  OutputsOf <- MCOutputsOf
  Documents <- MCDocuments
  MaxStatuses = 3
INVARIANTS
  NoErrorMessage
