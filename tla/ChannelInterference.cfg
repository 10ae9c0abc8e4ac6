SPECIFICATION Spec
CONSTANTS
  session = session
  camera = camera
  errors = errors
  Threads <- MCThreads
  Owner <- MCOwner
  Types = {"descriptor", "report"}
  Payloads = {"fits"}
  PayloadSize <- MCPayloadSize
  MaxPayload <- MCMaxPayload
  MaxSeq <- EqualMaxSeq
  Interference = TRUE
SYMMETRY PhoneThreadSymmetry
INVARIANTS
  NonceUsedOnce
  InOrderExactlyOnce
PROPERTIES
  ImplementsFifo
