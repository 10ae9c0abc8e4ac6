SPECIFICATION FairSpec
CONSTANTS
  session = session
  camera = camera
  errors = errors
  Threads <- MCThreads
  Owner <- MCOwner
  Types = {"report"}
  Payloads <- MCPayloads
  PayloadSize <- MCPayloadSize
  MaxPayload <- MCMaxPayload
  MaxSeq <- UnequalMaxSeq
  Interference = FALSE
INVARIANTS
  TypeOK
  WholeFrameIsOpened
PROPERTIES
  SendsComplete
