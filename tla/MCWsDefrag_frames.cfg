SPECIFICATION Spec
CONSTANTS
  Payloads <- ShortPayloads
  MaxPayload = 2
  max_message_size = 3
  MaxFrames = 3
  NoData = NoData
INVARIANTS TypeOK BufferOwned
PROPERTIES SameErrorUntilDone ImplementsStream
