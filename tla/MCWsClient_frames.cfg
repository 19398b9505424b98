SPECIFICATION Spec
CONSTANTS
  PeerHeaders <- Headers
  PeerSizes <- Sizes
  Buffers = {125, 70000}
  CutPoints = {1, 3, 12}
  Outgoing <- ToSend
  CloseStatuses <- Statuses
  CloseReasons = {0, 123, 124}
  Overreads = {0, 1, 7}
  Careful = TRUE
  MaxOpens = 2
  MaxHeaders = 2
  MaxReads = 2
  MaxWrites = 1
CHECK_DEADLOCK FALSE
INVARIANTS TypeOK ReadsAligned NothingHidden FramesJudged FramesEncoded AnswersLegal WholeFramesWritten
PROPERTIES OnlyProperHandshake ImplementsConnection
