SPECIFICATION Spec
CONSTANTS
  CR = CR
  LF = LF
  NUL = NUL
  BodyLength = 2
  Streams <- MCStreams
  READ_BUFFER_SIZE = 13
  HeadLength = 2
  FileLength = 2
  MaxAgain = 1
INVARIANT BodyRecognised
