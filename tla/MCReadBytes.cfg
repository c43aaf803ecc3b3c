SPECIFICATION Spec
CONSTANTS
  Requests <- WholePost
  BufferSize = 9
  SizeModulus = 32
  NoNumber = NoNumber
  Missing = Missing
  StrayLengths <- FewStrayLengths
CHECK_DEADLOCK FALSE
INVARIANT
  ReadBytesReachHandler
