SPECIFICATION FairSpec
CONSTANTS
  Requests <- AnyRequest
  BufferSize = 9
  SizeModulus = 32
  NoNumber = NoNumber
  Missing = Missing
  StrayLengths <- FewStrayLengths
CHECK_DEADLOCK FALSE
INVARIANTS
  TypeOK
  ReaderLedger
  TransferredMatchesMessage
  BodyInOrder
  ProcessedGrows
  AnswersMatch
PROPERTIES
  FirstPackageIsFinal
  ImplementsLife
  RequestIsServed
