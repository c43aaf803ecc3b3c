CONSTANT Embeddings <- SmallAndPicked

SPECIFICATION Spec

CHECK_DEADLOCK FALSE

INVARIANTS
  TypeOK
  FaceCountersTrue
  NodeCountersTrue
  CandidatesTrue
  NoDanglingLink
  ChainFitsArray
  PartitionIsShelling
