CONSTANTS
  Sizes <- SevenNodesAndLongBase
SPECIFICATION Spec
INVARIANTS TypeOK StackIsContour SameShelling IsLeftmost ContourSlopes SectionFits UpperIsLater NoCrossing FitsGrid
CHECK_DEADLOCK FALSE
