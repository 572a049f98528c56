CONSTANTS
  Layouts <- MCSmallLayouts
  NumViews = 4
SPECIFICATION Spec
INVARIANTS TableInv ShowsTheTable
PROPERTY MergeKeepsPlaying
