SPECIFICATION Spec
CONSTANTS
  NoUrl = NoUrl
  X = X
  Y = Y
  Program <- MCProgram
  Tops <- MCTops
  Nodes <- MCNodes
  Means <- MCMeans
  Free <- MCFree
  Rank <- MCRank
  Key <- MCKey
  Name <- MCName
  Source <- MCSource
  Url <- MCUrl
  Base <- MCBase
  MaxLevel = 2
INVARIANTS ValuesAreMeant MissingOnlyMisplaced ComputedOnce
