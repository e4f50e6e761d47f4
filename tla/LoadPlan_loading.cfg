CONSTANTS
  Ids = {"v", "w", "x", "y", "z"}
  Predicates = {"cond", "enabled", "outer", "inner"}
  Always = "always"
  Never = "never"
  Documents <- MCDocuments
  Blocks <- MCBlocks
  Depth <- MCDepth
  Candidates <- MCCandidates
  Trees <- MCTrees
  Timeout = 2
  Names = {"a", "k"}
  MaxScripts = 1
SPECIFICATION FairSpec
INVARIANTS
  TypeOK
  PredicateJudged
  FailedLeftAlone
  ResolvedAsDocumented
  PhasesInOrder
  MergedAsDocumented
  FirstStartUnseen
PROPERTIES
  InitEnds
CHECK_DEADLOCK FALSE
