CONSTANTS
  Plugins = {1, 2}
  Branches = {"main"}
  Tags = {}
  Commits = {"c1", "c2"}
  Abbrevs = {}
  HeadOf <- MCHeadOf
  Builds = {"make"}
  Specs <- SpecsFlat
  NoBuild = NoBuild
  Missing = Missing
  Broken = Broken
  None = None
  All = All
  EnvSteps = {"config"}
  MaxEdits = 1
  MaxFaults = 1
SPECIFICATION FairSpec
INVARIANTS
  TargetedIsolation
  StagingRemoved
PROPERTIES
  CommandsEnd
