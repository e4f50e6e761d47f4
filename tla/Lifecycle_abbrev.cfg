CONSTANTS
  Plugins = {1}
  Branches = {"main"}
  Tags = {}
  Commits = {"c1", "c2"}
  Abbrevs = {"c1abbr"}
  HeadOf <- MCHeadOf
  Builds = {"make"}
  Specs <- SpecsFlat
  NoBuild = NoBuild
  Missing = Missing
  Broken = Broken
  None = None
  All = All
  EnvSteps = {"config", "damage", "pull", "upstream"}
  MaxEdits = 2
  MaxFaults = 1
SPECIFICATION Spec
INVARIANTS
  LockNamesHead
