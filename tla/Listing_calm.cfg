CONSTANTS
  Plugins = {1}
  Branches = {"main"}
  Tags = {}
  Commits = {c1, c2}
  Abbrevs = {}
  HeadOf <- MCHeadOf
  Builds = {make}
  Specs <- SpecsMixed
  NoBuild = NoBuild
  Missing = Missing
  Broken = Broken
  None = None
  All = All
  EnvSteps = {"config", "upstream"}
  MaxEdits = 2
  MaxFaults = 0
SYMMETRY Renamings
SPECIFICATION ListSpec
PROPERTIES
  RowsWereTrue
  ListAndSyncAgree
  SuccessWasBuilt
