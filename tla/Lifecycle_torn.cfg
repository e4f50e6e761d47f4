CONSTANTS
  Plugins = {1}
  Branches = {"main"}
  Tags = {}
  Commits = {"c1", "c2"}
  Abbrevs = {}
  HeadOf <- MCHeadOf
  Builds = {"make"}
  Specs <- SpecsDeep
  NoBuild = NoBuild
  Missing = Missing
  Broken = Broken
  None = None
  All = All
  EnvSteps = {"config", "damage", "pull", "upstream"}
  MaxEdits = 2
  MaxFaults = 1
SPECIFICATION Spec
PROPERTIES
  PublishClearsMarkers
