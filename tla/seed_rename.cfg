\* The rename that brings a .bak back may fail too.
SPECIFICATION Spec
CONSTANTS
  Device = TRUE
  MayFail = {"recover", "promote", "rollback"}
  MaxSeeds = 3
PROPERTY SeedNeverLost
