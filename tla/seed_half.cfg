\* A path that names no device, and no call that fails: only the power goes.
SPECIFICATION Spec
CONSTANTS
  Device = FALSE
  MayFail = {}
  MaxSeeds = 3
INVARIANT SeedIsWhole
