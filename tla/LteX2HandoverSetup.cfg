SPECIFICATION Spec
CONSTANTS
  Cells = {1, 2}
  MaxRnti = 2
  MaxAttach = 2
  Confs <- RealConfs
INVARIANT SetupTimeoutReleasesUe
CHECK_DEADLOCK FALSE
