\* The bound on the processes makes the model stop, hence CHECK_DEADLOCK FALSE.
CONSTANTS
  Starters = {1, 2}
  LastMigration = 0
  Modes = {"init"}
  MaxSignals = 1
  MaxCrashes = 0
  MaxBusy = 1
SPECIFICATION Spec
PROPERTIES EndIsGraceful
CHECK_DEADLOCK FALSE
