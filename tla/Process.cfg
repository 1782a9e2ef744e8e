\* The bound on the processes makes the model stop, hence CHECK_DEADLOCK FALSE.
CONSTANTS
  Starters = {1, 2, 3}
  LastMigration = 1
  Modes = {"init", "bare"}
  MaxSignals = 2
  MaxCrashes = 1
  MaxBusy = 1
SPECIFICATION FairSpec
INVARIANTS TypeOK MigrationsInOrder SchemaFits ServiceIsContinuous
PROPERTIES MigratedOnce CutsHaveReasons TerminationEnds
CHECK_DEADLOCK FALSE
