\* MaxEvents events and as many subscriptions as there are ids, then the model
\* stops, hence CHECK_DEADLOCK FALSE.
CONSTANTS
  SubIds = {1, 2}
  Families = {catalog, ordering}
  EventTypes = {create, delete}
  TypeLists = {{}, {create}}
  MaxEvents = 2
  MaxRestarts = 1
  MaxFailures = 3
SPECIFICATION FairSpec
INVARIANTS TypeOK OnlyWhatWasAskedFor DuplicatesAreExplained
PROPERTIES RetriesMaskFailures
CHECK_DEADLOCK FALSE
