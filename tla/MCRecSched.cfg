\* Three entries, one of which repeats; crashes, power cuts and failing writes at any moment.
SPECIFICATION LiveSchedSpec
CONSTANTS
  e1 = e1  e2 = e2  e3 = e3
  Ids = {e1, e2, e3}
  Repeats = {e1}
  StartTime <- MCStartTime
  Period = 2
  ClientStates = {"RS_WAITING"}
  MaxTime = 2
INVARIANTS
  DueFirst
  EntriesInFile
PROPERTY
  PendingStarted
