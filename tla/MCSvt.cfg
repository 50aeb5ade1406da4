SPECIFICATION LiveSpec
CHECK_DEADLOCK FALSE
CONSTANTS
  Outs = {"stream"}
  Pnrs = {1, 2}
  PmtPids = {31, 32}
  Streams <- MCStreams
  Wants <- MCWants
  MaxSecs = 2
  MaxMoves = 1
  MaxDamages = 1
  NoTable = NoTable
INVARIANTS
  OutputsFollow
  TablesSound
  NullWriteOnlyAfterMove
PROPERTY
  TablesCatchUp
