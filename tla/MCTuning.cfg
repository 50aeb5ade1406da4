\* Two transponders and two programs; an unread event in every queue when a
\* command starts.
SPECIFICATION LiveSpec
CONSTANTS
  Transponders = {t1, t2}
  Pnrs = {p1, p2}
  Untuned = Untuned
  StreamEit = TRUE
  MaxQueue = 1
INVARIANTS
  QuiesceBeforeTuning
  StreamersFollow
PROPERTY TuneEnds
\* After a reconfiguration srvTuneTpi may poll for ever.
CHECK_DEADLOCK FALSE
