\* One recording, with the event information table or by the clock alone.
SPECIFICATION LiveSpec
INVARIANTS
  RecorderFollows
PROPERTIES
  NoEarlyStop
  RecordingEnds
\* A freed recording is the end.
CHECK_DEADLOCK FALSE
