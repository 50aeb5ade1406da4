\* Two recordings are aborted for a third on another transponder.
SPECIFICATION ArbSpec
CONSTANTS
  e1 = e1  e2 = e2  e4 = e4
  t1 = t1  t2 = t2
  Conns = {su}
  Super = {su}
  TPs = {t1, t2}
  Entries = {e1, e2, e4}
  EntryTp <- MCEntryTp
  Repeats = {}
  NoConn = NoConn
  NoTp = NoTp
  NoRec = NoRec
INVARIANT RecordersOnTunedTp
