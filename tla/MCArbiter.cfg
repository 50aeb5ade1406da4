\* A super and a normal client against three recordings on two transponders.
SPECIFICATION ArbSpec
CONSTANTS
  e1 = e1  e2 = e2  e4 = e4
  t1 = t1  t2 = t2
  Conns = {su, c1}
  Super = {su}
  TPs = {t1, t2}
  Entries = {e1, e2, e4}
  EntryTp <- MCEntryTp
  Repeats = {e1}
  NoConn = NoConn
  NoTp = NoTp
  NoRec = NoRec
INVARIANTS
  OneMaster
  ClientsYield
  OfflineExclusive
  StreamsOnTunedTp
  FrontendNotForgotten
PROPERTY
  OnlyRecTaskRetunes
