SPECIFICATION FairSpec
CONSTANTS
  Connections = {c1, c2, c3}
  NoWriter = none
  Tasks = {t1, t2}
  MaxCalls = 3
INVARIANTS
  TypeOK
  SeqsContiguous
  NoTxOutlivesItsAppend
PROPERTIES
  ImplementsLog
  AppendsEnd
CHECK_DEADLOCK FALSE
