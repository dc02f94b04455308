SPECIFICATION Spec
CONSTANTS
  Tasks = {t1, t2}
  NoTask = NoTask
  MaxGen = 6
  EepSizes = {2, 3, 4}
  EepMin = 2
  EepCap = 3
SYMMETRY Symmetry
CHECK_DEADLOCK FALSE
INVARIANTS
  TypeOK
  ReplyIntegrity
  WriteStateTruthful
  LinkOwnership
  ReadyIsClean
PROPERTY
  KeepsTransport
