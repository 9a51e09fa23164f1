CONSTANTS
  Requesters = {ada}
  Exports = {x1}
  Workers = {w1, w2}
  MaxLosses = 2
  MaxRepeats = 1
  MaxRowsPerExport = 2
  Nobody = Nobody
  NoFile = NoFile
CHECK_DEADLOCK FALSE
SPECIFICATION FairSpec
INVARIANTS
  TypeOK
  ReadyExportsHaveTheirFile
  OneFileWhenRunsDoNotOverlap
  ReadyExportsAreAudited
PROPERTIES
  NoFileOnceBarred
  ExportsMoveForward
  QueuedExportsFinish
