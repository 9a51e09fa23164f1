CONSTANTS
  Requesters = {ada}
  Exports = {x1}
  Workers = {w1, w2}
  MaxLosses = 1
  MaxRepeats = 0
  MaxRowsPerExport = 2
  Nobody = Nobody
  NoFile = NoFile
CHECK_DEADLOCK FALSE
SPECIFICATION FairSpec
PROPERTY JobOfALostWorkerFinishes
