SPECIFICATION Spec
CONSTANTS
  Threads = {t1, t2}
  Names = {n1, n2}
  Modules = {m1, m2}
  NoThread = NoThread
  MaxCreations = 2
  MaxRuns = 2
INVARIANTS TypeOK NoDataRace PointerIsCurrent ManifestNamesOwnImages
PROPERTIES PublishesCaptured EveryRunEnds
CHECK_DEADLOCK FALSE
