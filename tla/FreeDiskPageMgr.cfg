SPECIFICATION MCSpec
CONSTANTS
  Threads = {t1, t2}
  MaxPage = 3
  ZeroIsFree = FALSE
  FileBacked = TRUE
  MaxFaults = 2
  ShortWrites = FALSE
  FailingReads = FALSE
INVARIANTS TypeOK NoDoubleAllocation KeyFileLosesNoPage
PROPERTY ReuseBeforeGrowth
