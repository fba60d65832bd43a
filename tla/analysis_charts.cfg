\* Files of up to four records, read while they are written, from a disk that may fail.
CONSTANTS
  sh = sh
  kworkerA = kworkerA
  kworkerB = kworkerB
  shName = shName
  kworkerName = kworkerName
  Procs <- TheProcs
  Names = {shName, kworkerName}
  Name <- TheName
  System = {kworkerName}
  Loads <- TheLoads
  Records <- TheRecords
  Damaged = Damaged
  MaxRecords = 4
  Filter <- TheFilter
SPECIFICATION FairSpec
INVARIANTS IInv LinesFitTheAxis ShownByThresholds
PROPERTIES AnalysisEnds
\* The analysis ends, and the file takes no more than MaxRecords records.
CHECK_DEADLOCK FALSE
