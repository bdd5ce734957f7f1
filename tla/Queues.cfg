SPECIFICATION QueuesSpec
CONSTANTS
  Thread = {t1, t2, t3, t4}
  RingThread = {t1, t2, t3}
  Job = {x, y}
  Item = {x, y}
  MaxSize = 2
  Requested = 2
  NoJob = noJob
  Blank = blank
INVARIANTS
  TypeOK
  NoWakeupLost
  NoGetterSleepsAfterClose
  ObserversAreExact
PROPERTIES
  ContractSafety
  ContractProgress
  FifoSpec
  ImplementsJobs
