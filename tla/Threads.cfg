\* bankacc
CONSTANTS
  NTHREADS = 3
  Script <- TightScript
  Opening = 7
  MinCredit = 2
  Locking = TRUE
\* cv_simple
CONSTANT MaxSpurious = 3
\* mt_copy
CONSTANTS
  MAX_THRDS = 3
  Sizes = {0, 1, 3, 5}
  ShortIO = {TRUE, FALSE}
\* the IO loops
CONSTANTS
  IoNTHREADS = 2
  NumIO = 2
  Variants = {"mtx", "rfct", "tls", "cleanup"}
  Faulty = {TRUE, FALSE}
\* mt_primes2
CONSTANTS
  PrimeRange <- SmallRange
  Cancel = {TRUE, FALSE}
SPECIFICATION ThSpec
INVARIANTS
  ThreadsTypeOK
  CreditFloor MutexLifetime
  ContinueAfterWork NoUseAfterDestroy
  FailureIsLocal WritersDisjoint ParamAlive BufferFreed
  OwnBufferKeepsBlocks CountKept MemorySafeUnlessFault NoLeak
  PrMemorySafe NoLeakAfterCancel PrimesNoComposites
PROPERTIES
  Serializable BankCloses WaiterServed CvEnds CopyEnds IobufEnds AloneAtCleanup PrimesEnd
\* The programs end.
CHECK_DEADLOCK FALSE
