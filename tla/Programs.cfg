\* Each bound is the smallest at which the cases its module names all happen.
CONSTANTS
  CpSizes = {0, 1, 2, 3, 5}
  CpOldSizes = {0, 4}
  CpBlock = 2
  ShChild = {c1, c2, c3}
  ShStops = 3
  OfLines = 3
  DmFds = {0, 1, 2, 3, 5, 7}
  DmMax = 6
  DmBlocked = {{}, {1}}
  ReTicks = 2
  ScSent = 4
  ScMAX = 3
  SiSender = {1, 2, 3}
  SiQueue = 2
  StSignal = {"SIGINT", "SIGIO"}
  StSends = 3
  TlThreads = 3
  LdThreads = 2
  SdThreads = 2
  SdMaxPrio = 3
  SdBoost = 2
SPECIFICATION Spec
INVARIANTS
  ProgramsTypeOK
  FileContents
  PromptBalance
  DaemonDetached
  PrivilegeOrder
  FairVerdict
  SignalsAccounted
  ThreadsKeepTheirOwn
PROPERTIES
  ShellReturns
  TimersTick
  SignalsTaken
  SharedMutexEnds
\* The programs end.
CHECK_DEADLOCK FALSE
