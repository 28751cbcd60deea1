\* Four files, two workers, channels of one slot: every goroutine can block.
SPECIFICATION FairSpec
CONSTANTS
  File = {f1, f2, f3, f4}
  Worker = {w1, w2}
  JobsCap = 1
  ResultsCap = 1
  BatchSize = 2
  NoFile = NoFile
INVARIANTS
  TypeOK
  NoSendOnClosed
  QuiescentAtEnd
  SweepKnowsAll
  NoDuplicate
  CountExact
PROPERTIES
  Terminates
  ImplementsLedger
\* The scan ends: Run returns.
CHECK_DEADLOCK FALSE
