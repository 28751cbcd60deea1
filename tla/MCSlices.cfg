\* Small tables and files of every kind, played to past their end.
SPECIFICATION Spec
CONSTANTS
  Files <- MCFiles
  Durations = {1, 2, 3}
  MaxTime = 9
  TicksPerSecond = 2
  TocSize = 4
  TocScale = 8
  Placeholder = 1000
  SizeModulus = 80
  HalfFrame = 1
  ScanCap = 14
  LyricsCap = 30
  TagSizes = {0, 8, 13, 34}
  Sizes = {0, 1, 2, 5, 7, 8, 12, 15, 19}
INVARIANTS
  TypeOK
  TocMonotone
  WavReplyParses
  LastTrackComplete
  StoredLengthSliced
  WalkInBounds
PROPERTIES
  JoinsToTheSample
  FlacCovers
CHECK_DEADLOCK FALSE
