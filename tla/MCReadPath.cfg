SPECIFICATION FairReadSpec
CONSTANTS
  Lists <- SomeLists
  ShortBodies = {0, 4, 100}
  Counts = {0, 2}
  Parts = {0, 1, 2, 3, 4}
  Nested = {100}
  Own = {"symbols"}
  ErrorBuffer = 1
  KeyLengths = {16, 24, 32}
  MaxRecords = 2
  StrayFrames = {8, 20}
INVARIANTS
  ReadTypeOK
  TypeOK
  OnLayout
  CompleteIsRead
  InPlace
  NumbersSurvive
  FittingRequestIsExact
  ErrorsHeard
  AllHandlersRun
  RecordsAsSent
  KeyAsIssued
PROPERTIES
  ReaderAdvances
  ReaderComesBack
CHECK_DEADLOCK FALSE
