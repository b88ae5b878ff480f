SPECIFICATION FairDaemonSpec
CONSTANTS
  Keys <- MCKeys
  Values <- MCValues
  Default = "default"
  Absent = Absent
  Broken = Broken
  Files <- MCFiles
  TmpLog = "tmp"
  ControlCallers = {"ctl1"}
  ClientCallers = {"app"}
  LogThreads <- MCThreads
  Messages <- MCMessages
  UseDefault = "default log"
  NoMsg = NoMsg
  MaxBehind = 2
  MaxPurges = 1
  CanDie = TRUE
INVARIANTS
  DaemonTypeOK
  LogConserved
  LogNoLostWakeup
  HandlersOutlived
  LastWords
  EmptyOnlyIfDamaged
  AllOrNothing
PROPERTIES
  LogDrains
  StopStops
