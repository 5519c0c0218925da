CONSTANTS
  SectorWords = 2
  Capacity = 3
  CountValues = 4
  ClockMax = 1
  TimeOut = 1
  CacheWords = 8
  Zero <- MCZero
  MaxOutput = 6
  OffsetMod = 10
  Requests <- MCRequests
  Cables <- MCCables
SPECIFICATION Spec
PROPERTY ErrorIsOfTheCommand
