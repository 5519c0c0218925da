CONSTANTS
  MaxTasks = 5
  Occupied = 1
  MaxThreads = 3
  AddrSpaces = {s1, s2}
  BootModules = 1
  Published = {"full", "newtask", "newthread"}
  MaxCreations = 6
SPECIFICATION ThreadsSpec
INVARIANT CapabilityNamesOneThread
CHECK_DEADLOCK FALSE
