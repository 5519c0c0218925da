CONSTANTS
  NPages = 9
  LowPages = 2
  VideoPage = 1
  Spaces = {s1, s2}
  Root = Root
  Free = Free
  Reserved = Reserved
  RamChoices <- MCRam
  Faults = {0, 1, 4, 5}
  Segments <- MCSegments
  KernelSizes = {1}
  InitialSlabs = 1
  RefillPages = 1
  RefillSlabs = 2
  Programs = {1, 2}
  Image = {"text"}
  Stack = "stack"
  Touched = {"text", "heap", "more"}
  NFrames = 6
  NSlabs = 3
  MaxTasks = 5
  Occupied = 1
  MaxThreads = 3
  AddrSpaces = {s1, s2}
  BootModules = 1
  Published = {"full", "newtask", "newthread"}
  MaxCreations = 5
SPECIFICATION OlympSpec
INVARIANTS BitmapExact BlocksDisjoint MappedIsOwned ServedFromOneFrame
  GrantedOnce NumbersExact SlotsExact SpaceStandsForThreads RunningIsListed
PROPERTIES ImplementsFrameOwnership 
CHECK_DEADLOCK TRUE
