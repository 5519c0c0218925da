CONSTANTS
  Texts <- MCTexts
  Names <- MCNames
  SegSizes <- MCSegSizes
  FirstSegs = 1
  NSegment = 3
  FewCells = 8
  BasicPrograms <- MCPrograms
  SegSize = 2
  Registers = 1
  Immediates = {0}
  Kinds = {"pair"}
  Atoms <- MCAtoms
  Lengths = {1}
  MaxWork = 6
  NUM_LAB = 6
  FOR_NEST = 2
  SUB_NEST = 3
  LINE = 6
SPECIFICATION Interpret
INVARIANTS OutputIsMeant CollectorIsExact NothingInUseIsFree CollectionIsExact BasicPrintsWhatIsMeant
PROPERTIES OnlyTheProgramWrites
CHECK_DEADLOCK FALSE
