CONSTANTS
  Direct = 1
  PerBlock = 2
  WordRange = 256
  Inodes = {"tiny", "small", "large"}
  Size <- MCSize
  BlockCells = 2
  ServiceBlock = 2
  MaxOutput = 4
  Paths <- MCPaths
  Root = "root"
  Entries <- MCEntries
  Letters <- MCLetters
  NameRange = 3
  Workloads <- MCWorkloads
SPECIFICATION Spec
INVARIANT ReadIsExact
