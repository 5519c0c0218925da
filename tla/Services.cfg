CONSTANTS
  Slash = "/"
  Characters = {"/", "a"}
  Hermes = Hermes
  FileServer = FileServer
  Others = {Console}
  Clients = {c1}
  Names <- MCNames
  Targets <- MCTargets
  MaxEntries = 3
  Direct = 1
  PerBlock = 2
  WordRange = 256
  Inodes = {"tiny", "small", "large"}
  Size <- MCSize
  BlockCells = 2
  ServiceBlock = 2
  MaxOutput = 4
  Paths <- MCPaths
  Root = "root"
  Entries <- MCEntries
  Letters <- MCLetters
  NameRange = 3
  Workloads <- MCWorkloads
SPECIFICATION ServicesSpec
INVARIANTS LongestOldestWins NeverAstray
  RightPlace ExactAlone RefusedForCause LengthIsExact NamesWhatIsThere
PROPERTIES HermesLeadsOn HermesLetsGo ImplementsNamespace
