CONSTANTS
  Threads = {t1, t2, t3}
  NoThread = NoThread
  MaxDepth = 3
  Content <- MCContent
  BufSize = 2
  ChunkSize = 4
  MaxOutput = 4
  Lengths = {1, 2, 3, 4, 5, 8}
  Callers <- MCCallers
  Usages <- MCUsages
  Hermes = "hermes"
  Console = "console"
  Ide = "idedrv"
  Ext2 = "ext2fs"
  Users = {"scheme"}
SPECIFICATION UserlandSpec
INVARIANTS MutualExclusion CountIsDepth EveryoneHasNames
PROPERTIES SomeoneEnters ImplementsRecursiveLock  CallsEnd ComesUp
CHECK_DEADLOCK TRUE
