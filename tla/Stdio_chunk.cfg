CONSTANTS
  Content <- MCContent
  BufSize = 2
  ChunkSize = 4
  MaxOutput = 4
  Lengths = {1, 2, 3, 4, 5, 8}
  Callers <- MCCallers
  Usages <- MCUsages
SPECIFICATION Spec
PROPERTY ShortOnlyAtTheEnd
