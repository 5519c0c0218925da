CONSTANTS
  Programs = {1, 2}
  Image = {"text"}
  Stack = "stack"
  Touched = {"text", "heap", "more"}
  NFrames = 6
  NSlabs = 3
SPECIFICATION RaceSpec
INVARIANT NoForeignPage
