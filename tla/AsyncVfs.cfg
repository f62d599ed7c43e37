SPECIFICATION Spec
CONSTANTS
  Paths <- MCPaths
  Contents <- MCContents
  FilePaths <- MCFilePaths
  BlockNums = {0, 1, 2}
  MaxBlocks = 2
  BlockSize = 2
  Given = {"ReadOnly", "ReadWrite"}
  MaxLen = 5
  Fds = {3, 4}
  MaxSync = 2
  MaxAsync = 4
INVARIANTS HandleSeesFile
PROPERTIES TreeIsTree ProtectedStays CloseSaves
CHECK_DEADLOCK FALSE
