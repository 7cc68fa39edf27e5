CONSTANTS
  folder1 = folder1
  folder2 = folder2
  pre1 = pre1
  pre2 = pre2
  Folders = {folder1, folder2}
  Preambles = {pre1, pre2}
  Enabled <- SomeFiles
  MaxBuffered = 1
  None = none
SPECIFICATION LogSpec
CHECK_DEADLOCK FALSE
INVARIANTS NamesAgree FilesAsConfigured
PROPERTIES SavedMessagesSaveAll
