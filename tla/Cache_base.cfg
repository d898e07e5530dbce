SPECIFICATION Spec
CONSTANTS
  NEntries = 3
  Mepp = 2
  Programs = {1, 2}
  PageNumbers = {0, 1, 2}
  Contents = {1, 2}
INVARIANTS TypeOK HoldsLastWritten OneEntryPerPage MaxPerProgram
PROPERTY KeptWhileRoom
