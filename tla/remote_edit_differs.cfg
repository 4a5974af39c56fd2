SPECIFICATION EditSpec
CONSTANTS
  Files <- TextFiles
  OldTexts <- Blocks1
  NewTexts <- Blocks2
  Numerals <- SpelledNumbers
INVARIANT RemoteEditIsWorkspaceEdit
CHECK_DEADLOCK FALSE
