SPECIFICATION FairSpec
CONSTANTS
  U = 8
  Files <- SmallFiles
  Counts = {0, 1, 2, 4}
  Short = {0, 1}
  Idle = Idle
INVARIANTS
  ReadsTheRange
  EofIsTheEnd
  FuseReadsDoNotPanic
  StreamIsTheFile
  ReaderEndsAtTheEnd
