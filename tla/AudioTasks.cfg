SPECIFICATION FairSpec
CONSTANTS
  Files = {f1, f2}
  None = None
  MaxChunks = 1
  MaxRecordings = 1
INVARIANTS TypeOK SourceHeld SelectedIsPlayed OneAtATime
PROPERTIES HiddenTasksEnd
