CONSTANTS
  ClientMayStall = FALSE
  MayFail = FALSE
  Prompt = FALSE
  Openable = {"rf", "car"}
SPECIFICATION FairSpec
PROPERTIES StopCompletes ModalEnds ExclusiveExitEnds
