CONSTANTS
  ClientMayStall = FALSE
  MayFail = FALSE
  Prompt = TRUE
  Openable = {"rf", "usb"}
SPECIFICATION FairSpec
PROPERTY LentWifiIsReturned
