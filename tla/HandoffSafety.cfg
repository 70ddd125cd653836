CONSTANTS
  ClientMayStall = TRUE
  MayFail = TRUE
  Prompt = FALSE
  Openable = {"rf", "usb", "car"}
SPECIFICATION Spec
INVARIANT WifiOverHostIsTeardown
PROPERTIES LeaseIsKept StopIsKept NoReclaim LoanIsKept ModalUntilConnected
