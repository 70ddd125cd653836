SPECIFICATION FairSpec
CONSTANTS
  SSID = {n1, n2, n3}
  Blank = Blank
  MaxSaved = 2
  MaxActs = 4
  MaxTorn = 2
INVARIANTS TypeOK AttemptIsOwn ForgottenIsGone
PROPERTIES SequenceTriesAll ReachableIsJoined
CHECK_DEADLOCK FALSE
