CONSTANTS
  Networks = {public, private}
  LastStep = 4
  Params = {2, 3}
  MayRefuse = TRUE
  Lossy = TRUE
  MayStall = TRUE
  MaxWire = 3
SPECIFICATION FairSpec
INVARIANTS AnswersMatch RadioHoldsNetwork
PROPERTY ConfigurationEnds
