CONSTANTS
  Networks = {public, private}
  LastStep = 10
  Params = {3, 4, 5, 6, 9}
  MayRefuse = FALSE
  Lossy = FALSE
  MayStall = FALSE
  MaxWire = 2
SPECIFICATION FairSpec
PROPERTY ReadyIsTrue
