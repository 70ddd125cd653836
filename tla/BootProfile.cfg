CONSTANTS
  UsbTargets = {air, car}
  Menu = menu
  MaxCrashes = 2
SPECIFICATION FairSpec
INVARIANTS OneShot UsbRequestIsHonoured
PROPERTY SetupEnds
