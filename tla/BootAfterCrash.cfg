CONSTANTS
  UsbTargets = {air}
  Menu = menu
  MaxCrashes = 1
SPECIFICATION FairSpec
PROPERTY CrashBlocksAutoEnable
