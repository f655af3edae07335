SPECIFICATION FairSpec
CONSTANTS
  Crts = {"big", "bigger"}
  LongNames = {"bigger"}
  Vms = {"nes"}
  Others = {"prg"}
  LongPress = TRUE
  MaxLosses = 2
INVARIANTS TypeOK LaunchesAsAsked ButtonEndsInMenu
PROPERTIES SettingsWhole BootSettles
CHECK_DEADLOCK FALSE
