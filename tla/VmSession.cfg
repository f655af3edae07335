SPECIFICATION SessionSpec
CONSTANTS
  States = {0, 1, 2}
  Vms = {"dos", "nes", "gb", "agi"}
  RingSize = 2
  QueueSize = 2
  GuestSlow = TRUE
  MaxEvents = 5
  MaxUses = 4
  Versions <- SomeVersions
  SeekPastEnd = {TRUE, FALSE}
  MaxTroubles = 3
  Roms = {mario, kirby}
  Battery = {mario}
  NoRom = NoRom
  Files = {autoexec, config}
  Processes = {parent, child}
  Modes <- SomeModes
  HandleCount = 2
  MaxBytes = 1
  MaxWrites = 1
  Owners = {DOS, Doom, Title}
  NoOwner = NoOwner
  Capacity = 2
  Alignments <- SomeAlignments
  Requests <- SomeRequests
  GenMod = 4
  MaxTransitions = 5
INVARIANTS GuestTypeOK LeaseTypeOK StaleLeaseRejected GuestNothingLost BatterySurvives
  SlotSurvives SavedStays
PROPERTIES GuestConverges NeverDropsUnsaved DenyHolds
CHECK_DEADLOCK FALSE
