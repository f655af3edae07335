\* One file to be updated from and another, two whole images, an interrupted
\* update that leaves too little room for a whole image beside it.
SPECIFICATION FairSpec
CONSTANTS
  Names = {"A", "B"}
  Images = {"v1", "v2"}
  Drives <- MCDrives
  MaxRemote = 1
  Room = 3
  Candidate = "A"
  Sessions = 2
  MaxFaults = 1
INVARIANTS
  TypeOK
  OnlyWholeImages
  FlashesWhatWasConfirmed
PROPERTIES
  WaitsEnd
CHECK_DEADLOCK FALSE
