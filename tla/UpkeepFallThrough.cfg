\* The posted start and the target of the desktop's dialog.
SPECIFICATION FairSpec
CONSTANTS
  Names = {"A", "B"}
  Images = {"v1", "v2"}
  Drives <- MCDrives
  MaxRemote = 1
  Room = 3
  Candidate = "A"
  Sessions = 2
  MaxFaults = 1
INVARIANT NeverFallsThrough
CHECK_DEADLOCK FALSE
