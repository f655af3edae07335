SPECIFICATION FairSpec
CONSTANTS
  Devices = {"sd", "usb"}
  Names = {"f"}
  Data = {1, 2}
  Empty = 1
  Chunks = 2
  MaxEvents = 1
INVARIANTS TypeOK NothingLeftOpen TemporariesAccounted
PROPERTIES OnlyWholeCopies DeletesWhatWasConfirmed PasteEnds
