CONSTANTS
  QSize = 2
  PlusLength = 1
  HostBytes = 1
  RingSize = 5
  HighMark = 4
  LowMark = 1
  MaxKeys = 1
SPECIFICATION FairSpec
INVARIANTS TypeOK
PROPERTIES RxInOrder Delivered TransmitCompletes
CHECK_DEADLOCK FALSE
