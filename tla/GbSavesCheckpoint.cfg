SPECIFICATION GbFairSpec
CONSTANTS
  Versions = {0, 1, 2}
  SeekPastEnd = {FALSE}
  MaxTroubles = 0
  Roms = {mario, kirby}
  Battery = {mario}
  NoRom = NoRom
PROPERTY Checkpointed
CHECK_DEADLOCK FALSE
