SPECIFICATION FramerSpec
CONSTANTS
  Telegrams <- MCTelegrams
  NoiseBytes = {}
  MaxRead = 12
  MaxWire = 22
INVARIANTS
  NothingCompleteWaits
PROPERTY IsChannel
