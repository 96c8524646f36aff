SPECIFICATION FramerSafety
CONSTANTS
  Telegrams <- FewTelegrams
  NoiseBytes <- MCNoise
  MaxRead = 3
  MaxWire = 6
INVARIANTS
  Aligned
  BufferIsBeginning
  FramedParses
