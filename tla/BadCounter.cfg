SPECIFICATION DeviceSafety
CONSTANTS
  Callers = {c1}
  Nodes <- MCNodes
  Telegrams <- MCAsksForCounter
  Toggled <- MCToggled
  Edited <- MCCounters
  Delays <- MCDelays
  MaxRx = 1
INVARIANT ValidIsAnswered
