SPECIFICATION DeviceSafety
CONSTANTS
  Callers = {c1, c2}
  Nodes <- MCNodes
  Telegrams <- MCTelegrams
  Toggled <- MCToggled
  Edited <- MCEdited
  Delays <- MCDelays
  MaxRx = 2
SYMMETRY DeviceSymmetry
INVARIANTS
  DeviceTypeOK
  OfflineIsSilent
  ClearedStaysClear
  CountsAddUp
  RaisedIsShown
