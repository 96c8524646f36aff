SPECIFICATION WindowSpec
CONSTANTS
  None = None
  Gui = Gui
  TcpServers = {s1, s2}
  Conns = {}
  SerialServers = {p1}
  MaxFramed = 3
CHECK_DEADLOCK FALSE
INVARIANTS
  HeldByCurrent
  StopLeavesPortClosed
  OpenPortIsAttached
  OneStopSucceeds
  ConnectNeverRefused
PROPERTIES
  StoppedReaderEnds
  CloseIsAnnounced
  SerialFailureIsShown
  GuiReturns
