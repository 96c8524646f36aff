SPECIFICATION Safety
CONSTANTS
  None = None
  Gui = Gui
  TcpServers = {s1}
  Conns = {c1, c2}
  SerialServers = {}
  MaxFramed = 1
PROPERTY OneLeavesOtherStays
