SPECIFICATION WindowSpec
CONSTANTS
  None = None
  Gui = Gui
  TcpServers = {s1}
  Conns = {c1, c2}
  SerialServers = {}
  MaxFramed = 1
CHECK_DEADLOCK FALSE
INVARIANTS
  TypeOK
  
  OneThreadPerConn
  AtMostOneLateClient
  ListeningWhenEmpty
  ClosedReleasesAll
PROPERTIES
  StoppedServerDrains
  
