SPECIFICATION SettingsSpec
CONSTANTS
  Programs = {p1}
  None = None
  Missing = Missing
  Empty = Empty
  Torn = Torn
  Invalid = Invalid
  TcpPorts = {4001, 4002}
  SerialPorts = {"COM1", "COM2"}
  Plains = {"default", "edited"}
  Unsaveds = {"default", "edited"}
  Others = {"default", "edited"}
  Default <- MCDefault
  MaxEdits = 1
PROPERTY
  ConfigPersists
