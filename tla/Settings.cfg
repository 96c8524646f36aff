SPECIFICATION SettingsSpec
CONSTANTS
  Programs = {p1, p2}
  None = None
  Missing = Missing
  Empty = Empty
  Torn = Torn
  Invalid = Invalid
  TcpPorts = {4001, 4002}
  SerialPorts = {"COM1", "COM2"}
  Plains = {"default", "edited"}
  Unsaveds = {"default"}
  Others = {"default", "edited"}
  Default <- MCDefault
  MaxEdits = 1
SYMMETRY ProgramSymmetry
INVARIANTS
  SettingsTypeOK
  OthersSurvive
PROPERTY
  ReopensAsLeft
