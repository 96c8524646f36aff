SPECIFICATION CrcSpec
CONSTANT Data <- MCData
INVARIANTS
  ChangeIsCaught
  WholeIsValid
