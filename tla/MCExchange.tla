------------------------------ MODULE MCExchange ------------------------------
(* Exchange for TLC: the telegrams of every kind, to a card of node        *)
(* address 1.                                                              *)
EXTENDS Exchange

TypeC(cmd, data) ==
  BuildMasterTypeC(49, cmd, data, Calculate(<<MasterStart, 49, 0, cmd>> \o data))

TypeAB(typeA, typeB) ==
  LET t == BuildMasterTypeAB(49, typeA, typeB, 0, <<0, 0, 0>>, <<>>, 0)
  IN  AppendCrc(SubSeq(t, 1, Len(t) - 1))

\* Every command, one that is unknown, and the global status without banks, with
\* digital words and with a bank of analog inputs.
MCSends ==
  {TypeC(cmd, <<>>) : cmd \in {VersionInfo, ResetFlag, DipSwitch, ResetOutputs, StatusFlags, 7}} \cup
  {TypeC(AnalogInputSetup, <<1, 2, 3>>), TypeC(ReplyDelay, <<20>>)} \cup
  {TypeAB(128, 0), TypeAB(128, 32), TypeAB(144, 0)}
=============================================================================
