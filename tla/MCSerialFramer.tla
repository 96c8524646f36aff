---------------------------- MODULE MCSerialFramer ----------------------------
(* SerialFramer for TLC.  The telegrams are the shortest of every length    *)
(* rule, with start bytes where a wrong framer would take them for a start. *)
EXTENDS SerialFramer

Short   == BuildMasterTypeC(49, VersionInfo, <<>>, MasterStart)
OneByte == BuildMasterTypeC(49, ReplyDelay, <<MasterStart>>, 7)
Setup3  == BuildMasterTypeC(49, AnalogInputSetup, <<MasterStart, 49, 0>>, 0)
NoBanks == BuildMasterTypeAB(49, 128, 0, MasterStart, <<0, 0, 0>>, <<>>, 9)
OneBank == BuildMasterTypeAB(49, 130, 0, 9, <<0, 0, 0>>, [i \in 1..8 |-> MasterStart], 9)

MCTelegrams == {Short, OneByte, Setup3, NoBanks, OneBank}

\* With noise: two kinds of telegram, and a start byte or one that is none and
\* is read as the header of a type AB telegram where it stands third.
FewTelegrams == {Short, OneByte}
MCNoise      == {MasterStart, 128}
=============================================================================
