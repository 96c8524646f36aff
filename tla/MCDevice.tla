------------------------------- MODULE MCDevice -------------------------------
(* Device for TLC: telegrams of every kind for a card with node address 1;  *)
(* the clients are interchangeable.                                         *)
EXTENDS Device, TLC

TypeC(n, c, d) == [node |-> n, kind |-> "C", cmd |-> c, data |-> d]
TypeAB(n, a, b) == [node |-> n, kind |-> "AB", typeA |-> a, typeB |-> b]

MCTelegrams ==
  {TypeAB(1, 128, 96), TypeC(1, VersionInfo, <<>>), TypeC(1, ResetFlag, <<>>), TypeC(2, ResetOutputs, <<>>),
   TypeC(1, StatusFlags, <<>>), TypeC(1, ReplyDelay, <<0>>), TypeC(1, AnalogInputSetup, <<1, 2, 3>>)}

MCNodes   == {1, 2}
MCToggled == {"reset_flag", "pwm_bank1_overload"}
MCEdited  == {<<"DIG", 1>>}
MCDelays  == {0, 20}

\* A counter the user edits, and the telegram that asks for its bank.
MCCounters       == {<<"CNT", 0>>}
MCAsksForCounter == {TypeAB(1, 128, 1)}

DeviceSymmetry == Permutations(Callers)
=============================================================================
