------------------------------- MODULE Telegram -------------------------------
(***************************************************************************)
(* simulator/telegram.py: the layout of master telegrams, as sequences of  *)
(* bytes.  The CRC byte is an argument: whether it is right is not what    *)
(* decides where a telegram begins and ends.                               *)
(***************************************************************************)
EXTENDS CrcEngine

MasterStart == 81      \* 0x51, 'Q'

Bit(b, k) == (b \div 2^k) % 2 = 1

VersionInfo      == 0
ResetFlag        == 1
DipSwitch        == 2
ResetOutputs     == 3
StatusFlags      == 6
AnalogInputSetup == 8
ReplyDelay       == 9

\* A telegram is of type C unless bit 7 of its type A byte is set.
IsTypeC(typeA) == ~Bit(typeA, 7)

BuildMasterTypeC(addr, cmd, data, crc) ==
  <<MasterStart, addr, 0, cmd>> \o data \o <<crc>>

\* The builder sets bit 7 of typeA, whether it is set or not.
BuildMasterTypeAB(addr, typeA, typeB, freq, apw, banks, crc) ==
  <<MasterStart, addr, 128 + (typeA % 128), typeB, freq>> \o apw \o banks \o <<crc>>

\* What makes parse_master raise ParseError; all else parses.
Malformed(data) == Len(data) < 5 \/ data[1] # MasterStart
=============================================================================
