------------------------------- MODULE CrcEngine -------------------------------
(* simulator/crc.py: the table of the 8-bit CRC and what is computed with it. *)
EXTENDS Integers, Sequences

Byte == 0..255

\* a ^ b, bit by bit.
Xor(a, b) ==
  LET bit(p) == (((a \div p) + (b \div p)) % 2) * p
  IN  bit(1) + bit(2) + bit(4) + bit(8) + bit(16) + bit(32) + bit(64) + bit(128)

\* Mutant: the last digit is mistyped.
Mistyped == 140

Polynomial == 141      \* 0x8D

\* One round of _generate_table.
Shift(crc) == IF crc >= 128 THEN Xor((2 * crc) % 256, Polynomial) ELSE 2 * crc

CrcTable ==
  [i \in Byte |-> Shift(Shift(Shift(Shift(Shift(Shift(Shift(Shift(i))))))))]

\* One round of calculate.
Update(crc, byte) == CrcTable[Xor(crc, byte)]

Calculate(data) ==
  LET crc[i \in 0..Len(data)] == IF i = 0 THEN 0 ELSE Update(crc[i - 1], data[i])
  IN  crc[Len(data)]

\* The last byte is the CRC of those before it.
Verify(telegram) ==
  Len(telegram) >= 2 /\ Calculate(SubSeq(telegram, 1, Len(telegram) - 1)) = telegram[Len(telegram)]

AppendCrc(data) == data \o <<Calculate(data)>>
=============================================================================
