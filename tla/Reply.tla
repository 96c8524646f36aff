--------------------------------- MODULE Reply ---------------------------------
(***************************************************************************)
(* What a reply is made of, and what becomes of it: the handlers of        *)
(* simulator/protocol.py that build it, parse_slave and build_slave_reply  *)
(* of simulator/telegram.py, and decode_slave of simulator/decoder.py,     *)
(* which tells its kind by its length and by the command it answers.       *)
(***************************************************************************)
EXTENDS Telegram, FiniteSets

SlaveStart == 82      \* 0x52, 'R'
Ack        == 6

\* What is packed into a reply: a name and an index, as in DeviceState.
Entries == ({"AIN"} \X (0..20)) \cup ({"DIN"} \X (0..2)) \cup ({"CNT"} \X (0..15)) \cup
           ({"ENC"} \X (0..11)) \cup ({"DIG"} \X (0..2)) \cup ({"TEMP"} \X (0..3)) \cup
           ({"BOARD"} \X (0..1))

\* Mutant: the loop starts one channel late.
BankFromOne(name, first, last) == [i \in 1..(last - first + 1) |-> <<name, first + i>>]

Bank(name, first, last) == [i \in 1..(last - first + 1) |-> <<name, first + i - 1>>]

Asked(b, k, bank) == IF Bit(b, k) THEN bank ELSE <<>>

AbEntries(typeA, typeB) ==
  Asked(typeA, 4, Bank("AIN", 0, 7)) \o Asked(typeA, 5, Bank("AIN", 8, 15)) \o
  Asked(typeA, 6, Bank("AIN", 16, 20) \o Bank("DIN", 0, 2)) \o
  Asked(typeB, 0, Bank("CNT", 0, 7)) \o Asked(typeB, 1, Bank("CNT", 8, 15)) \o
  Asked(typeB, 2, Bank("ENC", 0, 3)) \o Asked(typeB, 3, Bank("ENC", 4, 7)) \o
  Asked(typeB, 4, Bank("ENC", 8, 11)) \o Asked(typeB, 5, Bank("DIG", 0, 2)) \o
  Asked(typeB, 6, Bank("TEMP", 0, 1)) \o Asked(typeB, 7, Bank("TEMP", 2, 3))

\* Two bytes each, but one for a digital word.
PackedLength(entries) ==
  2 * Len(entries) - Cardinality({i \in DOMAIN entries : entries[i][1] = "DIG"})

-----------------------------------------------------------------------------
(* A reply to the telegram t, given the global status byte; every other    *)
(* value of the card is fill.                                              *)

Filled(length, fill) == [i \in 1..length |-> fill]

ReplyPayload(t, status, fill) ==
  IF ~IsTypeC(t[3]) THEN <<status>> \o Filled(PackedLength(AbEntries(t[3], t[4])), fill)
  ELSE CASE t[4] = VersionInfo -> Filled(5, fill) \o <<status \div 128>>
         [] t[4] = StatusFlags -> Filled(6, fill) \o <<0, 0, 0>> \o Filled(4, fill)
         [] t[4] = DipSwitch   -> <<4 * 16 + (t[2] % 16)>>
         [] OTHER              -> <<Ack>>

BuildSlaveReply(payload) == AppendCrc(<<SlaveStart>> \o payload)

\* What makes parse_slave raise ParseError.
MalformedReply(data) == Len(data) < 3 \/ data[1] # SlaveStart

Payload(data) == SubSeq(data, 2, Len(data) - 1)

\* Mutant: the first byte alone tells an ACK.
DecodeByFirst(raw, cmd) ==
  IF MalformedReply(raw) THEN "parse error"
  ELSE LET p == Payload(raw) IN
       IF p[1] = Ack THEN "ack"
       ELSE IF cmd = VersionInfo /\ Len(p) >= 6 THEN "version"
       ELSE IF cmd = StatusFlags /\ Len(p) >= 13 THEN "status flags"
       ELSE "status"

\* cmd is the command that was sent, or none of them.
DecodeSlave(raw, cmd) ==
  IF MalformedReply(raw) THEN "parse error"
  ELSE LET p == Payload(raw) IN
       IF p = <<Ack>> THEN "ack"
       ELSE IF cmd = VersionInfo /\ Len(p) >= 6 THEN "version"
       ELSE IF cmd = StatusFlags /\ Len(p) >= 13 THEN "status flags"
       ELSE "status"

\* What the handlers have built in answer to t.
Built(t) ==
  IF ~IsTypeC(t[3]) THEN "status"
  ELSE IF t[4] = VersionInfo THEN "version"
  ELSE IF t[4] = StatusFlags THEN "status flags"
  ELSE IF t[4] = DipSwitch THEN "option and node"
  ELSE "ack"
=============================================================================
