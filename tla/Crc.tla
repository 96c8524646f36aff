---------------------------------- MODULE Crc ----------------------------------
(***************************************************************************)
(* simulator/crc.py: the register of calculate() as it goes over the data  *)
(* byte by byte, at the sender (append) and at the receiver (verify).      *)
(* Telegrams have any length, and one may follow another in what a single  *)
(* recv() returns.                                                         *)
(***************************************************************************)
EXTENDS CrcEngine

CONSTANT Data      \* the bytes telegrams are made of

ASSUME DataAreBytes == Data \subseteq Byte

VARIABLES sent,     \* the sender's register, over the data of its telegram
          got,      \* the receiver's, over all that recv() has returned
          harmed,   \* a byte was changed on its way
          verdict   \* verify() of what was received, where a CRC byte is its last

crcVars == <<sent, got, harmed, verdict>>

CrcTypeOK ==
  /\ sent \in Byte /\ got \in Byte /\ harmed \in BOOLEAN
  /\ verdict \in {"nothing", "none", "valid", "invalid"}

CrcInit == sent = 0 /\ got = 0 /\ harmed = FALSE /\ verdict = "nothing"

\* What arrives of byte: itself, or one other byte in all.
Arrivals(byte) == IF harmed THEN {byte} ELSE Byte

Carry(byte, arrived) ==
  /\ arrived \in Arrivals(byte)
  /\ harmed' = (harmed \/ arrived # byte)
  /\ got'    = Update(got, arrived)

\* A byte of the telegram, or the first of the next telegram.
SendByte(byte, arrived) ==
  /\ Carry(byte, arrived)
  /\ sent'    = Update(IF verdict = "none" THEN sent ELSE 0, byte)
  /\ verdict' = "none"

\* Mutant: a CRC byte of 0 is taken for a missing one.
ZeroIsMissing(arrived) ==
  /\ verdict = "none"
  /\ Carry(sent, arrived)
  /\ verdict' = IF arrived # 0 /\ got = arrived THEN "valid" ELSE "invalid"
  /\ UNCHANGED sent

\* append() adds the CRC byte; verify() compares what arrives of it with the
\* register over what came before.
SendCrc(arrived) ==
  /\ verdict = "none"
  /\ Carry(sent, arrived)
  /\ verdict' = IF got = arrived THEN "valid" ELSE "invalid"
  /\ UNCHANGED sent

CrcNext ==
  \/ \E byte \in Data, arrived \in Byte : SendByte(byte, arrived)
  \/ \E arrived \in Byte : SendCrc(arrived)

CrcSpec == CrcInit /\ [][CrcNext]_crcVars

-----------------------------------------------------------------------------
(* Properties.                                                             *)

\* A telegram with one byte changed, its CRC byte included, never verifies,
\* whatever its length and whichever byte it is.
ChangeIsCaught == harmed => verdict # "valid"

\* What append() has made verifies when it arrives as it was sent, and so do
\* several telegrams that one recv() returns.
WholeIsValid == ~harmed => verdict # "invalid"
=============================================================================
