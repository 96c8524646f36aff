------------------------------- MODULE CrcProofs -------------------------------
(* One changed byte is never lost in the rest of a telegram, however long, also *)
(* where one telegram follows another.                                          *)
EXTENDS Crc, CrcEngineProofs

-----------------------------------------------------------------------------
(* The registers of sender and receiver.                                    *)

\* Within a telegram the registers differ exactly if a byte was changed; behind
\* its CRC byte the receiver's is 0 exactly if none was.
CrcInv ==
  /\ CrcTypeOK
  /\ verdict = "none" => (harmed <=> got # sent)
  /\ verdict # "none" => (harmed <=> got # 0)
  /\ ChangeIsCaught /\ WholeIsValid

\* Nothing has been sent, and the receiver's register is 0.
LEMMA CrcInvInit == CrcInit => CrcInv
<1>1. 0 \in Byte
  BY DEF Byte
<1> QED
  BY <1>1, Zenon DEF CrcInit, CrcInv, CrcTypeOK, ChangeIsCaught, WholeIsValid

\* No byte breaks the invariant, changed or not.
LEMMA CrcInvNext == CrcInv /\ [CrcNext]_crcVars => CrcInv'
<1> SUFFICES ASSUME CrcInv, [CrcNext]_crcVars PROVE CrcInv'
  OBVIOUS
<1> USE DEF CrcInv, CrcTypeOK, ChangeIsCaught, WholeIsValid
<1>1. CASE UNCHANGED crcVars
  BY <1>1 DEF crcVars
<1>2. ASSUME NEW byte \in Data, NEW arrived \in Byte, SendByte(byte, arrived) PROVE CrcInv'
  <2> DEFINE register == IF verdict = "none" THEN sent ELSE 0
  <2>1. byte \in Byte /\ register \in Byte /\ got \in Byte
    BY DataAreBytes DEF Byte
  <2>2. harmed <=> got # register
    OBVIOUS
  <2>3. /\ harmed => arrived = byte
        /\ harmed' = (harmed \/ arrived # byte)
        /\ got' = Update(got, arrived) /\ sent' = Update(register, byte) /\ verdict' = "none"
    BY <1>2 DEF SendByte, Carry, Arrivals
  <2> HIDE DEF register
  <2>4. sent' \in Byte /\ got' \in Byte
    BY <2>1, <2>3, UpdateProperties
  <2>5. harmed' <=> got' # sent'
    <3>1. CASE harmed
      <4>1. got # register /\ arrived = byte /\ harmed'
        BY <2>2, <2>3, <3>1, Zenon
      <4>2. Update(got, byte) # Update(register, byte)
        BY <2>1, <4>1, UpdateProperties, Zenon
      <4> QED
        BY <2>3, <4>1, <4>2, Zenon
    <3>2. CASE ~harmed
      BY <2>1, <2>2, <2>3, <3>2, UpdateProperties
    <3> QED
      BY <3>1, <3>2
  <2> QED
    BY <2>3, <2>4, <2>5
<1>3. ASSUME NEW arrived \in Byte, SendCrc(arrived) PROVE CrcInv'
  <2>1. /\ harmed => arrived = sent
        /\ harmed' = (harmed \/ arrived # sent)
        /\ got' = Update(got, arrived) /\ sent' = sent
        /\ verdict' = IF got = arrived THEN "valid" ELSE "invalid"
        /\ harmed <=> got # sent
    BY <1>3 DEF SendCrc, Carry, Arrivals
  <2>2. got' \in Byte /\ (got' = 0 <=> got = arrived)
    BY <2>1, UpdateProperties
  <2>3. harmed' <=> got # arrived
    BY <2>1
  <2> QED
    BY <2>1, <2>2, <2>3
<1> QED
  BY <1>1, <1>2, <1>3 DEF CrcNext

\* The strengthening of the properties below holds throughout.
LEMMA CrcInvariance == CrcSpec => []CrcInv
  BY CrcInvInit, CrcInvNext, PTL DEF CrcSpec

-----------------------------------------------------------------------------
\* The registers stay bytes.
THEOREM CrcTypeCorrect == CrcSpec => []CrcTypeOK
  BY CrcInvariance, PTL DEF CrcInv

\* A telegram with one changed byte never verifies, whatever its bytes and length.
THEOREM ChangeNeverVerifies == CrcSpec => []ChangeIsCaught
  BY CrcInvariance, PTL DEF CrcInv

\* Telegrams that arrive as they were sent verify, alone or several at once.
THEOREM WholeAlwaysVerifies == CrcSpec => []WholeIsValid
  BY CrcInvariance, PTL DEF CrcInv
===============================================================================
