-------------------------- MODULE SerialFramerProofs --------------------------
(***************************************************************************)
(* What the framing does with any bytes at all, however they arrive, and   *)
(* that the telegrams of a master go through it as through a channel.      *)
(***************************************************************************)
EXTENDS SerialFramer, CrcEngineProofs

\* A set of positions has a first one.
LEMMA FirstExists ==
  ASSUME NEW S, S \subseteq Nat, S # {}
  PROVE  \E i \in S : \A j \in S : i <= j
<1> SUFFICES ASSUME \A i \in S : \E j \in S : ~(i <= j) PROVE FALSE
  OBVIOUS
<1> DEFINE T == {n \in Nat : \A i \in S : ~(i <= n)}
<1>1. 0 \in T
  OBVIOUS
<1>2. ASSUME NEW n \in Nat, n \in T PROVE n + 1 \in T
  <2> SUFFICES ASSUME NEW i \in S, i <= n + 1 PROVE FALSE
    OBVIOUS
  <2>1. PICK j \in S : ~(i <= j)
    OBVIOUS
  <2>2. j <= n
    BY <2>1
  <2> QED
    BY <1>2, <2>2
<1> HIDE DEF T
<1>3. \A n \in Nat : n \in T
  BY <1>1, <1>2, Counting
<1>4. PICK i \in S : TRUE
  OBVIOUS
<1>5. i \in Nat /\ i <= i
  BY <1>4
<1> QED
  BY <1>3, <1>4, <1>5 DEF T

\* Dropping what is before the first start byte leaves a sequence of bytes that
\* begins with one, or nothing.
LEMMA FromStartProperties ==
  ASSUME NEW buf \in Seq(Byte)
  PROVE  /\ FromStart(buf) \in Seq(Byte)
         /\ Len(FromStart(buf)) <= Len(buf)
         /\ FromStart(buf) # <<>> => FromStart(buf)[1] = MasterStart
<1> DEFINE starts == {i \in 1..Len(buf) : buf[i] = MasterStart}
           first  == CHOOSE i \in starts : \A j \in starts : i <= j
<1>1. Len(buf) \in Nat /\ \A i \in 1..Len(buf) : buf[i] \in Byte
  BY LenProperties, ElementOfSeq
<1>2. CASE starts = {}
  <2>1. FromStart(buf) = <<>>
    BY <1>2 DEF FromStart
  <2> QED
    BY <1>1, <2>1
<1>3. CASE starts # {}
  <2>1. starts \subseteq Nat
    BY <1>1
  <2>2. first \in starts
    BY <1>3, <2>1, FirstExists
  <2>3. FromStart(buf) = SubSeq(buf, first, Len(buf))
    BY <1>3 DEF FromStart
  <2> HIDE DEF first
  <2>4. first \in 1..Len(buf) /\ buf[first] = MasterStart
    BY <2>2
  <2> QED
    BY <1>1, <2>3, <2>4, SubSeqProperties
<1> QED
  BY <1>2, <1>3

\* No telegram is shorter than five bytes or longer than MaxTelegram.
LEMMA EstimateLengthBounds ==
  ASSUME NEW buf PROVE EstimateLength(buf) \in 5..MaxTelegram
<1>1. \A k : PwmBank(buf[3], k) \in {0, 8, 16}
  BY DEF PwmBank
<1>2. CalcABLength(buf[3]) \in 9..57
  BY <1>1 DEF CalcABLength
<1>3. TypeCDataLength(buf[4]) \in {0, 1, 3}
  BY DEF TypeCDataLength
<1> QED
  BY <1>2, <1>3 DEF EstimateLength, MaxTelegram

-----------------------------------------------------------------------------
\* What holds of the buffer where the framer stands, and of what it hands up.
FramerInv ==
  /\ FramerTypeOK
  /\ BufferIsBeginning /\ BufferBounded /\ FramedParses
  /\ at = "rest" => buffer = <<>>

\* The reader starts with an empty buffer, in its outer loop.
LEMMA FramerInvInit == FramerInit => FramerInv
  BY MaxReadIsPos, EmptySeq
  DEF FramerInit, FramerInv, FramerTypeOK, SomethingHanded, BufferIsBeginning, BufferBounded, FramedParses,
      MaxTelegram, Byte

\* The master and the line touch the wire only.
LEMMA FramerInvLine ==
  ASSUME FramerInv,
         (\E t \in Telegrams : SendTelegram(t)) \/ (\E b \in NoiseBytes : SendNoise(b))
  PROVE  FramerInv'
<1> USE DEF FramerInv, FramerTypeOK, SomethingHanded, BufferIsBeginning, BufferBounded, FramedParses
<1>1. ASSUME NEW t \in Telegrams, SendTelegram(t) PROVE FramerInv'
  <2>1. t \in Seq(Byte)
    BY BytesOnly
  <2>2. wire \o t \in Seq(Byte)
    BY <2>1, ConcatProperties
  <2>3. Append(inFlight, t) \in Seq(Seq(Byte))
    BY <2>1
  <2> QED
    BY <1>1, <2>2, <2>3 DEF SendTelegram
<1>2. ASSUME NEW b \in NoiseBytes, SendNoise(b) PROVE FramerInv'
  <2>1. b \in Byte
    BY BytesOnly
  <2>2. Append(wire, b) \in Seq(Byte)
    BY <2>1
  <2> QED
    BY <1>2, <2>2 DEF SendNoise
<1> QED
  BY <1>1, <1>2

\* A read finds less than a telegram in the buffer and adds MaxRead bytes at most.
LEMMA FramerInvRead ==
  ASSUME FramerInv, NEW n \in 1..MaxRead, Read(n) PROVE FramerInv'
<1> USE DEF FramerInv, FramerTypeOK
<1>1. n \in Nat /\ Len(wire) \in Nat /\ n <= Len(wire) /\ Len(buffer) \in Nat /\ n <= MaxRead /\ MaxRead \in Nat
  BY LenProperties, MaxReadIsPos DEF Read
<1>2. \A i \in 1..Len(wire) : wire[i] \in Byte
  BY ElementOfSeq
<1>3. /\ SubSeq(wire, 1, n) \in Seq(Byte)
      /\ Len(SubSeq(wire, 1, n)) = n
      /\ SubSeq(wire, n + 1, Len(wire)) \in Seq(Byte)
  BY <1>1, <1>2, SubSeqProperties
<1>4. Len(buffer) < MaxTelegram
  <2>1. PICK e \in 5..57 : e = EstimateLength(buffer)
    BY EstimateLengthBounds DEF MaxTelegram
  <2>2. Len(buffer) < 5 \/ Len(buffer) < e
    BY <2>1 DEF Read, BufferIsBeginning
  <2> QED
    BY <1>1, <2>2 DEF MaxTelegram
<1>5. buffer' \in Seq(Byte) /\ Len(buffer') = Len(buffer) + n
  BY <1>3, ConcatProperties DEF Read
<1>6. Len(buffer') < MaxTelegram + MaxRead
  BY <1>1, <1>4, <1>5 DEF MaxTelegram
<1> QED
  BY <1>3, <1>5, <1>6 DEF Read, SomethingHanded, BufferIsBeginning, BufferBounded, FramedParses

\* A telegram that is handed up begins with the start byte and is long enough.
LEMMA FramerInvDispatch ==
  ASSUME FramerInv, FrameDispatch PROVE FramerInv'
<1> DEFINE buf == FromStart(buffer)
           len == EstimateLength(buf)
<1> USE DEF FramerInv, FramerTypeOK
<1>1. buf \in Seq(Byte) /\ Len(buf) <= Len(buffer) /\ (buf # <<>> => buf[1] = MasterStart)
  BY FromStartProperties
<1>2. len \in 5..57
  BY EstimateLengthBounds DEF MaxTelegram
<1>3. Len(buf) >= 5 /\ Len(buf) >= len
  BY DEF FrameDispatch, Complete
<1>4. /\ handed' = SubSeq(buf, 1, len) /\ buffer' = SubSeq(buf, len + 1, Len(buf)) /\ at' = "framed"
      /\ inFlight' = (IF inFlight = <<>> THEN <<>> ELSE Tail(inFlight))
      /\ UNCHANGED <<wire, tracked>>
  BY DEF FrameDispatch
<1> HIDE DEF buf, len
<1>5. Len(buf) \in Nat /\ Len(buffer) \in Nat /\ \A i \in 1..Len(buf) : buf[i] \in Byte
  BY <1>1, LenProperties, ElementOfSeq
<1>6. handed' \in Seq(Byte) /\ Len(handed') = len /\ handed'[1] = buf[1]
  <2>1. \A i \in 1..len : buf[i] \in Byte
    BY <1>2, <1>3, <1>5
  <2>2. /\ SubSeq(buf, 1, len) \in Seq(Byte)
        /\ Len(SubSeq(buf, 1, len)) = IF 1 <= len THEN len - 1 + 1 ELSE 0
        /\ \A i \in 1..(len - 1 + 1) : SubSeq(buf, 1, len)[i] = buf[1 + i - 1]
    BY <1>2, <2>1, SubSeqProperties
  <2> QED
    BY <1>2, <1>4, <2>2
<1>7. buffer' \in Seq(Byte) /\ Len(buffer') <= Len(buf)
  BY <1>2, <1>3, <1>4, <1>5, SubSeqProperties
<1>8. buf # <<>>
  BY <1>3
<1>9. inFlight' \in Seq(Seq(Byte))
  BY <1>4, HeadTailProperties
<1>10. ~Malformed(handed)'
  BY <1>1, <1>2, <1>6, <1>8 DEF Malformed
<1>11. BufferBounded'
  BY <1>1, <1>5, <1>7, MaxReadIsPos, LenProperties DEF BufferBounded, MaxTelegram
<1>12. SomethingHanded'
  <2>1. handed' # <<>>
    <3>1. len # 0
      BY <1>2
    <3> HIDE DEF FramerInv, FramerTypeOK
    <3> QED
      BY <1>6, <3>1, EmptySeq
  <2> QED
    BY <1>4, <2>1 DEF SomethingHanded
<1> QED
  BY <1>4, <1>6, <1>7, <1>9, <1>10, <1>11, <1>12 DEF BufferIsBeginning, FramedParses

\* What is left when the framer waits is the beginning of a telegram, or less.
LEMMA FramerInvWait ==
  ASSUME FramerInv, FrameWait PROVE FramerInv'
<1> DEFINE buf == FromStart(buffer)
<1> USE DEF FramerInv, FramerTypeOK
<1>1. buf \in Seq(Byte) /\ Len(buf) <= Len(buffer) /\ (buf # <<>> => buf[1] = MasterStart)
  BY FromStartProperties
<1>2. /\ ~Complete(buf) /\ at' = "read"
      /\ buffer' = (IF Len(buffer) < 5 THEN buffer ELSE buf)
      /\ UNCHANGED <<wire, handed, inFlight, tracked>>
  BY DEF FrameWait
<1> HIDE DEF buf
<1>3. Len(buf) \in Nat /\ Len(buffer) \in Nat
  BY <1>1, LenProperties
<1>4. SomethingHanded'
  BY <1>2 DEF SomethingHanded, FrameWait
<1>5. CASE Len(buffer) < 5
  BY <1>2, <1>3, <1>4, <1>5 DEF BufferIsBeginning, BufferBounded, FramedParses
<1>6. CASE Len(buffer) >= 5
  <2>1. buffer' = buf
    BY <1>2, <1>3, <1>6
  <2>2. Len(buf) >= 5 => buf # <<>>
    BY EmptySeq
  <2>3. Len(buf) < 5 \/ (buf[1] = MasterStart /\ Len(buf) < EstimateLength(buf))
    <3>1. PICK e \in 5..57 : e = EstimateLength(buf)
      BY EstimateLengthBounds DEF MaxTelegram
    <3>2. ~(Len(buf) >= 5 /\ Len(buf) >= e)
      BY <1>2, <3>1 DEF Complete
    <3>3. Len(buf) < 5 \/ (buf[1] = MasterStart /\ Len(buf) < e)
      BY <1>1, <1>3, <2>2, <3>2
    <3> QED
      BY <3>1, <3>3
  <2>4. BufferIsBeginning'
    BY <2>1, <2>3 DEF BufferIsBeginning
  <2>5. BufferBounded'
    BY <1>1, <1>3, <2>1, MaxReadIsPos DEF BufferBounded, MaxTelegram
  <2> QED
    BY <1>1, <1>2, <1>4, <2>1, <2>4, <2>5 DEF FramedParses
<1> QED
  BY <1>3, <1>5, <1>6

\* A silence empties the buffer; the return of _dispatch changes no byte.
LEMMA FramerInvRest ==
  ASSUME FramerInv, ReadSilence \/ DispatchReturns PROVE FramerInv'
<1> USE DEF FramerInv, FramerTypeOK, BufferIsBeginning, BufferBounded, FramedParses
<1>1. <<>> \in Seq(Byte) /\ Len(<<>>) = 0
  BY EmptySeq
<1>2. CASE ReadSilence
  BY <1>1, <1>2, MaxReadIsPos DEF ReadSilence, MaxTelegram, SomethingHanded
<1>3. CASE DispatchReturns
  BY <1>1, <1>3, MaxReadIsPos DEF DispatchReturns, MaxTelegram, SomethingHanded
<1> QED
  BY <1>2, <1>3

\* No step breaks the invariant.
LEMMA FramerInvNext == FramerInv /\ [FramerNext]_framerVars => FramerInv'
<1> SUFFICES ASSUME FramerInv, [FramerNext]_framerVars PROVE FramerInv'
  OBVIOUS
<1>1. CASE UNCHANGED framerVars
  BY <1>1
  DEF framerVars, FramerInv, FramerTypeOK, SomethingHanded, BufferIsBeginning, BufferBounded, FramedParses
<1>2. CASE FramerNext
  BY <1>2, FramerInvLine, FramerInvRead, FramerInvDispatch, FramerInvWait, FramerInvRest
  DEF FramerNext, ReaderOnLine
<1> QED
  BY <1>1, <1>2

\* The strengthening of the properties below holds throughout.
LEMMA FramerInvariance == FramerSafety => []FramerInv
  BY FramerInvInit, FramerInvNext, PTL DEF FramerSafety

-----------------------------------------------------------------------------
\* The variables of SerialFramer keep their types.
THEOREM FramerTypeCorrect == FramerSafety => []FramerTypeOK
  BY FramerInvariance, PTL DEF FramerInv

\* Between reads the buffer holds the beginning of one telegram, or less than
\* five bytes, whatever has come over the line.
THEOREM BufferStaysBeginning == FramerSafety => []BufferIsBeginning
  BY FramerInvariance, PTL DEF FramerInv

\* The buffer is bounded by one telegram and one read.
THEOREM BufferStaysBounded == FramerSafety => []BufferBounded
  BY FramerInvariance, PTL DEF FramerInv

\* A telegram cut out by the framer never makes parse_master raise.
THEOREM FramedNeverMalformed == FramerSafety => []FramedParses
  BY FramerInvariance, PTL DEF FramerInv

-----------------------------------------------------------------------------
(* The hypothesis on the master's telegrams.                                *)

\* A telegram that is as long as its own header says.
Framed(t) == Len(t) >= 5 /\ t[1] = MasterStart /\ Len(t) = EstimateLength(t)

TelegramsAreFramed == \A t \in Telegrams : Framed(t)

\* The builder of type AB telegrams leaves the bits of the banks as they are and
\* sets bit 7; that of type C telegrams leaves it clear.
LEMMA BuiltBits ==
  /\ IsTypeC(0)
  /\ \A typeA \in Byte : /\ ~IsTypeC(128 + (typeA % 128))
                         /\ \A k \in 0..3 : Bit(128 + (typeA % 128), k) <=> Bit(typeA, k)
<1>1. 2^7 = 128 /\ 2^0 = 1 /\ 2^1 = 2 /\ 2^2 = 4 /\ 2^3 = 8
  OBVIOUS
<1>2. IsTypeC(0)
  BY <1>1 DEF IsTypeC, Bit
<1>3. ASSUME NEW typeA \in Byte
      PROVE  /\ ~IsTypeC(128 + (typeA % 128))
             /\ \A k \in 0..3 : Bit(128 + (typeA % 128), k) <=> Bit(typeA, k)
  <2>1. (128 + (typeA % 128)) \div 128 = 1
    BY DEF Byte
  <2>2. /\ (128 + (typeA % 128)) % 2 = typeA % 2
        /\ ((128 + (typeA % 128)) \div 2) % 2 = (typeA \div 2) % 2
        /\ ((128 + (typeA % 128)) \div 4) % 2 = (typeA \div 4) % 2
        /\ ((128 + (typeA % 128)) \div 8) % 2 = (typeA \div 8) % 2
    BY DEF Byte
  <2>3. (128 + (typeA % 128)) \div 1 = 128 + (typeA % 128) /\ typeA \div 1 = typeA
    BY DEF Byte
  <2>4. ~IsTypeC(128 + (typeA % 128))
    BY <1>1, <2>1 DEF IsTypeC, Bit
  <2>5. ASSUME NEW k \in 0..3 PROVE Bit(128 + (typeA % 128), k) <=> Bit(typeA, k)
    <3>1. k = 0 \/ k = 1 \/ k = 2 \/ k = 3
      OBVIOUS
    <3> DEFINE b == 128 + (typeA % 128)
    <3> HIDE DEF b
    <3>2. /\ (b \div 2^0) % 2 = (typeA \div 2^0) % 2
          /\ (b \div 2^1) % 2 = (typeA \div 2^1) % 2
          /\ (b \div 2^2) % 2 = (typeA \div 2^2) % 2
          /\ (b \div 2^3) % 2 = (typeA \div 2^3) % 2
      BY <1>1, <2>2, <2>3 DEF b
    <3>3. Bit(b, k) <=> Bit(typeA, k)
      BY <3>1, <3>2, Zenon DEF Bit
    <3> QED
      BY <3>3 DEF b
  <2> QED
    BY <2>4, <2>5
<1> QED
  BY <1>2, <1>3

\* A concatenation begins with its first part.
LEMMA ConcatStart ==
  ASSUME NEW S, NEW s \in Seq(S), NEW t \in Seq(S)
  PROVE  /\ s \o t \in Seq(S) /\ Len(s \o t) = Len(s) + Len(t)
         /\ \A i \in 1..Len(s) : (s \o t)[i] = s[i]
  BY ConcatProperties

\* What the builders of telegram.py make, given as many data bytes as the
\* command takes or as many values as typeA announces, is framed as one telegram.
THEOREM BuiltIsFramed ==
  ASSUME NEW addr \in Byte, NEW crc \in Byte
  PROVE  /\ \A cmd \in Byte, data \in Seq(Byte) :
              Len(data) = TypeCDataLength(cmd) => Framed(BuildMasterTypeC(addr, cmd, data, crc))
         /\ \A typeA, typeB, freq \in Byte, apw, banks \in Seq(Byte) :
              /\ Len(apw) = 3
              /\ Len(banks) = PwmBank(typeA, 1) + PwmBank(typeA, 2) + PwmBank(typeA, 3)
              => Framed(BuildMasterTypeAB(addr, typeA, typeB, freq, apw, banks, crc))
<1>1. ASSUME NEW cmd \in Byte, NEW data \in Seq(Byte), Len(data) = TypeCDataLength(cmd)
      PROVE  Framed(BuildMasterTypeC(addr, cmd, data, crc))
  <2> DEFINE head == <<MasterStart, addr, 0, cmd>>
             t    == (head \o data) \o <<crc>>
  <2>1. /\ head \in Seq(Byte) /\ Len(head) = 4 /\ <<crc>> \in Seq(Byte) /\ Len(<<crc>>) = 1
        /\ head[1] = MasterStart /\ head[3] = 0 /\ head[4] = cmd
    BY DEF Byte, MasterStart
  <2> HIDE DEF head
  <2>2. TypeCDataLength(cmd) \in {0, 1, 3}
    BY DEF TypeCDataLength
  <2>3. /\ head \o data \in Seq(Byte) /\ Len(head \o data) = 4 + Len(data)
        /\ \A i \in 1..4 : (head \o data)[i] = head[i]
    <3>1. /\ head \o data \in Seq(Byte) /\ Len(head \o data) = Len(head) + Len(data)
          /\ \A i \in 1..Len(head) : (head \o data)[i] = head[i]
      BY <2>1, <2>2, <1>1, ConcatStart
    <3> QED
      BY <2>1, <2>2, <1>1, <3>1
  <2>4. Len(t) = 5 + Len(data) /\ \A i \in 1..4 : t[i] = (head \o data)[i]
    BY <2>1, <2>2, <2>3, <1>1, ConcatProperties
  <2>5. BuildMasterTypeC(addr, cmd, data, crc) = t
    BY DEF BuildMasterTypeC, head
  <2> HIDE DEF t
  <2>6. t[1] = MasterStart /\ t[3] = 0 /\ t[4] = cmd
    BY <2>1, <2>3, <2>4
  <2>7. EstimateLength(t) = 4 + TypeCDataLength(cmd) + 1
    BY <2>6, BuiltBits, Zenon DEF EstimateLength
  <2> QED
    BY <1>1, <2>2, <2>4, <2>5, <2>6, <2>7 DEF Framed
<1>2. ASSUME NEW typeA \in Byte, NEW typeB \in Byte, NEW freq \in Byte,
             NEW apw \in Seq(Byte), NEW banks \in Seq(Byte), Len(apw) = 3,
             Len(banks) = PwmBank(typeA, 1) + PwmBank(typeA, 2) + PwmBank(typeA, 3)
      PROVE  Framed(BuildMasterTypeAB(addr, typeA, typeB, freq, apw, banks, crc))
  <2> DEFINE typ  == 128 + (typeA % 128)
             head == <<MasterStart, addr, typ, typeB, freq>>
             body == (head \o apw) \o banks
             t    == body \o <<crc>>
  <2>1. typ \in Byte /\ \A k \in 0..3 : Bit(typ, k) <=> Bit(typeA, k)
    <3>1. typ \in Byte
      BY DEF Byte
    <3> QED
      BY <3>1, BuiltBits
  <2>2. ~IsTypeC(typ)
    BY BuiltBits
  <2> HIDE DEF typ
  <2>3. /\ head \in Seq(Byte) /\ Len(head) = 5 /\ <<crc>> \in Seq(Byte) /\ Len(<<crc>>) = 1
        /\ head[1] = MasterStart /\ head[3] = typ
    <3>1. MasterStart \in Byte
      BY DEF Byte, MasterStart
    <3> QED
      BY <2>1, <3>1
  <2> HIDE DEF head
  <2>4. \A k : PwmBank(typeA, k) \in {0, 8, 16}
    BY DEF PwmBank
  <2>5. Len(banks) \in Nat
    OBVIOUS
  <2>6. /\ head \o apw \in Seq(Byte) /\ Len(head \o apw) = 8
        /\ \A i \in 1..5 : (head \o apw)[i] = head[i]
    <3>1. /\ head \o apw \in Seq(Byte) /\ Len(head \o apw) = Len(head) + Len(apw)
          /\ \A i \in 1..Len(head) : (head \o apw)[i] = head[i]
      BY <1>2, <2>3, ConcatStart
    <3> QED
      BY <1>2, <2>3, <3>1
  <2>7. /\ body \in Seq(Byte) /\ Len(body) = 8 + Len(banks)
        /\ \A i \in 1..5 : body[i] = (head \o apw)[i]
    BY <2>5, <2>6, ConcatProperties
  <2> HIDE DEF body
  <2>8. Len(t) = 9 + Len(banks) /\ \A i \in 1..5 : t[i] = body[i]
    BY <2>3, <2>5, <2>7, ConcatProperties
  <2>9. BuildMasterTypeAB(addr, typeA, typeB, freq, apw, banks, crc) = t
    BY DEF BuildMasterTypeAB, body, head, typ
  <2> HIDE DEF t
  <2>10. t[1] = MasterStart /\ t[3] = typ
    BY <2>3, <2>6, <2>7, <2>8
  <2>11. \A k \in 0..3 : PwmBank(typ, k) = PwmBank(typeA, k)
    <3>1. 0 \in 0..3
      OBVIOUS
    <3> QED
      BY <2>1, <3>1, Zenon DEF PwmBank
  <2>12. EstimateLength(t) = CalcABLength(typ)
    BY <2>2, <2>10, Zenon DEF EstimateLength
  <2>13. CalcABLength(typ) = 9 + Len(banks)
    BY <1>2, <2>4, <2>11 DEF CalcABLength
  <2> QED
    BY <2>5, <2>8, <2>9, <2>10, <2>12, <2>13 DEF Framed
<1> QED
  BY <1>1, <1>2

-----------------------------------------------------------------------------
(* What FlattenSeq makes of telegrams.                                      *)

\* The beginnings of a flattened sequence, up to each of its telegrams.
Joined(run, q) ==
  /\ run \in [1..Len(q) -> Seq(Byte)] /\ run[1] = q[1]
  /\ \A i \in 2..Len(q) : run[i] = run[i - 1] \o q[i]

\* FlattenSeq is the last of them.
LEMMA FlattenRuns ==
  ASSUME NEW q \in Seq(Seq(Byte)), q # <<>>
  PROVE  \E run : Joined(run, q) /\ FlattenSeq(q) = run[Len(q)]
<1> DEFINE n == Len(q)
           Is(f) == f = [i \in 1..n |-> IF i = 1 THEN q[i] ELSE f[i - 1] \o q[i]]
           chosen == CHOOSE f : Is(f)
           step == [p \in (1..n) \X Seq(Byte) |-> p[2] \o q[p[1]]]
<1>1. n \in Nat \ {0} /\ \A i \in 1..n : q[i] \in Seq(Byte)
  OBVIOUS
<1>2. <<>> \in Seq(Byte) /\ \A r \in Seq(Byte) : <<>> \o r = r
  BY ConcatEmptySeq
<1> HIDE DEF n
<1>3. step \in [(1..n) \X Seq(Byte) -> Seq(Byte)]
  BY <1>1
<1>4. \A i \in 1..n, r \in Seq(Byte) : step[<<i, r>>] = r \o q[i]
  OBVIOUS
<1> HIDE DEF step
<1>5. PICK run \in [0..n -> Seq(Byte)] : IsLoop(run, n, <<>>, step)
  BY <1>1, <1>2, <1>3, LoopExists
<1>6. run[0] = <<>> /\ \A i \in 1..n : run[i] = run[i - 1] \o q[i]
  <2>1. ASSUME NEW i \in 1..n PROVE run[i] = run[i - 1] \o q[i]
    <3>1. i - 1 \in 0..n
      BY <1>1
    <3>2. run[i - 1] \in Seq(Byte)
      BY <1>5, <3>1
    <3>3. run[i] = step[<<i, run[i - 1]>>]
      BY <1>5, Zenon DEF IsLoop
    <3> QED
      BY <1>4, <3>2, <3>3, Zenon
  <2> QED
    BY <1>5, <2>1, Zenon DEF IsLoop
<1> DEFINE tail == [i \in 1..n |-> run[i]]
<1>7. tail \in [1..n -> Seq(Byte)] /\ \A i \in 1..n : tail[i] = run[i]
  BY <1>5
<1>8. tail[1] = q[1]
  <2>1. 1 \in 1..n /\ 1 - 1 = 0
    BY <1>1
  <2>2. tail[1] = run[0] \o q[1]
    BY <1>6, <1>7, <2>1
  <2> QED
    BY <1>1, <1>2, <1>6, <2>1, <2>2, Zenon
<1>9. ASSUME NEW i \in 2..n PROVE tail[i] = tail[i - 1] \o q[i]
  <2>1. i \in 1..n /\ i - 1 \in 1..n
    BY <1>1
  <2> HIDE DEF tail
  <2> QED
    BY <1>6, <1>7, <2>1, Zenon
<1>10. Is(tail)
  <2> DEFINE other == [i \in 1..n |-> IF i = 1 THEN q[i] ELSE tail[i - 1] \o q[i]]
  <2>1. ASSUME NEW i \in 1..n PROVE tail[i] = IF i = 1 THEN q[i] ELSE tail[i - 1] \o q[i]
    <3>1. i = 1 \/ i \in 2..n
      BY <1>1
    <3> HIDE DEF tail
    <3>2. CASE i = 1
      BY <1>8, <3>2, Zenon
    <3>3. CASE i # 1
      BY <1>9, <3>1, <3>3, Zenon
    <3> QED
      BY <3>2, <3>3
  <2>2. tail = [i \in 1..n |-> tail[i]]
    BY <1>7
  <2> HIDE DEF tail
  <2> QED
    BY <2>1, <2>2, Zenon
<1>11. Is(chosen)
  BY <1>10, Zenon
<1>12. FlattenSeq(q) = chosen[n]
  <2>1. Len(q) # 0
    BY <1>1 DEF n
  <2> QED
    BY <2>1, Zenon DEF FlattenSeq, n
<1> HIDE DEF chosen, tail
<1>13. /\ \A i \in 1..n : chosen[i] = IF i = 1 THEN q[i] ELSE chosen[i - 1] \o q[i]
       /\ chosen = [i \in 1..n |-> chosen[i]]
  BY <1>11
<1>14. chosen[1] = q[1] /\ \A i \in 2..n : chosen[i] = chosen[i - 1] \o q[i]
  <2>1. 1 \in 1..n /\ \A i \in 2..n : i \in 1..n /\ i # 1
    BY <1>1
  <2> QED
    BY <1>13, <2>1, Zenon
<1> DEFINE T == {m \in Nat : m \in 1..n => chosen[m] \in Seq(Byte)}
<1>15. 0 \in T
  OBVIOUS
<1>16. ASSUME NEW m \in Nat, m \in T PROVE m + 1 \in T
  <2> SUFFICES ASSUME m + 1 \in 1..n PROVE chosen[m + 1] \in Seq(Byte)
    OBVIOUS
  <2>1. CASE m = 0
    BY <1>1, <1>14, <2>1
  <2>2. CASE m # 0
    <3>1. m + 1 \in 2..n /\ (m + 1) - 1 = m /\ chosen[m] \in Seq(Byte)
      BY <1>1, <1>16, <2>2
    <3>2. chosen[m + 1] = chosen[m] \o q[m + 1]
      BY <1>14, <3>1
    <3> QED
      BY <1>1, <3>1, <3>2, ConcatProperties
  <2> QED
    BY <2>1, <2>2
<1> HIDE DEF T
<1>17. \A m \in Nat : m \in T
  BY <1>15, <1>16, Counting
<1>18. \A m \in 1..n : chosen[m] \in Seq(Byte)
  BY <1>1, <1>17 DEF T
<1>19. chosen \in [1..n -> Seq(Byte)]
  BY <1>13, <1>18
<1> QED
  BY <1>12, <1>14, <1>19, Zenon DEF Joined, n

\* Flattening nothing gives nothing; a telegram more is joined at the end.
LEMMA FlattenAppend ==
  /\ FlattenSeq(<<>>) = <<>>
  /\ \A q \in Seq(Seq(Byte)) : FlattenSeq(q) \in Seq(Byte)
  /\ \A q \in Seq(Seq(Byte)), t \in Seq(Byte) : FlattenSeq(Append(q, t)) = FlattenSeq(q) \o t
<1>1. FlattenSeq(<<>>) = <<>>
  <2>1. Len(<<>>) = 0
    OBVIOUS
  <2> QED
    BY <2>1, Zenon DEF FlattenSeq
<1>2. ASSUME NEW q \in Seq(Seq(Byte)) PROVE FlattenSeq(q) \in Seq(Byte)
  <2>1. CASE q = <<>>
    BY <1>1, <2>1, EmptySeq
  <2>2. CASE q # <<>>
    <3>1. Len(q) \in 1..Len(q)
      BY <2>2
    <3> QED
      BY <2>2, <3>1, FlattenRuns DEF Joined
  <2> QED
    BY <2>1, <2>2
<1>3. ASSUME NEW q \in Seq(Seq(Byte)), NEW t \in Seq(Byte)
      PROVE  FlattenSeq(Append(q, t)) = FlattenSeq(q) \o t
  <2> DEFINE n == Len(q)
             more == Append(q, t)
  <2>1. /\ n \in Nat /\ more \in Seq(Seq(Byte)) /\ Len(more) = n + 1 /\ more # <<>>
        /\ \A i \in 1..n : more[i] = q[i]
        /\ more[n + 1] = t
    BY AppendProperties
  <2> HIDE DEF more
  <2>2. PICK g : Joined(g, more) /\ FlattenSeq(more) = g[n + 1]
    BY <2>1, FlattenRuns
  <2>3. CASE q = <<>>
    <3>1. n = 0 /\ FlattenSeq(more) = t
      BY <2>1, <2>2, <2>3 DEF Joined
    <3>2. <<>> \o t = t
      BY ConcatEmptySeq
    <3> QED
      BY <1>1, <2>3, <3>1, <3>2 DEF more
  <2>4. CASE q # <<>>
    <3>1. PICK f : Joined(f, q) /\ FlattenSeq(q) = f[n]
      BY <2>4, FlattenRuns
    <3>2. n >= 1
      BY <2>4
    <3> HIDE DEF n
    <3> DEFINE T == {m \in Nat : m \in 1..n => f[m] = g[m]}
    <3>3. 0 \in T
      OBVIOUS
    <3>4. ASSUME NEW m \in Nat, m \in T PROVE m + 1 \in T
      <4> SUFFICES ASSUME m + 1 \in 1..n PROVE f[m + 1] = g[m + 1]
        OBVIOUS
      <4>1. CASE m = 0
        BY <2>1, <2>2, <3>1, <3>2, <4>1 DEF Joined, n
      <4>2. CASE m # 0
        <5>1. m + 1 \in 2..Len(q) /\ m + 1 \in 2..Len(more) /\ m + 1 \in 1..n /\ (m + 1) - 1 = m /\ f[m] = g[m]
          BY <2>1, <3>4, <4>2 DEF n
        <5>2. more[m + 1] = q[m + 1]
          BY <2>1, <5>1
        <5>3. f[m + 1] = f[(m + 1) - 1] \o q[m + 1] /\ g[m + 1] = g[(m + 1) - 1] \o more[m + 1]
          BY <2>2, <3>1, <5>1, Zenon DEF Joined
        <5> QED
          BY <5>1, <5>2, <5>3
      <4> QED
        BY <4>1, <4>2
    <3> HIDE DEF T
    <3>5. f[n] = g[n]
      <4>1. n \in Nat /\ n \in T
        BY <2>1, <3>3, <3>4, Counting
      <4> QED
        BY <3>2, <4>1 DEF T
    <3>6. g[n + 1] = g[n] \o t
      <4>1. n + 1 \in 2..Len(more) /\ (n + 1) - 1 = n
        BY <2>1, <3>2
      <4>2. g[n + 1] = g[(n + 1) - 1] \o more[n + 1]
        BY <2>2, <4>1, Zenon DEF Joined
      <4> QED
        BY <2>1, <4>1, <4>2
    <3> QED
      BY <2>2, <3>1, <3>5, <3>6 DEF more
  <2> QED
    BY <2>3, <2>4
<1> QED
  BY <1>1, <1>2, <1>3

\* What is flattened begins with its first telegram.
LEMMA FlattenHead ==
  ASSUME NEW q \in Seq(Seq(Byte)), q # <<>>
  PROVE  FlattenSeq(q) = Head(q) \o FlattenSeq(Tail(q))
<1> DEFINE n == Len(q)
           First(m) == SubSeq(q, 1, m)
           Rest(m)  == SubSeq(q, 2, m)
           T == {m \in Nat : m + 1 \in 1..n =>
                               FlattenSeq(First(m + 1)) = Head(q) \o FlattenSeq(Rest(m + 1))}
<1>1. n \in Nat \ {0} /\ \A i \in 1..n : q[i] \in Seq(Byte)
  OBVIOUS
<1>2. Head(q) = q[1] /\ Head(q) \in Seq(Byte) /\ <<>> \in Seq(Seq(Byte)) /\ <<>> \in Seq(Byte)
  BY <1>1, EmptySeq
<1>3. 0 \in T
  <2>1. First(1) = Append(<<>>, q[1]) /\ Rest(1) = <<>>
    <3>1. 1 \in 1..Len(q) /\ 1 \in 1..1 /\ 1 - 1 = 0 /\ 1 \in Int /\ 0 \in Int /\ 2 \in Int
      BY <1>1
    <3>2. First(1) = SubSeq(q, 1, 0) \o <<q[1]>>
      BY <3>1, SubSeqRecursiveSecond
    <3>3. SubSeq(q, 1, 0) = <<>> /\ Rest(1) = <<>>
      BY <3>1, SubSeqEmpty
    <3>4. Append(<<>>, q[1]) = <<>> \o <<q[1]>>
      BY <1>1, <1>2, AppendIsConcat
    <3> HIDE DEF First, Rest
    <3> QED
      BY <3>2, <3>3, <3>4
  <2>2. FlattenSeq(First(1)) = <<>> \o q[1]
    BY <1>1, <1>2, <2>1, FlattenAppend
  <2>3. <<>> \o q[1] = q[1] /\ q[1] \o <<>> = q[1]
    BY <1>1, <1>2, ConcatEmptySeq
  <2> HIDE DEF First, Rest
  <2> QED
    BY <1>2, <2>1, <2>2, <2>3, FlattenAppend
<1>4. ASSUME NEW m \in Nat, m \in T PROVE m + 1 \in T
  <2> DEFINE Heads(j) == FlattenSeq(First(j)) = Head(q) \o FlattenSeq(Rest(j))
  <2>0. SUFFICES ASSUME (m + 1) + 1 \in 1..n PROVE Heads((m + 1) + 1)
    <3>1. m + 1 \in Nat
      OBVIOUS
    <3> HIDE DEF First, Rest, n
    <3> QED
      BY <3>1
  <2> DEFINE k == m + 2
  <2>1. k \in 2..n /\ (m + 1) + 1 = k /\ m + 1 = k - 1 /\ k - 1 \in 1..n
    BY <1>1, <2>0
  <2>2. FlattenSeq(First(k - 1)) = Head(q) \o FlattenSeq(Rest(k - 1))
    BY <1>4, <2>1
  <2> HIDE DEF k
  <2>3. /\ First(k - 1) \in Seq(Seq(Byte)) /\ Rest(k - 1) \in Seq(Seq(Byte)) /\ q[k] \in Seq(Byte)
    BY <1>1, <2>1, SubSeqProperties
  <2>4. First(k) = Append(First(k - 1), q[k]) /\ Rest(k) = Append(Rest(k - 1), q[k])
    BY <1>1, <2>1, SubSeqRecursiveSecond
  <2> HIDE DEF First, Rest
  <2>5. /\ FlattenSeq(First(k)) = FlattenSeq(First(k - 1)) \o q[k]
        /\ FlattenSeq(Rest(k)) = FlattenSeq(Rest(k - 1)) \o q[k]
        /\ FlattenSeq(Rest(k - 1)) \in Seq(Byte)
    BY <2>3, <2>4, FlattenAppend
  <2>6. (Head(q) \o FlattenSeq(Rest(k - 1))) \o q[k] = Head(q) \o (FlattenSeq(Rest(k - 1)) \o q[k])
    <3> DEFINE x == Head(q)
               y == FlattenSeq(Rest(k - 1))
               z == q[k]
    <3>1. x \in Seq(Byte) /\ y \in Seq(Byte) /\ z \in Seq(Byte)
      BY <1>2, <2>3, <2>5
    <3> HIDE DEF x, y, z
    <3>2. (x \o y) \o z = x \o (y \o z)
      BY <3>1, ConcatAssociative
    <3> QED
      BY <3>2 DEF x, y, z
  <2> QED
    BY <2>1, <2>2, <2>5, <2>6
<1> HIDE DEF T
<1>5. n - 1 \in T
  <2>1. n - 1 \in Nat
    BY <1>1
  <2> QED
    BY <1>3, <1>4, <2>1, Counting
<1>6. FlattenSeq(First(n)) = Head(q) \o FlattenSeq(Rest(n))
  <2>1. (n - 1) + 1 = n /\ n \in 1..n
    BY <1>1
  <2> HIDE DEF n, First, Rest
  <2> QED
    BY <1>5, <2>1 DEF T
<1>7. First(n) = q /\ Rest(n) = Tail(q)
  BY <1>1, SubSeqFull, TailIsSubSeq
<1> QED
  BY <1>6, <1>7

-----------------------------------------------------------------------------
(* How the owed telegrams lie in the buffer and on the wire.                *)

\* The line begins with what is owed, and is nothing but that if it is exact.
Begins(owed, line, exact) ==
  \E r \in Seq(Byte) : line = owed \o r /\ (exact => r = <<>>)

\* That is what Aligned says.
LEMMA AlignedBegins ==
  ASSUME NEW o \in Seq(Byte), NEW l \in Seq(Byte), NEW exact
  PROVE  Begins(o, l, exact) <=> IsPrefix(o, l) /\ (exact => o = l)
<1>1. Len(o) \in Nat /\ Len(l) \in Nat /\ <<>> \in Seq(Byte) /\ o \o <<>> = o
  BY ConcatEmptySeq, EmptySeq
<1>2. ASSUME NEW r \in Seq(Byte), l = o \o r
      PROVE  IsPrefix(o, l) /\ (r = <<>> => o = l)
  <2>1. Len(r) \in Nat /\ Len(l) = Len(o) + Len(r) /\ \A i \in 1..Len(o) : l[i] = o[i]
    BY <1>2, ConcatProperties
  <2>2. Len(o) \in 0..Len(o) /\ Len(o) \in 0..Len(l)
    BY <1>1, <2>1
  <2>3. /\ SubSeq(o, 1, Len(o)) \in Seq(Byte) /\ Len(SubSeq(o, 1, Len(o))) = Len(o)
        /\ \A i \in 1..Len(o) : SubSeq(o, 1, Len(o))[i] = o[i]
    BY <2>2, FirstOf
  <2>4. /\ SubSeq(l, 1, Len(o)) \in Seq(Byte) /\ Len(SubSeq(l, 1, Len(o))) = Len(o)
        /\ \A i \in 1..Len(o) : SubSeq(l, 1, Len(o))[i] = l[i]
    BY <2>2, FirstOf
  <2>5. SubSeq(o, 1, Len(o)) = SubSeq(l, 1, Len(o))
    BY <2>1, <2>3, <2>4, SeqEqual
  <2> QED
    BY <1>1, <1>2, <2>1, <2>5 DEF IsPrefix
<1>3. ASSUME IsPrefix(o, l), exact => o = l PROVE Begins(o, l, exact)
  <2>1. CASE o = l
    BY <1>1, <2>1 DEF Begins
  <2>2. CASE o # l
    <3> DEFINE r == SubSeq(l, Len(o) + 1, Len(l))
    <3>1. Len(o) <= Len(l) /\ SubSeq(l, 1, Len(o)) = SubSeq(o, 1, Len(o))
      BY <1>3 DEF IsPrefix
    <3>2. SubSeq(o, 1, Len(o)) = o /\ SubSeq(l, 1, Len(l)) = l
      BY SubSeqFull
    <3>3. 1 \in 1..Len(l) + 1 /\ Len(o) \in (1 - 1)..Len(l) /\ Len(l) \in Len(o)..Len(l)
      BY <1>1, <3>1
    <3>4. SubSeq(l, 1, Len(o)) \o r = SubSeq(l, 1, Len(l))
      BY <3>3, ConcatAdjacentSubSeq
    <3>5. r \in Seq(Byte)
      <4>1. \A i \in (Len(o) + 1)..Len(l) : l[i] \in Byte
        BY <1>1, ElementOfSeq
      <4> QED
        BY <1>1, <4>1, SubSeqProperties
    <3> HIDE DEF r
    <3> QED
      BY <1>3, <2>2, <3>1, <3>2, <3>4, <3>5 DEF Begins
  <2> QED
    BY <2>1, <2>2
<1>4. Begins(o, l, exact) => IsPrefix(o, l) /\ (exact => o = l)
  BY <1>2 DEF Begins
<1> QED
  BY <1>3, <1>4

\* What comes last on the line stays last; owed with it, if nothing is before it.
LEMMA BeginsMore ==
  ASSUME NEW o \in Seq(Byte), NEW l \in Seq(Byte), NEW t \in Seq(Byte), NEW exact,
         Begins(o, l, exact)
  PROVE  Begins(o, l \o t, FALSE) /\ (exact => Begins(o \o t, l \o t, TRUE))
<1>1. PICK r \in Seq(Byte) : l = o \o r /\ (exact => r = <<>>)
  BY DEF Begins
<1>2. (o \o r) \o t = o \o (r \o t) /\ r \o t \in Seq(Byte)
  BY <1>1, ConcatAssociative, ConcatProperties
<1>3. <<>> \in Seq(Byte) /\ o \o t \in Seq(Byte) /\ (o \o t) \o <<>> = o \o t /\ o \o <<>> = o
  BY ConcatProperties, ConcatEmptySeq, EmptySeq
<1>4. Begins(o, l \o t, FALSE)
  BY <1>1, <1>2 DEF Begins
<1>5. exact => Begins(o \o t, l \o t, TRUE)
  BY <1>1, <1>3 DEF Begins
<1> QED
  BY <1>4, <1>5

\* The buffer begins with the first telegram owed, as far as it goes; once that
\* is taken out, the rest begins with the rest.
LEMMA BeginsWithFirst ==
  ASSUME NEW t \in Seq(Byte), NEW o \in Seq(Byte), NEW b \in Seq(Byte), NEW w \in Seq(Byte),
         NEW exact, Begins(t \o o, b \o w, exact)
  PROVE  /\ \A i \in 1..Len(b) : i <= Len(t) => b[i] = t[i]
         /\ Len(t) <= Len(b) => /\ SubSeq(b, 1, Len(t)) = t
                                /\ Begins(o, SubSeq(b, Len(t) + 1, Len(b)) \o w, exact)
<1>1. PICK r \in Seq(Byte) : b \o w = (t \o o) \o r /\ (exact => r = <<>>)
  BY DEF Begins
<1>2. /\ Len(t) \in Nat /\ Len(b) \in Nat /\ o \o r \in Seq(Byte)
      /\ (t \o o) \o r = t \o (o \o r)
  BY <1>1, ConcatAssociative, ConcatProperties
<1> DEFINE more == o \o r
<1>3. b \o w = t \o more /\ more \in Seq(Byte)
  BY <1>1, <1>2
<1> HIDE DEF more
<1>4. /\ \A i \in 1..Len(b) : (b \o w)[i] = b[i]
      /\ \A i \in 1..Len(t) : (t \o more)[i] = t[i]
  <2>1. Len(more) \in Nat /\ Len(w) \in Nat
    BY <1>3
  <2>2. \A i \in 1..Len(b) + Len(w) : (b \o w)[i] = IF i <= Len(b) THEN b[i] ELSE w[i - Len(b)]
    BY ConcatProperties
  <2>3. \A i \in 1..Len(t) + Len(more) :
          (t \o more)[i] = IF i <= Len(t) THEN t[i] ELSE more[i - Len(t)]
    BY <1>3, ConcatProperties
  <2> QED
    BY <1>2, <2>1, <2>2, <2>3
<1>5. \A i \in 1..Len(b) : i <= Len(t) => b[i] = t[i]
  <2> TAKE i \in 1..Len(b)
  <2> HAVE i <= Len(t)
  <2>1. i \in 1..Len(t)
    BY <1>2
  <2> QED
    BY <1>3, <1>4, <2>1, Zenon
<1>6. ASSUME Len(t) <= Len(b)
      PROVE  /\ SubSeq(b, 1, Len(t)) = t
             /\ Begins(o, SubSeq(b, Len(t) + 1, Len(b)) \o w, exact)
  <2> DEFINE c == SubSeq(b, Len(t) + 1, Len(b))
             f == SubSeq(b, 1, Len(t))
  <2>1. f \in Seq(Byte) /\ Len(f) = Len(t) /\ \A i \in 1..Len(t) : f[i] = b[i]
    <3>1. Len(t) \in 0..Len(b)
      BY <1>2, <1>6
    <3> QED
      BY <3>1, FirstOf
  <2>2. \A i \in 1..Len(f) : f[i] = t[i]
    BY <1>2, <1>5, <1>6, <2>1
  <2>3. f = t
    BY <2>1, <2>2, SeqEqual
  <2>4. c \in Seq(Byte)
    <3>1. \A i \in (Len(t) + 1)..Len(b) : b[i] \in Byte
      BY <1>2, ElementOfSeq
    <3> QED
      BY <1>2, <3>1, SubSeqProperties
  <2>5. f \o c = b
    <3>1. 1 \in 1..Len(b) + 1 /\ Len(t) \in (1 - 1)..Len(b) /\ Len(b) \in Len(t)..Len(b)
      BY <1>2, <1>6
    <3>2. f \o c = SubSeq(b, 1, Len(b))
      BY <3>1, ConcatAdjacentSubSeq
    <3> QED
      BY <3>2, SubSeqFull
  <2> HIDE DEF c, f
  <2>6. t \o (c \o w) = t \o more /\ c \o w \in Seq(Byte)
    <3>1. (t \o c) \o w = t \o (c \o w)
      BY <2>4, ConcatAssociative
    <3>2. c \o w \in Seq(Byte)
      BY <2>4, ConcatProperties
    <3> QED
      BY <1>3, <2>3, <2>5, <3>1, <3>2
  <2>7. c \o w = more
    BY <1>3, <2>6, ConcatSimplifications, Zenon
  <2> QED
    BY <1>1, <2>3, <2>7 DEF Begins, more, c, f
<1> QED
  BY <1>5, <1>6

\* A buffer that begins with the start byte is kept as it is.
LEMMA FromStartKeeps ==
  ASSUME NEW buf \in Seq(Byte), buf = <<>> \/ buf[1] = MasterStart
  PROVE  FromStart(buf) = buf
<1> DEFINE starts == {i \in 1..Len(buf) : buf[i] = MasterStart}
           first  == CHOOSE i \in starts : \A j \in starts : i <= j
<1>1. Len(buf) \in Nat
  OBVIOUS
<1>2. CASE buf = <<>>
  <2>1. starts = {}
    BY <1>2
  <2> QED
    BY <1>2, <2>1 DEF FromStart
<1>3. CASE buf # <<>>
  <2>1. 1 \in starts /\ \A j \in starts : j \in Nat /\ 1 <= j
    BY <1>3
  <2>2. first \in starts /\ \A j \in starts : first <= j
    BY <2>1
  <2>3. FromStart(buf) = SubSeq(buf, first, Len(buf))
    BY <2>1 DEF FromStart
  <2> HIDE DEF first
  <2>4. first = 1
    BY <2>1, <2>2
  <2> QED
    BY <2>3, <2>4, SubSeqFull
<1> QED
  BY <1>2, <1>3

\* The expected length is read from the third and the fourth byte.
LEMMA SameEstimate ==
  ASSUME NEW b, NEW t, b[3] = t[3], b[4] = t[4] PROVE EstimateLength(b) = EstimateLength(t)
  BY Zenon DEF EstimateLength

-----------------------------------------------------------------------------
(* What is owed is never lost.  With noise on the line Aligned alone is not *)
(* inductive: a silence would throw away a whole telegram, had one been     *)
(* left in the buffer.                                                      *)

\* The framer is in step, and goes to the port with less than one telegram.
LineInv ==
  /\ FramerInv
  /\ inFlight \in Seq(Telegrams)
  /\ Begins(FlattenSeq(inFlight), buffer \o wire, tracked)
  /\ NothingCompleteWaits

\* A sequence of telegrams is one of sequences of bytes.
LEMMA TelegramsAreBytes ==
  ASSUME NEW q \in Seq(Telegrams)
  PROVE  q \in Seq(Seq(Byte)) /\ FlattenSeq(q) \in Seq(Byte)
<1>1. q \in Seq(Seq(Byte))
  BY BytesOnly, SeqMonotonic
<1> QED
  BY <1>1, FlattenAppend

\* The telegram owed first is what the buffer begins with.
LEMMA FirstOwed ==
  ASSUME TelegramsAreFramed, LineInv, inFlight # <<>>
  PROVE  LET t == Head(inFlight)
         IN  /\ t \in Telegrams /\ t \in Seq(Byte) /\ Len(t) >= 5
             /\ Tail(inFlight) \in Seq(Telegrams)
             /\ FromStart(buffer) = buffer
             /\ Len(buffer) >= 5 => EstimateLength(buffer) = Len(t)
             /\ Len(t) <= Len(buffer) =>
                  /\ SubSeq(buffer, 1, Len(t)) = t
                  /\ Begins(FlattenSeq(Tail(inFlight)),
                            SubSeq(buffer, Len(t) + 1, Len(buffer)) \o wire, tracked)
<1> DEFINE t == Head(inFlight)
           o == FlattenSeq(Tail(inFlight))
<1>1. /\ inFlight \in Seq(Telegrams) /\ buffer \in Seq(Byte) /\ wire \in Seq(Byte)
      /\ Begins(FlattenSeq(inFlight), buffer \o wire, tracked)
  BY DEF LineInv, FramerInv, FramerTypeOK
<1>2. t \in Telegrams /\ Tail(inFlight) \in Seq(Telegrams)
  BY <1>1, HeadTailProperties
<1>3. t \in Seq(Byte) /\ Len(t) >= 5 /\ t[1] = MasterStart /\ Len(t) = EstimateLength(t) /\ o \in Seq(Byte)
  <2>1. o \in Seq(Byte)
    BY <1>2, TelegramsAreBytes
  <2>2. t \in Seq(Byte)
    BY <1>2, BytesOnly
  <2> HIDE DEF t, o
  <2> QED
    BY <1>2, <2>1, <2>2 DEF TelegramsAreFramed, Framed
<1>4. FlattenSeq(inFlight) = t \o o
  BY <1>1, TelegramsAreBytes, FlattenHead
<1> HIDE DEF t, o
<1>5. /\ \A i \in 1..Len(buffer) : i <= Len(t) => buffer[i] = t[i]
      /\ Len(t) <= Len(buffer) => /\ SubSeq(buffer, 1, Len(t)) = t
                                  /\ Begins(o, SubSeq(buffer, Len(t) + 1, Len(buffer)) \o wire, tracked)
  BY <1>1, <1>3, <1>4, BeginsWithFirst
<1>6. Len(buffer) \in Nat /\ Len(t) \in Nat
  BY <1>1, <1>3
<1>7. FromStart(buffer) = buffer
  <2>1. buffer = <<>> \/ 1 \in 1..Len(buffer)
    BY <1>1, <1>6, EmptySeq
  <2>2. buffer = <<>> \/ buffer[1] = MasterStart
    BY <1>3, <1>5, <1>6, <2>1
  <2> QED
    BY <1>1, <2>2, FromStartKeeps
<1>8. ASSUME Len(buffer) >= 5 PROVE EstimateLength(buffer) = Len(t)
  <2>1. buffer[3] = t[3] /\ buffer[4] = t[4]
    BY <1>3, <1>5, <1>6, <1>8
  <2> QED
    BY <1>3, <2>1, SameEstimate
<1> QED
  BY <1>2, <1>3, <1>5, <1>7, <1>8 DEF t, o

\* While the line is exact and nothing is owed, nothing is there.
LEMMA NothingOwed ==
  ASSUME TelegramsAreFramed, LineInv, inFlight = <<>>, tracked PROVE buffer = <<>> /\ wire = <<>>
<1>1. buffer \in Seq(Byte) /\ wire \in Seq(Byte) /\ <<>> \in Seq(Byte)
  BY EmptySeq DEF LineInv, FramerInv, FramerTypeOK
<1>2. buffer \o wire = <<>> \o <<>>
  BY FlattenAppend DEF LineInv, Begins
<1>3. <<>> \o <<>> = <<>>
  BY <1>1, ConcatEmptySeq
<1> QED
  BY <1>1, <1>2, <1>3, ConcatEqualIffEmpty

\* Nothing has been sent at the start.
LEMMA LineInvInit == FramerInit => LineInv
<1> SUFFICES ASSUME FramerInit PROVE LineInv
  OBVIOUS
<1>1. /\ inFlight = <<>> /\ buffer = <<>> /\ wire = <<>> /\ tracked = TRUE
  BY DEF FramerInit
<1>2. <<>> \in Seq(Byte) /\ <<>> \in Seq(Telegrams)
  BY EmptySeq
<1>3. <<>> \o <<>> = <<>>
  BY <1>2, ConcatEmptySeq
<1>4. Begins(<<>>, <<>>, TRUE)
  BY <1>2, <1>3 DEF Begins
<1> QED
  BY <1>1, <1>2, <1>3, <1>4, FramerInvInit, FlattenAppend DEF LineInv, NothingCompleteWaits

\* The master: what is sent is owed, if nothing else than what is owed is before it.
LEMMA LineInvSend ==
  ASSUME TelegramsAreFramed, LineInv, NEW t \in Telegrams, SendTelegram(t) PROVE LineInv'
<1>1. FramerInv'
  BY FramerInvLine DEF LineInv
<1>2. /\ inFlight \in Seq(Telegrams) /\ buffer \in Seq(Byte) /\ wire \in Seq(Byte)
      /\ Begins(FlattenSeq(inFlight), buffer \o wire, tracked) /\ NothingCompleteWaits
      /\ tracked \in BOOLEAN
  BY DEF LineInv, FramerInv, FramerTypeOK
<1>3. t \in Seq(Byte) /\ Len(t) >= 5
  BY BytesOnly DEF TelegramsAreFramed, Framed
<1>4. /\ wire' = wire \o t
      /\ inFlight' = (IF tracked THEN Append(inFlight, t) ELSE inFlight)
      /\ buffer' = buffer /\ at' = at /\ tracked' = tracked
  BY DEF SendTelegram
<1>5. buffer' \o wire' = (buffer \o wire) \o t /\ buffer \o wire \in Seq(Byte)
  BY <1>2, <1>3, <1>4, ConcatAssociative, ConcatProperties
<1>6. inFlight \in Seq(Seq(Byte)) /\ FlattenSeq(inFlight) \in Seq(Byte)
  BY <1>2, TelegramsAreBytes
<1>7. /\ Begins(FlattenSeq(inFlight), (buffer \o wire) \o t, FALSE)
      /\ tracked => Begins(FlattenSeq(inFlight) \o t, (buffer \o wire) \o t, TRUE)
  BY <1>2, <1>3, <1>5, <1>6, BeginsMore
<1>8. CASE tracked
  <2>1. inFlight' = Append(inFlight, t) /\ inFlight' \in Seq(Telegrams) /\ tracked' = TRUE
    BY <1>2, <1>4, <1>8
  <2>2. FlattenSeq(inFlight') = FlattenSeq(inFlight) \o t
    BY <1>3, <1>6, <2>1, FlattenAppend
  <2>3. Begins(FlattenSeq(inFlight'), buffer' \o wire', tracked')
    BY <1>5, <1>7, <1>8, <2>1, <2>2
  <2>4. NothingCompleteWaits'
    <3>1. CASE inFlight = <<>>
      <4>1. buffer = <<>> /\ Len(<<>>) = 0
        BY <1>8, <3>1, NothingOwed
      <4>2. Head(inFlight') = t
        BY <2>1, <3>1
      <4> QED
        BY <1>3, <1>4, <4>1, <4>2 DEF NothingCompleteWaits
    <3>2. CASE inFlight # <<>>
      <4>1. Head(inFlight') = Head(inFlight)
        BY <1>2, <2>1, <3>2, HeadTailAppend
      <4> QED
        BY <1>2, <1>4, <3>2, <4>1 DEF NothingCompleteWaits
    <3> QED
      BY <3>1, <3>2
  <2> QED
    BY <1>1, <2>1, <2>3, <2>4 DEF LineInv
<1>9. CASE ~tracked
  <2>1. inFlight' = inFlight /\ tracked' = FALSE
    BY <1>2, <1>4, <1>9
  <2>2. NothingCompleteWaits'
    BY <1>2, <1>4, <2>1 DEF NothingCompleteWaits
  <2> QED
    BY <1>1, <1>2, <1>5, <1>7, <2>1, <2>2 DEF LineInv
<1> QED
  BY <1>8, <1>9

\* The line: noise comes after what is owed.
LEMMA LineInvNoise ==
  ASSUME TelegramsAreFramed, LineInv, NEW b \in NoiseBytes, SendNoise(b) PROVE LineInv'
<1>1. FramerInv'
  BY FramerInvLine DEF LineInv
<1>2. /\ inFlight \in Seq(Telegrams) /\ buffer \in Seq(Byte) /\ wire \in Seq(Byte)
      /\ Begins(FlattenSeq(inFlight), buffer \o wire, tracked) /\ NothingCompleteWaits
  BY DEF LineInv, FramerInv, FramerTypeOK
<1>3. b \in Byte /\ <<b>> \in Seq(Byte)
  BY BytesOnly
<1>4. /\ wire' = Append(wire, b) /\ inFlight' = inFlight
      /\ buffer' = buffer /\ at' = at /\ tracked' = FALSE
  BY DEF SendNoise
<1>5. wire' = wire \o <<b>>
  BY <1>2, <1>3, <1>4, AppendIsConcat
<1>6. buffer' \o wire' = (buffer \o wire) \o <<b>> /\ buffer \o wire \in Seq(Byte)
  BY <1>2, <1>3, <1>4, <1>5, ConcatAssociative, ConcatProperties
<1>7. Begins(FlattenSeq(inFlight), (buffer \o wire) \o <<b>>, FALSE)
  <2>1. FlattenSeq(inFlight) \in Seq(Byte)
    BY <1>2, TelegramsAreBytes
  <2> QED
    BY <1>2, <1>3, <1>6, <2>1, BeginsMore
<1>8. NothingCompleteWaits'
  BY <1>2, <1>4 DEF NothingCompleteWaits
<1> QED
  BY <1>1, <1>2, <1>4, <1>6, <1>7, <1>8 DEF LineInv

\* A read moves bytes from the wire to the buffer, wherever it cuts.
LEMMA LineInvRead ==
  ASSUME TelegramsAreFramed, LineInv, NEW n \in 1..MaxRead, Read(n) PROVE LineInv'
<1>1. FramerInv'
  BY FramerInvRead DEF LineInv
<1>2. /\ inFlight \in Seq(Telegrams) /\ buffer \in Seq(Byte) /\ wire \in Seq(Byte)
      /\ Begins(FlattenSeq(inFlight), buffer \o wire, tracked)
  BY DEF LineInv, FramerInv, FramerTypeOK
<1> DEFINE f == SubSeq(wire, 1, n)
           r == SubSeq(wire, n + 1, Len(wire))
<1>3. n <= Len(wire) /\ buffer' = buffer \o f /\ wire' = r /\ at' = "frame" /\ UNCHANGED <<inFlight, tracked>>
  BY DEF Read
<1>4. n \in Nat /\ Len(wire) \in Nat /\ \A i \in 1..Len(wire) : wire[i] \in Byte
  BY <1>2, MaxReadIsPos
<1>5. f \in Seq(Byte) /\ r \in Seq(Byte)
  BY <1>3, <1>4, SubSeqProperties
<1>6. f \o r = wire
  <2>1. 1 \in 1..Len(wire) + 1 /\ n \in (1 - 1)..Len(wire) /\ Len(wire) \in n..Len(wire)
    BY <1>3, <1>4
  <2>2. f \o r = SubSeq(wire, 1, Len(wire))
    BY <1>2, <2>1, ConcatAdjacentSubSeq
  <2> QED
    BY <1>2, <2>2, SubSeqFull
<1> HIDE DEF f, r
<1>7. buffer' \o wire' = buffer \o wire
  <2>1. (buffer \o f) \o r = buffer \o (f \o r)
    BY <1>2, <1>5, ConcatAssociative
  <2> QED
    BY <1>3, <1>6, <2>1
<1>8. NothingCompleteWaits'
  BY <1>3 DEF NothingCompleteWaits
<1> QED
  BY <1>1, <1>2, <1>3, <1>7, <1>8 DEF LineInv

\* When the line falls silent nothing is owed any more, so that what the buffer
\* still holds is noise.
LEMMA SilenceOwesNothing ==
  ASSUME TelegramsAreFramed, LineInv, ReadSilence PROVE inFlight = <<>>
<1> SUFFICES ASSUME inFlight # <<>> PROVE FALSE
  OBVIOUS
<1>1. at = "read" /\ wire = <<>> /\ buffer \in Seq(Byte) /\ inFlight \in Seq(Telegrams)
      /\ NothingCompleteWaits /\ Begins(FlattenSeq(inFlight), buffer \o wire, tracked)
  BY DEF ReadSilence, LineInv, FramerInv, FramerTypeOK
<1>2. Len(buffer) < Len(Head(inFlight))
  BY <1>1 DEF NothingCompleteWaits
<1>3. Head(inFlight) \in Seq(Byte) /\ FlattenSeq(Tail(inFlight)) \in Seq(Byte)
      /\ FlattenSeq(inFlight) = Head(inFlight) \o FlattenSeq(Tail(inFlight))
  <2>1. Tail(inFlight) \in Seq(Telegrams)
    BY <1>1, HeadTailProperties
  <2> QED
    BY <1>1, <2>1, FirstOwed, TelegramsAreBytes, FlattenHead
<1>4. PICK r \in Seq(Byte) : buffer \o wire = FlattenSeq(inFlight) \o r
  BY <1>1 DEF Begins
<1>5. buffer \o wire = buffer
  BY <1>1, ConcatEmptySeq
<1> DEFINE t == Head(inFlight)
           o == FlattenSeq(Tail(inFlight))
<1>6. buffer = (t \o o) \o r /\ t \in Seq(Byte) /\ o \in Seq(Byte) /\ Len(buffer) < Len(t)
  BY <1>2, <1>3, <1>4, <1>5
<1> HIDE DEF t, o
<1>7. t \o o \in Seq(Byte) /\ Len(t \o o) = Len(t) + Len(o)
  BY <1>6, ConcatProperties
<1>8. Len(buffer) = Len(t \o o) + Len(r)
  BY <1>6, <1>7, ConcatProperties
<1>9. Len(t) \in Nat /\ Len(o) \in Nat /\ Len(r) \in Nat
  BY <1>6
<1> QED
  BY <1>6, <1>7, <1>8, <1>9

\* A silence empties the buffer of noise.
LEMMA LineInvSilence ==
  ASSUME TelegramsAreFramed, LineInv, ReadSilence PROVE LineInv'
<1>1. FramerInv'
  BY FramerInvRest DEF LineInv
<1>2. wire' = <<>> /\ buffer' = <<>> /\ tracked' = TRUE /\ inFlight' = <<>>
  BY SilenceOwesNothing DEF ReadSilence
<1>3. <<>> \in Seq(Byte) /\ <<>> \in Seq(Telegrams)
  BY EmptySeq
<1>4. <<>> \o <<>> = <<>>
  BY <1>3, ConcatEmptySeq
<1>5. Begins(<<>>, <<>>, TRUE)
  BY <1>3, <1>4 DEF Begins
<1> QED
  BY <1>1, <1>2, <1>3, <1>4, <1>5, FlattenAppend DEF LineInv, NothingCompleteWaits

\* What is cut out while something is owed is the telegram owed first.
LEMMA DispatchTakesFirst ==
  ASSUME TelegramsAreFramed, LineInv, FrameDispatch, inFlight # <<>>
  PROVE  /\ handed' = Head(inFlight) /\ inFlight' = Tail(inFlight)
         /\ inFlight' \in Seq(Telegrams)
         /\ Begins(FlattenSeq(Tail(inFlight)), buffer' \o wire, tracked)
<1> DEFINE t == Head(inFlight)
<1>1. /\ t \in Seq(Byte) /\ Len(t) >= 5
      /\ Tail(inFlight) \in Seq(Telegrams)
      /\ FromStart(buffer) = buffer
      /\ Len(buffer) >= 5 => EstimateLength(buffer) = Len(t)
      /\ Len(t) <= Len(buffer) =>
           /\ SubSeq(buffer, 1, Len(t)) = t
           /\ Begins(FlattenSeq(Tail(inFlight)),
                     SubSeq(buffer, Len(t) + 1, Len(buffer)) \o wire, tracked)
  BY FirstOwed
<1>2. /\ Complete(buffer)
      /\ handed' = SubSeq(buffer, 1, EstimateLength(buffer))
      /\ buffer' = SubSeq(buffer, EstimateLength(buffer) + 1, Len(buffer))
      /\ inFlight' = Tail(inFlight)
  BY <1>1 DEF FrameDispatch
<1> HIDE DEF t
<1>3. EstimateLength(buffer) = Len(t) /\ Len(t) <= Len(buffer)
  <2>1. Len(buffer) >= 5 /\ Len(buffer) >= EstimateLength(buffer)
    BY <1>2 DEF Complete
  <2>2. EstimateLength(buffer) = Len(t)
    BY <1>1, <2>1
  <2> QED
    BY <2>1, <2>2
<1> QED
  BY <1>1, <1>2, <1>3 DEF t

\* Cutting out a telegram leaves the rest in step.
LEMMA LineInvDispatch ==
  ASSUME TelegramsAreFramed, LineInv, FrameDispatch PROVE LineInv'
<1>1. FramerInv'
  BY FramerInvDispatch DEF LineInv
<1>2. NothingCompleteWaits' /\ wire' = wire /\ tracked' = tracked
  BY DEF FrameDispatch, NothingCompleteWaits
<1>3. CASE inFlight # <<>>
  BY <1>1, <1>2, <1>3, DispatchTakesFirst DEF LineInv
<1>4. CASE inFlight = <<>>
  <2>1. ~tracked
    <3> SUFFICES ASSUME tracked PROVE FALSE
      OBVIOUS
    <3>1. buffer = <<>> /\ <<>> \in Seq(Byte) /\ Len(<<>>) = 0
      BY <1>4, NothingOwed, EmptySeq
    <3>2. FromStart(buffer) = <<>>
      BY <3>1, FromStartKeeps
    <3> QED
      BY <3>1, <3>2 DEF FrameDispatch, Complete
  <2>2. inFlight' = <<>> /\ <<>> \in Seq(Telegrams)
    BY <1>4 DEF FrameDispatch
  <2>3. buffer' \in Seq(Byte) /\ wire' \in Seq(Byte)
    BY <1>1 DEF FramerInv, FramerTypeOK
  <2>4. buffer' \o wire' \in Seq(Byte) /\ <<>> \o (buffer' \o wire') = buffer' \o wire'
    BY <2>3, ConcatProperties, ConcatEmptySeq
  <2>5. Begins(<<>>, buffer' \o wire', FALSE)
    BY <2>4 DEF Begins
  <2>6. tracked' = FALSE
    BY <1>2, <2>1 DEF LineInv, FramerInv, FramerTypeOK
  <2> QED
    BY <1>1, <1>2, <2>2, <2>5, <2>6, FlattenAppend DEF LineInv
<1> QED
  BY <1>3, <1>4

\* What the framer drops before it waits is noise.
LEMMA LineInvWait ==
  ASSUME TelegramsAreFramed, LineInv, FrameWait PROVE LineInv'
<1>1. FramerInv'
  BY FramerInvWait DEF LineInv
<1>2. /\ inFlight \in Seq(Telegrams) /\ buffer \in Seq(Byte) /\ wire \in Seq(Byte)
      /\ Begins(FlattenSeq(inFlight), buffer \o wire, tracked) /\ tracked \in BOOLEAN
  BY DEF LineInv, FramerInv, FramerTypeOK
<1>3. /\ ~Complete(FromStart(buffer)) /\ wire' = wire /\ inFlight' = inFlight /\ tracked' = tracked
      /\ buffer' = (IF Len(buffer) < 5 THEN buffer ELSE FromStart(buffer))
  BY DEF FrameWait
<1>4. CASE inFlight # <<>>
  <2> DEFINE t == Head(inFlight)
  <2>1. FromStart(buffer) = buffer /\ Len(t) >= 5 /\ (Len(buffer) >= 5 => EstimateLength(buffer) = Len(t))
    BY <1>4, FirstOwed
  <2>2. buffer' = buffer /\ ~Complete(buffer)
    BY <1>3, <2>1
  <2>3. Len(buffer) < Len(t)
    <3>1. Len(t) \in Nat /\ Len(buffer) \in Nat
      BY <1>2, <1>4, FirstOwed
    <3>2. ~(Len(buffer) >= 5 /\ Len(buffer) >= EstimateLength(buffer))
      BY <2>2 DEF Complete
    <3> HIDE DEF t
    <3>3. CASE Len(buffer) >= 5
      <4>1. EstimateLength(buffer) = Len(t)
        BY <2>1, <3>3
      <4> QED
        BY <3>1, <3>2, <3>3, <4>1
    <3>4. CASE Len(buffer) < 5
      BY <2>1, <3>1, <3>4
    <3> QED
      BY <3>1, <3>3, <3>4
  <2>4. NothingCompleteWaits'
    BY <1>3, <2>2, <2>3 DEF NothingCompleteWaits
  <2> QED
    BY <1>1, <1>2, <1>3, <2>2, <2>4 DEF LineInv
<1>5. CASE inFlight = <<>>
  <2>1. NothingCompleteWaits'
    BY <1>3, <1>5 DEF NothingCompleteWaits
  <2>2. CASE tracked
    <3>1. buffer = <<>> /\ <<>> \in Seq(Byte)
      BY <1>5, <2>2, NothingOwed, EmptySeq
    <3>2. buffer' = buffer
      BY <1>3, <3>1, FromStartKeeps
    <3> QED
      BY <1>1, <1>2, <1>3, <2>1, <3>2 DEF LineInv
  <2>3. CASE ~tracked
    <3>1. buffer' \in Seq(Byte) /\ wire' \in Seq(Byte)
      BY <1>1 DEF FramerInv, FramerTypeOK
    <3>2. buffer' \o wire' \in Seq(Byte) /\ <<>> \o (buffer' \o wire') = buffer' \o wire'
      BY <3>1, ConcatProperties, ConcatEmptySeq
    <3>3. Begins(<<>>, buffer' \o wire', FALSE)
      BY <3>2 DEF Begins
    <3>4. tracked' = FALSE
      BY <1>2, <1>3, <2>3
    <3> QED
      BY <1>1, <1>2, <1>3, <1>5, <2>1, <3>3, <3>4, FlattenAppend DEF LineInv
  <2> QED
    BY <2>2, <2>3
<1> QED
  BY <1>4, <1>5

\* When on_receive has returned from a rest, the buffer is empty.
LEMMA LineInvReturns ==
  ASSUME TelegramsAreFramed, LineInv, DispatchReturns PROVE LineInv'
<1>1. FramerInv'
  BY FramerInvRest DEF LineInv
<1>2. /\ UNCHANGED <<wire, buffer, inFlight, tracked>>
      /\ at = "framed" => at' = "frame"
      /\ at = "rest" => buffer = <<>>
      /\ at \in {"framed", "rest"}
  BY DEF DispatchReturns, LineInv, FramerInv
<1>3. NothingCompleteWaits'
  <2> SUFFICES ASSUME at' = "read", inFlight # <<>> PROVE Len(buffer) < Len(Head(inFlight))
    BY <1>2 DEF NothingCompleteWaits
  <2>1. Len(Head(inFlight)) \in Nat /\ Len(Head(inFlight)) >= 5
    BY FirstOwed
  <2>2. Len(buffer) = 0
    BY <1>2
  <2> QED
    BY <2>1, <2>2
<1> QED
  BY <1>1, <1>2, <1>3 DEF LineInv

\* No step loses what is owed.
LEMMA LineInvNext ==
  ASSUME TelegramsAreFramed, LineInv, [FramerNext]_framerVars PROVE LineInv'
<1>1. CASE UNCHANGED framerVars
  <2>1. FramerInv'
    BY <1>1, FramerInvNext DEF LineInv
  <2> QED
    BY <1>1, <2>1 DEF framerVars, LineInv, NothingCompleteWaits
<1>2. CASE FramerNext
  BY <1>2, LineInvSend, LineInvNoise, LineInvRead, LineInvSilence, LineInvDispatch,
     LineInvWait, LineInvReturns
  DEF FramerNext, ReaderOnLine
<1> QED
  BY <1>1, <1>2

\* Noise or none, what is owed is never lost.
LEMMA LineInvariance == ASSUME TelegramsAreFramed PROVE FramerSafety => []LineInv
<1>1. LineInv /\ [FramerNext]_framerVars => LineInv'
  BY LineInvNext
<1> QED
  BY <1>1, LineInvInit, PTL DEF FramerSafety

-----------------------------------------------------------------------------
\* Whatever noise is on the line and wherever reads cut it, the telegrams sent
\* since the last silence with nothing but telegrams before them are what the
\* buffer and the wire begin with: _read_loop is never out of step with them.
THEOREM FramerStaysAligned == ASSUME TelegramsAreFramed PROVE FramerSafety => []Aligned
<1>1. LineInv => Aligned
  <2> SUFFICES ASSUME LineInv PROVE Aligned
    OBVIOUS
  <2>1. /\ buffer \in Seq(Byte) /\ wire \in Seq(Byte) /\ inFlight \in Seq(Telegrams)
        /\ Begins(FlattenSeq(inFlight), buffer \o wire, tracked)
    BY DEF LineInv, FramerInv, FramerTypeOK
  <2>2. buffer \o wire \in Seq(Byte) /\ FlattenSeq(inFlight) \in Seq(Byte)
    BY <2>1, ConcatProperties, TelegramsAreBytes
  <2> DEFINE o == FlattenSeq(inFlight)
             l == buffer \o wire
  <2>3. o \in Seq(Byte) /\ l \in Seq(Byte) /\ Begins(o, l, tracked)
    BY <2>1, <2>2
  <2> HIDE DEF o, l
  <2>4. IsPrefix(o, l) /\ (tracked => o = l)
    BY <2>3, AlignedBegins
  <2> QED
    BY <2>4, Zenon DEF Aligned, o, l
<1> QED
  BY <1>1, LineInvariance, PTL

\* No owed telegram that has come whole waits for more bytes or for a silence.
THEOREM NoCompleteTelegramWaits ==
  ASSUME TelegramsAreFramed PROVE FramerSafety => []NothingCompleteWaits
  BY LineInvariance, PTL DEF LineInv

\* Also on a noisy line _read_loop hands up each telegram it owes whole and
\* unchanged, in the order of sending.
THEOREM OwedIsHandedUp ==
  ASSUME TelegramsAreFramed
  PROVE  FramerSafety => [][FrameDispatch /\ inFlight # <<>> => handed' = Head(inFlight)]_framerVars
<1>1. LineInv => (FrameDispatch /\ inFlight # <<>> => handed' = Head(inFlight))
  BY DispatchTakesFirst
<1> QED
  BY <1>1, LineInvariance, PTL DEF FramerSafety

\* Without noise the line and _read_loop are the channel that TelegramChannel
\* specifies, step by step: a read or a wait is a stutter, sending a telegram
\* submits it, cutting one out hands it up.  (That each is handed up in the end
\* takes fairness, and the run.)
THEOREM FramerIsChannel ==
  ASSUME TelegramsAreFramed, NoiseBytes = {}
  PROVE  FramerSafety => Channel!ChannelInit /\ [][Channel!ChannelNext]_(Channel!channelVars)
<1> DEFINE Exact == LineInv /\ tracked
<1>1. FramerInit => Exact /\ Channel!ChannelInit
  BY LineInvInit DEF FramerInit, Channel!ChannelInit
<1>2. Exact /\ [FramerNext]_framerVars => Exact'
  <2> SUFFICES ASSUME Exact, [FramerNext]_framerVars PROVE Exact'
    OBVIOUS
  <2>1. LineInv'
    BY LineInvNext
  <2>2. tracked'
    BY DEF FramerNext, framerVars, ReaderOnLine, SendTelegram, Read, FrameDispatch, FrameWait,
           DispatchReturns, ReadSilence
  <2> QED
    BY <2>1, <2>2
<1>3. Exact /\ [FramerNext]_framerVars => [Channel!ChannelNext]_(Channel!channelVars)
  <2> SUFFICES ASSUME Exact, [FramerNext]_framerVars
               PROVE  [Channel!ChannelNext]_(Channel!channelVars)
    OBVIOUS
  <2> USE DEF Channel!ChannelNext, Channel!channelVars
  <2>1. CASE UNCHANGED framerVars
    BY <2>1 DEF framerVars
  <2>2. ASSUME NEW t \in Telegrams, SendTelegram(t) PROVE Channel!ChannelNext
    BY <2>2 DEF SendTelegram, Channel!Submit
  <2>3. ASSUME NEW n \in 1..MaxRead, Read(n) PROVE UNCHANGED Channel!channelVars
    BY <2>3 DEF Read
  <2>4. CASE FrameWait
    BY <2>4 DEF FrameWait
  <2>5. CASE DispatchReturns
    BY <2>5 DEF DispatchReturns, Channel!Finish, LineInv, FramerInv, FramerTypeOK, SomethingHanded
  <2>6. CASE ReadSilence
    <3>1. inFlight = <<>>
      BY <2>6, SilenceOwesNothing
    <3>2. buffer = <<>>
      BY <3>1, NothingOwed
    <3>3. handed = <<>>
      BY <2>6 DEF ReadSilence, LineInv, FramerInv, FramerTypeOK, SomethingHanded
    <3> QED
      BY <2>6, <3>2, <3>3 DEF ReadSilence
  <2>7. CASE FrameDispatch
    <3>1. handed = <<>>
      BY <2>7 DEF FrameDispatch, LineInv, FramerInv, FramerTypeOK, SomethingHanded
    <3>2. inFlight # <<>>
      <4> SUFFICES ASSUME inFlight = <<>> PROVE FALSE
        OBVIOUS
      <4>1. buffer = <<>> /\ <<>> \in Seq(Byte) /\ Len(<<>>) = 0
        BY NothingOwed, EmptySeq
      <4>2. FromStart(buffer) = <<>>
        BY <4>1, FromStartKeeps
      <4> QED
        BY <2>7, <4>1, <4>2 DEF FrameDispatch, Complete
    <3>3. handed' = Head(inFlight) /\ inFlight' = Tail(inFlight)
      BY <2>7, <3>2, DispatchTakesFirst
    <3> QED
      BY <3>1, <3>2, <3>3 DEF Channel!HandUp
  <2> QED
    BY <2>1, <2>2, <2>3, <2>4, <2>5, <2>6, <2>7 DEF FramerNext, ReaderOnLine
<1> QED
  BY <1>1, <1>2, <1>3, PTL DEF FramerSafety
=============================================================================
