----------------------------- MODULE ExchangeProofs -----------------------------
(***************************************************************************)
(* Telegrams and answers over a stream of bytes: whose an answer is, what  *)
(* the card executes, and what the client takes the answer for.            *)
(***************************************************************************)
EXTENDS Exchange, CrcEngineProofs

-----------------------------------------------------------------------------
(* Sequences of bytes and of bytes that carry a number.                     *)

\* A piece of a sequence is one of its elements in their order.
LEMMA PieceType ==
  ASSUME NEW S, NEW s \in Seq(S), NEW i \in 1..Len(s), NEW j \in 0..Len(s)
  PROVE  /\ SubSeq(s, i, j) \in Seq(S)
         /\ Len(SubSeq(s, i, j)) = IF i <= j THEN j - i + 1 ELSE 0
         /\ \A k \in 1..(j - i + 1) : SubSeq(s, i, j)[k] = s[i + k - 1]
<1>1. \A k \in i..j : s[k] \in S
  OBVIOUS
<1> QED
  BY <1>1, SubSeqProperties

\* Lengths.
LEMMA OneElement == ASSUME NEW a PROVE Len(<<a>>) = 1
  OBVIOUS

\* One more element makes a sequence longer by one.
LEMMA ConcatOne ==
  ASSUME NEW S, NEW s \in Seq(S), NEW a \in S
  PROVE  s \o <<a>> \in Seq(S) /\ Len(s \o <<a>>) = Len(s) + 1
  OBVIOUS

\* What recv() takes and what it leaves.
LEMMA FirstBeyond ==
  ASSUME NEW S, NEW s \in Seq(S), NEW n \in 1..Len(s)
  PROVE  /\ First(n, s) \in Seq(S) /\ Len(First(n, s)) = n /\ First(n, s) # <<>>
         /\ \A k \in 1..n : First(n, s)[k] = s[k]
         /\ Beyond(n, s) \in Seq(S) /\ Len(Beyond(n, s)) = Len(s) - n
         /\ \A k \in 1..(Len(s) - n) : Beyond(n, s)[k] = s[n + k]
<1>1. /\ First(n, s) \in Seq(S) /\ Len(First(n, s)) = n
      /\ \A k \in 1..n : First(n, s)[k] = s[k]
  BY FirstOf DEF First
<1>2. CASE n = Len(s)
  <2>1. Beyond(n, s) = <<>>
    BY <1>2, SubSeqEmpty DEF Beyond
  <2> QED
    BY <1>1, <1>2, <2>1
<1>3. CASE n < Len(s)
  <2>1. n + 1 \in 1..Len(s) /\ Len(s) \in 0..Len(s)
    BY <1>3
  <2>2. /\ Beyond(n, s) \in Seq(S) /\ Len(Beyond(n, s)) = Len(s) - n
        /\ \A k \in 1..(Len(s) - n) : Beyond(n, s)[k] = s[n + k]
    BY <1>3, <2>1, PieceType DEF Beyond
  <2> QED
    BY <1>1, <2>2
<1> QED
  BY <1>2, <1>3

\* recv() takes something of what is there.
LEMMA ReceivedSome ==
  ASSUME NEW S, NEW s \in Seq(S), NEW n \in Received(s) PROVE n \in 1..Len(s)
  BY DEF Received, RecvSize

\* A sequence over a set is one over every larger set.
LEMMA SeqGrows ==
  ASSUME NEW S, NEW T, S \subseteq T, NEW s \in Seq(S) PROVE s \in Seq(T)
  OBVIOUS

\* Numbered bytes are the bytes with their number.
LEMMA TaggedType ==
  ASSUME NEW bytes \in Seq(Byte), NEW M, NEW n \in M
  PROVE  /\ Tagged(bytes, n) \in Seq(M \X Byte) /\ Len(Tagged(bytes, n)) = Len(bytes)
         /\ \A i \in 1..Len(bytes) : Tagged(bytes, n)[i] = <<n, bytes[i]>>
         /\ Bytes(Tagged(bytes, n)) = bytes
<1>1. \A i \in 1..Len(bytes) : bytes[i] \in Byte
  OBVIOUS
<1>2. /\ Tagged(bytes, n) \in Seq(M \X Byte) /\ Len(Tagged(bytes, n)) = Len(bytes)
      /\ \A i \in 1..Len(bytes) : Tagged(bytes, n)[i] = <<n, bytes[i]>>
  BY <1>1 DEF Tagged
<1>3. Bytes(Tagged(bytes, n)) = bytes
  BY <1>1, <1>2 DEF Bytes
<1> QED
  BY <1>2, <1>3

\* Numbered bytes without their numbers.
LEMMA BytesType ==
  ASSUME NEW M, NEW s \in Seq(M \X Byte)
  PROVE  /\ Bytes(s) \in Seq(Byte) /\ Len(Bytes(s)) = Len(s)
         /\ \A i \in 1..Len(s) : Bytes(s)[i] = s[i][2] /\ s[i][1] \in M
<1>1. \A i \in 1..Len(s) : s[i] \in M \X Byte
  OBVIOUS
<1> QED
  BY <1>1 DEF Bytes

-----------------------------------------------------------------------------
(* The replies.                                                             *)

\* The entries of the reply to a type AB telegram.
EntryNames == {"AIN", "DIN", "CNT", "ENC", "DIG", "TEMP", "BOARD"}
Entry == EntryNames \X Int

\* A bank is a sequence of entries, asked for or not.
LEMMA BankType ==
  ASSUME NEW b \in Byte, NEW k \in Nat, NEW name \in EntryNames, NEW first \in Nat, NEW last \in Nat,
         first <= last
  PROVE  /\ Bank(name, first, last) \in Seq(Entry)
         /\ Asked(b, k, Bank(name, first, last)) \in Seq(Entry)
<1> DEFINE n == last - first + 1
           bank == [i \in 1..n |-> <<name, first + i - 1>>]
<1>1. n \in Nat
  OBVIOUS
<1> HIDE DEF n
<1>2. \A i \in 1..n : <<name, first + i - 1>> \in Entry
  BY <1>1 DEF Entry
<1>3. bank \in Seq(Entry)
  BY <1>1, <1>2
<1>4. Bank(name, first, last) = bank
  BY Zenon DEF Bank, n
<1>5. <<>> \in Seq(Entry)
  OBVIOUS
<1> HIDE DEF bank
<1> QED
  BY <1>3, <1>4, <1>5, Zenon DEF Asked

\* The entries asked for by a telegram are entries.
LEMMA EntriesType ==
  ASSUME NEW typeA \in Byte, NEW typeB \in Byte PROVE AbEntries(typeA, typeB) \in Seq(Entry)
<1>0. {"AIN", "DIN", "CNT", "ENC", "DIG", "TEMP"} \subseteq EntryNames
  BY DEF EntryNames
<1>1. ASSUME NEW b \in Byte, NEW k \in 0..7, NEW name \in EntryNames, NEW i \in 0..20, NEW j \in 0..20, i <= j
      PROVE  Asked(b, k, Bank(name, i, j)) \in Seq(Entry)
  <2>1. k \in Nat /\ i \in Nat /\ j \in Nat
    OBVIOUS
  <2> QED
    BY <1>1, <2>1, BankType
<1>4. /\ Asked(typeA, 4, Bank("AIN", 0, 7)) \in Seq(Entry)
      /\ Asked(typeA, 5, Bank("AIN", 8, 15)) \in Seq(Entry)
      /\ Asked(typeB, 0, Bank("CNT", 0, 7)) \in Seq(Entry)
      /\ Asked(typeB, 1, Bank("CNT", 8, 15)) \in Seq(Entry)
      /\ Asked(typeB, 2, Bank("ENC", 0, 3)) \in Seq(Entry)
      /\ Asked(typeB, 3, Bank("ENC", 4, 7)) \in Seq(Entry)
      /\ Asked(typeB, 4, Bank("ENC", 8, 11)) \in Seq(Entry)
      /\ Asked(typeB, 5, Bank("DIG", 0, 2)) \in Seq(Entry)
      /\ Asked(typeB, 6, Bank("TEMP", 0, 1)) \in Seq(Entry)
      /\ Asked(typeB, 7, Bank("TEMP", 2, 3)) \in Seq(Entry)
  BY <1>0, <1>1
<1>2. Bank("AIN", 16, 20) \o Bank("DIN", 0, 2) \in Seq(Entry)
  <2>1. Bank("AIN", 16, 20) \in Seq(Entry) /\ Bank("DIN", 0, 2) \in Seq(Entry)
    BY <1>0, BankType
  <2> QED
    BY <2>1
<1>3. Asked(typeA, 6, Bank("AIN", 16, 20) \o Bank("DIN", 0, 2)) \in Seq(Entry)
  BY <1>2 DEF Asked
<1> QED
  BY <1>3, <1>4, ConcatProperties DEF AbEntries

\* The digital inputs among them take a word together.
LEMMA PackedLengthType ==
  ASSUME NEW entries \in Seq(Entry) PROVE PackedLength(entries) \in Nat
<1> DEFINE digital == {i \in DOMAIN entries : entries[i][1] = "DIG"}
<1>1. DOMAIN entries = 1..Len(entries) /\ Len(entries) \in Nat
  OBVIOUS
<1>2. IsFiniteSet(1..Len(entries)) /\ Cardinality(1..Len(entries)) = Len(entries)
  BY <1>1, FS_Interval
<1>3. digital \subseteq 1..Len(entries)
  BY <1>1
<1> HIDE DEF digital
<1>4. IsFiniteSet(digital) /\ Cardinality(digital) <= Len(entries)
  BY <1>2, <1>3, FS_Subset
<1>5. Cardinality(digital) \in Nat
  BY <1>4, FS_CardinalityType
<1> QED
  BY <1>1, <1>4, <1>5 DEF PackedLength, digital

\* A filled field is a sequence of bytes of the length asked for.
LEMMA FilledType ==
  ASSUME NEW length \in Nat, NEW fill \in Byte
  PROVE  Filled(length, fill) \in Seq(Byte) /\ Len(Filled(length, fill)) = length
  BY DEF Filled

\* The payloads of the version and of the status flags.
LEMMA FilledLengths ==
  ASSUME NEW fill \in Byte, NEW last \in Byte, 0 \in Byte
  PROVE  /\ Filled(5, fill) \o <<last>> \in Seq(Byte)
         /\ Len(Filled(5, fill) \o <<last>>) = 6
         /\ Filled(6, fill) \o <<0, 0, 0>> \o Filled(4, fill) \in Seq(Byte)
         /\ Len(Filled(6, fill) \o <<0, 0, 0>> \o Filled(4, fill)) = 13
<1> DEFINE five == Filled(5, fill)
           six  == Filled(6, fill)
           mid  == <<0, 0, 0>>
           four == Filled(4, fill)
<1>1. /\ five \in Seq(Byte) /\ Len(five) = 5 /\ six \in Seq(Byte) /\ Len(six) = 6
      /\ four \in Seq(Byte) /\ Len(four) = 4
  BY FilledType
<1>2. mid \in Seq(Byte) /\ Len(mid) = 3
  OBVIOUS
<1> HIDE DEF five, six, mid, four
<1>3. five \o <<last>> \in Seq(Byte) /\ Len(five \o <<last>>) = Len(five) + 1
  BY <1>1, ConcatOne, Zenon
<1>4. six \o mid \o four \in Seq(Byte) /\ Len(six \o mid \o four) = Len(six) + Len(mid) + Len(four)
  <2>1. six \o mid \in Seq(Byte) /\ Len(six \o mid) = Len(six) + Len(mid)
    BY <1>1, <1>2, ConcatProperties, Zenon
  <2>2. six \o mid \o four \in Seq(Byte) /\ Len(six \o mid \o four) = Len(six \o mid) + Len(four)
    BY <1>1, <2>1, ConcatProperties, Zenon
  <2> QED
    BY <2>1, <2>2, Zenon
<1>5. Len(five) + 1 = 6 /\ Len(six) + Len(mid) + Len(four) = 13
  BY <1>1, <1>2
<1> QED
  BY <1>3, <1>4, <1>5, Zenon DEF five, six, mid, four

\* The payload to an A/B telegram is the status and the banks asked for, to
\* another telegram what the command asks for.
LEMMA PayloadType ==
  ASSUME NEW t \in Seq(Byte), ~Malformed(t), NEW status \in Byte, NEW fill \in Byte
  PROVE  LET p == ReplyPayload(t, status, fill) IN
         /\ p \in Seq(Byte) /\ p # <<>>
         /\ Len(p) = Len(ReplyPayload(t, 0, 0))
         /\ p = <<Ack>> => Built(t) = "ack" \/ Built(t) = "status"
         /\ Built(t) = "ack" => p = <<Ack>>
         /\ IsTypeC(t[3]) /\ t[4] = VersionInfo => Len(p) = 6
         /\ IsTypeC(t[3]) /\ t[4] = StatusFlags => Len(p) = 13
         /\ IsTypeC(t[3]) /\ t[4] = DipSwitch => p # <<Ack>>
<1> DEFINE p == ReplyPayload(t, status, fill)
           z == ReplyPayload(t, 0, 0)
<1>1. t[2] \in Byte /\ t[3] \in Byte /\ t[4] \in Byte
  BY DEF Malformed
<1>0. 0 \in Byte /\ Ack \in Byte /\ Ack = 6 /\ VersionInfo = 0 /\ StatusFlags = 6 /\ DipSwitch = 2
  BY DEF Byte, Ack, VersionInfo, StatusFlags, DipSwitch
<1>7. VersionInfo # StatusFlags /\ VersionInfo # DipSwitch /\ StatusFlags # DipSwitch
  BY <1>0
<1>2. CASE ~IsTypeC(t[3])
  <2> DEFINE n == PackedLength(AbEntries(t[3], t[4]))
  <2>1. n \in Nat
    BY <1>1, EntriesType, PackedLengthType
  <2>2. p = <<status>> \o Filled(n, fill) /\ z = <<0>> \o Filled(n, 0)
    BY <1>2 DEF ReplyPayload
  <2>3. /\ Filled(n, fill) \in Seq(Byte) /\ Len(Filled(n, fill)) = n
        /\ Filled(n, 0) \in Seq(Byte) /\ Len(Filled(n, 0)) = n
    BY <1>0, <2>1, FilledType
  <2>4. Built(t) = "status"
    BY <1>2 DEF Built
  <2> HIDE DEF p, z, n
  <2>5. p \in Seq(Byte) /\ Len(p) = n + 1 /\ Len(z) = n + 1
    BY <1>0, <2>2, <2>3
  <2> QED
    BY <1>2, <2>1, <2>4, <2>5 DEF p, z
<1>3. CASE IsTypeC(t[3]) /\ t[4] = VersionInfo
  <2>1. p = Filled(5, fill) \o <<status \div 128>> /\ z = Filled(5, 0) \o <<0 \div 128>>
    BY <1>3, <1>7, Zenon DEF ReplyPayload
  <2>3. status \div 128 \in Byte /\ 0 \div 128 \in Byte
    BY DEF Byte
  <2>4. Built(t) = "version"
    BY <1>0, <1>3 DEF Built
  <2> HIDE DEF p, z
  <2>5. p \in Seq(Byte) /\ Len(p) = 6
    BY <1>0, <2>1, <2>3, FilledLengths, Zenon
  <2>6. Len(z) = 6
    BY <1>0, <2>1, <2>3, FilledLengths, Zenon
  <2>7. Len(p) # 1 /\ Len(p) # 0 /\ Len(<<>>) = 0
    BY <2>5
  <2>8. p # <<Ack>> /\ p # <<>>
    BY <2>7, OneElement, Zenon
  <2> QED
    BY <1>0, <1>3, <2>4, <2>5, <2>6, <2>8 DEF p, z
<1>4. CASE IsTypeC(t[3]) /\ t[4] = StatusFlags
  <2>1. p = Filled(6, fill) \o <<0, 0, 0>> \o Filled(4, fill) /\ z = Filled(6, 0) \o <<0, 0, 0>> \o Filled(4, 0)
    BY <1>4, <1>7, Zenon DEF ReplyPayload
  <2>4. Built(t) = "status flags"
    BY <1>0, <1>4 DEF Built
  <2> HIDE DEF p, z
  <2>5. p \in Seq(Byte) /\ Len(p) = 13
    BY <1>0, <2>1, FilledLengths, Zenon
  <2>6. Len(z) = 13
    BY <1>0, <2>1, FilledLengths, Zenon
  <2>7. Len(p) # 1 /\ Len(p) # 0 /\ Len(<<>>) = 0
    BY <2>5
  <2>8. p # <<Ack>> /\ p # <<>>
    BY <2>7, OneElement, Zenon
  <2> QED
    BY <1>4, <1>7, <2>4, <2>5, <2>6, <2>8, Zenon DEF p, z
<1>5. CASE IsTypeC(t[3]) /\ t[4] = DipSwitch
  <2>1. p = <<4 * 16 + (t[2] % 16)>> /\ z = <<4 * 16 + (t[2] % 16)>>
    BY <1>5, <1>7, Zenon DEF ReplyPayload
  <2>2. 4 * 16 + (t[2] % 16) \in Byte /\ 4 * 16 + (t[2] % 16) # 6
    <3>1. \A b \in Byte : 4 * 16 + (b % 16) \in Byte /\ 4 * 16 + (b % 16) # 6
      BY DEF Byte
    <3> QED
      BY <1>1, <3>1
  <2>3. Built(t) = "option and node"
    BY <1>0, <1>5 DEF Built
  <2> HIDE DEF p, z
  <2>4. p \in Seq(Byte) /\ p # <<>> /\ Len(p) = Len(z) /\ p # <<Ack>>
    BY <1>0, <2>1, <2>2
  <2> QED
    BY <1>5, <1>7, <2>3, <2>4 DEF p, z
<1>6. CASE IsTypeC(t[3]) /\ t[4] \notin {VersionInfo, StatusFlags, DipSwitch}
  <2>1. p = <<Ack>> /\ z = <<Ack>>
    BY <1>6, Zenon DEF ReplyPayload
  <2>2. Built(t) = "ack"
    BY <1>6 DEF Built
  <2> HIDE DEF p, z
  <2> QED
    BY <1>0, <1>6, <2>1, <2>2 DEF p, z
<1> QED
  BY <1>2, <1>3, <1>4, <1>5, <1>6

\* A reply is its payload between the start byte and the CRC byte.
LEMMA ReplyType ==
  ASSUME NEW payload \in Seq(Byte)
  PROVE  /\ BuildSlaveReply(payload) \in Seq(Byte)
         /\ Len(BuildSlaveReply(payload)) = Len(payload) + 2
         /\ BuildSlaveReply(payload)[1] = SlaveStart
         /\ Payload(BuildSlaveReply(payload)) = payload
<1> DEFINE head == <<SlaveStart>> \o payload
           crc  == Calculate(head)
<1>1. <<SlaveStart>> \in Seq(Byte) /\ Len(<<SlaveStart>>) = 1 /\ <<SlaveStart>>[1] = SlaveStart
  BY DEF SlaveStart, Byte
<1>2. /\ head \in Seq(Byte) /\ Len(head) = Len(payload) + 1 /\ head[1] = SlaveStart
      /\ \A i \in 1..Len(payload) : head[i + 1] = payload[i]
  BY <1>1
<1>3. BuildSlaveReply(payload) = head \o <<crc>>
  BY DEF BuildSlaveReply, AppendCrc
<1> HIDE DEF head
<1>4. crc \in Byte
  BY <1>2, CalculateAppend
<1> HIDE DEF crc
<1> DEFINE r == head \o <<crc>>
<1>5. /\ r \in Seq(Byte) /\ Len(r) = Len(payload) + 2 /\ r[1] = SlaveStart
      /\ \A i \in 1..Len(payload) : r[i + 1] = payload[i]
  BY <1>2, <1>4
<1> HIDE DEF r
<1>6. SubSeq(r, 2, Len(r) - 1) = payload
  <2> DEFINE q == SubSeq(r, 2, Len(r) - 1)
  <2>1. /\ q \in Seq(Byte) /\ Len(q) = Len(payload)
        /\ \A k \in 1..Len(payload) : q[k] = r[2 + k - 1]
    <3>1. 2 \in 1..Len(r) /\ Len(r) - 1 \in 0..Len(r)
      BY <1>5
    <3> QED
      BY <1>5, <3>1, PieceType
  <2>2. \A k \in 1..Len(payload) : q[k] = payload[k]
    BY <1>5, <2>1
  <2> HIDE DEF q
  <2> QED
    BY <2>1, <2>2, SeqEqual DEF q
<1> QED
  BY <1>3, <1>5, <1>6 DEF Payload, r

-----------------------------------------------------------------------------
(* The invariant.                                                           *)

\* The answers the card may give to t, which was sent as number n.
Replies(t, n) ==
  {Tagged(BuildSlaveReply(ReplyPayload(t, status, fill)), n) : status \in Statuses, fill \in Fills}

\* A card's thread that is closed has nothing before it, one that handles a
\* telegram has accepted it, and only the client's own socket has answers.
CardInv ==
  \A l \in Links :
    /\ place[l] = "closed" => up[l] = <<>>
    /\ place[l] # "handle" => job[l] = <<>>
    /\ place[l] = "handle" => job[l] # <<>> /\ Accepted(Bytes(job[l]))
    /\ l # sock => down[l] = <<>>

\* Where nothing is owed to an earlier send, one thing at most is under way:
\* the end of t, sent as number n, or t in the card, or the whole answer to it.
Fresh(u, d, j, w, t, n) ==
  /\ ~w \/ d # <<>> => u = <<>> /\ j = <<>>
  /\ u # <<>> => j = <<>> /\ \E k \in 1..Len(t) : u = Tagged(SubSeq(t, k, Len(t)), n)
  /\ j # <<>> => u = <<>> /\ j = Tagged(t, n)
  /\ w /\ d # <<>> => d \in Replies(t, n)

\* What the client has so far is the beginning of one answer to t.
IsPart(a, t, n) == \E r \in Replies(t, n) : Len(a) <= Len(r) /\ a = First(Len(a), r)

\* While the client owes no answer to an earlier send, what it has belongs to its
\* last telegram, and so does all that is under way on its connection.
SyncInv ==
  inSync =>
    /\ waiting => answer = <<>>
    /\ answer # <<>> => IsPart(answer, sent[Len(sent)], Len(sent))
    /\ sock # None => Fresh(up[sock], down[sock], job[sock], waiting, sent[Len(sent)], Len(sent))

\* The inductive invariant of Exchange.
ExchangeInv == ExchangeTypeOK /\ CardInv /\ SyncInv

\* Bytes of the first n sends.
Numbered(n) == Seq((1..n) \X Byte)

\* What the sequences of the model are, and that they stay so when one more
\* telegram is sent.
LEMMA NumberedGrows ==
  ASSUME NEW n \in Nat PROVE Numbered(n) \subseteq Numbered(n + 1)
<1>1. (1..n) \X Byte \subseteq (1..(n + 1)) \X Byte
  OBVIOUS
<1> QED
  BY <1>1, SeqGrows DEF Numbered

\* An answer to an accepted telegram carries its number, and is never empty.
LEMMA RepliesType ==
  ASSUME NEW n \in Nat, NEW m \in 1..n, NEW t \in Seq(Byte), ~Malformed(t),
         NEW status \in Statuses, NEW fill \in Fills
  PROVE  LET r == Tagged(BuildSlaveReply(ReplyPayload(t, status, fill)), m) IN
         r \in Numbered(n) /\ r # <<>>
<1> DEFINE p == ReplyPayload(t, status, fill)
           b == BuildSlaveReply(p)
           r == Tagged(b, m)
<1>1. status \in Byte /\ fill \in Byte
  BY RepliesAreBytes
<1>2. p \in Seq(Byte)
  BY <1>1, PayloadType
<1> HIDE DEF p
<1>3. b \in Seq(Byte) /\ Len(b) = Len(p) + 2
  BY <1>2, ReplyType
<1> HIDE DEF b
<1>4. r \in Numbered(n) /\ Len(r) = Len(b)
  BY <1>3, TaggedType DEF Numbered
<1> HIDE DEF r
<1>5. Len(p) \in Nat
  BY <1>2
<1>6. r # <<>>
  BY <1>3, <1>4, <1>5
<1> QED
  BY <1>4, <1>6 DEF r, b, p

\* Of a telegram, or of the end of one, that is alone under way, the card
\* accepts the whole telegram and nothing else.
LEMMA PieceArrives ==
  ASSUME NEW t \in Sends, NEW m, NEW k \in 1..Len(t), NEW s, s = Tagged(SubSeq(t, k, Len(t)), m),
         NEW n \in 1..Len(s)
  PROVE  /\ Accepted(Bytes(First(n, s))) => First(n, s) = Tagged(t, m) /\ Beyond(n, s) = <<>>
         /\ Beyond(n, s) # <<>> =>
              \E j \in 1..Len(t) : Beyond(n, s) = Tagged(SubSeq(t, j, Len(t)), m)
<1> DEFINE piece == SubSeq(t, k, Len(t))
           T == {m} \X Byte
           got == SubSeq(t, k, k + n - 1)
           left == SubSeq(t, k + n, Len(t))
<1>1. t \in Seq(Byte) /\ Len(t) \in Nat /\ \A i \in 1..Len(t) : t[i] \in Byte
  BY SendsAreWhole
<1>2. /\ piece \in Seq(Byte) /\ Len(piece) = Len(t) - k + 1
      /\ \A i \in 1..(Len(t) - k + 1) : piece[i] = t[k + i - 1]
  BY <1>1, PieceType
<1> HIDE DEF piece
<1>3. /\ s \in Seq(T) /\ Len(s) = Len(t) - k + 1
      /\ \A i \in 1..Len(s) : s[i] = <<m, t[k + i - 1]>>
  <2>1. s = Tagged(piece, m) /\ m \in {m}
    BY DEF piece
  <2>2. /\ s \in Seq(T) /\ Len(s) = Len(piece)
        /\ \A i \in 1..Len(piece) : s[i] = <<m, piece[i]>>
    BY <1>2, <2>1, TaggedType
  <2> QED
    BY <1>2, <2>2
<1>4. /\ k + n - 1 \in k..Len(t) /\ k + n - 1 \in 0..Len(t)
      /\ (k + n - 1) - k + 1 = n
  BY <1>1, <1>3
<1>5. /\ got \in Seq(Byte) /\ Len(got) = n /\ \A i \in 1..n : got[i] = t[k + i - 1]
  BY <1>1, <1>4, PieceType
<1>6. /\ First(n, s) \in Seq(T) /\ Len(First(n, s)) = n
      /\ \A i \in 1..n : First(n, s)[i] = s[i]
      /\ Beyond(n, s) \in Seq(T) /\ Len(Beyond(n, s)) = Len(s) - n
      /\ \A i \in 1..(Len(s) - n) : Beyond(n, s)[i] = s[n + i]
  BY <1>3, FirstBeyond
<1>7. \A i \in 1..n : First(n, s)[i] = <<m, t[k + i - 1]>>
  BY <1>3, <1>6
<1>8. Bytes(First(n, s)) = got
  <2>1. /\ Bytes(First(n, s)) \in Seq(Byte) /\ Len(Bytes(First(n, s))) = n
        /\ \A i \in 1..n : Bytes(First(n, s))[i] = First(n, s)[i][2]
    <3> DEFINE f == First(n, s)
    <3>1. f \in Seq({m} \X Byte) /\ Len(f) = n
      BY <1>6
    <3> HIDE DEF f
    <3>2. /\ Bytes(f) \in Seq(Byte) /\ Len(Bytes(f)) = n
          /\ \A i \in 1..n : Bytes(f)[i] = f[i][2]
      BY <3>1, BytesType
    <3> QED
      BY <3>2 DEF f
  <2>2. ASSUME NEW i \in 1..n PROVE Bytes(First(n, s))[i] = got[i]
    <3>1. Bytes(First(n, s))[i] = <<m, t[k + i - 1]>>[2]
      BY <1>7, <2>1
    <3>2. got[i] = t[k + i - 1]
      BY <1>5
    <3> QED
      BY <3>1, <3>2
  <2> QED
    BY <1>5, <2>1, <2>2, SeqEqual
<1>9. ASSUME Accepted(Bytes(First(n, s)))
      PROVE  First(n, s) = Tagged(t, m) /\ Beyond(n, s) = <<>>
  <2>1. k = 1 /\ k + n - 1 = Len(t)
    <3>1. ~Malformed(got) /\ Verify(got)
      BY <1>8, <1>9 DEF Accepted
    <3>2. k + n - 1 \in 1..Len(t)
      BY <1>4
    <3> QED
      BY <3>1, <3>2, SendsAreWhole
  <2>2. n = Len(t) /\ \A i \in 1..n : First(n, s)[i] = <<m, t[i]>>
    BY <1>1, <1>7, <2>1
  <2>3. /\ Tagged(t, m) \in Seq(T) /\ Len(Tagged(t, m)) = Len(t)
        /\ \A i \in 1..Len(t) : Tagged(t, m)[i] = <<m, t[i]>>
    BY <1>1, TaggedType
  <2>4. First(n, s) = Tagged(t, m)
    <3>1. \A i \in 1..n : First(n, s)[i] = Tagged(t, m)[i]
      BY <2>2, <2>3
    <3> QED
      BY <1>6, <2>2, <2>3, <3>1, SeqEqual
  <2>5. Len(Beyond(n, s)) = 0
    BY <1>1, <1>3, <1>6, <2>1
  <2>6. Beyond(n, s) = <<>>
    BY <1>6, <2>5
  <2> QED
    BY <2>4, <2>6
<1>10. ASSUME Beyond(n, s) # <<>>
       PROVE  \E j \in 1..Len(t) : Beyond(n, s) = Tagged(SubSeq(t, j, Len(t)), m)
  <2>1. Len(Beyond(n, s)) # 0
    BY <1>6, <1>10
  <2>2. k + n \in 1..Len(t) /\ Len(t) \in 0..Len(t)
    <3>1. n # Len(s)
      BY <1>3, <1>6, <2>1
    <3>2. n < Len(t) - k + 1
      BY <1>3, <3>1
    <3> QED
      BY <1>1, <3>2
  <2>3. /\ left \in Seq(Byte) /\ Len(left) = Len(t) - (k + n) + 1
        /\ \A i \in 1..(Len(t) - (k + n) + 1) : left[i] = t[(k + n) + i - 1]
    BY <1>1, <2>2, PieceType
  <2>4. /\ Tagged(left, m) \in Seq(T) /\ Len(Tagged(left, m)) = Len(left)
        /\ \A i \in 1..Len(left) : Tagged(left, m)[i] = <<m, left[i]>>
    BY <2>3, TaggedType
  <2> HIDE DEF left
  <2>5. Len(Tagged(left, m)) = Len(Beyond(n, s))
    BY <1>3, <1>6, <2>2, <2>3, <2>4
  <2>6. ASSUME NEW i \in 1..Len(Beyond(n, s)) PROVE Beyond(n, s)[i] = Tagged(left, m)[i]
    <3>1. i \in 1..(Len(s) - n) /\ n + i \in 1..Len(s) /\ i \in 1..Len(left)
      BY <1>3, <1>6, <2>4, <2>5
    <3>2. Beyond(n, s)[i] = <<m, t[k + (n + i) - 1]>>
      BY <1>3, <1>6, <3>1
    <3>3. Tagged(left, m)[i] = <<m, t[(k + n) + i - 1]>>
      BY <2>3, <2>4, <3>1
    <3>4. k + (n + i) - 1 = (k + n) + i - 1
      OBVIOUS
    <3> QED
      BY <3>2, <3>3, <3>4
  <2>7. Beyond(n, s) = Tagged(left, m)
    BY <1>6, <2>4, <2>5, <2>6, SeqEqual
  <2> QED
    BY <2>2, <2>7 DEF left
<1> QED
  BY <1>9, <1>10

-----------------------------------------------------------------------------
(* Every step keeps it.                                                     *)

\* Nothing is connected, sent or under way.
LEMMA ExchangeInvInit == ExchangeInit => ExchangeInv
<1> SUFFICES ASSUME ExchangeInit PROVE ExchangeInv
  OBVIOUS
<1>1. ExchangeTypeOK
  <2>1. \A M : <<>> \in Seq(M)
    OBVIOUS
  <2> QED
    BY <2>1 DEF ExchangeInit, ExchangeTypeOK
<1>2. CardInv
  BY DEF ExchangeInit, CardInv
<1>3. SyncInv
  BY DEF ExchangeInit, SyncInv
<1> QED
  BY <1>1, <1>2, <1>3 DEF ExchangeInv

\* A connection with nothing under way is as good as new.
LEMMA FreshEmpty ==
  /\ \A d, w, t, n : ~w => Fresh(<<>>, d, <<>>, w, t, n)
  /\ \A w, t, n : Fresh(<<>>, <<>>, <<>>, w, t, n)
  BY DEF Fresh

\* connect takes a connection with nothing under way.
LEMMA ConnectKeeps ==
  ASSUME ExchangeInv, NEW l \in Links, Connect(l) PROVE ExchangeInv'
<1> USE DEF ExchangeInv, Connect, Drop
<1>1. ExchangeTypeOK'
  BY NoneIsNoLink DEF ExchangeTypeOK
<1>2. up[l] = <<>> /\ job[l] = <<>> /\ down[l] = <<>>
  BY DEF CardInv
<1>3. CardInv'
  BY <1>2 DEF CardInv, ExchangeTypeOK
<1>4. SyncInv'
  <2>1. up'[l] = <<>> /\ job'[l] = <<>> /\ ~waiting' /\ sock' = l /\ answer' = <<>>
    BY <1>2 DEF ExchangeTypeOK
  <2> QED
    BY <2>1, FreshEmpty, Zenon DEF SyncInv
<1> QED
  BY <1>1, <1>3, <1>4

\* A client that leaves its connection loses the answers on their way.
LEMMA LeaveKeeps ==
  ASSUME ExchangeInv, ConnectFails \/ Disconnect PROVE ExchangeInv'
<1> USE DEF ExchangeInv, ConnectFails, Disconnect, Drop
<1>1. ExchangeTypeOK'
  <2>1. sent' = sent /\ down' \in [Links -> Numbered(Len(sent))]
    <3>1. <<>> \in Numbered(Len(sent)) /\ \A l \in Links : down[l] \in Numbered(Len(sent))
      BY DEF ExchangeTypeOK, Numbered
    <3>2. down' = [k \in Links |-> IF k = sock THEN <<>> ELSE down[k]] /\ sent' = sent
      OBVIOUS
    <3> QED
      BY <3>1, <3>2
  <2>2. CASE ConnectFails
    BY <2>1, <2>2 DEF ExchangeTypeOK, Numbered
  <2>3. CASE Disconnect
    BY <2>1, <2>3 DEF ExchangeTypeOK, Numbered
  <2> QED
    BY <2>2, <2>3
<1>2. CardInv'
  BY DEF CardInv, ExchangeTypeOK
<1>3. SyncInv'
  BY DEF SyncInv
<1> QED
  BY <1>1, <1>2, <1>3

\* A telegram is sent on a connection with nothing under way, or the history
\* says that an answer is owed.
LEMMA SendKeeps ==
  ASSUME ExchangeInv, NEW t \in Sends, Send(t) PROVE ExchangeInv'
<1> DEFINE n == Len(sent)
<1> USE DEF ExchangeInv
<1>1. /\ n \in Nat /\ sent' = Append(sent, t) /\ sent' \in Seq(Sends) /\ Len(sent') = n + 1
      /\ sent'[n + 1] = t
  BY DEF Send, ExchangeTypeOK
<1>2. t \in Seq(Byte) /\ t # <<>>
  BY SendsAreWhole DEF Malformed
<1>3. sock \in Links
  BY DEF Send, ExchangeTypeOK
<1> HIDE DEF n
<1>4. Tagged(t, n + 1) \in Numbered(n + 1)
  <2>1. n + 1 \in 1..(n + 1)
    BY <1>1
  <2> QED
    BY <1>2, <2>1, TaggedType DEF Numbered
<1>5. Numbered(n) \subseteq Numbered(n + 1) /\ <<>> \in Numbered(n + 1)
  BY <1>1, NumberedGrows DEF Numbered
<1>6. /\ up \in [Links -> Numbered(n)] /\ down \in [Links -> Numbered(n)]
      /\ job \in [Links -> Numbered(n)]
  BY DEF ExchangeTypeOK, Numbered, n
<1>7. \A s \in Numbered(n) : s \o Tagged(t, n + 1) \in Numbered(n + 1)
  BY <1>4, <1>5 DEF Numbered
<1>8. /\ up' \in [Links -> Numbered(n + 1)] /\ down' \in [Links -> Numbered(n + 1)]
      /\ job' \in [Links -> Numbered(n + 1)]
  <2>1. up' = [up EXCEPT ![sock] = IF place[sock] = "closed" THEN @ ELSE @ \o Tagged(t, n + 1)]
    BY <1>1 DEF Send
  <2>2. down' = down /\ job' = job
    BY DEF Send
  <2> QED
    BY <1>3, <1>5, <1>6, <1>7, <2>1, <2>2
<1>9. ExchangeTypeOK'
  BY <1>1, <1>5, <1>8 DEF Send, ExchangeTypeOK, Numbered
<1>10. CardInv'
  BY <1>3, <1>6 DEF CardInv, Send
<1>11. SyncInv'
  <2> SUFFICES ASSUME inSync' PROVE SyncInv'
    BY DEF SyncInv
  <2>1. /\ inSync /\ down[sock] = <<>> /\ ~waiting /\ waiting' /\ answer' = <<>> /\ sock' = sock
        /\ down' = down /\ job' = job
    BY DEF Send
  <2>2. up[sock] = <<>> /\ job[sock] = <<>>
    BY <1>3, <2>1, NoneIsNoLink DEF SyncInv, Fresh
  <2>3. up'[sock] = <<>> \/ up'[sock] = Tagged(t, n + 1)
    <3>1. <<>> \o Tagged(t, n + 1) = Tagged(t, n + 1)
      BY <1>4, ConcatEmptySeq DEF Numbered
    <3> QED
      BY <1>1, <1>3, <1>6, <2>2, <3>1 DEF Send
  <2>4. SubSeq(t, 1, Len(t)) = t /\ 1 \in 1..Len(t)
    BY <1>2, SubSeqFull
  <2>5. Fresh(up'[sock], down'[sock], job'[sock], waiting', t, n + 1)
    BY <2>1, <2>2, <2>3, <2>4 DEF Fresh
  <2> QED
    BY <1>1, <2>1, <2>5 DEF SyncInv
<1> QED
  BY <1>9, <1>10, <1>11

\* The client gives up waiting, or finds its connection lost.
LEMMA EndKeeps ==
  ASSUME ExchangeInv, SendFails \/ SendTimesOut \/ RecvTimeout \/ RecvEmpty \/ RecvRaises PROVE ExchangeInv'
<1> USE DEF ExchangeInv
<1>1. ExchangeTypeOK'
  <2>1. CASE SendFails
    <3>1. <<>> \in Seq((1..Len(sent)) \X Byte)
      OBVIOUS
    <3>2. /\ answer' = <<>> /\ connected' = FALSE /\ ~waiting
          /\ UNCHANGED <<sock, waiting, sent, up, down, place, job, inSync>>
      BY <2>1 DEF SendFails
    <3> QED
      BY <3>1, <3>2 DEF ExchangeTypeOK
  <2>2. CASE RecvTimeout
    BY <2>2 DEF ExchangeTypeOK, RecvTimeout
  <2>3. CASE RecvEmpty
    BY <2>3 DEF ExchangeTypeOK, RecvEmpty
  <2>4. CASE RecvRaises
    BY <2>4 DEF ExchangeTypeOK, RecvRaises
  <2>5. CASE SendTimesOut
    <3>1. <<>> \in Seq((1..Len(sent)) \X Byte)
      OBVIOUS
    <3>2. /\ answer' = <<>>
          /\ UNCHANGED <<sock, connected, waiting, sent, up, down, place, job, inSync>>
      BY <2>5 DEF SendTimesOut
    <3> QED
      BY <3>1, <3>2 DEF ExchangeTypeOK
  <2> QED
    BY <2>1, <2>2, <2>3, <2>4, <2>5
<1>2. CardInv'
  BY DEF CardInv, SendFails, SendTimesOut, RecvTimeout, RecvEmpty, RecvRaises
<1>3. SyncInv'
  <2>1. CASE SendFails \/ SendTimesOut
    BY <2>1 DEF SyncInv, SendFails, SendTimesOut
  <2>2. CASE RecvTimeout
    BY <2>2 DEF SyncInv, RecvTimeout
  <2>3. CASE RecvEmpty \/ RecvRaises
    <3> SUFFICES ASSUME inSync PROVE SyncInv'
      BY <2>3 DEF SyncInv, RecvEmpty, RecvRaises
    <3>1. /\ ~waiting' /\ waiting /\ UNCHANGED <<sock, answer, sent, up, down, place, job, inSync>>
          /\ place[sock] = "closed" /\ sock \in Links
      BY <2>3, NoneIsNoLink DEF RecvEmpty, RecvRaises, ExchangeTypeOK
    <3>2. up[sock] = <<>> /\ job[sock] = <<>> /\ answer = <<>>
      BY <3>1 DEF CardInv, SyncInv
    <3> QED
      BY <3>1, <3>2, FreshEmpty, Zenon DEF SyncInv
  <2> QED
    BY <2>1, <2>2, <2>3
<1> QED
  BY <1>1, <1>2, <1>3

\* What recv() returns of the answer is its beginning.
LEMMA RecvAnswerKeeps ==
  ASSUME ExchangeInv, sock # None, NEW n \in Received(down[sock]), RecvAnswer(n) PROVE ExchangeInv'
<1> DEFINE M == (1..Len(sent)) \X Byte
           d == down[sock]
<1> USE DEF ExchangeInv
<1>1. sock \in Links /\ d \in Seq(M)
  BY DEF ExchangeTypeOK
<1>2. n \in 1..Len(d)
  BY <1>1, ReceivedSome
<1>3. /\ First(n, d) \in Seq(M) /\ Len(First(n, d)) = n
      /\ Beyond(n, d) \in Seq(M)
  BY <1>1, <1>2, FirstBeyond
<1>4. /\ waiting /\ ~waiting' /\ answer' = First(n, d) /\ down' = [down EXCEPT ![sock] = Beyond(n, d)]
      /\ UNCHANGED <<sock, connected, sent, up, place, job, inSync>> /\ waiting' = FALSE
  BY DEF RecvAnswer
<1>5. ExchangeTypeOK'
  BY <1>1, <1>3, <1>4 DEF ExchangeTypeOK
<1>6. CardInv'
  BY <1>1, <1>4 DEF CardInv, ExchangeTypeOK
<1>7. SyncInv'
  <2> SUFFICES ASSUME inSync PROVE SyncInv'
    BY <1>4 DEF SyncInv
  <2>1. d # <<>>
    BY <1>1, <1>2
  <2>2. d \in Replies(sent[Len(sent)], Len(sent)) /\ up[sock] = <<>> /\ job[sock] = <<>>
    BY <1>4, <2>1 DEF SyncInv, Fresh
  <2>3. Len(answer') = n /\ n <= Len(d) /\ answer' = First(n, d)
    BY <1>1, <1>2, <1>3, <1>4
  <2>4. IsPart(answer', sent[Len(sent)], Len(sent))
    BY <2>2, <2>3 DEF IsPart
  <2> QED
    BY <1>4, <2>2, <2>4, FreshEmpty, Zenon DEF SyncInv
<1> QED
  BY <1>5, <1>6, <1>7

\* What the card accepts on the client's connection is the telegram that was
\* sent last, all of it and nothing else.
LEMMA CardReceivesKeeps ==
  ASSUME ExchangeInv, NEW l \in Links, NEW n \in Received(up[l]), CardReceives(l, n)
  PROVE  ExchangeInv'
<1> DEFINE M == (1..Len(sent)) \X Byte
           u == up[l]
           ok == Accepted(Bytes(First(n, u)))
<1> USE DEF ExchangeInv
<1>1. u \in Seq(M)
  BY DEF ExchangeTypeOK
<1>2. n \in 1..Len(u)
  BY <1>1, ReceivedSome
<1>3. /\ First(n, u) \in Seq(M) /\ First(n, u) # <<>> /\ Beyond(n, u) \in Seq(M)
  BY <1>1, <1>2, FirstBeyond
<1>4. /\ place[l] = "recv" /\ up' = [up EXCEPT ![l] = Beyond(n, u)]
      /\ UNCHANGED <<sock, connected, waiting, answer, sent, down, inSync>>
      /\ ok => /\ place' = [place EXCEPT ![l] = "handle"]
               /\ job' = [job EXCEPT ![l] = First(n, u)]
      /\ ~ok => place' = place /\ job' = job
  BY DEF CardReceives, clientVars
<1> HIDE DEF ok
<1>5. ExchangeTypeOK'
  <2>1. CASE ok
    BY <1>3, <1>4, <2>1 DEF ExchangeTypeOK
  <2>2. CASE ~ok
    BY <1>3, <1>4, <2>2 DEF ExchangeTypeOK
  <2> QED
    BY <2>1, <2>2
<1>6. job[l] = <<>>
  BY <1>4 DEF CardInv
<1>7. CardInv'
  <2>1. ok => Accepted(Bytes(First(n, u)))
    BY DEF ok
  <2>2. /\ place'[l] # "closed"
        /\ place'[l] # "handle" => job'[l] = <<>>
        /\ place'[l] = "handle" => job'[l] # <<>> /\ Accepted(Bytes(job'[l]))
    <3>1. CASE ok
      BY <1>3, <1>4, <2>1, <3>1 DEF ExchangeTypeOK
    <3>2. CASE ~ok
      BY <1>4, <1>6, <3>2
    <3> QED
      BY <3>1, <3>2
  <2>3. \A k \in Links \ {l} : place'[k] = place[k] /\ up'[k] = up[k] /\ job'[k] = job[k]
    BY <1>4 DEF ExchangeTypeOK
  <2> QED
    BY <1>4, <2>2, <2>3 DEF CardInv
<1>8. SyncInv'
  <2> SUFFICES ASSUME inSync, sock # None
               PROVE  Fresh(up'[sock], down[sock], job'[sock], waiting, sent[Len(sent)], Len(sent))
    BY <1>4 DEF SyncInv
  <2>1. CASE l # sock
    <3>1. up'[sock] = up[sock] /\ job'[sock] = job[sock]
      BY <1>4, <2>1 DEF ExchangeTypeOK
    <3> QED
      BY <3>1 DEF SyncInv
  <2>2. CASE l = sock
    <3> DEFINE N == Len(sent)
               t == sent[N]
    <3>1. u # <<>>
      BY <1>1, <1>2
    <3>2. N \in Nat /\ N # 0
      <4>1. u[1] \in M
        BY <1>1, <1>2
      <4> QED
        BY <4>1 DEF ExchangeTypeOK
    <3>3. t \in Sends
      BY <3>2 DEF ExchangeTypeOK
    <3> HIDE DEF N, t
    <3>4. /\ waiting /\ down[sock] = <<>>
          /\ \E k \in 1..Len(t) : u = Tagged(SubSeq(t, k, Len(t)), N)
      BY <2>2, <3>1 DEF SyncInv, Fresh, N, t
    <3>5. /\ ok => First(n, u) = Tagged(t, N) /\ Beyond(n, u) = <<>>
          /\ Beyond(n, u) # <<>> =>
               \E j \in 1..Len(t) : Beyond(n, u) = Tagged(SubSeq(t, j, Len(t)), N)
      BY <1>2, <3>3, <3>4, PieceArrives DEF ok
    <3>6. up'[sock] = Beyond(n, u)
      BY <1>4, <2>2 DEF ExchangeTypeOK
    <3>7. ok => job'[sock] = First(n, u)
      BY <1>4, <2>2 DEF ExchangeTypeOK
    <3>8. ~ok => job'[sock] = <<>>
      BY <1>4, <1>6, <2>2
    <3> HIDE DEF u
    <3>9. Fresh(up'[sock], down[sock], job'[sock], waiting, t, N)
      <4>1. CASE ok
        BY <3>4, <3>5, <3>6, <3>7, <4>1 DEF Fresh
      <4>2. CASE ~ok
        BY <3>4, <3>5, <3>6, <3>8, <4>2 DEF Fresh
      <4> QED
        BY <4>1, <4>2
    <3> QED
      BY <3>9 DEF N, t
  <2> QED
    BY <2>1, <2>2
<1> QED
  BY <1>5, <1>7, <1>8

\* The answer carries the number of the telegram it answers.
LEMMA CardAnswersKeeps ==
  ASSUME ExchangeInv, NEW l \in Links, NEW status \in Statuses, NEW fill \in Fills,
         CardAnswers(l, status, fill)
  PROVE  ExchangeInv'
<1> DEFINE M == (1..Len(sent)) \X Byte
           j == job[l]
           r == Tagged(BuildSlaveReply(ReplyPayload(Bytes(j), status, fill)), j[1][1])
<1> USE DEF ExchangeInv
<1>1. /\ place[l] = "handle" /\ place' = [place EXCEPT ![l] = "recv"]
      /\ job' = [job EXCEPT ![l] = <<>>]
      /\ down' = [down EXCEPT ![l] = IF l # sock THEN @ ELSE @ \o r]
      /\ UNCHANGED <<sock, connected, waiting, answer, sent, up, inSync>>
  BY DEF CardAnswers, CardMoves, clientVars
<1>2. j \in Seq(M) /\ j # <<>> /\ Accepted(Bytes(j))
  BY <1>1 DEF CardInv, ExchangeTypeOK
<1>3. Bytes(j) \in Seq(Byte) /\ ~Malformed(Bytes(j))
  BY <1>2, BytesType DEF Accepted
<1>4. j[1][1] \in 1..Len(sent) /\ Len(sent) \in Nat
  <2>1. j[1] \in M
    BY <1>2
  <2> QED
    BY <2>1 DEF ExchangeTypeOK
<1>5. r \in Numbered(Len(sent)) /\ r # <<>>
  BY <1>3, <1>4, RepliesType
<1> HIDE DEF r
<1>6. ExchangeTypeOK'
  <2>1. down' \in [Links -> Seq(M)]
    <3>1. down[l] \o r \in Seq(M)
      BY <1>5 DEF ExchangeTypeOK, Numbered
    <3> QED
      BY <1>1, <3>1 DEF ExchangeTypeOK
  <2>2. <<>> \in Seq(M)
    OBVIOUS
  <2> QED
    BY <1>1, <2>1, <2>2 DEF ExchangeTypeOK
<1>7. CardInv'
  <2>1. job'[l] = <<>> /\ place'[l] = "recv" /\ (l # sock => down'[l] = down[l])
    BY <1>1 DEF ExchangeTypeOK
  <2>2. \A k \in Links \ {l} : place'[k] = place[k] /\ down'[k] = down[k] /\ job'[k] = job[k]
    BY <1>1 DEF ExchangeTypeOK
  <2> QED
    BY <1>1, <2>1, <2>2 DEF CardInv
<1>8. SyncInv'
  <2> SUFFICES ASSUME inSync, sock # None
               PROVE  Fresh(up[sock], down'[sock], job'[sock], waiting, sent[Len(sent)], Len(sent))
    BY <1>1 DEF SyncInv
  <2>1. CASE l # sock
    <3>1. down'[sock] = down[sock] /\ job'[sock] = job[sock]
      BY <1>1, <2>1 DEF ExchangeTypeOK
    <3> QED
      BY <3>1 DEF SyncInv
  <2>2. CASE l = sock
    <3> DEFINE N == Len(sent)
               t == sent[N]
    <3>1. t \in Sends
      BY <1>4 DEF ExchangeTypeOK
    <3> HIDE DEF N, t
    <3>2. waiting /\ down[sock] = <<>> /\ up[sock] = <<>> /\ j = Tagged(t, N)
      BY <1>2, <2>2 DEF SyncInv, Fresh, N, t
    <3>3. t \in Seq(Byte) /\ Len(t) >= 1
      BY <3>1, SendsAreWhole DEF Malformed
    <3>4. Bytes(j) = t /\ j[1] = <<N, t[1]>>
      <4>1. N \in {N} /\ 1 \in 1..Len(t)
        BY <3>3
      <4> QED
        BY <3>2, <3>3, <4>1, TaggedType
    <3>5. j[1][1] = N
      BY <3>4
    <3>6. r \in Replies(t, N)
      BY <3>4, <3>5 DEF r, Replies
    <3>7. down'[sock] = r /\ job'[sock] = <<>>
      <4>1. <<>> \o r = r
        BY <1>5, ConcatEmptySeq DEF Numbered
      <4> QED
        BY <1>1, <2>2, <3>2, <4>1 DEF ExchangeTypeOK
    <3>8. Fresh(up[sock], down'[sock], job'[sock], waiting, t, N)
      BY <3>2, <3>6, <3>7 DEF Fresh
    <3> QED
      BY <3>8 DEF N, t
  <2> QED
    BY <2>1, <2>2
<1> QED
  BY <1>6, <1>7, <1>8

\* A card that does not answer, and one that closes the connection.
LEMMA CardEndsKeeps ==
  ASSUME ExchangeInv, NEW l \in Links, CardIsSilent(l) \/ CardCloses(l) PROVE ExchangeInv'
<1> USE DEF ExchangeInv
<1>1. /\ place' \in [Links -> {"recv", "handle", "closed"}] /\ place'[l] # "handle"
      /\ \A k \in Links \ {l} : place'[k] = place[k] /\ up'[k] = up[k]
      /\ job' = [job EXCEPT ![l] = <<>>]
      /\ up'[l] = <<>> \/ (up'[l] = up[l] /\ place'[l] = "recv")
      /\ up' \in [Links -> Seq((1..Len(sent)) \X Byte)]
      /\ UNCHANGED <<sock, connected, waiting, answer, sent, down, inSync>>
  <2>1. <<>> \in Seq((1..Len(sent)) \X Byte)
    OBVIOUS
  <2>2. /\ up \in [Links -> Seq((1..Len(sent)) \X Byte)]
        /\ place \in [Links -> {"recv", "handle", "closed"}]
    BY DEF ExchangeTypeOK
  <2>3. /\ place' \in {[place EXCEPT ![l] = "recv"], [place EXCEPT ![l] = "closed"]}
        /\ job' = [job EXCEPT ![l] = <<>>]
        /\ up' = [up EXCEPT ![l] = <<>>] \/ (up' = up /\ place' = [place EXCEPT ![l] = "recv"])
        /\ UNCHANGED <<sock, connected, waiting, answer, sent, down, inSync>>
    <3>1. CASE CardIsSilent(l)
      BY <3>1 DEF CardIsSilent, CardMoves, clientVars
    <3>2. CASE CardCloses(l)
      <4>1. CASE CardMoves(l, "recv", "closed")
        <5>1. /\ place' = [place EXCEPT ![l] = "closed"] /\ job' = [job EXCEPT ![l] = <<>>]
          BY <4>1 DEF CardMoves
        <5>2. up' = [up EXCEPT ![l] = <<>>]
          BY <3>2 DEF CardCloses
        <5>3. UNCHANGED <<sock, connected, waiting, answer, sent, down, inSync>>
          BY <3>2, <4>1 DEF CardCloses, CardMoves, clientVars
        <5> QED
          BY <5>1, <5>2, <5>3, Zenon
      <4>2. CASE CardMoves(l, "handle", "closed")
        <5>1. /\ place' = [place EXCEPT ![l] = "closed"] /\ job' = [job EXCEPT ![l] = <<>>]
          BY <4>2 DEF CardMoves
        <5>2. up' = [up EXCEPT ![l] = <<>>]
          BY <3>2 DEF CardCloses
        <5>3. UNCHANGED <<sock, connected, waiting, answer, sent, down, inSync>>
          BY <3>2, <4>2 DEF CardCloses, CardMoves, clientVars
        <5> QED
          BY <5>1, <5>2, <5>3, Zenon
      <4> QED
        BY <3>2, <4>1, <4>2 DEF CardCloses
    <3> QED
      BY <3>1, <3>2
  <2>4. CASE up' = up /\ place' = [place EXCEPT ![l] = "recv"]
    BY <2>2, <2>3, <2>4
  <2>5. CASE up' = [up EXCEPT ![l] = <<>>]
    BY <2>1, <2>2, <2>3, <2>5
  <2> QED
    BY <2>3, <2>4, <2>5
<1>2. ExchangeTypeOK'
  <2>1. <<>> \in Seq((1..Len(sent)) \X Byte)
    OBVIOUS
  <2> QED
    BY <1>1, <2>1 DEF ExchangeTypeOK
<1>3. CardInv'
  BY <1>1 DEF CardInv, ExchangeTypeOK
<1>4. SyncInv'
  <2> SUFFICES ASSUME inSync, sock # None
               PROVE  Fresh(up'[sock], down[sock], job'[sock], waiting, sent[Len(sent)], Len(sent))
    BY <1>1 DEF SyncInv
  <2>1. up'[sock] \in {<<>>, up[sock]} /\ job'[sock] \in {<<>>, job[sock]}
    BY <1>1 DEF ExchangeTypeOK
  <2> QED
    BY <2>1 DEF SyncInv, Fresh
<1> QED
  BY <1>2, <1>3, <1>4

\* No step breaks it.
LEMMA ExchangeInvNext == ExchangeInv /\ [ExchangeNext]_exchangeVars => ExchangeInv'
<1> SUFFICES ASSUME ExchangeInv, [ExchangeNext]_exchangeVars PROVE ExchangeInv'
  OBVIOUS
<1>1. CASE UNCHANGED exchangeVars
  BY <1>1 DEF exchangeVars, clientVars, ExchangeInv, ExchangeTypeOK, CardInv, SyncInv
<1>2. CASE ClientGoes
  BY <1>2, ConnectKeeps, LeaveKeeps, SendKeeps, EndKeeps, RecvAnswerKeeps DEF ClientGoes
<1>3. ASSUME NEW l \in Links, CardGoes(l) PROVE ExchangeInv'
  BY <1>3, CardReceivesKeeps, CardAnswersKeeps, CardEndsKeeps DEF CardGoes
<1> QED
  BY <1>1, <1>2, <1>3 DEF ExchangeNext

\* It holds throughout.
LEMMA ExchangeInvariance == ExchangeSpec => []ExchangeInv
  BY ExchangeInvInit, ExchangeInvNext, PTL DEF ExchangeSpec

-----------------------------------------------------------------------------
(* The theorems.                                                            *)

\* Bytes that carry a number belong to it.
LEMMA OwnersOf ==
  ASSUME NEW n, NEW s \in Seq({n} \X Byte) PROVE Owners(s) \subseteq {n}
<1>1. \A i \in 1..Len(s) : s[i] \in {n} \X Byte
  OBVIOUS
<1> QED
  BY <1>1 DEF Owners

\* Every answer to t is as long as any other, carries the number of t, and is
\* a whole reply around one of the payloads.
LEMMA RepliesAre ==
  ASSUME NEW t \in Sends, NEW n, NEW r \in Replies(t, n)
  PROVE  /\ r \in Seq({n} \X Byte)
         /\ Len(r) = Len(BuildSlaveReply(ReplyPayload(t, 0, 0))) /\ Len(r) >= 3
         /\ \E status \in Statuses, fill \in Fills :
              Bytes(r) = BuildSlaveReply(ReplyPayload(t, status, fill))
<1>1. PICK status \in Statuses, fill \in Fills :
        r = Tagged(BuildSlaveReply(ReplyPayload(t, status, fill)), n)
  BY DEF Replies
<1> DEFINE p == ReplyPayload(t, status, fill)
           z == ReplyPayload(t, 0, 0)
           b == BuildSlaveReply(p)
<1>2. t \in Seq(Byte) /\ ~Malformed(t) /\ status \in Byte /\ fill \in Byte /\ 0 \in Byte
  BY SendsAreWhole, RepliesAreBytes DEF Byte
<1>3. p \in Seq(Byte) /\ p # <<>> /\ Len(p) = Len(z)
  BY <1>2, PayloadType
<1>4. z \in Seq(Byte)
  BY <1>2, PayloadType
<1> HIDE DEF p, z
<1>5. b \in Seq(Byte) /\ Len(b) = Len(p) + 2
  BY <1>3, ReplyType
<1>6. Len(BuildSlaveReply(z)) = Len(z) + 2
  BY <1>4, ReplyType
<1>7. Len(p) >= 1
  BY <1>3
<1> HIDE DEF b
<1>8. r = Tagged(b, n) /\ n \in {n}
  BY <1>1 DEF b, p
<1>9. r \in Seq({n} \X Byte) /\ Len(r) = Len(b) /\ Bytes(r) = b
  BY <1>5, <1>8, TaggedType
<1>10. Len(r) = Len(BuildSlaveReply(z)) /\ Len(r) >= 3
  BY <1>3, <1>5, <1>6, <1>7, <1>9
<1> QED
  BY <1>9, <1>10 DEF b, p, z

\* There is a last telegram where anything has come or is under way.
LEMMA LastSent ==
  ASSUME ExchangeTypeOK, NEW s \in Seq((1..Len(sent)) \X Byte), s # <<>>
  PROVE  Len(sent) \in Nat \ {0} /\ sent[Len(sent)] \in Sends
<1>1. s[1] \in (1..Len(sent)) \X Byte
  OBVIOUS
<1>2. Len(sent) \in Nat /\ 1 <= Len(sent)
  BY <1>1 DEF ExchangeTypeOK
<1> QED
  BY <1>2 DEF ExchangeTypeOK

\* The state of the client, of the streams and of the card has its type: the
\* numbers under way are those of telegrams that were sent.
THEOREM ExchangeType == ExchangeSpec => []ExchangeTypeOK
<1>1. ExchangeInv => ExchangeTypeOK
  BY DEF ExchangeInv
<1> QED
  BY <1>1, ExchangeInvariance, PTL

\* tcp_client.send returns bytes of the answer to the telegram it was called
\* with, while no earlier send has left an answer behind on the connection.
THEOREM AnswersAreOwn == ExchangeSpec => []AnswerIsOwn
<1>1. ASSUME ExchangeInv PROVE AnswerIsOwn
  <2> SUFFICES ASSUME inSync PROVE Owners(answer) \subseteq {Len(sent)}
    BY DEF AnswerIsOwn
  <2>1. CASE answer = <<>>
    BY <2>1 DEF Owners
  <2>2. CASE answer # <<>>
    <3> DEFINE N == Len(sent)
               t == sent[N]
    <3>1. t \in Sends
      BY <1>1, <2>2, LastSent DEF ExchangeInv, ExchangeTypeOK
    <3>2. PICK r \in Replies(t, N) : Len(answer) <= Len(r) /\ answer = First(Len(answer), r)
      BY <1>1, <2>2 DEF ExchangeInv, SyncInv, IsPart
    <3>3. Len(answer) \in Nat
      BY <1>1 DEF ExchangeInv, ExchangeTypeOK
    <3> HIDE DEF N, t
    <3>4. r \in Seq({N} \X Byte)
      BY <3>1, RepliesAre
    <3>5. Len(answer) \in 0..Len(r)
      BY <3>2, <3>3, <3>4
    <3>6. First(Len(answer), r) \in Seq({N} \X Byte)
      BY <3>4, <3>5, FirstOf DEF First
    <3>7. Owners(answer) \subseteq {N}
      BY <3>2, <3>6, OwnersOf
    <3> QED
      BY <3>7 DEF N
  <2> QED
    BY <2>1, <2>2
<1> QED
  BY <1>1, ExchangeInvariance, PTL

\* Two telegrams are never under way to the card together, or one of them with
\* one that it handles, while every send has had its whole answer.
THEOREM TelegramsArriveAlone == ExchangeSpec => []ArrivesAlone
<1>1. ASSUME ExchangeInv PROVE ArrivesAlone
  <2> DEFINE N == Len(sent)
             t == sent[N]
             u == up[sock]
             j == job[sock]
             S == Seq({N} \X Byte)
  <2> SUFFICES ASSUME inSync, sock # None PROVE Cardinality(Owners(u \o j)) <= 1
    BY DEF ArrivesAlone
  <2>1. sock \in Links /\ u \in Seq((1..Len(sent)) \X Byte) /\ j \in Seq((1..Len(sent)) \X Byte)
    BY <1>1 DEF ExchangeInv, ExchangeTypeOK
  <2>2. Fresh(u, down[sock], j, waiting, t, N)
    BY <1>1 DEF ExchangeInv, SyncInv
  <2>3. u # <<>> \/ j # <<>> => t \in Sends
    BY <1>1, <2>1, LastSent DEF ExchangeInv
  <2> HIDE DEF N, t, u, j
  <2>4. <<>> \in S /\ N \in {N}
    OBVIOUS
  <2>5. u \in S
    <3>1. CASE u = <<>>
      BY <2>4, <3>1
    <3>2. CASE u # <<>>
      <4>1. PICK k \in 1..Len(t) : u = Tagged(SubSeq(t, k, Len(t)), N)
        BY <2>2, <3>2 DEF Fresh
      <4>2. t \in Seq(Byte) /\ Len(t) \in 0..Len(t)
        BY <2>3, <3>2, SendsAreWhole
      <4>3. SubSeq(t, k, Len(t)) \in Seq(Byte)
        BY <4>2, PieceType
      <4> QED
        BY <2>4, <4>1, <4>3, TaggedType
    <3> QED
      BY <3>1, <3>2
  <2>6. j \in S
    <3>1. CASE j = <<>>
      BY <2>4, <3>1
    <3>2. CASE j # <<>>
      <4>1. j = Tagged(t, N) /\ t \in Seq(Byte)
        BY <2>2, <2>3, <3>2, SendsAreWhole DEF Fresh
      <4> QED
        BY <2>4, <4>1, TaggedType
    <3> QED
      BY <3>1, <3>2
  <2>7. u \o j \in S
    BY <2>5, <2>6
  <2>8. Owners(u \o j) \subseteq {N}
    BY <2>7, OwnersOf
  <2>9. IsFiniteSet({N}) /\ Cardinality({N}) = 1
    BY FS_Singleton
  <2>10. Cardinality(Owners(u \o j)) <= Cardinality({N})
    BY <2>8, <2>9, FS_Subset
  <2> QED
    BY <2>9, <2>10
<1> QED
  BY <1>1, ExchangeInvariance, PTL

\* decode_slave gives a whole answer the kind the handlers of protocol.py built
\* it as, but for the two kinds it cannot tell: the byte of the DIP switch is a
\* status to it, and a status byte that has the value of an ACK is one.
THEOREM AnswersAreDecodedAsBuilt == ExchangeSpec => []DecodedAsBuilt
<1>1. ASSUME ExchangeInv PROVE DecodedAsBuilt
  <2> DEFINE N == Len(sent)
             t == sent[N]
             cmd == IF IsTypeC(t[3]) THEN t[4] ELSE -1
             whole == Len(BuildSlaveReply(ReplyPayload(t, 0, 0)))
  <2> SUFFICES ASSUME inSync, sent # <<>>, Len(answer) = whole
               PROVE  DecodeSlave(Bytes(answer), cmd) =
                        IF Built(t) = "option and node" THEN "status"
                        ELSE IF Built(t) = "status" /\ Payload(Bytes(answer)) = <<Ack>> THEN "ack"
                        ELSE Built(t)
    BY DEF DecodedAsBuilt, AnswerIsWhole, ShownAs
  <2>1. t \in Sends /\ answer \in Seq((1..Len(sent)) \X Byte)
    BY <1>1 DEF ExchangeInv, ExchangeTypeOK
  <2>2. t \in Seq(Byte) /\ ~Malformed(t) /\ 0 \in Byte
    BY <2>1, SendsAreWhole DEF Byte
  <2>3. answer # <<>>
    <3> DEFINE z == ReplyPayload(t, 0, 0)
    <3>1. z \in Seq(Byte)
      BY <2>2, PayloadType
    <3> HIDE DEF z
    <3>2. Len(BuildSlaveReply(z)) = Len(z) + 2
      BY <3>1, ReplyType
    <3>3. Len(answer) # 0
      BY <3>1, <3>2 DEF z
    <3> QED
      BY <3>3
  <2>4. PICK r \in Replies(t, N) : answer = First(Len(answer), r)
    BY <1>1, <2>3 DEF ExchangeInv, SyncInv, IsPart
  <2> HIDE DEF N
  <2>5. /\ r \in Seq({N} \X Byte) /\ Len(r) = whole
        /\ \E status \in Statuses, fill \in Fills :
             Bytes(r) = BuildSlaveReply(ReplyPayload(t, status, fill))
    BY <2>1, <2>4, RepliesAre
  <2>6. answer = r
    BY <2>4, <2>5, SubSeqFull DEF First
  <2>7. PICK status \in Statuses, fill \in Fills :
          Bytes(answer) = BuildSlaveReply(ReplyPayload(t, status, fill))
    BY <2>5, <2>6
  <2> DEFINE p == ReplyPayload(t, status, fill)
             b == BuildSlaveReply(p)
  <2>8. status \in Byte /\ fill \in Byte
    BY RepliesAreBytes
  <2>9. /\ p \in Seq(Byte) /\ p # <<>>
        /\ p = <<Ack>> => Built(t) = "ack" \/ Built(t) = "status"
        /\ Built(t) = "ack" => p = <<Ack>>
        /\ IsTypeC(t[3]) /\ t[4] = VersionInfo => Len(p) = 6
        /\ IsTypeC(t[3]) /\ t[4] = StatusFlags => Len(p) = 13
    BY <2>2, <2>8, PayloadType
  <2>10. t[4] \in Byte /\ t[4] # -1 /\ VersionInfo # -1 /\ StatusFlags # -1
         /\ VersionInfo # StatusFlags /\ VersionInfo # DipSwitch /\ StatusFlags # DipSwitch
    <3>1. t[4] \in Byte
      BY <2>2 DEF Malformed
    <3>2. \A x \in Byte : x # -1
      BY DEF Byte
    <3> QED
      BY <3>1, <3>2 DEF VersionInfo, StatusFlags, DipSwitch
  <2>11. Bytes(answer) = b
    BY <2>7
  <2> HIDE DEF p
  <2>12. b \in Seq(Byte) /\ Len(b) = Len(p) + 2 /\ b[1] = SlaveStart /\ Payload(b) = p
    BY <2>9, ReplyType
  <2> HIDE DEF b
  <2>13. ~MalformedReply(b)
    <3>1. Len(p) >= 1
      BY <2>9
    <3> QED
      BY <2>12, <3>1 DEF MalformedReply
  <2>14. DecodeSlave(b, cmd) = IF p = <<Ack>> THEN "ack"
                               ELSE IF cmd = VersionInfo /\ Len(p) >= 6 THEN "version"
                               ELSE IF cmd = StatusFlags /\ Len(p) >= 13 THEN "status flags"
                               ELSE "status"
    BY <2>12, <2>13 DEF DecodeSlave
  <2>15. CASE p = <<Ack>>
    BY <2>9, <2>11, <2>12, <2>14, <2>15
  <2>16. CASE p # <<Ack>> /\ ~IsTypeC(t[3])
    <3>1. Built(t) = "status" /\ cmd = -1
      BY <2>16 DEF Built
    <3> HIDE DEF cmd
    <3>2. DecodeSlave(b, cmd) = "status"
      BY <2>10, <2>14, <2>16, <3>1
    <3> QED
      BY <2>11, <2>12, <2>16, <3>1, <3>2
  <2>17. CASE p # <<Ack>> /\ IsTypeC(t[3])
    <3>1. cmd = t[4] /\ Built(t) # "ack"
      BY <2>9, <2>17
    <3> HIDE DEF cmd
    <3>2. CASE t[4] = VersionInfo
      <4>1. Built(t) = "version"
        BY <2>10, <2>17, <3>2 DEF Built
      <4>2. cmd = VersionInfo /\ Len(p) >= 6
        <5>1. Len(p) = 6 /\ cmd = VersionInfo
          BY <2>9, <2>17, <3>1, <3>2, Zenon
        <5> QED
          BY <5>1
      <4> QED
        BY <2>11, <2>14, <2>17, <4>1, <4>2
    <3>3. CASE t[4] = StatusFlags
      <4>1. Built(t) = "status flags"
        BY <2>10, <2>17, <3>3 DEF Built
      <4>2. cmd = StatusFlags /\ cmd # VersionInfo /\ Len(p) >= 13
        <5>1. Len(p) = 13 /\ cmd = StatusFlags /\ cmd # VersionInfo
          BY <2>9, <2>10, <2>17, <3>1, <3>3, Zenon
        <5> QED
          BY <5>1
      <4> QED
        BY <2>11, <2>14, <2>17, <4>1, <4>2
    <3>4. CASE t[4] # VersionInfo /\ t[4] # StatusFlags
      BY <2>10, <2>11, <2>14, <2>17, <3>1, <3>4 DEF Built
    <3> QED
      BY <3>2, <3>3, <3>4
  <2> QED
    BY <2>15, <2>16, <2>17
<1> QED
  BY <1>1, ExchangeInvariance, PTL

-----------------------------------------------------------------------------
(* What the card executes.                                                  *)

\* In step, the card handles the telegram that was sent last, all of it and
\* nothing more.
InStep ==
  inSync /\ sock # None => (place[sock] = "handle" => job[sock] = Tagged(sent[Len(sent)], Len(sent)))

\* Whatever the telegrams are, one sent by a client that has had all its
\* answers reaches the protocol handler as it was sent.
THEOREM CardIsInStep == ExchangeSpec => []InStep
<1>1. ASSUME ExchangeInv PROVE InStep
  <2>1. sock # None => sock \in Links
    BY <1>1 DEF ExchangeInv, ExchangeTypeOK
  <2> QED
    BY <1>1, <2>1 DEF ExchangeInv, CardInv, SyncInv, Fresh, InStep
<1> QED
  BY <1>1, ExchangeInvariance, PTL

\* A start byte begins a telegram and is not found within one.  Where it is,
\* the end of a telegram and the beginning of the next may have the CRC of a
\* telegram by chance.
NoInnerStart == \A t \in Sends : \A i \in 2..Len(t) : t[i] # MasterStart

\* A whole telegram of the sends s, from position i of u.
WholeAt(u, i, s) ==
  LET n == u[i][1] IN
  /\ i + Len(s[n]) - 1 <= Len(u)
  /\ \A k \in 1..Len(s[n]) : u[i + k - 1] = <<n, s[n][k]>>

\* A whole telegram goes up from every start byte on.
StreamInv == \A l \in Links : \A i \in 1..Len(up[l]) : up[l][i][2] = MasterStart => WholeAt(up[l], i, sent)

\* Inductive, if no telegram has a start byte within it.
WireInv == ExchangeInv /\ StreamInv /\ ExecutesWhatWasSent

\* What a telegram begins with decides what the handler reads of it.
LEMMA SameBeginning ==
  ASSUME NEW t \in Sends, NEW d \in Seq(Byte), Len(d) >= Len(t), \A k \in 1..Len(t) : d[k] = t[k]
  PROVE  First(Len(t), d) = t /\ Parsed(d) = Parsed(t)
<1> DEFINE e == 4 + DataLength(t)
<1>1. t \in Seq(Byte) /\ Len(t) \in Nat /\ Len(t) >= 5 /\ Len(t) > e
  BY SendsAreWhole DEF Malformed
<1>2. e \in 4..7
  BY DEF DataLength
<1>3. DataLength(d) = DataLength(t)
  BY <1>1 DEF DataLength
<1> HIDE DEF e
<1>4. First(Len(t), d) = t
  <2>1. Len(t) \in 0..Len(d)
    BY <1>1
  <2>2. /\ First(Len(t), d) \in Seq(Byte) /\ Len(First(Len(t), d)) = Len(t)
        /\ \A k \in 1..Len(t) : First(Len(t), d)[k] = d[k]
    BY <2>1, FirstOf DEF First
  <2> QED
    BY <1>1, <2>2, SeqEqual
<1>5. SubSeq(d, 2, e) = SubSeq(t, 2, e)
  <2> DEFINE p == SubSeq(d, 2, e)
             q == SubSeq(t, 2, e)
  <2>1. e \in 0..Len(t) /\ e \in 0..Len(d) /\ 2 \in 1..Len(t) /\ 2 \in 1..Len(d) /\ 2 <= e
    BY <1>1, <1>2
  <2>2. p \in Seq(Byte) /\ Len(p) = e - 1 /\ \A k \in 1..(e - 1) : p[k] = d[2 + k - 1]
    BY <1>1, <2>1, PieceType
  <2>3. q \in Seq(Byte) /\ Len(q) = e - 1 /\ \A k \in 1..(e - 1) : q[k] = t[2 + k - 1]
    BY <1>1, <2>1, PieceType
  <2> HIDE DEF p, q
  <2>4. \A k \in 1..(e - 1) : p[k] = q[k]
    BY <1>1, <1>2, <2>2, <2>3
  <2> QED
    BY <2>2, <2>3, <2>4, SeqEqual DEF p, q
<1> QED
  BY <1>3, <1>4, <1>5 DEF Parsed, e

\* What is left of a stream that carries whole telegrams carries whole ones.
LEMMA BeyondIsWhole ==
  ASSUME NEW S, NEW s, NEW u \in Seq(S), NEW n \in 1..Len(u),
         \A i \in 1..Len(u) : u[i][2] = MasterStart => WholeAt(u, i, s),
         \A i \in 1..Len(u) : Len(s[u[i][1]]) \in Nat
  PROVE  \A i \in 1..Len(Beyond(n, u)) : Beyond(n, u)[i][2] = MasterStart => WholeAt(Beyond(n, u), i, s)
<1> DEFINE v == Beyond(n, u)
<1>1. Len(v) = Len(u) - n /\ \A k \in 1..(Len(u) - n) : v[k] = u[n + k]
  BY FirstBeyond
<1> HIDE DEF v
<1> SUFFICES ASSUME NEW i \in 1..Len(v), v[i][2] = MasterStart PROVE WholeAt(v, i, s)
  BY DEF v
<1>2. n + i \in 1..Len(u) /\ v[i] = u[n + i]
  BY <1>1
<1> DEFINE N == v[i][1]
           L == Len(s[N])
<1>3. L \in Nat
  BY <1>2
<1>4. (n + i) + L - 1 <= Len(u) /\ \A k \in 1..L : u[(n + i) + k - 1] = <<N, s[N][k]>>
  BY <1>2 DEF WholeAt
<1> HIDE DEF L
<1>5. i + L - 1 <= Len(v)
  BY <1>1, <1>3, <1>4
<1>6. ASSUME NEW k \in 1..L PROVE v[i + k - 1] = <<N, s[N][k]>>
  <2>1. i + k - 1 \in 1..(Len(u) - n) /\ n + (i + k - 1) = (n + i) + k - 1
    BY <1>1, <1>3, <1>5
  <2> QED
    BY <1>1, <1>4, <2>1
<1> QED
  BY <1>5, <1>6 DEF WholeAt, L

\* A telegram that follows a stream of whole telegrams.
LEMMA AppendIsWhole ==
  ASSUME NoInnerStart, NEW S, NEW s, NEW u \in Seq(S), NEW t \in Sends, NEW N, s[N] = t,
         \A i \in 1..Len(u) : u[i][2] = MasterStart => WholeAt(u, i, s),
         \A i \in 1..Len(u) : Len(s[u[i][1]]) \in Nat
  PROVE  LET v == u \o Tagged(t, N) IN
         \A i \in 1..Len(v) : v[i][2] = MasterStart => WholeAt(v, i, s)
<1> DEFINE w == Tagged(t, N)
           v == u \o w
<1>1. t \in Seq(Byte) /\ N \in {N} /\ Len(t) \in Nat
  BY SendsAreWhole
<1>2. w \in Seq({N} \X Byte) /\ Len(w) = Len(t) /\ \A i \in 1..Len(t) : w[i] = <<N, t[i]>>
  BY <1>1, TaggedType
<1> HIDE DEF w
<1>3. /\ Len(v) = Len(u) + Len(w) /\ Len(u) \in Nat /\ Len(w) \in Nat
      /\ \A i \in 1..Len(u) : v[i] = u[i]
      /\ \A i \in 1..Len(w) : v[Len(u) + i] = w[i]
  <2> DEFINE Q == S \cup ({N} \X Byte)
  <2>1. u \in Seq(Q) /\ w \in Seq(Q)
    BY <1>2, SeqGrows
  <2> HIDE DEF Q
  <2>2. /\ Len(v) = Len(u) + Len(w) /\ Len(u) \in Nat /\ Len(w) \in Nat
        /\ \A i \in 1..(Len(u) + Len(w)) : v[i] = IF i <= Len(u) THEN u[i] ELSE w[i - Len(u)]
    BY <2>1
  <2> HIDE DEF v
  <2>3. ASSUME NEW i \in 1..Len(w) PROVE v[Len(u) + i] = w[i]
    <3>1. Len(u) + i \in 1..(Len(u) + Len(w)) /\ ~(Len(u) + i <= Len(u)) /\ (Len(u) + i) - Len(u) = i
      BY <2>2
    <3> QED
      BY <2>2, <3>1
  <2> QED
    BY <2>2, <2>3
<1> HIDE DEF v
<1> SUFFICES ASSUME NEW i \in 1..Len(v), v[i][2] = MasterStart PROVE WholeAt(v, i, s)
  BY DEF v, w
<1>4. CASE i <= Len(u)
  <2> DEFINE n == u[i][1]
             L == Len(s[n])
  <2>1. i \in 1..Len(u) /\ v[i] = u[i] /\ L \in Nat
    BY <1>3, <1>4
  <2>2. i + L - 1 <= Len(u) /\ \A k \in 1..L : u[i + k - 1] = <<n, s[n][k]>>
    BY <2>1 DEF WholeAt
  <2> HIDE DEF L
  <2>3. i + L - 1 <= Len(v)
    BY <1>3, <2>1, <2>2
  <2>4. ASSUME NEW k \in 1..L PROVE v[i + k - 1] = <<n, s[n][k]>>
    <3>1. i + k - 1 \in 1..Len(u)
      BY <1>3, <2>1, <2>2
    <3> QED
      BY <1>3, <2>2, <3>1
  <2> QED
    BY <2>1, <2>3, <2>4 DEF WholeAt, L
<1>5. CASE i > Len(u)
  <2>1. i - Len(u) \in 1..Len(t) /\ i = Len(u) + (i - Len(u))
    BY <1>2, <1>3, <1>5
  <2>2. v[i] = <<N, t[i - Len(u)]>>
    BY <1>2, <1>3, <2>1
  <2>3. i = Len(u) + 1
    <3>1. t[i - Len(u)] = MasterStart
      BY <2>2
    <3>2. i - Len(u) \notin 2..Len(t)
      BY <3>1 DEF NoInnerStart
    <3> QED
      BY <1>1, <1>3, <2>1, <3>2
  <2>4. i + Len(t) - 1 <= Len(v)
    BY <1>1, <1>2, <1>3, <2>3
  <2>5. ASSUME NEW k \in 1..Len(t) PROVE v[i + k - 1] = <<N, t[k]>>
    <3>1. i + k - 1 = Len(u) + k /\ k \in 1..Len(w)
      BY <1>2, <1>3, <2>3
    <3> QED
      BY <1>2, <1>3, <3>1
  <2>6. v[i][1] = N
    BY <2>2
  <2> QED
    BY <2>4, <2>5, <2>6 DEF WholeAt
<1> QED
  BY <1>3, <1>4, <1>5

\* A card that accepts what has come handles a whole telegram from the stream.
LEMMA AcceptedIsWhole ==
  ASSUME NEW S, NEW u \in Seq(S \X Byte), NEW n \in 1..Len(u), NEW s,
         u[1][2] = MasterStart => WholeAt(u, 1, s),
         NEW t \in Sends, s[u[1][1]] = t,
         Accepted(Bytes(First(n, u)))
  PROVE  LET f == First(n, u) IN
         f[1][1] = u[1][1] /\ Len(f) >= Len(t) /\ \A k \in 1..Len(t) : Bytes(f)[k] = t[k]
<1> DEFINE f == First(n, u)
           d == Bytes(f)
<1>1. f \in Seq(S \X Byte) /\ Len(f) = n /\ \A k \in 1..n : f[k] = u[k]
  BY FirstBeyond
<1> HIDE DEF f
<1>2. d \in Seq(Byte) /\ Len(d) = n /\ \A k \in 1..n : d[k] = f[k][2]
  BY <1>1, BytesType
<1>3. ~Malformed(d) /\ Verify(d)
  BY DEF Accepted, d, f
<1> HIDE DEF d
<1>4. n >= 5 /\ u[1][2] = MasterStart
  BY <1>1, <1>2, <1>3 DEF Malformed
<1>5. t \in Seq(Byte) /\ Len(t) \in Nat /\ Len(t) >= 5
  BY SendsAreWhole DEF Malformed
<1>6. Len(t) <= Len(u) /\ \A k \in 1..Len(t) : u[k] = <<u[1][1], t[k]>>
  <2>1. WholeAt(u, 1, s)
    BY <1>4
  <2>2. 1 + Len(t) - 1 <= Len(u) /\ \A k \in 1..Len(t) : u[1 + k - 1] = <<u[1][1], t[k]>>
    BY <2>1 DEF WholeAt
  <2> QED
    BY <1>5, <2>2
<1>7. n >= Len(t)
  <2> SUFFICES ASSUME n < Len(t) PROVE FALSE
    BY <1>5
  <2>1. n \in 0..Len(t) /\ n \in 1..Len(t)
    BY <1>5
  <2>2. /\ SubSeq(t, 1, n) \in Seq(Byte) /\ Len(SubSeq(t, 1, n)) = n
        /\ \A k \in 1..n : SubSeq(t, 1, n)[k] = t[k]
    BY <1>5, <2>1, FirstOf
  <2>3. ASSUME NEW k \in 1..n PROVE d[k] = t[k]
    <3>1. k \in 1..Len(t) /\ d[k] = f[k][2] /\ f[k] = u[k]
      BY <1>1, <1>2, <1>5
    <3>2. u[k] = <<u[1][1], t[k]>>
      BY <1>6, <3>1
    <3> QED
      BY <3>1, <3>2
  <2>4. SubSeq(t, 1, n) = d
    BY <1>2, <2>2, <2>3, SeqEqual
  <2>5. 1 \in 1..Len(t)
    BY <1>5
  <2>6. n = Len(t)
    BY <1>3, <2>1, <2>4, <2>5, SendsAreWhole
  <2> QED
    BY <2>6
<1>8. \A k \in 1..Len(t) : d[k] = t[k]
  BY <1>1, <1>2, <1>5, <1>6, <1>7
<1>9. f[1][1] = u[1][1]
  BY <1>1
<1> QED
  BY <1>1, <1>7, <1>8, <1>9 DEF d, f

\* What has been sent is not changed by what is sent later.
LEMMA WireInvNext == NoInnerStart /\ WireInv /\ [ExchangeNext]_exchangeVars => WireInv'
<1> SUFFICES ASSUME NoInnerStart, WireInv, [ExchangeNext]_exchangeVars
             PROVE  StreamInv' /\ ExecutesWhatWasSent'
  BY ExchangeInvNext DEF WireInv
<1>1. /\ ExchangeTypeOK /\ CardInv /\ StreamInv /\ ExecutesWhatWasSent
  BY DEF WireInv, ExchangeInv
<1>2. \A l \in Links : /\ up[l] \in Seq((1..Len(sent)) \X Byte)
                       /\ job[l] \in Seq((1..Len(sent)) \X Byte)
  BY <1>1 DEF ExchangeTypeOK
<1>3. sent \in Seq(Sends) /\ Len(sent) \in Nat /\ \A n \in 1..Len(sent) : sent[n] \in Sends
  BY <1>1 DEF ExchangeTypeOK
<1>4. \A l \in Links : \A i \in 1..Len(up[l]) : up[l][i][1] \in 1..Len(sent)
  BY <1>2
<1>5. \A l \in Links : job[l] # <<>> => job[l][1][1] \in 1..Len(sent)
  BY <1>2
<1>6. \A t \in Sends : Len(t) \in Nat
  BY SendsAreWhole
<1>7. ASSUME sent' = sent,
             \A l \in Links : up'[l] \in {up[l], <<>>} /\
                              (place'[l] = "handle" => place[l] = "handle" /\ job'[l] = job[l])
      PROVE  StreamInv' /\ ExecutesWhatWasSent'
  <2>1. \A i : i \notin 1..Len(<<>>)
    OBVIOUS
  <2>2. StreamInv'
    BY <1>1, <1>7, <2>1 DEF StreamInv
  <2>3. ExecutesWhatWasSent'
    BY <1>1, <1>7 DEF ExecutesWhatWasSent
  <2> QED
    BY <2>2, <2>3
<1>8. ASSUME NEW t \in Sends, Send(t) PROVE StreamInv' /\ ExecutesWhatWasSent'
  <2> DEFINE N == Len(sent) + 1
  <2>1. /\ sent' = Append(sent, t) /\ Len(sent') = N /\ sent'[N] = t
        /\ \A n \in 1..Len(sent) : sent'[n] = sent[n]
        /\ place' = place /\ job' = job
        /\ up' = [up EXCEPT ![sock] = IF place[sock] = "closed" THEN @ ELSE @ \o Tagged(t, N)]
    BY <1>3, <1>8 DEF Send
  <2>2. ASSUME NEW l \in Links
        PROVE  \A i \in 1..Len(up[l]) : up[l][i][2] = MasterStart => WholeAt(up[l], i, sent')
    BY <1>1, <1>4, <2>1 DEF StreamInv, WholeAt
  <2>3. ASSUME NEW l \in Links, up'[l] = up[l] \o Tagged(t, N)
        PROVE  \A i \in 1..Len(up'[l]) : up'[l][i][2] = MasterStart => WholeAt(up'[l], i, sent')
    <3>1. \A i \in 1..Len(up[l]) : Len(sent'[up[l][i][1]]) \in Nat
      BY <1>3, <1>4, <1>6, <2>1
    <3> DEFINE s == sent'
               u == up[l]
    <3>2. sent'[N] = t /\ u \in Seq((1..Len(sent)) \X Byte)
      BY <1>2, <2>1
    <3>3. \A i \in 1..Len(u) : u[i][2] = MasterStart => WholeAt(u, i, s)
      BY <2>2
    <3> HIDE DEF u, N, s
    <3>4. \A i \in 1..Len(u \o Tagged(t, N)) :
            (u \o Tagged(t, N))[i][2] = MasterStart => WholeAt(u \o Tagged(t, N), i, s)
      <4>1. s[N] = t /\ \A i \in 1..Len(u) : Len(s[u[i][1]]) \in Nat
        BY <3>1, <3>2 DEF s, u
      <4> QED
        BY <3>2, <3>3, <4>1, AppendIsWhole
    <3> QED
      BY <2>3, <3>4 DEF u, s
  <2>4. \A l \in Links : up'[l] = up[l] \/ up'[l] = up[l] \o Tagged(t, N)
    BY <1>1, <2>1 DEF ExchangeTypeOK
  <2>5. StreamInv'
    <3> SUFFICES ASSUME NEW l \in Links
                 PROVE  \A i \in 1..Len(up'[l]) : up'[l][i][2] = MasterStart => WholeAt(up'[l], i, sent')
      BY DEF StreamInv
    <3>1. CASE up'[l] = up[l]
      BY <2>2, <3>1
    <3> QED
      BY <2>3, <2>4, <3>1
  <2>6. ExecutesWhatWasSent'
    BY <1>1, <1>5, <2>1 DEF ExecutesWhatWasSent, CardInv
  <2> QED
    BY <2>5, <2>6
<1>9. ASSUME NEW l \in Links, NEW n \in Received(up[l]), CardReceives(l, n)
      PROVE  StreamInv' /\ ExecutesWhatWasSent'
  <2> DEFINE u == up[l]
             f == First(n, u)
             N == u[1][1]
             t == sent[N]
  <2>1. u \in Seq((1..Len(sent)) \X Byte) /\ n \in 1..Len(u)
    BY <1>2, ReceivedSome
  <2>2. N \in 1..Len(sent) /\ t \in Sends
    BY <1>3, <1>4, <2>1
  <2>3. /\ sent' = sent /\ up' = [up EXCEPT ![l] = Beyond(n, u)]
        /\ Accepted(Bytes(f)) => /\ place' = [place EXCEPT ![l] = "handle"]
                                 /\ job' = [job EXCEPT ![l] = f]
        /\ ~Accepted(Bytes(f)) => place' = place /\ job' = job
    BY <1>9 DEF CardReceives, clientVars
  <2>4. \A i \in 1..Len(u) : Len(sent[u[i][1]]) \in Nat
    BY <1>3, <1>4, <1>6
  <2>5. \A i \in 1..Len(u) : u[i][2] = MasterStart => WholeAt(u, i, sent)
    BY <1>1 DEF StreamInv
  <2>6. StreamInv'
    <3>1. \A i \in 1..Len(Beyond(n, u)) :
            Beyond(n, u)[i][2] = MasterStart => WholeAt(Beyond(n, u), i, sent)
      BY <2>1, <2>4, <2>5, BeyondIsWhole
    <3>2. up'[l] = Beyond(n, u) /\ \A k \in Links \ {l} : up'[k] = up[k]
      BY <1>1, <2>3 DEF ExchangeTypeOK
    <3> HIDE DEF u
    <3> QED
      BY <1>1, <2>3, <3>1, <3>2 DEF StreamInv
  <2>7. ExecutesWhatWasSent'
    <3>1. CASE ~Accepted(Bytes(f))
      BY <1>1, <2>3, <3>1 DEF ExecutesWhatWasSent
    <3>2. CASE Accepted(Bytes(f))
      <4> HIDE DEF t
      <4>1. f[1][1] = N /\ Len(f) >= Len(t) /\ \A k \in 1..Len(t) : Bytes(f)[k] = t[k]
        <5>1. u[1][2] = MasterStart => WholeAt(u, 1, sent)
          BY <2>1, <2>5
        <5>2. sent[u[1][1]] = t
          BY DEF t
        <5> HIDE DEF u
        <5>3. Accepted(Bytes(First(n, u)))
          BY <3>2
        <5> QED
          BY <2>1, <2>2, <5>1, <5>2, <5>3, AcceptedIsWhole
      <4>2. f \in Seq((1..Len(sent)) \X Byte)
        BY <2>1, FirstBeyond
      <4> HIDE DEF f
      <4>3. Bytes(f) \in Seq(Byte) /\ Len(Bytes(f)) = Len(f)
        BY <4>2, BytesType
      <4>4. First(Len(t), Bytes(f)) = t /\ Parsed(Bytes(f)) = Parsed(t)
        BY <2>2, <4>1, <4>3, SameBeginning
      <4>5. job'[l] = f /\ sent'[job'[l][1][1]] = t
        BY <1>1, <2>3, <3>2, <4>1 DEF ExchangeTypeOK, t
      <4>6. \A k \in Links \ {l} : place'[k] = place[k] /\ job'[k] = job[k]
        BY <1>1, <2>3, <3>2 DEF ExchangeTypeOK
      <4> QED
        BY <1>1, <2>3, <4>1, <4>4, <4>5, <4>6 DEF ExecutesWhatWasSent
    <3> QED
      BY <3>1, <3>2
  <2> QED
    BY <2>6, <2>7
<1>10. CASE UNCHANGED exchangeVars
  BY <1>7, <1>10 DEF exchangeVars, clientVars
<1>11. ASSUME NEW l \in Links, Connect(l) PROVE StreamInv' /\ ExecutesWhatWasSent'
  BY <1>1, <1>7, <1>11 DEF Connect, ExchangeTypeOK
<1>12. CASE ConnectFails \/ Disconnect
  BY <1>7, <1>12 DEF ConnectFails, Disconnect
<1>13. CASE SendFails \/ SendTimesOut \/ RecvTimeout \/ RecvEmpty \/ RecvRaises
  BY <1>7, <1>13 DEF SendFails, SendTimesOut, RecvTimeout, RecvEmpty, RecvRaises
<1>14. ASSUME NEW n \in Received(down[sock]), RecvAnswer(n) PROVE StreamInv' /\ ExecutesWhatWasSent'
  BY <1>7, <1>14 DEF RecvAnswer
<1>15. ASSUME NEW l \in Links, NEW status \in Statuses, NEW fill \in Fills, CardAnswers(l, status, fill)
       PROVE  StreamInv' /\ ExecutesWhatWasSent'
  <2>1. /\ sent' = sent /\ up' = up /\ place' = [place EXCEPT ![l] = "recv"]
        /\ job' = [job EXCEPT ![l] = <<>>]
    BY <1>15 DEF CardAnswers, CardMoves, clientVars
  <2> QED
    BY <1>1, <1>7, <2>1 DEF ExchangeTypeOK
<1>16. ASSUME NEW l \in Links, CardIsSilent(l) PROVE StreamInv' /\ ExecutesWhatWasSent'
  <2>1. /\ sent' = sent /\ up' = up /\ place' = [place EXCEPT ![l] = "recv"]
        /\ job' = [job EXCEPT ![l] = <<>>]
    BY <1>16 DEF CardIsSilent, CardMoves, clientVars
  <2> QED
    BY <1>1, <1>7, <2>1 DEF ExchangeTypeOK
<1>17. ASSUME NEW l \in Links, CardCloses(l) PROVE StreamInv' /\ ExecutesWhatWasSent'
  <2>1. /\ sent' = sent /\ up' = [up EXCEPT ![l] = <<>>] /\ place' = [place EXCEPT ![l] = "closed"]
        /\ job' = [job EXCEPT ![l] = <<>>]
    BY <1>17 DEF CardCloses, CardMoves, clientVars
  <2>2. \A k \in Links : up'[k] \in {up[k], <<>>}
    BY <1>1, <2>1 DEF ExchangeTypeOK
  <2>3. \A k \in Links : place'[k] = "handle" => place[k] = "handle" /\ job'[k] = job[k]
    BY <1>1, <2>1 DEF ExchangeTypeOK
  <2> QED
    BY <1>7, <2>1, <2>2, <2>3
<1> QED
  BY <1>8, <1>9, <1>10, <1>11, <1>12, <1>13, <1>14, <1>15, <1>16, <1>17
  DEF ExchangeNext, ClientGoes, CardGoes

\* What the card hands to the protocol handler is what parse_master makes of a
\* telegram that was sent, whatever pieces the stream comes in, and whether or
\* not the client waits for its answers, as long as no telegram has a start
\* byte within it.
THEOREM CardExecutesWhatWasSent ==
  ASSUME NoInnerStart PROVE ExchangeSpec => []ExecutesWhatWasSent
<1>1. ExchangeInit => WireInv
  <2>1. \A i : i \notin 1..Len(<<>>)
    OBVIOUS
  <2> QED
    BY <2>1, ExchangeInvInit DEF WireInv, ExchangeInit, StreamInv, ExecutesWhatWasSent
<1>2. WireInv /\ [ExchangeNext]_exchangeVars => WireInv'
  BY WireInvNext
<1>3. WireInv => ExecutesWhatWasSent
  BY DEF WireInv
<1> QED
  BY <1>1, <1>2, <1>3, PTL DEF ExchangeSpec
=============================================================================
