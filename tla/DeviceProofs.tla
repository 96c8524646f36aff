------------------------------ MODULE DeviceProofs ------------------------------
(* What the simulated card promises for any number of clients, any telegrams *)
(* and any edits of the user.                                                *)
EXTENDS Device, FiniteSetTheorems, SequenceTheorems, TLAPS

-----------------------------------------------------------------------------
\* A bank of entries is a sequence of entries.
LEMMA BankOfEntries ==
  ASSUME NEW name, NEW first \in Nat, NEW last \in Nat, first <= last,
         \A i \in first..last : <<name, i>> \in Entries
  PROVE  Bank(name, first, last) \in Seq(Entries)
<1>1. last - first + 1 \in Nat
  OBVIOUS
<1>2. \A i \in 1..(last - first + 1) : first + i - 1 \in first..last
  OBVIOUS
<1>3. \A i \in 1..(last - first + 1) : <<name, first + i - 1>> \in Entries
  BY <1>2
<1>4. Bank(name, first, last) \in [1..(last - first + 1) -> Entries]
  BY <1>3, Zenon DEF Bank
<1> QED
  BY <1>1, <1>4, SeqDef, Zenon

\* The reply to a Type AB telegram is made of entries.
LEMMA AbEntriesType ==
  ASSUME NEW typeA, NEW typeB PROVE AbEntries(typeA, typeB) \in Seq(Entries)
<1>1. /\ Bank("AIN", 0, 7) \in Seq(Entries) /\ Bank("AIN", 8, 15) \in Seq(Entries)
      /\ Bank("AIN", 16, 20) \in Seq(Entries)
  BY BankOfEntries DEF Entries
<1>2. Bank("DIN", 0, 2) \in Seq(Entries) /\ Bank("DIG", 0, 2) \in Seq(Entries)
  BY BankOfEntries DEF Entries
<1>3. Bank("CNT", 0, 7) \in Seq(Entries) /\ Bank("CNT", 8, 15) \in Seq(Entries)
  BY BankOfEntries DEF Entries
<1>4. /\ Bank("ENC", 0, 3) \in Seq(Entries) /\ Bank("ENC", 4, 7) \in Seq(Entries)
      /\ Bank("ENC", 8, 11) \in Seq(Entries)
  BY BankOfEntries DEF Entries
<1>5. Bank("TEMP", 0, 1) \in Seq(Entries) /\ Bank("TEMP", 2, 3) \in Seq(Entries)
  BY BankOfEntries DEF Entries
<1>6. \A b, k : \A bank \in Seq(Entries) : Asked(b, k, bank) \in Seq(Entries)
  BY EmptySeq DEF Asked
<1>7. \A s, t \in Seq(Entries) : s \o t \in Seq(Entries)
  BY ConcatProperties
<1> HIDE DEF Entries
<1> QED
  BY <1>1, <1>2, <1>3, <1>4, <1>5, <1>6, <1>7, Zenon DEF AbEntries

\* A sequence of bytes that is not empty begins with a number.
LEMMA FirstByte ==
  ASSUME NEW s \in Seq(Byte), Len(s) >= 1 PROVE s[1] \in Int
<1>1. Len(s) \in Nat
  BY LenProperties
<1>2. 1 \in 1..Len(s)
  BY <1>1
<1>3. s[1] \in Byte
  BY <1>2, ElementOfSeq
<1>4. Byte \subseteq Int
  BY DEF Byte
<1> QED
  BY <1>3, <1>4, Zenon

\* The data of a Type C telegram are bytes.
LEMMA TypeCData ==
  ASSUME DeviceTypeOK, NEW c \in Callers, telegram[c].kind = "C"
  PROVE  telegram[c].data \in Seq(Byte)
<1>1. telegram[c] \in MasterTelegrams
  BY DeviceConstants DEF DeviceTypeOK
<1> QED
  BY <1>1 DEF MasterTelegrams

\* No step breaks the types.
LEMMA DeviceTypeNext ==
  ASSUME DeviceTypeOK, [DeviceNext]_deviceVars PROVE DeviceTypeOK'
<1> USE DEF DeviceTypeOK
<1>1. CASE UNCHANGED deviceVars
  BY <1>1 DEF deviceVars, deviceState, counters, inReceive, history
<1> USE DEF deviceState, counters, inReceive, history
<1>2. CASE UserEdits
  <2>1. CASE ToggleOnline
    BY <2>1 DEF ToggleOnline, Meet, Busy
  <2>2. ASSUME NEW n \in Nodes, SetNode(n) PROVE DeviceTypeOK'
    BY <2>2 DEF SetNode, Meet, Busy
  <2>3. ASSUME NEW f \in Toggled, MoveSwitch(f) PROVE DeviceTypeOK'
    BY <2>3, DeviceConstants DEF MoveSwitch
  <2>4. ASSUME NEW d \in Delays, EditDelay(d) PROVE DeviceTypeOK'
    BY <2>4, DeviceConstants DEF EditDelay
  <2>5. ASSUME NEW e \in Edited, EditEntry(e) PROVE DeviceTypeOK'
    BY <2>5, DeviceConstants DEF EditEntry
  <2>6. ASSUME NEW f \in switched, WriteFlag(f) PROVE DeviceTypeOK'
    <3>1. f \in Flags
      OBVIOUS
    <3>2. raised' \subseteq Flags /\ switched' \subseteq Flags /\ lowered' \subseteq Flags
      BY <2>6, <3>1 DEF WriteFlag
    <3>3. promised' \in [Callers -> SUBSET Flags]
      BY <2>6 DEF WriteFlag
    <3> QED
      BY <2>6, <3>2, <3>3 DEF WriteFlag
  <2> QED
    BY <1>2, <2>1, <2>2, <2>3, <2>4, <2>5, <2>6 DEF UserEdits
<1>3. ASSUME NEW c \in Callers, NEW t \in Telegrams, Receive(c, t) PROVE DeviceTypeOK'
  BY <1>3 DEF Receive, Goes, Places
<1>4. ASSUME NEW c \in Callers, Serve(c) PROVE DeviceTypeOK'
  <2>1. CASE HandleTypeAB(c)
    BY <2>1, AbEntriesType DEF HandleTypeAB, Goes, Places
  <2>2. ASSUME NEW flags, flags \subseteq Flags, Lower(c, flags) PROVE DeviceTypeOK'
    BY <2>2 DEF Lower, Goes, Places
  <2>3. CASE ClearResetFlag(c) \/ ClearOverloads(c)
    BY <2>2, <2>3 DEF ClearResetFlag, ClearOverloads, Flags, Overload
  <2>4. CASE SetupAnalogInputs(c)
    <3>1. telegram[c].data \in Seq(Byte)
      BY <2>4, TypeCData DEF SetupAnalogInputs, Commanded
    <3>2. Len(telegram[c].data) >= 3 => SubSeq(telegram[c].data, 1, 3) \in Seq(Byte)
      BY <3>1, SubSeqProperties, ElementOfSeq, LenProperties
    <3>3. mode' \in Seq(Byte)
      BY <2>4, <3>2 DEF SetupAnalogInputs
    <3> QED
      BY <2>4, <3>3 DEF SetupAnalogInputs, Goes, Places
  <2>5. CASE SetReplyDelay(c)
    <3>1. telegram[c].data \in Seq(Byte)
      BY <2>5, TypeCData DEF SetReplyDelay, Commanded
    <3>2. Len(telegram[c].data) >= 1 => telegram[c].data[1] \in Int
      BY <3>1, FirstByte, Zenon
    <3>3. delay \in Int
      BY DEF DeviceTypeOK
    <3>4. delay' = IF Len(telegram[c].data) >= 1 THEN telegram[c].data[1] ELSE delay
      BY <2>5 DEF SetReplyDelay
    <3>5. delay' \in Int
      <4> HIDE DEF DeviceTypeOK
      <4> QED
        BY <3>2, <3>3, <3>4
    <3> QED
      BY <2>5, <3>5 DEF SetReplyDelay, Goes, Places
  <2>6. CASE ReplyWithState(c)
    <3>1. Bank("BOARD", 0, 1) \in Seq(Entries)
      <4> HIDE DEF DeviceTypeOK
      <4> QED
        BY BankOfEntries DEF Entries
    <3>2. todo' \in [Callers -> Seq(Entries)]
      BY <2>6, <3>1, EmptySeq DEF ReplyWithState
    <3>3. told' \in [Callers -> SUBSET Flags]
      BY <2>6 DEF ReplyWithState
    <3> QED
      BY <2>6, <3>2, <3>3 DEF ReplyWithState, Goes, Places
  <2> QED
    BY <1>4, <2>1, <2>3, <2>4, <2>5, <2>6 DEF Serve
<1>5. ASSUME NEW c \in Callers, InReceive(c) PROVE DeviceTypeOK'
  <2>1. CASE DelayOver(c)
    BY <2>1 DEF DelayOver, Goes, Places
  <2>2. CASE CheckOnline(c)
    BY <2>2 DEF CheckOnline, Goes, Places
  <2>3. CASE CheckAddress(c)
    BY <2>3 DEF CheckAddress, Goes, Places
  <2>4. CASE PackWord(c)
    <3>1. todo[c] \in Seq(Entries) /\ todo[c] # <<>>
      BY <2>4 DEF PackWord
    <3>2. Tail(todo[c]) \in Seq(Entries) /\ <<>> \in Seq(Entries)
      BY <3>1, HeadTailProperties, EmptySeq
    <3>3. todo' \in [Callers -> Seq(Entries)]
      BY <2>4, <3>2 DEF PackWord
    <3> QED
      BY <2>4, <3>3 DEF PackWord, Goes, Places
  <2>5. CASE ReplyComplete(c)
    BY <2>5 DEF ReplyComplete, Goes, Places
  <2>6. CASE ServerGoesOn(c)
    BY <2>6 DEF ServerGoesOn, Places
  <2>7. CASE ParseFails(c)
    BY <2>7 DEF ParseFails, Goes, Places
  <2>8. CASE CrcFails(c)
    BY <2>8 DEF CrcFails, Goes, Places
  <2>9. CASE CrcHolds(c)
    BY <2>9 DEF CrcHolds, Goes, Places
  <2> QED
    BY <1>4, <1>5, <2>1, <2>2, <2>3, <2>4, <2>5, <2>6, <2>7, <2>8, <2>9 DEF InReceive
<1> QED
  BY <1>1, <1>2, <1>3, <1>5 DEF DeviceNext

-----------------------------------------------------------------------------
\* While a telegram is in hand it is known whether the device has been online,
\* and at the telegram's address, since it came; past each check it has been.
Met ==
  \A c \in Callers :
    /\ at[c] # "idle" /\ online => c \in metOnline
    /\ at[c] # "idle" /\ telegram[c].node = node => c \in metNode
    /\ at[c] \notin {"idle", "parse", "delay", "online"} => c \in metOnline
    /\ at[c] \notin {"idle", "parse", "delay", "online", "address"} => c \in metNode

\* A thread that goes from one place to another within _on_receive, past no
\* check, keeps Met.
LEMMA MetGoes ==
  ASSUME DeviceTypeOK, Met, NEW c \in Callers, NEW to,
         at' = [at EXCEPT ![c] = to],
         \/ to = "idle"
         \/ at[c] = "parse" /\ to \in {"delay", "online"}
         \/ at[c] = "delay" /\ to = "online"
         \/ at[c] \in {"serve", "words"},
         UNCHANGED <<online, node, telegram, metOnline, metNode>>
  PROVE  Met'
<1> SUFFICES ASSUME NEW d \in Callers PROVE Met!(d)'
  BY DEF Met
<1>1. CASE d = c
  BY <1>1 DEF Met, DeviceTypeOK
<1>2. CASE d # c
  BY <1>2 DEF Met, DeviceTypeOK
<1> QED
  BY <1>1, <1>2

\* No step breaks Met.
LEMMA MetNext ==
  ASSUME DeviceTypeOK, Met, [DeviceNext]_deviceVars PROVE Met'
<1>1. CASE UNCHANGED deviceVars
  BY <1>1 DEF Met, deviceVars, deviceState, inReceive, history
<1> USE DEF deviceState, counters, inReceive, history
<1>2. CASE UserEdits
  <2>1. CASE ToggleOnline
    BY <2>1 DEF ToggleOnline, Meet, Busy, Met, DeviceTypeOK
  <2>2. ASSUME NEW n \in Nodes, SetNode(n) PROVE Met'
    BY <2>2 DEF SetNode, Meet, Busy, Met, DeviceTypeOK
  <2>3. ASSUME NEW f \in Toggled, MoveSwitch(f) PROVE Met'
    BY <2>3 DEF MoveSwitch, Met
  <2>4. ASSUME NEW d \in Delays, EditDelay(d) PROVE Met'
    BY <2>4 DEF EditDelay, Met
  <2>5. ASSUME NEW e \in Edited, EditEntry(e) PROVE Met'
    BY <2>5 DEF EditEntry, Met
  <2>6. ASSUME NEW f \in switched, WriteFlag(f) PROVE Met'
    BY <2>6 DEF WriteFlag, Met
  <2> QED
    BY <1>2, <2>1, <2>2, <2>3, <2>4, <2>5, <2>6 DEF UserEdits
<1>3. ASSUME NEW c \in Callers, NEW t \in Telegrams, Receive(c, t) PROVE Met'
  <2> SUFFICES ASSUME NEW d \in Callers PROVE Met!(d)'
    BY DEF Met
  <2>1. CASE d = c
    BY <1>3, <2>1 DEF Receive, Goes, Met, DeviceTypeOK
  <2>2. CASE d # c
    BY <1>3, <2>2 DEF Receive, Goes, Met, DeviceTypeOK
  <2> QED
    BY <2>1, <2>2
<1>4. ASSUME NEW c \in Callers, Serve(c) PROVE Met'
  <2>1. /\ at[c] = "serve" /\ at' = [at EXCEPT ![c] = "words"]
        /\ UNCHANGED <<online, node, telegram, metOnline, metNode>>
    BY <1>4
    DEF Serve, HandleTypeAB, ClearResetFlag, ClearOverloads, Lower, SetupAnalogInputs,
        SetReplyDelay, ReplyWithState, Goes
  <2> QED
    BY <2>1, MetGoes
<1>5. ASSUME NEW c \in Callers, InReceive(c) PROVE Met'
  <2>1. CASE DelayOver(c)
    BY <2>1, MetGoes DEF DelayOver, Goes
  <2>2. CASE CheckOnline(c)
    <3> SUFFICES ASSUME NEW d \in Callers PROVE Met!(d)'
      BY DEF Met
    <3> QED
      BY <2>2 DEF CheckOnline, Goes, Met, DeviceTypeOK
  <2>3. CASE CheckAddress(c)
    <3> SUFFICES ASSUME NEW d \in Callers PROVE Met!(d)'
      BY DEF Met
    <3> QED
      BY <2>3 DEF CheckAddress, Goes, Met, DeviceTypeOK
  <2>4. CASE PackWord(c)
    BY <2>4, MetGoes DEF PackWord, Goes
  <2>5. CASE ReplyComplete(c)
    BY <2>5, MetGoes DEF ReplyComplete, Goes
  <2>6. CASE ServerGoesOn(c)
    BY <2>6, MetGoes DEF ServerGoesOn
  <2>7. CASE ParseFails(c) \/ CrcFails(c) \/ CrcHolds(c)
    <3>1. /\ \E to \in {"idle", "delay", "online"} : at' = [at EXCEPT ![c] = to]
          /\ at[c] = "parse"
          /\ UNCHANGED <<online, node, telegram, metOnline, metNode>>
      BY <2>7 DEF ParseFails, CrcFails, CrcHolds, Goes
    <3> QED
      BY <3>1, MetGoes
  <2> QED
    BY <1>4, <1>5, <2>1, <2>2, <2>3, <2>4, <2>5, <2>6, <2>7 DEF InReceive
<1> QED
  BY <1>1, <1>2, <1>3, <1>5 DEF DeviceNext

-----------------------------------------------------------------------------
\* What is lowered is not raised, a promise covers lowered flags only, and a
\* reply tells of none that its telegram was promised.
Cleared ==
  /\ lowered \cap raised = {}
  /\ \A c \in Callers : promised[c] \subseteq lowered /\ told[c] \cap promised[c] = {}

\* No step breaks Cleared.
LEMMA ClearedNext ==
  ASSUME DeviceTypeOK, Cleared, [DeviceNext]_deviceVars PROVE Cleared'
<1>1. CASE UNCHANGED deviceVars
  BY <1>1 DEF Cleared, deviceVars, deviceState, inReceive, history
<1> USE DEF deviceState, counters, inReceive, history
<1>2. CASE UserEdits
  <2>1. CASE ToggleOnline
    BY <2>1 DEF ToggleOnline, Meet, Cleared
  <2>2. ASSUME NEW n \in Nodes, SetNode(n) PROVE Cleared'
    BY <2>2 DEF SetNode, Meet, Cleared
  <2>3. ASSUME NEW f \in Toggled, MoveSwitch(f) PROVE Cleared'
    BY <2>3 DEF MoveSwitch, Cleared
  <2>4. ASSUME NEW d \in Delays, EditDelay(d) PROVE Cleared'
    BY <2>4 DEF EditDelay, Cleared
  <2>5. ASSUME NEW e \in Edited, EditEntry(e) PROVE Cleared'
    BY <2>5 DEF EditEntry, Cleared
  <2>6. ASSUME NEW f \in switched, WriteFlag(f) PROVE Cleared'
    BY <2>6 DEF WriteFlag, Cleared
  <2> QED
    BY <1>2, <2>1, <2>2, <2>3, <2>4, <2>5, <2>6 DEF UserEdits
<1>3. ASSUME NEW c \in Callers, NEW t \in Telegrams, Receive(c, t) PROVE Cleared'
  BY <1>3 DEF Receive, Cleared, DeviceTypeOK
<1>4. ASSUME NEW c \in Callers, Serve(c) PROVE Cleared'
  <2>1. CASE HandleTypeAB(c)
    BY <2>1 DEF HandleTypeAB, Cleared, DeviceTypeOK
  <2>2. ASSUME NEW flags, Lower(c, flags) PROVE Cleared'
    BY <2>2 DEF Lower, Cleared
  <2>3. CASE ClearResetFlag(c) \/ ClearOverloads(c)
    BY <2>2, <2>3 DEF ClearResetFlag, ClearOverloads
  <2>4. CASE SetupAnalogInputs(c) \/ SetReplyDelay(c)
    BY <2>4 DEF SetupAnalogInputs, SetReplyDelay, Cleared
  <2>5. CASE ReplyWithState(c)
    BY <2>5 DEF ReplyWithState, Cleared, DeviceTypeOK
  <2> QED
    BY <1>4, <2>1, <2>3, <2>4, <2>5 DEF Serve
<1>5. ASSUME NEW c \in Callers, InReceive(c) PROVE Cleared'
  <2>1. CASE \/ DelayOver(c) \/ CheckOnline(c) \/ CheckAddress(c)
             \/ PackWord(c) \/ ReplyComplete(c) \/ ServerGoesOn(c)
             \/ ParseFails(c) \/ CrcFails(c) \/ CrcHolds(c)
    BY <2>1
    DEF ParseFails, CrcFails, CrcHolds, DelayOver, CheckOnline, CheckAddress, PackWord, ReplyComplete, ServerGoesOn, Cleared
  <2> QED
    BY <1>4, <1>5, <2>1 DEF InReceive
<1> QED
  BY <1>1, <1>2, <1>3, <1>5 DEF DeviceNext

-----------------------------------------------------------------------------
\* Only the user raises a flag, and the switch with it.
LEMMA RaisedNext ==
  ASSUME RaisedIsShown, [DeviceNext]_deviceVars PROVE RaisedIsShown'
<1>1. CASE UNCHANGED deviceVars
  BY <1>1 DEF RaisedIsShown, deviceVars, deviceState
<1>2. CASE UserEdits
  <2>1. ASSUME NEW f \in Toggled, switched = {}, MoveSwitch(f) PROVE RaisedIsShown'
    BY <2>1 DEF MoveSwitch, RaisedIsShown
  <2>2. ASSUME NEW f \in switched, WriteFlag(f) PROVE RaisedIsShown'
    BY <2>2 DEF WriteFlag, RaisedIsShown
  <2> QED
    BY <1>2, <2>1, <2>2 DEF UserEdits, ToggleOnline, SetNode, EditDelay, EditEntry, RaisedIsShown
<1>4. ASSUME NEW c \in Callers, NEW t \in Telegrams, Receive(c, t) PROVE RaisedIsShown'
  BY <1>4 DEF Receive, deviceState, RaisedIsShown
<1>5. ASSUME NEW c \in Callers, InReceive(c) PROVE RaisedIsShown'
  <2>1. shown' = shown /\ switched' = switched /\ raised' \subseteq raised
    BY <1>5
    DEF InReceive, ParseFails, CrcFails, CrcHolds, DelayOver, CheckOnline, CheckAddress, Serve,
        HandleTypeAB, ClearResetFlag, ClearOverloads, Lower, SetupAnalogInputs, SetReplyDelay,
        ReplyWithState, PackWord, ReplyComplete, ServerGoesOn, deviceState
  <2> QED
    BY <2>1 DEF RaisedIsShown
<1> QED
  BY <1>1, <1>2, <1>4, <1>5 DEF DeviceNext

-----------------------------------------------------------------------------
\* The threads with a telegram that has been counted as received and not yet as
\* answered.
Unanswered == {c \in Callers : at[c] \notin {"idle", "answered"}}

\* The set is finite, and so is its size a number.
LEMMA UnansweredFinite == IsFiniteSet(Unanswered) /\ Cardinality(Unanswered) \in Nat
<1>1. Unanswered \in SUBSET Callers
  BY DEF Unanswered
<1> QED
  BY <1>1, DeviceConstants, FS_Subset, FS_CardinalityType

\* A step of one thread within _on_receive that counts nothing adds no thread.
LEMMA CountsGoes ==
  ASSUME DeviceTypeOK, CountsAddUp, NEW c \in Callers, NEW to,
         at[c] # "idle", at' = [at EXCEPT ![c] = to],
         at[c] = "answered" => to = "idle",
         UNCHANGED counters
  PROVE  CountsAddUp'
<1>1. Unanswered' \in SUBSET Unanswered
  BY DEF Unanswered, DeviceTypeOK
<1>2. Cardinality(Unanswered') <= Cardinality(Unanswered) /\ Cardinality(Unanswered') \in Nat
  BY <1>1, UnansweredFinite, FS_Subset, FS_CardinalityType
<1>3. rx >= tx + crcErrors + Cardinality(Unanswered)
  BY DEF CountsAddUp, Unanswered
<1>4. rx' = rx /\ tx' = tx /\ crcErrors' = crcErrors /\ rx \in Nat /\ tx \in Nat /\ crcErrors \in Nat
  BY DEF counters, DeviceTypeOK
<1>5. rx' >= tx' + crcErrors' + Cardinality(Unanswered')
  BY <1>2, <1>3, <1>4, UnansweredFinite
<1> QED
  BY <1>5 DEF CountsAddUp, Unanswered

\* No step makes the counters disagree.
LEMMA CountsNext ==
  ASSUME DeviceTypeOK, CountsAddUp, [DeviceNext]_deviceVars PROVE CountsAddUp'
<1>1. CASE UNCHANGED deviceVars \/ UserEdits
  <2>1. UNCHANGED <<counters, at>>
    BY <1>1
    DEF deviceVars, counters, inReceive, UserEdits, ToggleOnline, SetNode, MoveSwitch, WriteFlag,
        EditDelay, EditEntry
  <2> QED
    BY <2>1 DEF CountsAddUp, counters
<1>2. /\ rx \in Nat /\ tx \in Nat /\ crcErrors \in Nat
      /\ rx >= tx + crcErrors + Cardinality(Unanswered)
  BY DEF DeviceTypeOK, CountsAddUp, Unanswered
<1>3. ASSUME NEW c \in Callers, NEW t \in Telegrams, Receive(c, t) PROVE CountsAddUp'
  <2>1. rx' = rx + 1 /\ tx' = tx /\ crcErrors' = crcErrors
    BY <1>3 DEF Receive
  <2>2. Unanswered' = Unanswered \cup {c} /\ c \notin Unanswered
    BY <1>3 DEF Receive, Goes, Unanswered, DeviceTypeOK
  <2>3. Cardinality(Unanswered') = Cardinality(Unanswered) + 1
    BY <2>2, UnansweredFinite, FS_AddElement
  <2>4. rx' >= tx' + crcErrors' + Cardinality(Unanswered')
    BY <1>2, <2>1, <2>3, UnansweredFinite
  <2> QED
    BY <2>4 DEF CountsAddUp, Unanswered
<1>4. ASSUME NEW c \in Callers, ReplyComplete(c) \/ CrcFails(c) PROVE CountsAddUp'
  <2>1. rx' = rx /\ tx' + crcErrors' = tx + crcErrors + 1
    BY <1>2, <1>4 DEF ReplyComplete, CrcFails
  <2>2. Unanswered' = Unanswered \ {c} /\ c \in Unanswered
    BY <1>4 DEF ReplyComplete, CrcFails, Goes, Unanswered, DeviceTypeOK
  <2>3. Cardinality(Unanswered') = Cardinality(Unanswered) - 1
    BY <2>2, UnansweredFinite, FS_RemoveElement
  <2>4. rx' >= tx' + crcErrors' + Cardinality(Unanswered')
    BY <1>2, <2>1, <2>3, UnansweredFinite
  <2> QED
    BY <2>4 DEF CountsAddUp, Unanswered
<1>5. ASSUME NEW c \in Callers, Serve(c) PROVE CountsAddUp'
  <2>1. at[c] = "serve" /\ at' = [at EXCEPT ![c] = "words"] /\ UNCHANGED counters
    BY <1>5
    DEF Serve, HandleTypeAB, ClearResetFlag, ClearOverloads, Lower, SetupAnalogInputs,
        SetReplyDelay, ReplyWithState, Goes, counters
  <2> QED
    BY <2>1, CountsGoes
<1>6. ASSUME NEW c \in Callers, InReceive(c) PROVE CountsAddUp'
  <2>1. CASE DelayOver(c)
    BY <2>1, CountsGoes DEF DelayOver, Goes
  <2>2. CASE CheckOnline(c)
    BY <2>2, CountsGoes DEF CheckOnline, Goes
  <2>3. CASE CheckAddress(c)
    BY <2>3, CountsGoes DEF CheckAddress, Goes
  <2>4. CASE PackWord(c)
    BY <2>4, CountsGoes DEF PackWord, Goes
  <2>5. CASE ServerGoesOn(c)
    BY <2>5, CountsGoes DEF ServerGoesOn
  <2>6. CASE ParseFails(c)
    BY <2>6, CountsGoes DEF ParseFails, Goes
  <2>7. CASE CrcHolds(c)
    BY <2>7, CountsGoes DEF CrcHolds, Goes
  <2> QED
    BY <1>4, <1>5, <1>6, <2>1, <2>2, <2>3, <2>4, <2>5, <2>6, <2>7 DEF InReceive
<1> QED
  BY <1>1, <1>3, <1>6 DEF DeviceNext

-----------------------------------------------------------------------------
\* The strengthening of the properties below.
DeviceInv == DeviceTypeOK /\ Met /\ Cleared /\ CountsAddUp

\* The device starts with no telegram in hand.
LEMMA DeviceInvInit == DeviceInit => DeviceInv
<1> SUFFICES ASSUME DeviceInit PROVE DeviceInv
  OBVIOUS
<1>1. DeviceTypeOK
  BY DeviceConstants, EmptySeq DEF DeviceInit, DeviceTypeOK, Flags, Places, Byte
<1>2. Met /\ Cleared
  BY DEF DeviceInit, Met, Cleared
<1>3. CountsAddUp
  <2>1. Unanswered = {}
    BY DEF DeviceInit, Unanswered
  <2>2. Cardinality(Unanswered) = 0
    BY <2>1, FS_EmptySet
  <2>3. rx = 0 /\ tx = 0 /\ crcErrors = 0
    BY DEF DeviceInit
  <2>4. rx >= tx + crcErrors + Cardinality(Unanswered)
    BY <2>2, <2>3
  <2> QED
    BY <2>4 DEF CountsAddUp, Unanswered
<1> QED
  BY <1>1, <1>2, <1>3 DEF DeviceInv

\* No step breaks the strengthening.
LEMMA DeviceInvNext == DeviceInv /\ [DeviceNext]_deviceVars => DeviceInv'
  BY DeviceTypeNext, MetNext, ClearedNext, CountsNext DEF DeviceInv

\* The strengthening holds throughout.
LEMMA DeviceInvariance == DeviceSafety => []DeviceInv
  BY DeviceInvInit, DeviceInvNext, PTL DEF DeviceSafety

-----------------------------------------------------------------------------
\* The variables of Device keep their types, whatever arrives and is edited.
THEOREM DeviceTypeCorrect == DeviceSafety => []DeviceTypeOK
  BY DeviceInvariance, PTL DEF DeviceInv

\* No thread answers for a device that was offline, or had another address,
\* since its telegram came.
THEOREM OfflineStaysSilent == DeviceSafety => []OfflineIsSilent
<1>1. DeviceInv => OfflineIsSilent
  BY DEF DeviceInv, Met, OfflineIsSilent
<1> QED
  BY <1>1, DeviceInvariance, PTL

\* No thread reports a flag that had been cleared before its telegram came and
\* that nobody has raised since.
THEOREM ClearedIsNotReported == DeviceSafety => []ClearedStaysClear
<1>1. DeviceInv => ClearedStaysClear
  BY DEF DeviceInv, Cleared, ClearedStaysClear
<1> QED
  BY <1>1, DeviceInvariance, PTL

\* The three counters agree, however many threads count.
THEOREM CountersAgree == DeviceSafety => []CountsAddUp
  BY DeviceInvariance, PTL DEF DeviceInv

\* No flag is up under a switch that is off, except until its callback has run.
THEOREM RaisedFlagsAreShown == DeviceSafety => []RaisedIsShown
<1>1. DeviceInit => RaisedIsShown
  BY DEF DeviceInit, RaisedIsShown
<1> QED
  BY <1>1, RaisedNext, PTL DEF DeviceSafety
================================================================================
