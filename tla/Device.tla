-------------------------------- MODULE Device --------------------------------
(***************************************************************************)
(* The simulated card: DeviceState and ProtocolHandler of                  *)
(* simulator/protocol.py, run by ConnectionManager._on_receive in as many  *)
(* threads as there are clients, while the slave panel of the GUI edits    *)
(* the same DeviceState.  No lock guards it.                               *)
(*                                                                         *)
(* Threads change places at calls, so that a reply is built word by word   *)
(* (struct.pack is a call) and what has no call in it is one step: the     *)
(* status byte, the body of a Type C command, an increment of a counter.   *)
(*                                                                         *)
(* Of a value only what can go wrong with it is kept: whether it fits the  *)
(* byte or word it is packed into.  The entry fields of the GUI accept any *)
(* integer; the AIN sliders and DIN switches cannot go out of range.       *)
(***************************************************************************)
EXTENDS Reply

CONSTANTS Callers,    \* the threads that call _on_receive
          Nodes,      \* node addresses
          Telegrams,  \* the telegrams that arrive whole and unharmed
          Toggled,    \* bound: the flags the user switches
          Edited,     \* bound: the entries the user edits
          Delays,     \* bound: the reply delays the user enters or has saved
          MaxRx       \* bound: telegrams received

Flags    == {"reset_flag", "leak_1", "leak_2", "analog_power_overload",
             "pwm_bank1_overload", "pwm_bank2_overload", "pwm_bank3_overload"}
Overload == Flags \ {"reset_flag", "leak_1", "leak_2"}

MasterTelegrams ==
  [node : Nodes, kind : {"AB"}, typeA : 128..255, typeB : Byte] \cup
  [node : Nodes, kind : {"C"}, cmd : Byte, data : Seq(Byte)]

ASSUME DeviceConstants ==
  /\ IsFiniteSet(Callers) /\ MaxRx \in Nat
  /\ Toggled \subseteq Flags /\ Edited \subseteq Entries /\ Delays \subseteq Int
  /\ Nodes # {} /\ Telegrams # {} /\ Telegrams \subseteq MasterTelegrams

VARIABLES
  online, node, delay, mode,   \* of DeviceState; mode is ain_mode
  raised,    \* the flags of DeviceState that are True
  shown,     \* the switches of the GUI that are on
  switched,  \* the switch that has moved and whose callback has not run yet
  unfit,     \* entries whose value does not fit its width
  rx, tx, crcErrors,           \* the counters of ConnectionManager
  at,        \* at[c]: where c is in _on_receive
  telegram,  \* telegram[c]: the telegram c is busy with
  todo,      \* todo[c]: entries still to be packed
  told,      \* told[c]: the flags the reply being built reports as set
  lowered, promised, metOnline, metNode   \* history, see the properties

deviceState == <<online, node, delay, mode, raised, shown, switched, unfit>>
counters    == <<rx, tx, crcErrors>>
inReceive   == <<at, telegram, todo, told>>
history     == <<lowered, promised, metOnline, metNode>>
deviceVars  == <<deviceState, counters, inReceive, history>>

Places == {"idle", "parse", "delay", "online", "address", "serve", "words", "answered", "raised"}
Busy   == {c \in Callers : at[c] # "idle"}

DeviceTypeOK ==
  /\ online \in BOOLEAN /\ node \in Nodes /\ delay \in Int /\ mode \in Seq(Byte)
  /\ raised \subseteq Flags /\ shown \subseteq Flags /\ switched \subseteq Flags
  /\ unfit \subseteq Entries
  /\ rx \in Nat /\ tx \in Nat /\ crcErrors \in Nat
  /\ at       \in [Callers -> Places]
  /\ telegram \in [Callers -> Telegrams]
  /\ todo     \in [Callers -> Seq(Entries)]
  /\ told     \in [Callers -> SUBSET Flags]
  /\ lowered \subseteq Flags /\ promised \in [Callers -> SUBSET Flags]
  /\ metOnline \subseteq Callers /\ metNode \subseteq Callers

\* DeviceState() as MainWindow makes it from the configuration file.
DeviceInit ==
  /\ online \in BOOLEAN /\ node \in Nodes
  /\ delay \in Delays /\ mode = <<0, 0, 0>>
  /\ raised \in SUBSET {"reset_flag"} /\ shown = raised /\ switched = {} /\ unfit = {}
  /\ rx = 0 /\ tx = 0 /\ crcErrors = 0
  /\ at       = [c \in Callers |-> "idle"]
  /\ telegram = [c \in Callers |-> CHOOSE t \in Telegrams : TRUE]
  /\ todo     = [c \in Callers |-> <<>>]
  /\ told     = [c \in Callers |-> {}]
  /\ lowered  = {} /\ promised = [c \in Callers |-> {}]
  /\ metOnline = {} /\ metNode = {}

-----------------------------------------------------------------------------
(* The GUI.                                                                *)

\* A device that becomes reachable is met by the telegrams in hand.
Meet(isOnline, itsNode) ==
  /\ metOnline' = IF isOnline THEN Busy ELSE metOnline
  /\ metNode'   = metNode \cup {c \in Busy : telegram[c].node = itsNode}
  /\ UNCHANGED <<lowered, promised>>

ToggleOnline ==
  /\ online' = ~online
  /\ Meet(~online, node)
  /\ UNCHANGED <<node, delay, mode, raised, shown, switched, unfit, counters, inReceive>>

SetNode(n) ==
  /\ node' = n
  /\ Meet(online, n)
  /\ UNCHANGED <<online, delay, mode, raised, shown, switched, unfit, counters, inReceive>>

MoveSwitch(f) ==
  /\ shown'    = IF f \in shown THEN shown \ {f} ELSE shown \cup {f}
  /\ switched' = {f}
  /\ UNCHANGED <<online, node, delay, mode, raised, unfit, counters, inReceive, history>>

\* Mutant: the flag is negated, as the switch is.
NegatesFlag(f) ==
  /\ switched' = switched \ {f}
  /\ raised'   = IF f \in raised THEN raised \ {f} ELSE raised \cup {f}
  /\ lowered'  = lowered \ raised'
  /\ promised' = [c \in Callers |-> promised[c] \ raised']
  /\ UNCHANGED <<online, node, delay, mode, shown, unfit, counters, inReceive, metOnline, metNode>>

\* The callback of the switch: the flag becomes what the switch shows.
WriteFlag(f) ==
  /\ switched' = switched \ {f}
  /\ raised'   = IF f \in shown THEN raised \cup {f} ELSE raised \ {f}
  /\ lowered'  = lowered \ raised'
  /\ promised' = [c \in Callers |-> promised[c] \ raised']
  /\ UNCHANGED <<online, node, delay, mode, shown, unfit, counters, inReceive, metOnline, metNode>>

\* Leaving the field writes what it shows, edited or not.
EditDelay(d) ==
  /\ delay' = d
  /\ UNCHANGED <<online, node, mode, raised, shown, switched, unfit, counters, inReceive, history>>

EditEntry(e) ==
  /\ unfit' \in {unfit \ {e}, unfit \cup {e}}
  /\ UNCHANGED <<online, node, delay, mode, raised, shown, switched, counters, inReceive, history>>

-----------------------------------------------------------------------------
(* _on_receive, in thread c.                                               *)

Goes(c, from, to) == at[c] = from /\ at' = [at EXCEPT ![c] = to]

\* Any bytes are counted; t is what they say if they are whole and unharmed.
Receive(c, t) ==
  /\ rx < MaxRx
  /\ Goes(c, "idle", "parse")
  /\ rx'        = rx + 1
  /\ telegram'  = [telegram EXCEPT ![c] = t]
  /\ told'      = [told EXCEPT ![c] = {}]
  /\ promised'  = [promised EXCEPT ![c] = lowered]
  /\ metOnline' = IF online THEN metOnline \cup {c} ELSE metOnline \ {c}
  /\ metNode'   = IF node = t.node THEN metNode \cup {c} ELSE metNode \ {c}
  /\ UNCHANGED <<tx, crcErrors, deviceState, todo, lowered>>

\* What parse_master refuses is dropped ...
ParseFails(c) ==
  /\ Goes(c, "parse", "idle")
  /\ UNCHANGED <<deviceState, counters, telegram, todo, told, history>>

\* Mutant: the "return None" is missing.
CrcFailsThrough(c) ==
  /\ Goes(c, "parse", "online")
  /\ crcErrors' = crcErrors + 1
  /\ UNCHANGED <<rx, tx, deviceState, telegram, todo, told, history>>

\* ... as is what fails its CRC, which is counted ...
CrcFails(c) ==
  /\ Goes(c, "parse", "idle")
  /\ crcErrors' = crcErrors + 1
  /\ UNCHANGED <<rx, tx, deviceState, telegram, todo, told, history>>

\* ... and for what is left the reply delay is read.
CrcHolds(c) ==
  /\ Goes(c, "parse", IF delay > 0 THEN "delay" ELSE "online")
  /\ UNCHANGED <<deviceState, counters, telegram, todo, told, history>>

DelayOver(c) ==
  /\ Goes(c, "delay", "online")
  /\ UNCHANGED <<deviceState, counters, telegram, todo, told, history>>

\* Mutant: online is not looked at.
AlwaysOnline(c) ==
  /\ Goes(c, "online", "address")
  /\ UNCHANGED <<deviceState, counters, telegram, todo, told, history>>

CheckOnline(c) ==
  /\ Goes(c, "online", IF online THEN "address" ELSE "idle")
  /\ UNCHANGED <<deviceState, counters, telegram, todo, told, history>>

CheckAddress(c) ==
  /\ Goes(c, "address", IF telegram[c].node = node THEN "serve" ELSE "idle")
  /\ UNCHANGED <<deviceState, counters, telegram, todo, told, history>>

\* Mutant: the status byte is made of the switches, not of the flags.
StatusOfSwitches(c) ==
  /\ Goes(c, "serve", "words") /\ telegram[c].kind = "AB"
  /\ told' = [told EXCEPT ![c] = shown]
  /\ todo' = [todo EXCEPT ![c] = AbEntries(telegram[c].typeA, telegram[c].typeB)]
  /\ UNCHANGED <<deviceState, counters, telegram, history>>

\* The status byte first, then the words.
HandleTypeAB(c) ==
  /\ Goes(c, "serve", "words") /\ telegram[c].kind = "AB"
  /\ told' = [told EXCEPT ![c] = raised]
  /\ todo' = [todo EXCEPT ![c] = AbEntries(telegram[c].typeA, telegram[c].typeB)]
  /\ UNCHANGED <<deviceState, counters, telegram, history>>

\* struct.pack and bytes raise for a value that does not fit, and nothing
\* in _on_receive catches it.
PackWord(c) ==
  /\ todo[c] # <<>>
  /\ Goes(c, "words", IF Head(todo[c]) \in unfit THEN "raised" ELSE "words")
  /\ todo' = [todo EXCEPT ![c] = IF Head(todo[c]) \in unfit THEN <<>> ELSE Tail(todo[c])]
  /\ UNCHANGED <<deviceState, counters, telegram, told, history>>

ReplyComplete(c) ==
  /\ todo[c] = <<>>
  /\ Goes(c, "words", "answered")
  /\ tx' = tx + 1
  /\ UNCHANGED <<rx, crcErrors, deviceState, telegram, todo, told, history>>

Commanded(c, cmds) == telegram[c].kind = "C" /\ telegram[c].cmd \in cmds

Lower(c, flags) ==
  /\ Goes(c, "serve", "words")
  /\ raised'  = raised \ flags
  /\ lowered' = lowered \cup flags
  /\ UNCHANGED <<online, node, delay, mode, shown, switched, unfit, counters, telegram, todo, told,
                 promised, metOnline, metNode>>

ClearResetFlag(c) == Commanded(c, {ResetFlag}) /\ Lower(c, {"reset_flag"})
ClearOverloads(c) == Commanded(c, {ResetOutputs}) /\ Lower(c, Overload)

\* Short data leaves the mode, or the delay, as it is, and is acknowledged.
SetupAnalogInputs(c) ==
  /\ Goes(c, "serve", "words") /\ Commanded(c, {AnalogInputSetup})
  /\ mode' = IF Len(telegram[c].data) >= 3 THEN SubSeq(telegram[c].data, 1, 3) ELSE mode
  /\ UNCHANGED <<online, node, delay, raised, shown, switched, unfit, counters, telegram, todo, told, history>>

SetReplyDelay(c) ==
  /\ Goes(c, "serve", "words") /\ Commanded(c, {ReplyDelay})
  /\ delay' = IF Len(telegram[c].data) >= 1 THEN telegram[c].data[1] ELSE delay
  /\ UNCHANGED <<online, node, mode, raised, shown, switched, unfit, counters, telegram, todo, told, history>>

\* The version tells the reset flag; the status flags carry two words; the
\* DIP switch and unknown commands are answered with a byte.
ReplyWithState(c) ==
  /\ Goes(c, "serve", "words") /\ telegram[c].kind = "C"
  /\ ~Commanded(c, {ResetFlag, ResetOutputs, AnalogInputSetup, ReplyDelay})
  /\ told' = [told EXCEPT ![c] = IF Commanded(c, {VersionInfo}) THEN raised \cap {"reset_flag"} ELSE {}]
  /\ todo' = [todo EXCEPT ![c] = IF Commanded(c, {StatusFlags}) THEN Bank("BOARD", 0, 1) ELSE <<>>]
  /\ UNCHANGED <<deviceState, counters, telegram, history>>

\* The server takes the response, or the exception, which ends the connection.
ServerGoesOn(c) ==
  /\ at[c] \in {"answered", "raised"}
  /\ at' = [at EXCEPT ![c] = "idle"]
  /\ UNCHANGED <<deviceState, counters, telegram, todo, told, history>>

-----------------------------------------------------------------------------
\* The GUI thread does one thing at a time.
UserEdits ==
  \/ /\ switched = {}
     /\ \/ ToggleOnline \/ \E n \in Nodes : SetNode(n)
        \/ \E f \in Toggled : MoveSwitch(f)
        \/ \E d \in Delays : EditDelay(d)
        \/ \E e \in Edited : EditEntry(e)
  \/ \E f \in switched : WriteFlag(f)

Serve(c) ==
  \/ HandleTypeAB(c) \/ ClearResetFlag(c) \/ ClearOverloads(c)
  \/ SetupAnalogInputs(c) \/ SetReplyDelay(c) \/ ReplyWithState(c)

InReceive(c) ==
  \/ ParseFails(c) \/ CrcFails(c) \/ CrcHolds(c)
  \/ DelayOver(c) \/ CheckOnline(c) \/ CheckAddress(c) \/ Serve(c)
  \/ PackWord(c) \/ ReplyComplete(c) \/ ServerGoesOn(c)

DeviceNext ==
  \/ UserEdits
  \/ \E c \in Callers : InReceive(c) \/ \E t \in Telegrams : Receive(c, t)

DeviceSafety == DeviceInit /\ [][DeviceNext]_deviceVars

-----------------------------------------------------------------------------
(* Properties.                                                             *)

\* A device that was offline, or had another address, during the whole time
\* from the arrival of a telegram does not answer it, although neither is
\* looked at before the reply delay is over nor looked at again after.
OfflineIsSilent ==
  \A c \in Callers : at[c] = "answered" => c \in metOnline /\ c \in metNode

\* What a master has cleared stays cleared in every reply to a telegram that
\* arrives later, in whichever thread, unless the user raises it again.
ClearedStaysClear ==
  \A c \in Callers : at[c] \in {"words", "answered"} => told[c] \cap promised[c] = {}

\* The panel never shows a flag as down that the card reports: a switch may be
\* on over a flag a master has cleared, since nothing but the user moves it, but
\* not off over a raised one, whatever order the two act in, except for the
\* moment until the callback of a switch has run.
RaisedIsShown == raised \ switched \subseteq shown

\* The counters agree, whichever threads count at the same time: a telegram is
\* answered or fails its CRC, and none is counted twice.
CountsAddUp ==
  rx >= tx + crcErrors + Cardinality({c \in Callers : at[c] \notin {"idle", "answered"}})

-----------------------------------------------------------------------------
(* What the documentation says, where the code differs.                    *)

\* "CNT 0-15 (16 channels, 16-bit)" (protocol.py:59): a counter the user has
\* entered can be packed, and a telegram that asks for it is answered.
ValidIsAnswered == \A c \in Callers : at[c] # "raised"
=============================================================================
