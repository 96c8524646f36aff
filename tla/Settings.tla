------------------------------- MODULE Settings -------------------------------
(***************************************************************************)
(* config/config.py and what gui/main_window.py does with it: settings are *)
(* read when the window is built and written when it is closed, in a       *)
(* program that may be killed in between, beside a second one that uses    *)
(* the same file.                                                          *)
(*                                                                         *)
(* Of AppConfig, plain is what the window loads and saves as it stands:    *)
(* host, baud rate, node address and reply delay.  unsaved has a widget    *)
(* that shows it but is never saved: parity, online, reset flag, board     *)
(* temperature and voltage.  other has no widget: data and stop bits, read *)
(* timeout, simulate_fault, auto_respond, the log.                         *)
(***************************************************************************)
EXTENDS Naturals

CONSTANTS Programs, None, Missing, Empty, Torn, Invalid,
          TcpPorts, SerialPorts, Plains, Unsaveds, Others,   \* values of the settings
          Default,    \* AppConfig()
          MaxEdits    \* bound: edits in one window

\* The settings in the file, where mode is the transport's first word.
Configs == [mode : {"TCP", "Serial"}, tcp : TcpPorts, serial : SerialPorts,
            plain : Plains, unsaved : Unsaveds, other : Others]

Transports == {"TCP", "Serial (COM)"}
Menus      == (SUBSET SerialPorts) \ {{}}

\* What the widgets show and DeviceState holds.
Windows == [transport : Transports \cup {"Serial"}, tcp : TcpPorts \cup {Invalid},   \* no number
            serial : SerialPorts, plain : Plains, unsaved : Unsaveds]

ASSUME SettingsConstants ==
  /\ Default \in Configs /\ Invalid \notin TcpPorts /\ None \notin Windows
  /\ {Missing, Empty, Torn} \cap Configs = {} /\ MaxEdits \in Nat

VARIABLES
  file,     \* settings.json: its settings, or why it has none
  at,       \* at[p]: "off", "shown", or "open" while it saves
  menu,     \* menu[p]: the serial ports p has found, or made up
  cfg,      \* cfg[p]: _cfg
  window,   \* window[p]: its widgets and device_state
  edits,    \* edits[p]: the edits in window[p]
  left,     \* history: the window the file was last written for
  lost,     \* history: a program has started without a file it could read
  first     \* history: other of the file in the beginning

settingsVars == <<file, at, menu, cfg, window, edits, left, lost, first>>

SettingsTypeOK ==
  /\ file \in Configs \cup {Missing, Empty, Torn}
  /\ at \in [Programs -> {"off", "shown", "open"}]
  /\ menu \in [Programs -> Menus]
  /\ cfg \in [Programs -> Configs] /\ window \in [Programs -> Windows]
  /\ edits \in [Programs -> 0..MaxEdits]
  /\ left \in Windows \cup {None} /\ lost \in BOOLEAN /\ first \in Others

-----------------------------------------------------------------------------
(* The conversions.                                                        *)

\* A file that is missing or does not parse is taken for the defaults.
Load == IF file \in Configs THEN file ELSE Default

Shown(c, serial) ==
  [transport |-> c.mode, tcp |-> c.tcp, serial |-> serial,
   plain |-> c.plain, unsaved |-> c.unsaved]

\* A serial port the machine does not have is replaced by one it has.
FoundAmong(serial, found) == IF serial \in found THEN {serial} ELSE found

\* What Connect starts.
ConnectsBy(transport) == IF transport = "TCP" THEN "TCP" ELSE "Serial"

\* Mutant: the name is not split.
WholeName(transport) == transport

FirstWord(transport) == IF transport = "TCP" THEN "TCP" ELSE "Serial"

\* Mutant: host, baud rate, address and delay are saved as they were loaded.
SavesWidgets(c, w) ==
  [c EXCEPT !.mode   = FirstWord(w.transport),
            !.tcp    = IF w.tcp = Invalid THEN c.tcp ELSE w.tcp,
            !.serial = w.serial]

\* A port that is no number leaves the one that was loaded, and parity, the
\* two switches and the board values stay as they were loaded.
Saved(c, w) ==
  [c EXCEPT !.mode   = FirstWord(w.transport),
            !.tcp    = IF w.tcp = Invalid THEN c.tcp ELSE w.tcp,
            !.serial = w.serial,
            !.plain  = w.plain]

-----------------------------------------------------------------------------
\* Settings as a program or a user has left them, and no program running.
SettingsInit ==
  /\ file \in Configs /\ first = file.other
  /\ at     = [p \in Programs |-> "off"]
  /\ menu   = [p \in Programs |-> SerialPorts]
  /\ cfg    = [p \in Programs |-> Default]
  /\ window = [p \in Programs |-> Shown(Default, Default.serial)]
  /\ edits  = [p \in Programs |-> 0]
  /\ left = None /\ lost = FALSE

Goes(p, from, to) == at[p] = from /\ at' = [at EXCEPT ![p] = to]

\* Mutant: the other settings are not read.
LoadsShown(p) ==
  /\ Goes(p, "off", "shown")
  /\ cfg' = [cfg EXCEPT ![p] = [Load EXCEPT !.other = Default.other]]
  /\ \E found \in Menus : \E s \in FoundAmong(Load.serial, found) :
       menu' = [menu EXCEPT ![p] = found] /\ window' = [window EXCEPT ![p] = Shown(Load, s)]
  /\ lost' = (lost \/ file \notin Configs)
  /\ UNCHANGED <<file, edits, left, first>>

StartProgram(p) ==
  /\ Goes(p, "off", "shown")
  /\ cfg' = [cfg EXCEPT ![p] = Load]
  /\ \E found \in Menus : \E s \in FoundAmong(Load.serial, found) :
       menu' = [menu EXCEPT ![p] = found] /\ window' = [window EXCEPT ![p] = Shown(Load, s)]
  /\ lost' = (lost \/ file \notin Configs)
  /\ UNCHANGED <<file, edits, left, first>>

\* Widgets change while the window is shown; a master also changes the delay and
\* clears the reset flag.
Edit(p) ==
  /\ at[p] = "shown" /\ edits[p] < MaxEdits
  /\ edits' = [edits EXCEPT ![p] = @ + 1]
  /\ \/ \E t \in Transports : window' = [window EXCEPT ![p].transport = t]
     \/ \E t \in TcpPorts \cup {Invalid} : window' = [window EXCEPT ![p].tcp = t]
     \/ \E s \in menu[p] : window' = [window EXCEPT ![p].serial = s]
     \/ \E v \in Plains : window' = [window EXCEPT ![p].plain = v]
     \/ \E v \in Unsaveds : window' = [window EXCEPT ![p].unsaved = v]
  /\ UNCHANGED <<file, at, menu, cfg, left, lost, first>>

\* open() for writing empties the file.
OpenFile(p) ==
  /\ Goes(p, "shown", "open")
  /\ cfg'  = [cfg EXCEPT ![p] = Saved(cfg[p], window[p])]
  /\ file' = Empty /\ left' = None
  /\ UNCHANGED <<menu, window, edits, lost, first>>

\* The program ends, and what it had in memory is gone.
Ends(p) ==
  /\ at'     = [at     EXCEPT ![p] = "off"]
  /\ menu'   = [menu   EXCEPT ![p] = SerialPorts]
  /\ cfg'    = [cfg    EXCEPT ![p] = Default]
  /\ window' = [window EXCEPT ![p] = Shown(Default, Default.serial)]
  /\ edits'  = [edits  EXCEPT ![p] = 0]
  /\ UNCHANGED <<lost, first>>

\* The text is written when the file is closed, from its beginning on.  What
\* another program has written there since is covered, unless it is longer,
\* and then the rest of it makes the file unreadable.
WriteFile(p) ==
  /\ at[p] = "open" /\ Ends(p)
  /\ \/ file' = cfg[p] /\ left' = window[p]
     \/ file # Empty /\ file' = Torn /\ left' = None

\* Killed, or it cannot open or write the file, which is logged: the file
\* stays as it is.
EndsUnsaved(p) ==
  /\ at[p] # "off" /\ Ends(p)
  /\ UNCHANGED <<file, left>>

\* The user, while no program has it open.
RemoveFile ==
  /\ \A p \in Programs : at[p] # "open"
  /\ file' = Missing /\ left' = None
  /\ UNCHANGED <<at, menu, cfg, window, edits, lost, first>>

ProgramGoes(p) ==
  \/ StartProgram(p) \/ Edit(p) \/ OpenFile(p) \/ WriteFile(p) \/ EndsUnsaved(p)

SettingsNext == RemoveFile \/ \E p \in Programs : ProgramGoes(p)

SettingsSpec == SettingsInit /\ [][SettingsNext]_settingsVars

-----------------------------------------------------------------------------
(* Properties.                                                             *)

\* The window w, of a program that has found the serial ports found, takes up
\* what the window v has left.
TakesUp(w, v, found) ==
  /\ ConnectsBy(w.transport) = ConnectsBy(v.transport)
  /\ v.tcp # Invalid => w.tcp = v.tcp
  /\ v.serial \in found => w.serial = v.serial
  /\ w.plain = v.plain

\* A program shows what the last one to write the file has left, through save,
\* file, load and widgets: its transport under another name, its ports, its
\* host and baud rate, and the node address and delay of its card.
ReopensAsLeft ==
  [][\A p \in Programs : at[p] = "off" /\ at'[p] = "shown" /\ left # None =>
       TakesUp(window'[p], left, menu'[p])]_settingsVars

\* Settings without a widget are as they were in the beginning, in the file and
\* in every program, until a program has started without a file it could read:
\* whatever is killed between opening and writing, and whichever programs write
\* at the same time.
OthersSurvive ==
  ~lost =>
    /\ file \in Configs => file.other = first
    /\ \A p \in Programs : at[p] # "off" => cfg[p].other = first

-----------------------------------------------------------------------------
(* What the description says, where the code differs.                      *)

\* "Config persists between sessions": what the window shows beside the settings
\* above is shown by the next one as well.  It is not: parity, the online and
\* reset switches and the board values are loaded but never saved.
ConfigPersists ==
  [][\A p \in Programs : at[p] = "off" /\ at'[p] = "shown" /\ left # None =>
       window'[p].unsaved = left.unsaved]_settingsVars
=============================================================================
