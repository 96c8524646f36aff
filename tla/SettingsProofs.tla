----------------------------- MODULE SettingsProofs -----------------------------
(* What save and load promise for any number of programs on one file, and   *)
(* for any values of the settings.                                          *)
EXTENDS Settings, TLAPS

-----------------------------------------------------------------------------
\* What is read is settings, whatever the file holds.
LEMMA LoadType == SettingsTypeOK => Load \in Configs
  BY SettingsConstants DEF SettingsTypeOK, Load

\* Settings are shown as a window, with any of the ports found.
LEMMA ShownType ==
  ASSUME NEW c \in Configs, NEW s \in SerialPorts PROVE Shown(c, s) \in Windows
  BY DEF Configs, Windows, Shown, Transports

\* What is saved of a window is settings again, and all of it is there.
LEMMA SavedType ==
  ASSUME NEW c \in Configs, NEW w \in Windows
  PROVE  /\ Saved(c, w) \in Configs
         /\ Saved(c, w).other = c.other
         /\ TakesUp(Shown(Saved(c, w), w.serial), w, SerialPorts)
  BY DEF Configs, Windows, Transports, Saved, FirstWord, Shown, TakesUp, ConnectsBy

\* A program that has ended has nothing in memory.
LEMMA EndsType ==
  ASSUME SettingsTypeOK, NEW p \in Programs, Ends(p)
  PROVE  /\ at' \in [Programs -> {"off", "shown", "open"}] /\ menu' \in [Programs -> Menus]
         /\ cfg' \in [Programs -> Configs] /\ window' \in [Programs -> Windows]
         /\ edits' \in [Programs -> 0..MaxEdits]
         /\ lost' \in BOOLEAN /\ first' \in Others
<1>1. Default.serial \in SerialPorts
  BY SettingsConstants DEF Configs
<1>2. Shown(Default, Default.serial) \in Windows
  BY <1>1, ShownType, SettingsConstants
<1>3. SerialPorts \in Menus
  BY <1>1 DEF Menus
<1>4. 0 \in 0..MaxEdits
  BY SettingsConstants
<1> QED
  BY <1>2, <1>3, <1>4, SettingsConstants DEF SettingsTypeOK, Ends

\* No step breaks the types.
LEMMA SettingsTypeNext ==
  ASSUME SettingsTypeOK, [SettingsNext]_settingsVars PROVE SettingsTypeOK'
<1>1. CASE UNCHANGED settingsVars
  BY <1>1 DEF settingsVars, SettingsTypeOK
<1>2. CASE RemoveFile
  BY <1>2 DEF RemoveFile, SettingsTypeOK
<1>3. ASSUME NEW p \in Programs, StartProgram(p) PROVE SettingsTypeOK'
  <2>1. PICK found \in Menus : \E s \in FoundAmong(Load.serial, found) :
          menu' = [menu EXCEPT ![p] = found] /\ window' = [window EXCEPT ![p] = Shown(Load, s)]
    BY <1>3 DEF StartProgram
  <2>2. \A s \in FoundAmong(Load.serial, found) : s \in SerialPorts
    BY LoadType DEF FoundAmong, Menus, Configs
  <2>3. \A s \in FoundAmong(Load.serial, found) : Shown(Load, s) \in Windows
    BY <2>2, LoadType, ShownType
  <2> QED
    BY <1>3, <2>1, <2>3, LoadType DEF StartProgram, Goes, SettingsTypeOK
<1>4. ASSUME NEW p \in Programs, Edit(p) PROVE SettingsTypeOK'
  <2>1. window' \in [Programs -> Windows]
    <3>1. \A w \in Windows :
            /\ \A t \in Transports : [w EXCEPT !.transport = t] \in Windows
            /\ \A t \in TcpPorts \cup {Invalid} : [w EXCEPT !.tcp = t] \in Windows
            /\ \A s \in SerialPorts : [w EXCEPT !.serial = s] \in Windows
            /\ \A v \in Plains : [w EXCEPT !.plain = v] \in Windows
            /\ \A v \in Unsaveds : [w EXCEPT !.unsaved = v] \in Windows
      BY DEF Windows
    <3>2. menu[p] \subseteq SerialPorts /\ window[p] \in Windows
      BY DEF SettingsTypeOK, Menus
    <3>3. \E w \in Windows : window' = [window EXCEPT ![p] = w]
      BY <1>4, <3>1, <3>2 DEF Edit
    <3> QED
      BY <3>3 DEF SettingsTypeOK
  <2>2. edits' \in [Programs -> 0..MaxEdits]
    BY <1>4, SettingsConstants DEF Edit, SettingsTypeOK
  <2> QED
    BY <1>4, <2>1, <2>2 DEF Edit, SettingsTypeOK
<1>5. ASSUME NEW p \in Programs, OpenFile(p) PROVE SettingsTypeOK'
  BY <1>5, SavedType DEF OpenFile, Goes, SettingsTypeOK
<1>6. ASSUME NEW p \in Programs, WriteFile(p) PROVE SettingsTypeOK'
  BY <1>6, EndsType DEF WriteFile, SettingsTypeOK
<1>7. ASSUME NEW p \in Programs, EndsUnsaved(p) PROVE SettingsTypeOK'
  BY <1>7, EndsType DEF EndsUnsaved, SettingsTypeOK
<1> QED
  BY <1>1, <1>2, <1>3, <1>4, <1>5, <1>6, <1>7 DEF SettingsNext, ProgramGoes

-----------------------------------------------------------------------------
\* No step loses the settings without a widget.
LEMMA OthersNext ==
  ASSUME SettingsTypeOK, OthersSurvive, [SettingsNext]_settingsVars PROVE OthersSurvive'
<1>1. CASE UNCHANGED settingsVars
  BY <1>1 DEF settingsVars, OthersSurvive
<1>2. CASE RemoveFile
  BY <1>2, SettingsConstants DEF RemoveFile, OthersSurvive
<1>3. ASSUME NEW p \in Programs, StartProgram(p) PROVE OthersSurvive'
  <2> SUFFICES ASSUME ~lost' PROVE OthersSurvive'
    BY DEF OthersSurvive
  <2>1. ~lost /\ Load = file /\ file.other = first
    BY <1>3 DEF StartProgram, Load, OthersSurvive
  <2> QED
    BY <1>3, <2>1 DEF StartProgram, Goes, SettingsTypeOK, OthersSurvive
<1>4. ASSUME NEW p \in Programs, Edit(p) PROVE OthersSurvive'
  BY <1>4 DEF Edit, OthersSurvive
<1>5. ASSUME NEW p \in Programs, OpenFile(p) PROVE OthersSurvive'
  <2>1. Saved(cfg[p], window[p]).other = cfg[p].other /\ at[p] # "off"
    BY <1>5, SavedType DEF OpenFile, Goes, SettingsTypeOK
  <2> QED
    BY <1>5, <2>1, SettingsConstants DEF OpenFile, Goes, SettingsTypeOK, OthersSurvive
<1>6. ASSUME NEW p \in Programs, WriteFile(p) \/ EndsUnsaved(p) PROVE OthersSurvive'
  <2>1. /\ at[p] # "off" /\ lost' = lost /\ first' = first
        /\ file' = file \/ file' = cfg[p] \/ file' = Torn
        /\ \A q \in Programs : at'[q] # "off" => at[q] # "off" /\ cfg'[q] = cfg[q]
    BY <1>6 DEF WriteFile, EndsUnsaved, Ends, SettingsTypeOK
  <2> QED
    BY <2>1, SettingsConstants DEF OthersSurvive
<1> QED
  BY <1>1, <1>2, <1>3, <1>4, <1>5, <1>6 DEF SettingsNext, ProgramGoes

-----------------------------------------------------------------------------
\* A file that is known to be whole holds what the window has left, and so will
\* the file that is being written.
Whole ==
  /\ left # None => file \in Configs /\ TakesUp(Shown(file, left.serial), left, SerialPorts)
                    /\ left.serial = file.serial
  /\ \A p \in Programs : at[p] = "open" =>
       /\ TakesUp(Shown(cfg[p], window[p].serial), window[p], SerialPorts)
       /\ window[p].serial = cfg[p].serial

\* No step breaks it.
LEMMA WholeNext ==
  ASSUME SettingsTypeOK, Whole, [SettingsNext]_settingsVars PROVE Whole'
<1>1. CASE UNCHANGED settingsVars
  BY <1>1 DEF settingsVars, Whole
<1>2. CASE RemoveFile
  BY <1>2 DEF RemoveFile, Whole
<1>3. ASSUME NEW p \in Programs, StartProgram(p) PROVE Whole'
  <2>1. /\ file' = file /\ left' = left
        /\ \A q \in Programs : at'[q] = "open" =>
             at[q] = "open" /\ cfg'[q] = cfg[q] /\ window'[q] = window[q]
    BY <1>3 DEF StartProgram, Goes, SettingsTypeOK
  <2> QED
    BY <2>1 DEF Whole
<1>4. ASSUME NEW p \in Programs, Edit(p) PROVE Whole'
  <2>1. /\ file' = file /\ left' = left
        /\ \A q \in Programs : at'[q] = "open" =>
             at[q] = "open" /\ cfg'[q] = cfg[q] /\ window'[q] = window[q]
    BY <1>4 DEF Edit, SettingsTypeOK
  <2> QED
    BY <2>1 DEF Whole
<1>5. ASSUME NEW p \in Programs, OpenFile(p) PROVE Whole'
  <2>1. /\ left' = None /\ window' = window
        /\ cfg'[p] = Saved(cfg[p], window[p])
        /\ \A q \in Programs \ {p} : at'[q] = at[q] /\ cfg'[q] = cfg[q]
    BY <1>5 DEF OpenFile, Goes, SettingsTypeOK
  <2>2. /\ TakesUp(Shown(cfg'[p], window[p].serial), window[p], SerialPorts)
        /\ window[p].serial = cfg'[p].serial
    <3>1. cfg[p] \in Configs /\ window[p] \in Windows
      BY DEF SettingsTypeOK
    <3>2. window[p].serial = Saved(cfg[p], window[p]).serial
      BY <3>1 DEF Saved, Configs
    <3> QED
      BY <2>1, <3>1, <3>2, SavedType
  <2> QED
    BY <2>1, <2>2 DEF Whole
<1>6. ASSUME NEW p \in Programs, WriteFile(p) \/ EndsUnsaved(p) PROVE Whole'
  <2>1. /\ \A q \in Programs : at'[q] = "open" =>
             at[q] = "open" /\ cfg'[q] = cfg[q] /\ window'[q] = window[q]
        /\ \/ file' = file /\ left' = left
           \/ at[p] = "open" /\ file' = cfg[p] /\ left' = window[p]
           \/ left' = None
    BY <1>6 DEF WriteFile, EndsUnsaved, Ends, SettingsTypeOK
  <2> QED
    BY <2>1 DEF Whole, SettingsTypeOK
<1> QED
  BY <1>1, <1>2, <1>3, <1>4, <1>5, <1>6 DEF SettingsNext, ProgramGoes

\* A program that starts on such a file shows what the window has left.
LEMMA StartsAsLeft ==
  ASSUME SettingsTypeOK, Whole, [SettingsNext]_settingsVars,
         NEW p \in Programs, at[p] = "off", at'[p] = "shown", left # None
  PROVE  TakesUp(window'[p], left, menu'[p])
<1>1. StartProgram(p)
  <2>1. ASSUME NEW q \in Programs, StartProgram(q) PROVE q = p
    BY <2>1 DEF StartProgram, Goes, SettingsTypeOK
  <2>2. \A q \in Programs : ~Edit(q) /\ ~OpenFile(q) /\ ~WriteFile(q) /\ ~EndsUnsaved(q)
    BY DEF Edit, OpenFile, WriteFile, EndsUnsaved, Ends, Goes, SettingsTypeOK
  <2> QED
    BY <2>1, <2>2 DEF SettingsNext, ProgramGoes, RemoveFile, settingsVars
<1>2. PICK found \in Menus : \E s \in FoundAmong(Load.serial, found) :
        menu' = [menu EXCEPT ![p] = found] /\ window' = [window EXCEPT ![p] = Shown(Load, s)]
  BY <1>1 DEF StartProgram
<1>3. PICK s \in FoundAmong(Load.serial, found) :
        menu' = [menu EXCEPT ![p] = found] /\ window' = [window EXCEPT ![p] = Shown(Load, s)]
  BY <1>2
<1>4. window'[p] = Shown(file, s) /\ menu'[p] = found
  BY <1>3 DEF SettingsTypeOK, Whole, Load
<1>5. file.serial \in found => s = file.serial
  BY <1>3 DEF Load, Whole, FoundAmong
<1> QED
  BY <1>4, <1>5 DEF Whole, TakesUp, Shown

-----------------------------------------------------------------------------
\* The strengthening of the properties below.
SettingsInv == SettingsTypeOK /\ OthersSurvive /\ Whole

\* It holds of a file before any program has started.
LEMMA SettingsInvInit == SettingsInit => SettingsInv
<1> SUFFICES ASSUME SettingsInit PROVE SettingsInv
  OBVIOUS
<1>1. Default.serial \in SerialPorts /\ file.other \in Others
  BY SettingsConstants DEF SettingsInit, Configs
<1>2. SettingsTypeOK
  <2>1. SerialPorts \in Menus /\ 0 \in 0..MaxEdits
    BY <1>1, SettingsConstants DEF Menus
  <2>2. Shown(Default, Default.serial) \in Windows
    BY <1>1, ShownType, SettingsConstants
  <2> QED
    BY <1>1, <2>1, <2>2, SettingsConstants DEF SettingsInit, SettingsTypeOK
<1>3. OthersSurvive /\ Whole
  BY DEF SettingsInit, OthersSurvive, Whole
<1> QED
  BY <1>2, <1>3 DEF SettingsInv

\* The strengthening holds throughout.
LEMMA SettingsInvariance == SettingsSpec => []SettingsInv
<1>1. SettingsInv /\ [SettingsNext]_settingsVars => SettingsInv'
  BY SettingsTypeNext, OthersNext, WholeNext DEF SettingsInv
<1> QED
  BY <1>1, SettingsInvInit, PTL DEF SettingsSpec

-----------------------------------------------------------------------------
\* The variables of Settings keep their types: the file never holds half of it.
THEOREM SettingsTypeCorrect == SettingsSpec => []SettingsTypeOK
  BY SettingsInvariance, PTL DEF SettingsInv

\* Settings without a widget outlast every session of every program, until one
\* starts without a readable file.
THEOREM OthersOutlast == SettingsSpec => []OthersSurvive
  BY SettingsInvariance, PTL DEF SettingsInv

\* A program that starts shows what the last one to write the file has left.
THEOREM ReopenedAsLeft == SettingsSpec => ReopensAsLeft
<1>1. SettingsInv /\ [SettingsNext]_settingsVars =>
        [\A p \in Programs : at[p] = "off" /\ at'[p] = "shown" /\ left # None =>
           TakesUp(window'[p], left, menu'[p])]_settingsVars
  BY StartsAsLeft DEF SettingsInv
<1> QED
  BY <1>1, SettingsInvariance, PTL DEF SettingsSpec, ReopensAsLeft
================================================================================
