------------------------------ MODULE MainWindow ------------------------------
(***************************************************************************)
(* gui/main_window.py: the two buttons of the connection panel and the     *)
(* closing of the window, over ConnectionManager.  Their handlers run in   *)
(* the GUI thread from end to end; what the other threads report is shown  *)
(* between two handlers.                                                   *)
(*                                                                         *)
(* Connect and Disconnect are enabled in turn, and never by what becomes   *)
(* of the connection: only a handler that has returned changes them.  A    *)
(* port number that is none makes _on_connect return at once: no step.     *)
(* What _on_close saves is the subject of Settings.                        *)
(***************************************************************************)
EXTENDS ConnectionManager

VARIABLES
  handling,  \* the handler the GUI thread is in, or "none"; "closed" at last
  enabled    \* the button that can be pressed

windowVars == <<handling, enabled>>
mainVars   == <<vars, windowVars>>

\* The GUI thread is in the manager exactly while a handler has called it.
WindowTypeOK ==
  /\ handling \in {"none", "connect", "disconnect", "close", "closed"}
  /\ enabled  \in {"connect", "disconnect"}
  /\ Idle <=> handling \in {"none", "closed"}

WindowInit == Init /\ handling = "none" /\ enabled = "connect"

-----------------------------------------------------------------------------
StartChosen ==
  \/ \E s \in TcpServers : StartTcp(s)
  \/ \E p \in SerialServers : StartSerial(p)

StopCurrent ==
  \/ \E s \in TcpServers : StopTcp(s)
  \/ \E p \in SerialServers : StopSerial(p)

\* Disconnect is what can be pressed next, also when the start was refused or
\* has failed.
OnConnect ==
  /\ handling = "none" /\ enabled = "connect"
  /\ IF server = None
     THEN StartChosen /\ handling' = "connect" /\ UNCHANGED enabled
     ELSE enabled' = "disconnect" /\ UNCHANGED <<vars, handling>>

\* Mutant: a connection that is reported as ended needs no stop().
SkipsStop ==
  /\ handling = "none" /\ enabled = "disconnect"
  /\ IF server # None /\ state # "DISCONNECTED"
     THEN StopCurrent /\ handling' = "disconnect" /\ UNCHANGED enabled
     ELSE enabled' = "connect" /\ UNCHANGED <<vars, handling>>

OnDisconnect ==
  /\ handling = "none" /\ enabled = "disconnect"
  /\ IF server # None
     THEN StopCurrent /\ handling' = "disconnect" /\ UNCHANGED enabled
     ELSE enabled' = "connect" /\ UNCHANGED <<vars, handling>>

\* Mutant: stop() is called for a connection in use only.
StopsConnected ==
  /\ handling = "none"
  /\ IF server # None /\ state = "CONNECTED"
     THEN StopCurrent /\ handling' = "close"
     ELSE handling' = "closed" /\ UNCHANGED vars
  /\ UNCHANGED enabled

\* stop(), _save_config() and destroy().
OnClose ==
  /\ handling = "none"
  /\ IF server # None
     THEN StopCurrent /\ handling' = "close"
     ELSE handling' = "closed" /\ UNCHANGED vars
  /\ UNCHANGED enabled

\* The GUI thread goes on with the call it is in, and returns from the handler
\* when the call is over.
HandlerGoesOn ==
  /\ GuiGoes
  /\ IF gui' # "idle" THEN UNCHANGED windowVars
     ELSE /\ handling' = IF handling = "close" THEN "closed" ELSE "none"
          /\ enabled'  = CASE handling = "connect"    -> "disconnect"
                           [] handling = "disconnect" -> "connect"
                           [] OTHER -> enabled

-----------------------------------------------------------------------------
WindowNext ==
  \/ OnConnect \/ OnDisconnect \/ OnClose \/ HandlerGoesOn
  \/ /\ \/ PeersGo
        \/ CollectorGoes
        \/ \E s \in TcpServers : AcceptorGoes(s)
        \/ \E c \in Conns : HandlerGoes(c)
        \/ \E p \in SerialServers : ReaderGoes(p)
     /\ UNCHANGED windowVars

WindowSafety == WindowInit /\ [][WindowNext]_mainVars

\* Every thread goes on when it can: threads are scheduled, accept(), recv() and
\* read() have timeouts, callbacks return.  One that reports a state waits until the
\* GUI thread is back in its main loop; what other threads have posted is
\* served there in the order it came, so that it does not wait for ever while
\* the user goes on pressing buttons: strong fairness of the reports.  The
\* user and the garbage collector owe nothing.
WindowSpec ==
  /\ WindowSafety
  /\ WF_mainVars(HandlerGoesOn)
  /\ \A s \in TcpServers : WF_vars(AcceptorGoes(s)) /\ SF_vars(OnClientConnect(s))
  /\ \A c \in Conns : WF_vars(HandlerGoes(c)) /\ SF_vars(OnClientDisconnect(c))
  /\ \A p \in SerialServers : WF_vars(ReaderGoes(p)) /\ SF_vars(OnSerialClose(p))

-----------------------------------------------------------------------------
(* Properties.                                                             *)

\* But for what a start without a thread has left to the garbage collector.
NothingHeldOpen ==
  /\ \A s \in TcpServers : Bound(s) => acceptor[s] = "unstarted"
  /\ \A p \in SerialServers : port[p] = "open" => reader[p] = "unstarted"

\* Where Connect can be pressed, start_tcp and start_serial do not answer
\* "Already connected", and no listener or port of an earlier connection is in
\* the way: also after a reader has closed its port by itself and a stop() that
\* raised.
ConnectNeverRefused ==
  handling = "none" /\ enabled = "connect" => server = None /\ NothingHeldOpen

\* The window is not gone before the listener or the port is, whatever state
\* was reported when the user closed it.
ClosedReleasesAll == handling = "closed" => server = None /\ NothingHeldOpen
=============================================================================
