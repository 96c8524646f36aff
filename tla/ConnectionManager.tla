--------------------------- MODULE ConnectionManager ---------------------------
(***************************************************************************)
(* comms/connection_manager.py over TCPServer and SerialServer: the one    *)
(* connection the GUI starts and stops, the state it is reported to be in, *)
(* and the status label of gui/main_window.py that shows the reports.      *)
(*                                                                         *)
(* start_tcp, start_serial and stop hold _lock from end to end, so their   *)
(* callers are one thread here, Gui.  _set_state holds no lock: the accept *)
(* threads, client threads and readers of the current server, and of       *)
(* servers already stopped, call it whenever they get there.  Its          *)
(* comparison and its assignment are one step, the call of on_state_change *)
(* is another.  A start_* that finds a server and a stop that finds none   *)
(* change nothing, and are not steps.                                      *)
(***************************************************************************)
EXTENDS TCPServer, SerialServer

CONSTANT Gui

ASSUME ThreadsDiffer ==
  /\ None \notin TcpServers \cup SerialServers
  /\ Gui \notin TcpServers \cup SerialServers \cup Conns \cup {None}
  /\ TcpServers \cap SerialServers = {} /\ TcpServers \cap Conns = {} /\ SerialServers \cap Conns = {}

VARIABLES
  server,    \* _server
  mode,      \* _mode
  state,     \* _state
  gui,       \* where the GUI thread is in start_tcp, start_serial or stop
  pending,   \* pending[t]: the state t has assigned and has not yet reported
  label      \* the state the status label was last told to show

managerVars == <<server, mode, state, gui, pending, label>>
vars        == <<tcpVars, serialVars, managerVars>>

Threads   == {Gui} \cup TcpServers \cup SerialServers \cup Conns
States    == {"DISCONNECTED", "LISTENING", "CONNECTED", "ERROR"}
GuiStates == {"idle", "bind", "listening", "open", "opened", "failed", "stopping", "release", "post"}

ManagerTypeOK ==
  /\ server  \in TcpServers \cup SerialServers \cup {None}
  /\ mode    \in {"TCP", "SERIAL", None}
  /\ state   \in States
  /\ gui     \in GuiStates
  /\ pending \in [Threads -> States \cup {None}]
  /\ label   \in States

TypeOK == TcpTypeOK /\ SerialTypeOK /\ ManagerTypeOK

Init ==
  /\ TcpInit /\ SerialInit
  /\ server  = None
  /\ mode    = None
  /\ state   = "DISCONNECTED"
  /\ gui     = "idle"
  /\ pending = [t \in Threads |-> None]
  /\ label   = "DISCONNECTED"

-----------------------------------------------------------------------------
(* _set_state, run by thread t.                                            *)

SetState(t, new) ==
  /\ state'   = new
  /\ pending' = [pending EXCEPT ![t] = IF state = new THEN None ELSE new]
  /\ UNCHANGED label

\* Mutant: on_state_change is called whether or not the state changed.
ReportsAlways(t) ==
  /\ t # Gui => gui = "idle"
  /\ label'   = pending[t]
  /\ pending' = [pending EXCEPT ![t] = None]
  /\ UNCHANGED state

\* on_state_change, when the state did change.  root.after() called outside
\* the GUI thread waits until that thread is back in its event loop.
Report(t) ==
  /\ pending[t] # None /\ t # Gui => gui = "idle"
  /\ label'   = IF pending[t] = None THEN label ELSE pending[t]
  /\ pending' = [pending EXCEPT ![t] = None]
  /\ UNCHANGED state

GuiMoves(from, to) == gui = from /\ gui' = to

-----------------------------------------------------------------------------
(* start_tcp and start_serial.                                             *)

StartTcp(s) ==
  /\ server = None
  /\ ~Bound(s) /\ Drained(s)
  /\ GuiMoves("idle", "bind")
  /\ server' = s /\ mode' = "TCP"
  /\ UNCHANGED <<tcpVars, serialVars, state, pending, label>>

BindSucceeds(s) ==
  /\ server = s
  /\ GuiMoves("bind", "listening")
  /\ Start(s)
  /\ UNCHANGED <<serialVars, server, mode, state, pending, label>>

SetListening ==
  /\ GuiMoves("listening", "post")
  /\ SetState(Gui, "LISTENING")
  /\ UNCHANGED <<tcpVars, serialVars, server, mode>>

StartSerial(p) ==
  /\ server = None
  /\ port[p] = "closed" /\ reader[p] = "done"
  /\ GuiMoves("idle", "open")
  /\ server' = p /\ mode' = "SERIAL"
  /\ UNCHANGED <<tcpVars, serialVars, state, pending, label>>

OpenSucceeds(p) ==
  /\ server = p
  /\ GuiMoves("open", "opened")
  /\ Open(p)
  /\ UNCHANGED <<tcpVars, server, mode, state, pending, label>>

\* _on_serial_open, called when the reader is already running.
SetOpened ==
  /\ GuiMoves("opened", "post")
  /\ SetState(Gui, "CONNECTED")
  /\ UNCHANGED <<tcpVars, serialVars, server, mode>>

\* bind or open raises: _server is dropped, _mode keeps its value.
StartFails ==
  /\ GuiMoves("bind", "failed") \/ GuiMoves("open", "failed")
  /\ server' = None
  /\ UNCHANGED <<tcpVars, serialVars, mode, state, pending, label>>

\* The thread cannot be started: _server is dropped without stop(), and the
\* listener or the port is left behind.
BindsUnthreaded(s) ==
  /\ server = s
  /\ GuiMoves("bind", "failed")
  /\ StartUnthreaded(s)
  /\ server' = None
  /\ UNCHANGED <<serialVars, mode, state, pending, label>>

OpensUnthreaded(p) ==
  /\ server = p
  /\ GuiMoves("open", "failed")
  /\ OpenUnthreaded(p)
  /\ server' = None
  /\ UNCHANGED <<tcpVars, mode, state, pending, label>>

SetError ==
  /\ GuiMoves("failed", "post")
  /\ SetState(Gui, "ERROR")
  /\ UNCHANGED <<tcpVars, serialVars, server, mode>>

GuiReports ==
  /\ GuiMoves("post", "idle")
  /\ Report(Gui)
  /\ UNCHANGED <<tcpVars, serialVars, server, mode>>

-----------------------------------------------------------------------------
(* stop.                                                                   *)

\* Mutant: the server is given up without its stop().
DropsServer(s) ==
  /\ server = s
  /\ GuiMoves("idle", "release")
  /\ UNCHANGED <<tcpVars, serialVars, server, mode, state, pending, label>>

StopTcp(s) ==
  /\ server = s
  /\ GuiMoves("idle", "stopping")
  /\ StopFlag(s)
  /\ UNCHANGED <<serialVars, server, mode, state, pending, label>>

StopTcpClients(s) ==
  /\ server = s /\ gui = "stopping"
  /\ StopClients(s)
  /\ UNCHANGED <<serialVars, managerVars>>

StopTcpListener(s) ==
  /\ server = s
  /\ GuiMoves("stopping", "release")
  /\ StopListener(s)
  /\ UNCHANGED <<serialVars, server, mode, state, pending, label>>

StopSerial(p) ==
  /\ server = p
  /\ GuiMoves("idle", "stopping")
  /\ OwnerStops(p)
  /\ UNCHANGED <<tcpVars, server, mode, state, pending, label>>

StopSerialStep(p) ==
  /\ gui = "stopping"
  /\ SerialStopStep(p, "owner")
  /\ UNCHANGED <<tcpVars, managerVars>>

StopSerialNotice(p) ==
  /\ gui = "stopping"
  /\ \/ CallClose(p, "owner") /\ SetState(Gui, "DISCONNECTED")
     \/ CloseReturns(p, "owner") /\ Report(Gui)
  /\ UNCHANGED <<tcpVars, server, mode, gui>>

\* Mutant: stop() waits for the reader, asking again and again.
WaitsForReader(p) ==
  /\ stopper[p]["owner"] \in {"returned", "raised"}
  /\ \/ /\ reader[p] = "done"
        /\ GuiMoves("stopping", "release")
        /\ OwnerStopped(p)
        /\ UNCHANGED <<tcpVars, server, mode, state, pending, label>>
     \/ reader[p] # "done" /\ UNCHANGED vars

\* Returned or raised: the exception is logged and dropped.
StopSerialEnds(p) ==
  /\ GuiMoves("stopping", "release")
  /\ OwnerStopped(p)
  /\ UNCHANGED <<tcpVars, server, mode, state, pending, label>>

\* The finally block.
Release ==
  /\ GuiMoves("release", "post")
  /\ server' = None /\ mode' = None
  /\ SetState(Gui, "DISCONNECTED")
  /\ UNCHANGED <<tcpVars, serialVars>>

-----------------------------------------------------------------------------
(* The callbacks, in the threads of the servers.                           *)

OnClientConnect(s) ==
  /\ \/ CallConnect(s) /\ SetState(s, "CONNECTED")
     \/ ConnectReturns(s) /\ Report(s)
  /\ UNCHANGED <<serialVars, server, mode, gui>>

\* Mutant: the notice of a client that left does not change the state.
DisconnectUnseen(c) ==
  /\ CallDisconnect(c) \/ DisconnectReturns(c)
  /\ UNCHANGED <<serialVars, managerVars>>

OnClientDisconnect(c) ==
  /\ \/ CallDisconnect(c) /\ SetState(c, "LISTENING")
     \/ DisconnectReturns(c) /\ Report(c)
  /\ UNCHANGED <<serialVars, server, mode, gui>>

\* Mutant: the notice of a port that was closed does not change the state.
CloseUnseen(p) ==
  /\ CallClose(p, "reader") \/ CloseReturns(p, "reader")
  /\ UNCHANGED <<tcpVars, managerVars>>

OnSerialClose(p) ==
  /\ \/ CallClose(p, "reader") /\ SetState(p, "DISCONNECTED")
     \/ CloseReturns(p, "reader") /\ Report(p)
  /\ UNCHANGED <<tcpVars, server, mode, gui>>

-----------------------------------------------------------------------------
AcceptorGoes(s) == (AcceptorStep(s) /\ UNCHANGED <<serialVars, managerVars>>) \/ OnClientConnect(s)
HandlerGoes(c)  == (HandlerStep(c) /\ UNCHANGED <<serialVars, managerVars>>) \/ OnClientDisconnect(c)
ReaderGoes(p)   == (ReaderStep(p) /\ UNCHANGED <<tcpVars, managerVars>>) \/ OnSerialClose(p)
PeersGo         == PeerStep /\ UNCHANGED <<serialVars, managerVars>>

\* The garbage collector, in whichever thread it runs.
CollectorGoes ==
  /\ \/ \E s \in TcpServers : Collect(s) /\ UNCHANGED serialVars
     \/ \E p \in SerialServers : CollectPort(p) /\ UNCHANGED tcpVars
  /\ UNCHANGED managerVars

\* The user presses Connect or Disconnect.
UserGoes ==
  \/ \E s \in TcpServers : StartTcp(s) \/ StopTcp(s)
  \/ \E p \in SerialServers : StartSerial(p) \/ StopSerial(p)

\* The GUI thread goes on with the call it is in.
GuiGoes ==
  \/ SetListening \/ SetOpened \/ StartFails \/ SetError \/ GuiReports \/ Release
  \/ \E s \in TcpServers :
       BindSucceeds(s) \/ BindsUnthreaded(s) \/ StopTcpClients(s) \/ StopTcpListener(s)
  \/ \E p \in SerialServers :
       \/ OpenSucceeds(p) \/ OpensUnthreaded(p)
       \/ StopSerialStep(p) \/ StopSerialNotice(p) \/ StopSerialEnds(p)

Next ==
  \/ UserGoes \/ GuiGoes \/ PeersGo \/ CollectorGoes
  \/ \E s \in TcpServers : AcceptorGoes(s)
  \/ \E c \in Conns : HandlerGoes(c)
  \/ \E p \in SerialServers : ReaderGoes(p)

Safety == Init /\ [][Next]_vars

-----------------------------------------------------------------------------
(* Properties.                                                             *)

Idle == gui = "idle"

\* A listener that is bound and a port that is open belong to the current
\* server, or to one whose thread could not be started: the manager forgets no
\* other, and never holds two at a time, also when stop() raises or the reader
\* closes the port at the same moment.
HeldByCurrent ==
  /\ \A s \in TcpServers : Bound(s) => server = s \/ acceptor[s] = "unstarted"
  /\ \A p \in SerialServers : port[p] = "open" => server = p \/ reader[p] = "unstarted"

\* ERROR is shown of a failed start only: a late callback of an earlier
\* connection may replace it, but it never stands over a server that runs.
ErrorMeansNoServer == Idle /\ state = "ERROR" => server = None

\* With no client left and none on its way in, a running TCP server is
\* reported as LISTENING, in whatever order the notices of accept thread,
\* client threads and GUI came (as long as no earlier server is still draining).
ListeningWhenEmpty ==
  \A s \in TcpServers :
    Idle /\ server = s /\ inHand[s] = None
         /\ (\A c \in Conns : owner[c] = s => Finished(c) \/ sock[c] = "queued")
      => state = "LISTENING"

\* start_tcp, start_serial and stop always return: no thread they wait for
\* can hold them up.
GuiReturns == ~Idle ~> Idle

\* A reader that gives up while the GUI thread is idle gets the close of the
\* port on the status label (as long as no client of an earlier TCP server ends
\* at the same time and reports LISTENING over it).
SerialFailureIsShown ==
  \A p \in SerialServers :
    (Idle /\ stopper[p]["reader"] = "flag") ~> label = "DISCONNECTED"

-----------------------------------------------------------------------------
(* What comments and docstrings say of the state, where the code differs.  *)

\* "LISTENING: server bound and waiting for a client", "CONNECTED: client
\* actively connected" (connection_manager.py:32-33): with no server there is
\* neither.
StoppedIsDisconnected ==
  Idle /\ server = None => state \in {"DISCONNECTED", "ERROR"}

\* "CONNECTED: client actively connected" (connection_manager.py:33): a client
\* that leaves does not end CONNECTED while the thread of another serves it.
OneLeavesOtherStays ==
  [][\A c, d \in Conns :
       /\ handler[c] = "left" /\ handler'[c] = "posting" /\ Running(owner[c])
       /\ owner[d] = owner[c] /\ d \in clients[owner[d]] /\ sock[d] = "open" /\ ~gone[d]
       /\ handler[d] \in {"loop", "recv", "receive", "send"}
       => state' = "CONNECTED"]_vars
=============================================================================
