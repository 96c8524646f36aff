------------------------ MODULE ConnectionManagerProofs ------------------------
(* The manager keeps hold of every listener and port, and reports the state *)
(* of a server that is started alone.  It is composed of the actions of its *)
(* servers, and the window of its own, so that what is proved of the parts  *)
(* holds of the whole.                                                      *)
EXTENDS MainWindow, ServerProofs

-----------------------------------------------------------------------------
(* ConnectionManager.                                                       *)

\* Every step of the manager is a step of the TCP servers or none.
LEMMA NextIsTcpNext == [Next]_vars => [TcpNext]_tcpVars
<1> SUFFICES ASSUME [Next]_vars PROVE [TcpNext]_tcpVars
  OBVIOUS
<1>1. CASE UNCHANGED vars
  BY <1>1 DEF vars
<1>2. CASE UserGoes
  BY <1>2 DEF UserGoes, StartTcp, StopTcp, StartSerial, StopSerial, TcpNext, StopStep
<1>3. CASE GuiGoes
  BY <1>3
  DEF GuiGoes, SetListening, SetOpened, StartFails, SetError, GuiReports, Release,
      BindSucceeds, BindsUnthreaded, StopTcpClients, StopTcpListener,
      OpenSucceeds, OpensUnthreaded, StopSerialStep, StopSerialNotice, StopSerialEnds,
      TcpNext, StopStep
<1>4. CASE PeersGo
  BY <1>4 DEF PeersGo, TcpNext
<1>5. ASSUME NEW s \in TcpServers, AcceptorGoes(s) PROVE TcpNext
  BY <1>5 DEF AcceptorGoes, OnClientConnect, TcpNext, AcceptorThread
<1>6. ASSUME NEW c \in Conns, HandlerGoes(c) PROVE TcpNext
  BY <1>6 DEF HandlerGoes, OnClientDisconnect, TcpNext, HandlerThread
<1>7. ASSUME NEW p \in SerialServers, ReaderGoes(p) PROVE UNCHANGED tcpVars
  BY <1>7 DEF ReaderGoes, OnSerialClose
<1>8. CASE CollectorGoes
  BY <1>8 DEF CollectorGoes, TcpNext
<1> QED
  BY <1>1, <1>2, <1>3, <1>4, <1>5, <1>6, <1>7, <1>8 DEF Next

\* And likewise of the serial servers.
LEMMA NextIsSerialNext == [Next]_vars => [SerialNext]_serialVars
<1> SUFFICES ASSUME [Next]_vars PROVE [SerialNext]_serialVars
  OBVIOUS
<1>1. CASE UNCHANGED vars
  BY <1>1 DEF vars
<1>2. CASE UserGoes
  BY <1>2 DEF UserGoes, StartTcp, StopTcp, StartSerial, StopSerial, SerialNext
<1>3. CASE GuiGoes
  BY <1>3
  DEF GuiGoes, SetListening, SetOpened, StartFails, SetError, GuiReports, Release,
      BindSucceeds, BindsUnthreaded, StopTcpClients, StopTcpListener, managerVars,
      OpenSucceeds, OpensUnthreaded, StopSerialStep, StopSerialNotice, StopSerialEnds,
      SerialNext, OwnerInStop, SerialNotice
<1>4. CASE PeersGo
  BY <1>4 DEF PeersGo
<1>5. ASSUME NEW s \in TcpServers, AcceptorGoes(s) PROVE UNCHANGED serialVars
  BY <1>5 DEF AcceptorGoes, OnClientConnect
<1>6. ASSUME NEW c \in Conns, HandlerGoes(c) PROVE UNCHANGED serialVars
  BY <1>6 DEF HandlerGoes, OnClientDisconnect
<1>7. ASSUME NEW p \in SerialServers, ReaderGoes(p) PROVE SerialNext
  BY <1>7 DEF ReaderGoes, OnSerialClose, SerialNext, ReaderThread, SerialNotice
<1>8. CASE CollectorGoes
  BY <1>8 DEF CollectorGoes, SerialNext
<1> QED
  BY <1>1, <1>2, <1>3, <1>4, <1>5, <1>6, <1>7, <1>8 DEF Next

\* What is proved of TCPServer holds under the manager, whose actions are
\* composed of its own.
LEMMA ImplementsTcp == Safety => TcpSafety
<1>1. Init => TcpInit
  BY DEF Init
<1> QED
  BY <1>1, NextIsTcpNext, PTL DEF Safety, TcpSafety

\* What is proved of SerialServer holds under the manager.
LEMMA ImplementsSerial == Safety => SerialSafety
<1>1. Init => SerialInit
  BY DEF Init
<1> QED
  BY <1>1, NextIsSerialNext, PTL DEF Safety, SerialSafety

-----------------------------------------------------------------------------
\* When the GUI thread is about to start a server, or to drop one it has
\* stopped, the server holds nothing.
NothingHeld ==
  /\ gui \in {"bind", "open", "release"} =>
       /\ \A s \in TcpServers : server = s => ~Bound(s)
       /\ \A p \in SerialServers : server = p => port[p] = "closed"
  /\ gui = "failed" => server = None

\* The GUI thread is inside the stop() of the current server and of no other.
StopsCurrent ==
  \A p \in SerialServers : stopper[p]["owner"] # "idle" => server = p /\ gui = "stopping"

\* A server whose thread could not be started is not the current one.
UnthreadedIsDropped ==
  /\ \A s \in TcpServers : acceptor[s] = "unstarted" => server # s
  /\ \A p \in SerialServers : reader[p] = "unstarted" => server # p

\* ERROR is left standing by a failed start, and until the next is under way.
ErrorOK == state = "ERROR" => server = None \/ gui \in {"bind", "listening", "open", "opened"}

\* The inductive invariant of the manager beside those of its servers.
ManagerInv ==
  /\ ManagerTypeOK
  /\ NothingHeld /\ StopsCurrent /\ UnthreadedIsDropped /\ ErrorOK /\ HeldByCurrent

\* The manager starts with no server, no thread and no client.
LEMMA ManagerInvInit == Init => ManagerInv
  BY ThreadsDiffer
  DEF Init, TcpInit, SerialInit, ManagerInv, ManagerTypeOK, NothingHeld, StopsCurrent, UnthreadedIsDropped, ErrorOK,
      HeldByCurrent, Bound, States, GuiStates, Threads, Callers

\* A thread that assigns the state or reports it keeps the variables' types.
LEMMA StateTypes ==
  ASSUME ManagerTypeOK, NEW t \in Threads,
         Report(t) \/ \E new \in States : SetState(t, new)
  PROVE  /\ state' \in States /\ label' \in States
         /\ pending' \in [Threads -> States \cup {None}]
  BY ThreadsDiffer DEF ManagerTypeOK, Report, SetState

\* No thread of a TCP server changes the life of a server, and none starts one.
LEMMA ThreadsKeepLife ==
  ASSUME TcpTypeOK,
         PeerStep \/ (\E s \in TcpServers : AcceptorThread(s)) \/ (\E c \in Conns : HandlerThread(c))
  PROVE  /\ life' = life
         /\ \A s \in TcpServers : acceptor'[s] = "unstarted" <=> acceptor[s] = "unstarted"
  BY DEF TcpTypeOK, AcceptorMoves, PeerStep, PeerClose, PeerConnect, AcceptorThread, AcceptorStep, HandlerThread, HandlerStep,
      AcceptCheck, AcceptTimeout, AcceptOnClosed, Accept, AcceptAborted, Register, Spawn,
      CallConnect, ConnectReturns, Setup, LoopCheck, RecvData, RecvTimeout, RecvEnd,
      ReceiveReturns, SendOk, SendFails, Unregister, CloseConn, CallDisconnect, DisconnectReturns,
      HandlerMoves

\* No thread of a serial server opens a port, and none is in the owner's stop().
LEMMA ReaderOpensNothing ==
  ASSUME SerialTypeOK, NEW p \in SerialServers, ReaderThread(p)
  PROVE  \A q \in SerialServers :
           /\ port'[q] = "open" => port[q] = "open"
           /\ stopper'[q]["owner"] = stopper[q]["owner"]
           /\ reader'[q] = "unstarted" <=> reader[q] = "unstarted"
<1> USE DEF SerialTypeOK, Callers, StopMoves, ReaderMoves
<1>1. CASE SerialStopStep(p, "reader") \/ SerialNotice(p, "reader")
  BY <1>1 DEF SerialStopStep, SerialNotice, ClearRunning, TestSerial, TestIsOpen, ClosePort,
      ClearSerial, CallClose, CloseReturns
<1>2. CASE ~SerialStopStep(p, "reader") /\ ~SerialNotice(p, "reader")
  BY <1>2 DEF ReaderThread, ReaderStep, ReaderLoop, ReaderCheck, ReadFails, NextTelegram,
      ReadReturns, SerialReceive, WriteResponse, WriteRaises, ReaderExcept, ReaderStopped
<1> QED
  BY <1>1, <1>2

-----------------------------------------------------------------------------
\* The steps of the GUI thread that touch no TCP and no serial server.
LEMMA ManagerInvAlone ==
  ASSUME ManagerInv,
         SetListening \/ SetOpened \/ StartFails \/ SetError \/ GuiReports \/ Release
  PROVE  ManagerInv'
<1> USE ThreadsDiffer
    DEF ManagerInv, ManagerTypeOK, NothingHeld, StopsCurrent, UnthreadedIsDropped, ErrorOK, HeldByCurrent, Bound,
        States, GuiStates, GuiMoves, tcpVars, serialVars
<1>0. Gui \in Threads
  BY DEF Threads
<1>1. CASE SetListening
  BY <1>0, <1>1, StateTypes DEF SetListening, SetState
<1>2. CASE SetOpened
  BY <1>0, <1>2, StateTypes DEF SetOpened, SetState
<1>3. CASE StartFails
  BY <1>3 DEF StartFails
<1>4. CASE SetError
  BY <1>0, <1>4, StateTypes DEF SetError, SetState
<1>5. CASE GuiReports
  BY <1>0, <1>5, StateTypes DEF GuiReports, Report
<1>6. CASE Release
  BY <1>0, <1>6, StateTypes DEF Release, SetState
<1> QED
  BY <1>1, <1>2, <1>3, <1>4, <1>5, <1>6

\* The steps in which the GUI thread starts and stops a TCP server.
LEMMA ManagerInvTcp ==
  ASSUME ManagerInv, TcpTypeOK, NEW s \in TcpServers,
         \/ StartTcp(s) \/ BindSucceeds(s) \/ BindsUnthreaded(s)
         \/ StopTcp(s) \/ StopTcpClients(s) \/ StopTcpListener(s)
  PROVE  ManagerInv'
<1> USE ThreadsDiffer
    DEF ManagerInv, ManagerTypeOK, NothingHeld, StopsCurrent, UnthreadedIsDropped, ErrorOK, HeldByCurrent, Bound,
        States, GuiStates, GuiMoves, serialVars, TcpTypeOK
<1>1. CASE StartTcp(s)
  BY <1>1 DEF StartTcp, tcpVars, Drained
<1>2. CASE BindSucceeds(s) \/ BindsUnthreaded(s)
  BY <1>2 DEF BindSucceeds, BindsUnthreaded, Start, StartUnthreaded, StartsWith
<1>3. CASE StopTcp(s)
  BY <1>3 DEF StopTcp, StopFlag, Running
<1>4. CASE StopTcpClients(s)
  BY <1>4 DEF StopTcpClients, StopClients, managerVars
<1>5. CASE StopTcpListener(s)
  BY <1>5 DEF StopTcpListener, StopListener
<1> QED
  BY <1>1, <1>2, <1>3, <1>4, <1>5

\* The steps in which the GUI thread starts and stops a serial server.
LEMMA ManagerInvSerial ==
  ASSUME ManagerInv, SerialInv, NEW p \in SerialServers,
         \/ StartSerial(p) \/ OpenSucceeds(p) \/ OpensUnthreaded(p) \/ StopSerial(p)
         \/ StopSerialStep(p) \/ StopSerialNotice(p) \/ StopSerialEnds(p)
  PROVE  ManagerInv'
<1> USE ThreadsDiffer
    DEF ManagerInv, ManagerTypeOK, NothingHeld, StopsCurrent, UnthreadedIsDropped, ErrorOK, HeldByCurrent, Bound,
        States, GuiStates, GuiMoves, tcpVars, SerialInv, SerialTypeOK, Callers
<1>0. Gui \in Threads
  BY DEF Threads
<1>1. CASE StartSerial(p)
  BY <1>1 DEF StartSerial, serialVars
<1>2. CASE OpenSucceeds(p) \/ OpensUnthreaded(p)
  BY <1>2 DEF OpenSucceeds, OpensUnthreaded, Open, OpenUnthreaded, OpensWith
<1>3. CASE StopSerial(p)
  BY <1>3 DEF StopSerial, OwnerStops, StopMoves
<1>4. CASE StopSerialStep(p)
  BY <1>4 DEF StopSerialStep, SerialStopStep, ClearRunning, TestSerial, TestIsOpen, ClosePort,
      ClearSerial, StopMoves, managerVars
<1>5. CASE StopSerialNotice(p)
  BY <1>0, <1>5, StateTypes DEF StopSerialNotice, CallClose, CloseReturns, StopMoves, SetState, Report
<1>6. CASE StopSerialEnds(p)
  BY <1>6 DEF StopSerialEnds, OwnerStopped, StopLeavesPortClosed
<1> QED
  BY <1>1, <1>2, <1>3, <1>4, <1>5, <1>6

\* The steps of peers, collector, accept threads, client threads and readers.
LEMMA ManagerInvThreads ==
  ASSUME ManagerInv, TcpTypeOK, SerialTypeOK, SerialTypeOK',
         \/ PeersGo \/ CollectorGoes
         \/ \E s \in TcpServers : AcceptorGoes(s)
         \/ \E c \in Conns : HandlerGoes(c)
         \/ \E p \in SerialServers : ReaderGoes(p)
  PROVE  ManagerInv'
<1> USE ThreadsDiffer
    DEF ManagerInv, ManagerTypeOK, NothingHeld, StopsCurrent, UnthreadedIsDropped, ErrorOK, HeldByCurrent, Bound,
        States, serialVars, managerVars
<1>1. CASE PeersGo
  <2>1. /\ life' = life /\ UNCHANGED <<serialVars, managerVars>>
        /\ \A t \in TcpServers : acceptor'[t] = "unstarted" <=> acceptor[t] = "unstarted"
    BY <1>1, ThreadsKeepLife DEF PeersGo
  <2> QED
    BY <2>1
<1>2. ASSUME NEW s \in TcpServers, AcceptorGoes(s) PROVE ManagerInv'
  <2>1. /\ life' = life /\ s \in Threads
        /\ \A t \in TcpServers : acceptor'[t] = "unstarted" <=> acceptor[t] = "unstarted"
    BY <1>2, ThreadsKeepLife DEF AcceptorGoes, OnClientConnect, AcceptorThread, Threads
  <2> QED
    BY <1>2, <2>1, StateTypes DEF AcceptorGoes, OnClientConnect, SetState, Report
<1>3. ASSUME NEW c \in Conns, HandlerGoes(c) PROVE ManagerInv'
  <2>1. /\ life' = life /\ c \in Threads
        /\ \A t \in TcpServers : acceptor'[t] = "unstarted" <=> acceptor[t] = "unstarted"
    BY <1>3, ThreadsKeepLife DEF HandlerGoes, OnClientDisconnect, HandlerThread, Threads
  <2> QED
    BY <1>3, <2>1, StateTypes DEF HandlerGoes, OnClientDisconnect, SetState, Report
<1>4. ASSUME NEW p \in SerialServers, ReaderGoes(p) PROVE ManagerInv'
  <2>1. ReaderThread(p) /\ p \in Threads
    BY <1>4 DEF ReaderGoes, OnSerialClose, ReaderThread, SerialNotice, Threads
  <2>2. \A q \in SerialServers : /\ port'[q] = "open" => port[q] = "open"
                                 /\ stopper'[q]["owner"] = stopper[q]["owner"]
                                 /\ reader'[q] = "unstarted" <=> reader[q] = "unstarted"
    BY <2>1, ReaderOpensNothing
  <2>3. \A q \in SerialServers : port'[q] \in {"open", "closed"}
    BY DEF SerialTypeOK
  <2> QED
    BY <1>4, <2>1, <2>2, <2>3, StateTypes DEF ReaderGoes, OnSerialClose, SetState, Report, tcpVars
<1>5. ASSUME NEW s \in TcpServers, Collect(s), UNCHANGED <<serialVars, managerVars>> PROVE ManagerInv'
  BY <1>5 DEF Collect, TcpTypeOK
<1>6. ASSUME NEW p \in SerialServers, CollectPort(p), UNCHANGED <<tcpVars, managerVars>> PROVE ManagerInv'
  BY <1>6 DEF CollectPort, tcpVars, SerialTypeOK
<1> HIDE DEF ManagerInv
<1> QED
  BY <1>1, <1>2, <1>3, <1>4, <1>5, <1>6 DEF CollectorGoes

\* No step breaks the invariant.
LEMMA ManagerInvNext ==
  ManagerInv /\ TcpInv /\ SerialInv /\ SerialInv' /\ [Next]_vars => ManagerInv'
<1> SUFFICES ASSUME ManagerInv, TcpInv, SerialInv, SerialInv', [Next]_vars PROVE ManagerInv'
  OBVIOUS
<1>1. CASE UNCHANGED vars
  BY <1>1
  DEF vars, tcpVars, serialVars, managerVars, ManagerInv, ManagerTypeOK, NothingHeld,
      StopsCurrent, UnthreadedIsDropped, ErrorOK, HeldByCurrent, Bound
<1>2. TcpTypeOK /\ SerialTypeOK /\ SerialTypeOK'
  BY DEF TcpInv, SerialInv
<1>3. CASE Next
  BY <1>2, <1>3, ManagerInvAlone, ManagerInvTcp, ManagerInvSerial, ManagerInvThreads
  DEF Next, UserGoes, GuiGoes
<1> QED
  BY <1>1, <1>3

\* The strengthening of the properties below holds throughout.
LEMMA ManagerInvariance == Safety => [](TcpInv /\ SerialInv /\ ManagerInv)
  BY ImplementsTcp, ImplementsSerial, TcpInvariance, SerialInvariance,
     ManagerInvInit, ManagerInvNext, PTL DEF Safety

-----------------------------------------------------------------------------
\* All variables keep their types.
THEOREM TypeCorrect == Safety => []TypeOK
<1>1. TcpInv /\ SerialInv /\ ManagerInv => TypeOK
  BY DEF TcpInv, SerialInv, ManagerInv, TypeOK
<1> QED
  BY <1>1, ManagerInvariance, PTL

\* A bound listener and an open port always are the current server's, or of a
\* server whose thread could not be started.
THEOREM NothingIsForgotten == Safety => []HeldByCurrent
  BY ManagerInvariance, PTL DEF ManagerInv

\* ERROR stands for a failed start and never over a running server.
THEOREM ErrorIsOfStart == Safety => []ErrorMeansNoServer
<1>1. ManagerInv => ErrorMeansNoServer
  BY DEF ManagerInv, ErrorOK, ErrorMeansNoServer, Idle
<1> QED
  BY <1>1, ManagerInvariance, PTL

-----------------------------------------------------------------------------
(* The reported state, when a server is started only after every thread of  *)
(* earlier ones has ended.                                                  *)

\* No thread of any server runs.
AllDrained ==
  (\A s \in TcpServers : Drained(s)) /\ (\A p \in SerialServers : reader[p] = "done")

\* The user lets the threads of a stopped server end before connecting again.
StartsAlone == server = None /\ server' # None => AllDrained

\* Beside the current server no thread runs that could assign the state.
OthersDrained ==
  server # None =>
    /\ \A s \in TcpServers \ {server} : Drained(s)
    /\ \A p \in SerialServers \ {server} : reader[p] = "done"

\* Where the GUI thread may be with a TCP server.
Phases ==
  \A s \in TcpServers : server = s =>
    /\ gui \in {"bind", "listening", "post", "idle", "stopping", "release"}
    /\ gui \in {"listening", "post", "idle"} => Running(s)

\* Somebody is yet to report that a client has left.
Served(s) ==
  \/ acceptor[s] \in {"posting", "spawn"}
  \/ \E c \in Conns : owner[c] = s /\ handler[c] \notin {"posting", "done"}

\* Once the start is reported, the state fits what the threads have yet to report.
StateOK ==
  gui \in {"post", "idle"} =>
    \A s \in TcpServers : server = s => state = "LISTENING" \/ (state = "CONNECTED" /\ Served(s))

\* Inductive as long as servers are started alone.
SteadyInv == OthersDrained /\ Phases /\ StateOK

\* What holds of servers and manager anyway.
Known == TcpInv /\ SerialInv /\ ManagerInv

\* A step that leaves the threads of other servers alone.
LEMMA SteadyUser ==
  ASSUME Known, SteadyInv, StartsAlone, UserGoes PROVE SteadyInv'
<1> USE ThreadsDiffer DEF SteadyInv
<1>1. ASSUME NEW s \in TcpServers, StartTcp(s) PROVE SteadyInv'
  <2>1. server' = s /\ gui' = "bind" /\ UNCHANGED <<tcpVars, serialVars>> /\ AllDrained
    BY <1>1 DEF StartTcp, GuiMoves, StartsAlone
  <2> QED
    BY <2>1 DEF OthersDrained, Phases, StateOK, AllDrained, tcpVars, serialVars, Drained, Finished
<1>2. ASSUME NEW p \in SerialServers, StartSerial(p) PROVE SteadyInv'
  <2>1. server' = p /\ gui' = "open" /\ UNCHANGED <<tcpVars, serialVars>> /\ AllDrained
    BY <1>2 DEF StartSerial, GuiMoves, StartsAlone
  <2> QED
    BY <2>1 DEF OthersDrained, Phases, StateOK, AllDrained, tcpVars, serialVars, Drained, Finished
<1>3. ASSUME NEW s \in TcpServers, StopTcp(s) PROVE SteadyInv'
  <2>1. /\ server = s /\ server' = s /\ gui' = "stopping"
        /\ UNCHANGED <<acceptor, inHand, sock, owner, handler, reader>>
    BY <1>3 DEF StopTcp, GuiMoves, StopFlag, serialVars
  <2> QED
    BY <2>1 DEF OthersDrained, Phases, StateOK, Drained, Finished
<1>4. ASSUME NEW p \in SerialServers, StopSerial(p) PROVE SteadyInv'
  <2>1. /\ server = p /\ server' = p /\ gui' = "stopping"
        /\ UNCHANGED <<acceptor, inHand, sock, owner, handler, reader>>
    BY <1>4 DEF StopSerial, GuiMoves, OwnerStops, StopMoves, tcpVars
  <2> QED
    BY <2>1 DEF OthersDrained, Phases, StateOK, Drained, Finished
<1> QED
  BY <1>1, <1>2, <1>3, <1>4 DEF UserGoes

\* The GUI thread in the manager.
LEMMA SteadyGui ==
  ASSUME Known, SteadyInv, GuiGoes PROVE SteadyInv'
<1> USE ThreadsDiffer DEF SteadyInv
<1>1. CASE SetListening
  <2>1. /\ gui = "listening" /\ gui' = "post" /\ state' = "LISTENING"
        /\ UNCHANGED <<tcpVars, serialVars, server>>
    BY <1>1 DEF SetListening, GuiMoves, SetState
  <2> QED
    BY <2>1 DEF OthersDrained, Phases, StateOK, tcpVars, serialVars, Drained, Finished, Running
<1>2. CASE SetOpened
  <2>1. /\ gui = "opened" /\ gui' = "post" /\ state' = "CONNECTED"
        /\ UNCHANGED <<tcpVars, serialVars, server>>
    BY <1>2 DEF SetOpened, GuiMoves, SetState
  <2> QED
    BY <2>1 DEF OthersDrained, Phases, StateOK, tcpVars, serialVars, Drained, Finished, Running
<1>0. ASSUME server' = None PROVE SteadyInv'
  BY <1>0 DEF OthersDrained, Phases, StateOK
<1>3. CASE StartFails \/ SetError \/ Release
  <2>1. server' = None
    BY <1>3 DEF StartFails, SetError, Release, GuiMoves, Known, ManagerInv, NothingHeld
  <2> QED
    BY <1>0, <2>1
<1>4. CASE GuiReports
  <2>1. gui = "post" /\ gui' = "idle" /\ UNCHANGED <<tcpVars, serialVars, server, state>>
    BY <1>4 DEF GuiReports, GuiMoves, Report
  <2> QED
    BY <2>1 DEF OthersDrained, Phases, StateOK, tcpVars, serialVars, Drained, Finished, Running, Served
<1>5. ASSUME NEW s \in TcpServers, BindSucceeds(s) PROVE SteadyInv'
  <2>1. /\ server = s /\ server' = s /\ gui' = "listening"
        /\ life' = [life EXCEPT ![s] = "running"] /\ acceptor' = [acceptor EXCEPT ![s] = "loop"]
        /\ UNCHANGED <<inHand, sock, owner, handler, reader>>
    BY <1>5 DEF BindSucceeds, Start, StartsWith, GuiMoves, serialVars
  <2> QED
    BY <2>1 DEF OthersDrained, Phases, StateOK, Drained, Finished, Running, Known, TcpInv, TcpTypeOK
<1>6. ASSUME NEW s \in TcpServers, StopTcpClients(s) \/ StopTcpListener(s) PROVE SteadyInv'
  <2>1. /\ server = s /\ server' = s /\ gui' \in {"stopping", "release"}
        /\ UNCHANGED <<acceptor, inHand, owner, handler, reader>>
        /\ \A c \in Conns : sock'[c] \in {sock[c], "closed"}
    BY <1>6 DEF StopTcpClients, StopTcpListener, StopClients, StopListener, GuiMoves, serialVars, managerVars
  <2> QED
    BY <2>1 DEF OthersDrained, Phases, StateOK, Drained, Finished
<1>7. ASSUME NEW p \in SerialServers, OpenSucceeds(p) PROVE SteadyInv'
  <2>1. /\ server = p /\ server' = p /\ gui' = "opened" /\ reader' = [reader EXCEPT ![p] = "loop"]
        /\ UNCHANGED <<acceptor, inHand, sock, owner, handler>>
    BY <1>7 DEF OpenSucceeds, Open, OpensWith, GuiMoves, tcpVars
  <2> QED
    BY <2>1 DEF OthersDrained, Phases, StateOK, Drained, Finished, Known, SerialInv, SerialTypeOK
<1>8. ASSUME NEW p \in SerialServers, StopSerialStep(p) \/ StopSerialNotice(p) \/ StopSerialEnds(p)
      PROVE  SteadyInv'
  <2>1. /\ gui = "stopping" /\ gui' \in {"stopping", "release"} /\ server' = server
        /\ UNCHANGED <<acceptor, inHand, sock, owner, handler, reader>>
    <3>1. CASE StopSerialStep(p)
      BY <3>1 DEF StopSerialStep, SerialStopStep, ClearRunning, TestSerial, TestIsOpen, ClosePort,
         ClearSerial, StopMoves, tcpVars, managerVars
    <3>2. CASE StopSerialNotice(p)
      BY <3>2 DEF StopSerialNotice, CallClose, CloseReturns, StopMoves, tcpVars
    <3>3. CASE StopSerialEnds(p)
      BY <3>3 DEF StopSerialEnds, OwnerStopped, GuiMoves, tcpVars
    <3> QED
      BY <1>8, <3>1, <3>2, <3>3
  <2>2. \A q \in TcpServers \cup SerialServers : server = q => server' = q
    BY <2>1
  <2> QED
    BY <2>1 DEF OthersDrained, Phases, StateOK, Drained, Finished
<1>9. ASSUME NEW s \in TcpServers, BindsUnthreaded(s) PROVE SteadyInv'
  BY <1>0, <1>9 DEF BindsUnthreaded
<1>10. ASSUME NEW p \in SerialServers, OpensUnthreaded(p) PROVE SteadyInv'
  BY <1>0, <1>10 DEF OpensUnthreaded
<1> HIDE DEF SteadyInv
<1> QED
  BY <1>1, <1>2, <1>3, <1>4, <1>5, <1>6, <1>7, <1>8, <1>9, <1>10 DEF GuiGoes

\* Peers.
LEMMA SteadyPeers ==
  ASSUME Known, SteadyInv, PeersGo PROVE SteadyInv'
<1> USE ThreadsDiffer DEF SteadyInv
<1>1. UNCHANGED <<serialVars, managerVars>>
  BY DEF PeersGo
<1>2. ASSUME NEW c \in Conns, PeerClose(c) PROVE SteadyInv'
  BY <1>1, <1>2 DEF PeerClose, OthersDrained, Phases, StateOK, Drained, Finished, Running, Served,
     serialVars, managerVars
<1>3. ASSUME NEW c \in Conns, NEW s \in TcpServers, PeerConnect(c, s) PROVE SteadyInv'
  <2>1. /\ Finished(c) /\ Bound(s)
        /\ sock' = [sock EXCEPT ![c] = "queued"] /\ owner' = [owner EXCEPT ![c] = s]
        /\ UNCHANGED <<life, acceptor, inHand, handler, server, gui, state, reader, running>>
    BY <1>1, <1>3 DEF PeerConnect, serialVars, managerVars
  <2> SUFFICES ASSUME server # None PROVE SteadyInv'
    BY <2>1 DEF OthersDrained, Phases, StateOK
  <2>2. server = s
    BY <2>1 DEF Known, ManagerInv, HeldByCurrent, OthersDrained, Drained
  <2>3. handler[c] = "done"
    BY <2>1 DEF Finished
  <2>4. OthersDrained'
    <3>1. \A t \in TcpServers \ {s} : Drained(t) => Drained(t)'
      BY <2>1 DEF Drained, Finished, Known, TcpInv, TcpTypeOK
    <3> QED
      BY <2>1, <2>2, <3>1 DEF OthersDrained
  <2>5. Served(s) => Served(s)'
    BY <2>1, <2>3 DEF Served, Known, TcpInv, TcpTypeOK
  <2> QED
    BY <2>1, <2>2, <2>4, <2>5 DEF Phases, StateOK, Running
<1> QED
  BY <1>2, <1>3 DEF PeersGo, PeerStep

\* The collector, which finds nothing beside the current server.
LEMMA SteadyCollector ==
  ASSUME Known, SteadyInv, CollectorGoes PROVE SteadyInv'
<1> USE ThreadsDiffer DEF SteadyInv
<1>1. UNCHANGED managerVars
  BY DEF CollectorGoes
<1>2. CASE server = None
  BY <1>1, <1>2 DEF OthersDrained, Phases, StateOK, managerVars
<1>3. CASE server # None
  <2>1. ASSUME NEW s \in TcpServers, Collect(s) PROVE FALSE
    BY <1>3, <2>1 DEF Collect, OthersDrained, Drained, Known, ManagerInv, UnthreadedIsDropped
  <2>2. ASSUME NEW p \in SerialServers, CollectPort(p) PROVE FALSE
    BY <1>3, <2>2 DEF CollectPort, OthersDrained, Known, ManagerInv, UnthreadedIsDropped
  <2> QED
    BY <2>1, <2>2 DEF CollectorGoes
<1> QED
  BY <1>2, <1>3

\* The accept thread of the current server.
LEMMA SteadyAcceptor ==
  ASSUME Known, SteadyInv, NEW s \in TcpServers, AcceptorGoes(s) PROVE SteadyInv'
<1> USE ThreadsDiffer DEF SteadyInv
<1>1. AcceptorThread(s)
  BY DEF AcceptorGoes, OnClientConnect, AcceptorThread
<1>2. life' = life /\ owner' = owner
  BY <1>1, ThreadsKeepLife
  DEF AcceptorThread, AcceptorStep, AcceptCheck, AcceptTimeout, AcceptOnClosed, Accept, AcceptAborted,
      Register, Spawn, CallConnect, ConnectReturns
<1>3. UNCHANGED <<serialVars, server, gui>>
  BY DEF AcceptorGoes, OnClientConnect, managerVars
<1>4. acceptor[s] # "done"
  BY <1>1
  DEF AcceptorThread, AcceptorStep, AcceptCheck, AcceptTimeout, AcceptOnClosed, Accept, AcceptAborted,
      Register, Spawn, CallConnect, ConnectReturns, AcceptorMoves
<1>5. CASE server = None
  BY <1>3, <1>5 DEF OthersDrained, Phases, StateOK
<1>6. CASE server # None
  <2>1. server = s
    BY <1>4, <1>6 DEF OthersDrained, Drained
  <2>2. ASSUME NEW t \in TcpServers \ {s}, Drained(t) PROVE Drained(t)'
    <3> USE DEF Drained, Finished, Known, TcpInv, TcpTypeOK, AcceptorMoves
    <3>1. CASE AcceptCheck(s) \/ AcceptTimeout(s) \/ AcceptOnClosed(s) \/ Register(s)
               \/ CallConnect(s) \/ ConnectReturns(s)
      BY <2>2, <3>1 DEF AcceptCheck, AcceptTimeout, AcceptOnClosed, Register, CallConnect, ConnectReturns
    <3>2. ASSUME NEW c \in Conns, Accept(s, c) \/ AcceptAborted(s, c) PROVE Drained(t)'
      BY <2>2, <3>2 DEF Accept, AcceptAborted, QueuedAt
    <3>3. CASE Spawn(s)
      BY <2>2, <3>3 DEF Spawn, HandOK, Holding, OneThreadPerConn
    <3> QED
      BY <1>1, <3>1, <3>2, <3>3 DEF AcceptorThread, AcceptorStep
  <2>3. OthersDrained'
    BY <1>3, <2>1, <2>2 DEF OthersDrained, serialVars
  <2>4. Phases'
    BY <1>2, <1>3 DEF Phases, Running
  <2>5. CASE AcceptorStep(s) /\ UNCHANGED managerVars
    <3>1. Served(s) => Served(s)'
      <4> USE DEF Served, Known, TcpInv, TcpTypeOK, AcceptorMoves
      <4>1. CASE AcceptCheck(s) \/ AcceptTimeout(s) \/ AcceptOnClosed(s) \/ Register(s)
        BY <4>1 DEF AcceptCheck, AcceptTimeout, AcceptOnClosed, Register
      <4>2. ASSUME NEW c \in Conns, Accept(s, c) \/ AcceptAborted(s, c) PROVE Served(s) => Served(s)'
        BY <4>2 DEF Accept, AcceptAborted
      <4>3. CASE Spawn(s)
        BY <4>3 DEF Spawn, HandOK, Holding, OneThreadPerConn
      <4> QED
        BY <2>5, <4>1, <4>2, <4>3 DEF AcceptorStep
    <3> QED
      BY <1>3, <2>1, <2>3, <2>4, <2>5, <3>1 DEF StateOK, managerVars
  <2>6. CASE OnClientConnect(s)
    <3>1. Served(s)' /\ (state' = "CONNECTED" \/ (state' = state /\ Served(s)))
      <4>1. CASE CallConnect(s) /\ SetState(s, "CONNECTED")
        BY <4>1 DEF CallConnect, AcceptorMoves, SetState, Served, Known, TcpInv, TcpTypeOK
      <4>2. CASE ConnectReturns(s) /\ Report(s)
        BY <4>2 DEF ConnectReturns, AcceptorMoves, Report, Served, Known, TcpInv, TcpTypeOK
      <4> QED
        BY <2>6, <4>1, <4>2 DEF OnClientConnect
    <3> QED
      BY <1>3, <2>1, <2>3, <2>4, <3>1 DEF StateOK
  <2> QED
    BY <2>5, <2>6 DEF AcceptorGoes
<1> QED
  BY <1>5, <1>6

\* The client threads of the current server.
LEMMA SteadyHandler ==
  ASSUME Known, SteadyInv, NEW c \in Conns, HandlerGoes(c) PROVE SteadyInv'
<1> USE ThreadsDiffer DEF SteadyInv
<1>1. HandlerThread(c)
  BY DEF HandlerGoes, OnClientDisconnect, HandlerThread
<1>2. /\ UNCHANGED <<life, acceptor, inHand, owner>> /\ handler[c] # "done"
      /\ \A d \in Conns \ {c} : handler'[d] = handler[d] /\ sock'[d] = sock[d]
  BY <1>1
  DEF HandlerThread, HandlerStep, Setup, LoopCheck, RecvData, RecvTimeout, RecvEnd, ReceiveReturns,
      SendOk, SendFails, Unregister, CloseConn, CallDisconnect, DisconnectReturns, HandlerMoves,
      Known, TcpInv, TcpTypeOK
<1>3. UNCHANGED <<serialVars, server, gui>>
  BY DEF HandlerGoes, OnClientDisconnect, managerVars
<1>4. CASE server = None
  BY <1>3, <1>4 DEF OthersDrained, Phases, StateOK
<1>5. CASE server # None
  <2>1. owner[c] = server
    BY <1>2, <1>5 DEF OthersDrained, Drained, Finished, Known, TcpInv, HandlerOK
  <2>2. owner[c] \in TcpServers
    BY <1>2 DEF Known, TcpInv, HandlerOK
  <2>3. OthersDrained'
    BY <1>2, <1>3, <2>1 DEF OthersDrained, Drained, Finished, serialVars
  <2>4. Phases'
    BY <1>2, <1>3 DEF Phases, Running
  <2>5. CASE HandlerStep(c) /\ UNCHANGED managerVars
    <3> SUFFICES ASSUME gui \in {"post", "idle"}, Served(server) PROVE Served(server)'
      BY <1>3, <2>2, <2>1, <2>3, <2>4, <2>5 DEF StateOK, managerVars
    <3>1. Running(owner[c])
      BY <2>1, <2>2 DEF Phases
    <3>2. handler[c] = "setup" => sock[c] = "open"
      BY <2>2, <3>1 DEF Running, Known, TcpInv, ServesOpen
    <3>3. handler[c] # "posting" /\ handler'[c] \notin {"posting", "done"}
      BY <2>5, <3>2
      DEF HandlerStep, Setup, LoopCheck, RecvData, RecvTimeout, RecvEnd, ReceiveReturns,
          SendOk, SendFails, Unregister, CloseConn, HandlerMoves, Known, TcpInv, TcpTypeOK
    <3> QED
      BY <1>2, <1>3, <2>1, <3>3 DEF Served
  <2>6. CASE OnClientDisconnect(c)
    <3>1. CASE CallDisconnect(c) /\ SetState(c, "LISTENING")
      BY <1>3, <2>1, <2>2, <2>3, <2>4, <3>1 DEF SetState, StateOK
    <3>2. CASE DisconnectReturns(c) /\ Report(c)
      <4>1. handler[c] = "posting" /\ state' = state
        BY <3>2 DEF DisconnectReturns, HandlerMoves, Report
      <4>2. Served(server) => Served(server)'
        BY <1>2, <1>3, <4>1 DEF Served
      <4> QED
        BY <1>3, <2>1, <2>2, <2>3, <2>4, <4>1, <4>2 DEF StateOK
    <3> QED
      BY <2>6, <3>1, <3>2 DEF OnClientDisconnect
  <2> QED
    BY <2>5, <2>6 DEF HandlerGoes
<1> QED
  BY <1>4, <1>5

\* The reader of the current server.
LEMMA SteadyReader ==
  ASSUME Known, SteadyInv, NEW p \in SerialServers, ReaderGoes(p) PROVE SteadyInv'
<1> USE ThreadsDiffer DEF SteadyInv
<1>1. UNCHANGED <<tcpVars, server, gui>>
  BY DEF ReaderGoes, OnSerialClose, managerVars
<1>2. reader[p] # "done" /\ \A q \in SerialServers \ {p} : reader'[q] = reader[q]
  <2> USE DEF Known, SerialInv, SerialTypeOK, StopMoves, ReaderMoves, ReaderInStop, Callers
  <2>1. CASE SerialStopStep(p, "reader")
    BY <2>1 DEF SerialStopStep, ClearRunning, TestSerial, TestIsOpen, ClosePort, ClearSerial
  <2>2. CASE SerialNotice(p, "reader")
    BY <2>2 DEF SerialNotice, CallClose, CloseReturns
  <2>3. CASE ReaderStep(p) /\ ~SerialStopStep(p, "reader")
    BY <2>3 DEF ReaderStep, ReaderLoop, ReaderCheck, ReadFails, NextTelegram,
       ReadReturns, SerialReceive, WriteResponse, WriteRaises, ReaderExcept, ReaderStopped
  <2> QED
    BY <2>1, <2>2, <2>3 DEF ReaderGoes, OnSerialClose, SerialNotice
<1>3. CASE server = None
  BY <1>1, <1>3 DEF OthersDrained, Phases, StateOK
<1>4. CASE server # None
  <2>1. server = p
    BY <1>2, <1>4 DEF OthersDrained
  <2>2. OthersDrained'
    BY <1>1, <1>2, <2>1 DEF OthersDrained, Drained, Finished, tcpVars
  <2>3. Phases'
    BY <1>1, <2>1 DEF Phases
  <2> QED
    BY <1>1, <2>1, <2>2, <2>3 DEF StateOK
<1> QED
  BY <1>3, <1>4

\* No step breaks the invariant, as long as servers are started alone.
LEMMA SteadyInvNext ==
  Known /\ SteadyInv /\ [Next]_vars /\ [StartsAlone]_vars => SteadyInv'
<1> SUFFICES ASSUME Known, SteadyInv, [Next]_vars, [StartsAlone]_vars PROVE SteadyInv'
  OBVIOUS
<1>1. CASE UNCHANGED vars
  BY <1>1
  DEF vars, tcpVars, serialVars, managerVars, SteadyInv, OthersDrained, Phases, StateOK, Drained,
      Finished, Running, Served
<1>2. CASE Next /\ StartsAlone
  BY <1>2, SteadyUser, SteadyGui, SteadyPeers, SteadyCollector, SteadyAcceptor, SteadyHandler, SteadyReader
  DEF Next
<1> QED
  BY <1>1, <1>2

\* It holds throughout, as long as servers are started alone.
LEMMA SteadyInvariance == Safety /\ [][StartsAlone]_vars => [](Known /\ SteadyInv)
<1>1. Init => SteadyInv
  BY ThreadsDiffer DEF Init, SteadyInv, OthersDrained, Phases, StateOK
<1>2. Safety => []Known
  BY ManagerInvariance, PTL DEF Known
<1> QED
  BY <1>1, <1>2, SteadyInvNext, PTL DEF Safety

\* A TCP server with no client left and none on its way in is reported as
\* LISTENING, whatever the order of the notices, if it was started after every
\* thread of the servers before it had ended.
THEOREM EmptyIsListening == Safety /\ [][StartsAlone]_vars => []ListeningWhenEmpty
<1>1. ASSUME Known, SteadyInv PROVE ListeningWhenEmpty
  <2> SUFFICES ASSUME NEW s \in TcpServers, Idle, server = s, inHand[s] = None,
                      \A c \in Conns : owner[c] = s => Finished(c) \/ sock[c] = "queued"
               PROVE  state = "LISTENING"
    BY DEF ListeningWhenEmpty
  <2>1. acceptor[s] \notin {"posting", "spawn"}
    BY <1>1 DEF Known, TcpInv, HandOK, Holding
  <2>2. \A c \in Conns : owner[c] = s => handler[c] = "done"
    BY <1>1 DEF Known, TcpInv, QueuedOK, Finished
  <2> QED
    BY <1>1, <2>1, <2>2 DEF SteadyInv, StateOK, Served, Idle
<1> QED
  BY <1>1, SteadyInvariance, PTL

-----------------------------------------------------------------------------
(* MainWindow.                                                              *)

\* Every step of the window is a step of the manager or none.
LEMMA WindowNextIsNext == [WindowNext]_mainVars => [Next]_vars
<1> SUFFICES ASSUME [WindowNext]_mainVars PROVE [Next]_vars
  OBVIOUS
<1>1. CASE UNCHANGED mainVars
  BY <1>1 DEF mainVars
<1>2. StartChosen \/ StopCurrent => UserGoes
  BY DEF StartChosen, StopCurrent, UserGoes
<1>3. CASE OnConnect \/ OnDisconnect \/ OnClose
  BY <1>2, <1>3 DEF OnConnect, OnDisconnect, OnClose, Next
<1>4. CASE HandlerGoesOn
  BY <1>4 DEF HandlerGoesOn, Next
<1> QED
  BY <1>1, <1>3, <1>4 DEF WindowNext, Next

\* What is proved of the manager holds behind the window.
LEMMA ImplementsManager == WindowSafety => Safety
<1>1. WindowInit => Init
  BY DEF WindowInit
<1> QED
  BY <1>1, WindowNextIsNext, PTL DEF WindowSafety, Safety

-----------------------------------------------------------------------------
\* A handler that stops leaves no server when it returns, and a server is
\* there only where Disconnect can be pressed or a handler is at work.
WindowInv ==
  /\ WindowTypeOK
  /\ handling \in {"disconnect", "close"} <=>
       gui \in {"stopping", "release"} \/ (gui = "post" /\ handling # "connect")
  /\ handling \in {"disconnect", "close"} /\ gui = "post" => server = None
  /\ handling = "none" /\ enabled = "connect" => server = None
  /\ handling = "closed" => server = None

\* A handler that calls the manager is in the call it has made.
LEMMA HandlersCall ==
  /\ StartChosen => gui' \in {"bind", "open"}
  /\ StopCurrent => gui' = "stopping"
  BY DEF StartChosen, StopCurrent, StartTcp, StartSerial, StopTcp, StopSerial, GuiMoves

\* What the call may do to the server, and where it goes.
LEMMA CallGoesOn ==
  ASSUME GuiGoes, gui \in GuiStates
  PROVE  /\ gui \in {"stopping", "release"} =>
              gui' \in {"stopping", "release"} \/ (gui' = "post" /\ server' = None)
         /\ gui = "post" => gui' = "idle" /\ server' = server
         /\ gui \notin {"stopping", "release", "post"} => gui' \notin {"stopping", "release", "idle"}
         /\ gui # "idle"
  BY DEF GuiGoes, GuiStates, SetListening, SetOpened, StartFails, SetError, GuiReports, Release, BindSucceeds,
      BindsUnthreaded, OpensUnthreaded, StopTcpClients, StopTcpListener, OpenSucceeds, StopSerialStep, StopSerialNotice,
      StopSerialEnds, GuiMoves, managerVars

\* No step breaks the invariant.
LEMMA WindowInvNext ==
  ASSUME ManagerTypeOK, WindowInv, [WindowNext]_mainVars PROVE WindowInv'
<1> USE DEF WindowInv, WindowTypeOK, Idle
<1>1. CASE UNCHANGED mainVars
  BY <1>1 DEF mainVars, windowVars, vars, managerVars
<1>2. CASE OnConnect
  BY <1>2, HandlersCall DEF OnConnect, vars, managerVars
<1>3. CASE OnDisconnect
  BY <1>3, HandlersCall DEF OnDisconnect, vars, managerVars
<1>4. CASE OnClose
  BY <1>4, HandlersCall DEF OnClose, vars, managerVars
<1>5. CASE HandlerGoesOn
  BY <1>5, CallGoesOn DEF HandlerGoesOn, windowVars, ManagerTypeOK
<1>6. CASE /\ \/ PeersGo
              \/ CollectorGoes
              \/ \E s \in TcpServers : AcceptorGoes(s)
              \/ \E c \in Conns : HandlerGoes(c)
              \/ \E p \in SerialServers : ReaderGoes(p)
           /\ UNCHANGED windowVars
  <2>1. UNCHANGED <<gui, server>>
    BY <1>6 DEF PeersGo, CollectorGoes, AcceptorGoes, OnClientConnect, HandlerGoes, OnClientDisconnect,
         ReaderGoes, OnSerialClose, managerVars
  <2> QED
    BY <1>6, <2>1 DEF windowVars
<1> QED
  BY <1>1, <1>2, <1>3, <1>4, <1>5, <1>6 DEF WindowNext

\* The strengthening of the properties below holds throughout.
LEMMA WindowInvariance == WindowSafety => [](SerialInv /\ ManagerInv /\ WindowInv)
<1>1. WindowInit => WindowInv
  BY DEF WindowInit, Init, WindowInv, WindowTypeOK, Idle
<1>2. ManagerInv => ManagerTypeOK
  BY DEF ManagerInv
<1> QED
  BY <1>1, <1>2, ImplementsManager, ManagerInvariance, WindowInvNext, PTL DEF WindowSafety

\* Where the manager has no server, no listener is bound and no port is open
\* but of one without a thread.
LEMMA NoServerHoldsNothing == SerialInv /\ ManagerInv /\ server = None => NothingHeldOpen
<1> SUFFICES ASSUME SerialInv, ManagerInv, server = None PROVE NothingHeldOpen
  OBVIOUS
<1> QED
  BY ThreadsDiffer DEF ManagerInv, HeldByCurrent, NothingHeldOpen

-----------------------------------------------------------------------------
\* The GUI thread is in the manager exactly while a handler has called it.
THEOREM WindowTypeCorrect == WindowSafety => []WindowTypeOK
<1>1. WindowInv => WindowTypeOK
  BY DEF WindowInv
<1> QED
  BY <1>1, WindowInvariance, PTL

\* Where Connect can be pressed there is no server, and no listener or port of
\* one that has run.
THEOREM ConnectIsFree == WindowSafety => []ConnectNeverRefused
<1>1. SerialInv /\ ManagerInv /\ WindowInv => ConnectNeverRefused
  BY NoServerHoldsNothing DEF WindowInv, ConnectNeverRefused
<1> QED
  BY <1>1, WindowInvariance, PTL

\* A window that is gone has left no listener and no port of a server that has
\* run.
THEOREM ClosedIsReleased == WindowSafety => []ClosedReleasesAll
<1>1. SerialInv /\ ManagerInv /\ WindowInv => ClosedReleasesAll
  BY NoServerHoldsNothing DEF WindowInv, ClosedReleasesAll
<1> QED
  BY <1>1, WindowInvariance, PTL
=================================================================================
