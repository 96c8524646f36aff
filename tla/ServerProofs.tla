------------------------------ MODULE ServerProofs ------------------------------
(* The safety properties of TCPServer and of SerialServer, for any number   *)
(* of servers and connections.                                              *)
EXTENDS TCPServer, SerialServer, TLAPS

-----------------------------------------------------------------------------
(* TCPServer.                                                               *)

\* The accept thread holds a connection from accept() to the start of its
\* client thread, and the connection is that thread's alone; until it is
\* registered nobody else can close it.
Holding == {"register", "joined", "posting", "spawn"}

HandOK ==
  \A s \in TcpServers :
    /\ inHand[s] = None <=> acceptor[s] \notin Holding
    /\ acceptor[s] = "register" => sock[inHand[s]] = "open"

\* Nobody holds a connection that is still in a backlog.
QueuedOK ==
  \A c \in Conns : sock[c] = "queued" =>
    handler[c] = "done" /\ owner[c] \in TcpServers /\ \A s \in TcpServers : inHand[s] # c

\* A client thread knows its server, and a registered connection has a
\* thread that has not come to closing it.
HandlerOK ==
  \A c \in Conns : handler[c] # "done" => owner[c] \in TcpServers

RegisteredOK ==
  \A s \in TcpServers : \A c \in clients[s] :
    \/ inHand[s] = c /\ acceptor[s] # "register"
    \/ handler[c] \notin {"close", "left", "posting", "done"}

\* After the sweep the accept thread is past its one late registration, or
\* has none behind it.
LateOK ==
  \A s \in TcpServers : life[s] \in {"swept", "closed"} /\ clients[s] # {} =>
    acceptor[s] \notin {"accept", "register"}

\* Until stop() sweeps the clients, nobody closes a connection but its thread.
ServesOpen ==
  \A s \in TcpServers : life[s] \in {"running", "flagged"} =>
    /\ inHand[s] # None => sock[inHand[s]] = "open"
    /\ \A c \in Conns : owner[c] = s /\ handler[c] \notin {"left", "posting", "done"} => sock[c] = "open"

\* The inductive invariant of TCPServer: the properties the runs check follow
\* from each other only with what the threads hold beside them.
TcpInv ==
  /\ TcpTypeOK
  /\ HandOK /\ QueuedOK /\ HandlerOK /\ RegisteredOK /\ LateOK /\ ServesOpen
  /\ RegisteredAreOpen /\ OpenIsHeld /\ OneThreadPerConn /\ AtMostOneLateClient

-----------------------------------------------------------------------------
\* Nothing is there at the start.
LEMMA TcpInvInit == TcpInit => TcpInv
  BY NoneIsNoConn
  DEF TcpInit, TcpInv, TcpTypeOK, HandOK, QueuedOK, HandlerOK, RegisteredOK, LateOK, ServesOpen,
      RegisteredAreOpen, OpenIsHeld, OneThreadPerConn, AtMostOneLateClient,
      Holding, LifeStates, SockStates, AcceptorStates, HandlerStates

\* Peers change the backlog and what is read next.
LEMMA TcpInvPeer == TcpInv /\ PeerStep => TcpInv'
<1> SUFFICES ASSUME TcpInv, PeerStep PROVE TcpInv'
  OBVIOUS
<1> USE DEF TcpInv, TcpTypeOK, HandOK, QueuedOK, HandlerOK, RegisteredOK, LateOK, ServesOpen,
        RegisteredAreOpen, OpenIsHeld, OneThreadPerConn, AtMostOneLateClient,
        Holding, LifeStates, SockStates, AcceptorStates, HandlerStates, Bound, Finished
<1>1. ASSUME NEW c \in Conns, PeerClose(c) PROVE TcpInv'
  BY <1>1 DEF PeerClose
<1>2. ASSUME NEW c \in Conns, NEW s \in TcpServers, PeerConnect(c, s) PROVE TcpInv'
  BY <1>2, NoneIsNoConn DEF PeerConnect
<1> QED
  BY <1>1, <1>2 DEF PeerStep

\* start() and stop(), and the end of a server that has no thread.
LEMMA TcpInvOwner ==
  ASSUME TcpInv, NEW s \in TcpServers,
         Start(s) \/ StartUnthreaded(s) \/ Collect(s) \/ StopStep(s)
  PROVE  TcpInv'
<1> USE DEF TcpInv, TcpTypeOK, HandOK, QueuedOK, HandlerOK, RegisteredOK, LateOK, ServesOpen,
        RegisteredAreOpen, OpenIsHeld, OneThreadPerConn, AtMostOneLateClient,
        Holding, LifeStates, SockStates, AcceptorStates, HandlerStates, Running, Bound, QueuedAt, Finished, Drained
<1>1. ASSUME NEW thread \in {"loop", "unstarted"}, StartsWith(s, thread) PROVE TcpInv'
  BY <1>1, NoneIsNoConn DEF StartsWith
<1>2. CASE StopFlag(s)
  BY <1>2 DEF StopFlag
<1>3. CASE StopClients(s)
  BY <1>3 DEF StopClients
<1>4. CASE StopListener(s)
  BY <1>4 DEF StopListener
<1>5. CASE Collect(s)
  BY <1>5, NoneIsNoConn DEF Collect
<1> HIDE DEF TcpInv
<1> QED
  BY <1>1, <1>2, <1>3, <1>4, <1>5 DEF StopStep, Start, StartUnthreaded

\* The accept thread.
LEMMA TcpInvAcceptor ==
  ASSUME TcpInv, NEW s \in TcpServers, AcceptorThread(s) PROVE TcpInv'
<1> USE DEF TcpInv, TcpTypeOK, HandOK, QueuedOK, HandlerOK, RegisteredOK, LateOK, ServesOpen,
        RegisteredAreOpen, OpenIsHeld, OneThreadPerConn, AtMostOneLateClient,
        Holding, LifeStates, SockStates, AcceptorStates, HandlerStates,
        Running, Bound, QueuedAt, AcceptorMoves
<1>1. CASE AcceptCheck(s)
  BY <1>1 DEF AcceptCheck
<1>2. CASE AcceptTimeout(s) \/ AcceptOnClosed(s)
  BY <1>2 DEF AcceptTimeout, AcceptOnClosed
<1>3. ASSUME NEW c \in Conns, Accept(s, c) PROVE TcpInv'
  BY <1>3, NoneIsNoConn DEF Accept
<1>4. ASSUME NEW c \in Conns, AcceptAborted(s, c) PROVE TcpInv'
  BY <1>4, NoneIsNoConn DEF AcceptAborted
<1>5. CASE Register(s)
  BY <1>5, NoneIsNoConn DEF Register
<1>6. CASE CallConnect(s) \/ ConnectReturns(s)
  BY <1>6, NoneIsNoConn DEF CallConnect, ConnectReturns
<1>7. CASE Spawn(s)
  BY <1>7, NoneIsNoConn DEF Spawn
<1> QED
  BY <1>1, <1>2, <1>3, <1>4, <1>5, <1>6, <1>7 DEF AcceptorThread, AcceptorStep

\* The client threads.
LEMMA TcpInvHandler ==
  ASSUME TcpInv, NEW c \in Conns, HandlerThread(c) PROVE TcpInv'
<1> USE DEF TcpInv, TcpTypeOK, HandOK, QueuedOK, HandlerOK, RegisteredOK, LateOK, ServesOpen,
        RegisteredAreOpen, OpenIsHeld, OneThreadPerConn, AtMostOneLateClient,
        Holding, LifeStates, SockStates, AcceptorStates, HandlerStates, Running, HandlerMoves
<1>1. CASE Setup(c)
  BY <1>1 DEF Setup
<1>2. CASE LoopCheck(c)
  BY <1>2 DEF LoopCheck
<1>3. CASE RecvData(c) \/ RecvTimeout(c) \/ RecvEnd(c)
  BY <1>3 DEF RecvData, RecvTimeout, RecvEnd
<1>4. ASSUME NEW next \in {"send", "loop", "unregister"}, ReceiveReturns(c, next) PROVE TcpInv'
  BY <1>4 DEF ReceiveReturns
<1>5. CASE SendOk(c) \/ SendFails(c)
  BY <1>5 DEF SendOk, SendFails
<1>6. CASE Unregister(c)
  BY <1>6 DEF Unregister
<1>7. CASE CloseConn(c)
  BY <1>7 DEF CloseConn
<1>8. CASE CallDisconnect(c) \/ DisconnectReturns(c)
  BY <1>8 DEF CallDisconnect, DisconnectReturns
<1> QED
  BY <1>1, <1>2, <1>3, <1>4, <1>5, <1>6, <1>7, <1>8 DEF HandlerThread, HandlerStep

\* No step of any thread breaks the invariant.
LEMMA TcpInvNext == TcpInv /\ [TcpNext]_tcpVars => TcpInv'
<1> SUFFICES ASSUME TcpInv, [TcpNext]_tcpVars PROVE TcpInv'
  OBVIOUS
<1>1. CASE UNCHANGED tcpVars
  BY <1>1
  DEF tcpVars, TcpInv, TcpTypeOK, HandOK, QueuedOK, HandlerOK, RegisteredOK, LateOK, ServesOpen,
      RegisteredAreOpen, OpenIsHeld, OneThreadPerConn, AtMostOneLateClient, Finished
<1>2. CASE TcpNext
  BY <1>2, TcpInvPeer, TcpInvOwner, TcpInvAcceptor, TcpInvHandler DEF TcpNext
<1> QED
  BY <1>1, <1>2

-----------------------------------------------------------------------------
\* The strengthening of the properties below holds throughout.
LEMMA TcpInvariance == TcpSafety => []TcpInv
  BY TcpInvInit, TcpInvNext, PTL DEF TcpSafety

\* The variables of TCPServer keep their types.
THEOREM TcpTypeCorrect == TcpSafety => []TcpTypeOK
  BY TcpInvariance, PTL DEF TcpInv

\* A client list holds open connections of its own server only.
THEOREM ListsHoldOpenConns == TcpSafety => []RegisteredAreOpen
  BY TcpInvariance, PTL DEF TcpInv

\* Every open connection has a thread that will come to closing it.
THEOREM NoConnLeaks == TcpSafety => []OpenIsHeld
  BY TcpInvariance, PTL DEF TcpInv

\* Accept threads and client threads never share a connection.
THEOREM ConnsHaveOneThread == TcpSafety => []OneThreadPerConn
  BY TcpInvariance, PTL DEF TcpInv

\* A stopped server registers one more connection at most.
THEOREM OneLateClient == TcpSafety => []AtMostOneLateClient
  BY TcpInvariance, PTL DEF TcpInv

-----------------------------------------------------------------------------
(* SerialServer.                                                            *)

\* Whoever is past the first step of stop() has cleared _running, and as long
\* as it is set the port is open and referred to.
RunningOK ==
  \A p \in SerialServers :
    /\ \A t \in Callers : stopper[p][t] \notin {"idle", "flag"} => ~running[p]
    /\ running[p] => attached[p] /\ port[p] = "open"

\* The reader is in stop() exactly while it waits for it.
ReaderInStop ==
  \A p \in SerialServers :
    /\ stopper[p]["reader"] # "idle" => reader[p] \in {"stopping", "done"}
    /\ stopper[p]["reader"] \notin {"idle", "returned", "raised"} => reader[p] = "stopping"

\* The attribute vanishes under the owner's hands by the reader's doing only.
VanishedUnderOwner ==
  \A p \in SerialServers : stopper[p]["owner"] = "isOpen" /\ ~attached[p] =>
    stopper[p]["reader"] \in {"notice", "posting", "returned"}

\* The inductive invariant of SerialServer.
SerialInv ==
  /\ SerialTypeOK
  /\ RunningOK /\ ReaderInStop /\ VanishedUnderOwner
  /\ StopLeavesPortClosed /\ OpenPortIsAttached /\ OneStopSucceeds /\ NoSilentDeath

-----------------------------------------------------------------------------
\* No port is open and no thread runs at the start.
LEMMA SerialInvInit == SerialInit => SerialInv
  BY MaxFramedIsNat
  DEF SerialInit, SerialInv, SerialTypeOK, RunningOK, ReaderInStop, VanishedUnderOwner,
      StopLeavesPortClosed, OpenPortIsAttached, OneStopSucceeds, NoSilentDeath,
      Callers, ReaderStates, StopStates

\* start(), the end of a server that has no thread, and the steps that begin and
\* end the owner's call of stop().
LEMMA SerialInvOwner ==
  ASSUME SerialInv, NEW p \in SerialServers,
         Open(p) \/ OpenUnthreaded(p) \/ CollectPort(p) \/ OwnerStops(p) \/ OwnerStopped(p)
  PROVE  SerialInv'
<1> USE MaxFramedIsNat
    DEF SerialInv, SerialTypeOK, RunningOK, ReaderInStop, VanishedUnderOwner,
        StopLeavesPortClosed, OpenPortIsAttached, OneStopSucceeds, NoSilentDeath,
        Callers, ReaderStates, StopStates
<1>1. ASSUME NEW thread \in {"loop", "unstarted"}, OpensWith(p, thread) PROVE SerialInv'
  BY <1>1 DEF OpensWith
<1>2. CASE OwnerStops(p)
  BY <1>2 DEF OwnerStops, StopMoves
<1>3. CASE OwnerStopped(p)
  BY <1>3 DEF OwnerStopped
<1>4. CASE CollectPort(p)
  BY <1>4 DEF CollectPort
<1> HIDE DEF SerialInv
<1> QED
  BY <1>1, <1>2, <1>3, <1>4 DEF Open, OpenUnthreaded

\* stop(), by either caller.
LEMMA SerialInvStop ==
  ASSUME SerialInv, NEW p \in SerialServers, NEW t \in Callers,
         SerialStopStep(p, t) \/ SerialNotice(p, t)
  PROVE  SerialInv'
<1> USE DEF SerialInv, SerialTypeOK, RunningOK, ReaderInStop, VanishedUnderOwner,
        StopLeavesPortClosed, OpenPortIsAttached, OneStopSucceeds, NoSilentDeath,
        Callers, ReaderStates, StopStates, StopMoves
<1>1. CASE ClearRunning(p, t)
  BY <1>1 DEF ClearRunning
<1>2. CASE TestSerial(p, t)
  BY <1>2 DEF TestSerial
<1>3. CASE TestIsOpen(p, t)
  BY <1>3 DEF TestIsOpen
<1>4. CASE ClosePort(p, t)
  BY <1>4 DEF ClosePort
<1>5. CASE ClearSerial(p, t)
  BY <1>5 DEF ClearSerial
<1>6. CASE CallClose(p, t)
  BY <1>6 DEF CallClose
<1>7. CASE CloseReturns(p, t)
  BY <1>7 DEF CloseReturns
<1> QED
  BY <1>1, <1>2, <1>3, <1>4, <1>5, <1>6, <1>7 DEF SerialStopStep, SerialNotice

\* The reader, outside stop().
LEMMA SerialInvReader ==
  ASSUME SerialInv, NEW p \in SerialServers, ReaderStep(p), ~SerialStopStep(p, "reader")
  PROVE  SerialInv'
<1> USE MaxFramedIsNat
    DEF SerialInv, SerialTypeOK, RunningOK, ReaderInStop, VanishedUnderOwner,
        StopLeavesPortClosed, OpenPortIsAttached, OneStopSucceeds, NoSilentDeath,
        Callers, ReaderStates, StopStates, ReaderMoves
<1>1. CASE ReaderLoop(p)
  BY <1>1 DEF ReaderLoop
<1>2. CASE ReaderCheck(p)
  BY <1>2 DEF ReaderCheck
<1>3. CASE ReadFails(p)
  BY <1>3 DEF ReadFails
<1>4. ASSUME NEW n \in 0..MaxFramed, ReadReturns(p, n) PROVE SerialInv'
  BY <1>4 DEF ReadReturns
<1>5. CASE NextTelegram(p)
  BY <1>5 DEF NextTelegram
<1>6. ASSUME NEW next \in {"write", "frame", "except"}, SerialReceive(p, next) PROVE SerialInv'
  BY <1>6 DEF SerialReceive
<1>7. CASE WriteResponse(p)
  BY <1>7 DEF WriteResponse
<1>8. CASE WriteRaises(p)
  BY <1>8 DEF WriteRaises
<1>9. CASE ReaderExcept(p)
  BY <1>9 DEF ReaderExcept
<1>10. CASE ReaderStopped(p)
  BY <1>10 DEF ReaderStopped
<1> QED
  BY <1>1, <1>2, <1>3, <1>4, <1>5, <1>6, <1>7, <1>8, <1>9, <1>10 DEF ReaderStep

\* No step breaks the invariant.
LEMMA SerialInvNext == SerialInv /\ [SerialNext]_serialVars => SerialInv'
<1> SUFFICES ASSUME SerialInv, [SerialNext]_serialVars PROVE SerialInv'
  OBVIOUS
<1>1. CASE UNCHANGED serialVars
  BY <1>1
  DEF serialVars, SerialInv, SerialTypeOK, RunningOK, ReaderInStop, VanishedUnderOwner,
      StopLeavesPortClosed, OpenPortIsAttached, OneStopSucceeds, NoSilentDeath
<1>2. CASE SerialNext
  <2>1. PICK p \in SerialServers :
          \/ Open(p) \/ OpenUnthreaded(p) \/ CollectPort(p)
          \/ OwnerStops(p) \/ OwnerInStop(p) \/ ReaderThread(p)
    BY <1>2 DEF SerialNext
  <2>2. "owner" \in Callers /\ "reader" \in Callers
    BY DEF Callers
  <2> QED
    BY <2>1, <2>2, SerialInvOwner, SerialInvStop, SerialInvReader DEF OwnerInStop, ReaderThread
<1> QED
  BY <1>1, <1>2

\* The strengthening of the properties below holds throughout.
LEMMA SerialInvariance == SerialSafety => []SerialInv
  BY SerialInvInit, SerialInvNext, PTL DEF SerialSafety

-----------------------------------------------------------------------------
\* The variables of SerialServer keep their types.
THEOREM SerialTypeCorrect == SerialSafety => []SerialTypeOK
  BY SerialInvariance, PTL DEF SerialInv

\* However the GUI thread's stop() and the reader's interleave, a call that
\* has passed its closing step, or has raised, leaves the port closed.
THEOREM StopClosesPort == SerialSafety => []StopLeavesPortClosed
  BY SerialInvariance, PTL DEF SerialInv

\* No open port loses the reference it is closed through.
THEOREM NoPortLeaks == SerialSafety => []OpenPortIsAttached
  BY SerialInvariance, PTL DEF SerialInv

\* When the owner's stop() raises, the reader's has done the work.
THEOREM StopSucceedsOnce == SerialSafety => []OneStopSucceeds
  BY SerialInvariance, PTL DEF SerialInv

\* A reader that is gone has left _running cleared.
THEOREM ReaderDeathIsSeen == SerialSafety => []NoSilentDeath
  BY SerialInvariance, PTL DEF SerialInv
=================================================================================
