------------------------------ MODULE TCPServer ------------------------------
(***************************************************************************)
(* comms/tcp_server.py: the listening socket, the accept thread and one    *)
(* thread per client of every TCPServer object, with the steps in which    *)
(* the GUI thread starts and stops a server.                               *)
(*                                                                         *)
(* A member of TcpServers is a TCPServer object and a member of Conns one  *)
(* connection (the peer's end and the socket accept() returns for it).     *)
(* Both names are used again for a new object once the old one is dead and *)
(* its threads have ended, so that only what exists at one time is bounded.*)
(*                                                                         *)
(* Calls that leave this component (on_client_connect, on_receive,         *)
(* on_client_disconnect) take a step to begin and a step to return;        *)
(* ConnectionManager adds what they do.  A section under _clients_lock     *)
(* holds no call that blocks, and is one step.                             *)
(***************************************************************************)
EXTENDS FiniteSets, Naturals

CONSTANTS TcpServers, Conns, None

ASSUME NoneIsNoConn == None \notin Conns

VARIABLES
  life,      \* life[s]: how far start() and stop() of s have come
  clients,   \* clients[s]: the list _clients of s
  acceptor,  \* acceptor[s]: where the accept thread of s is
  inHand,    \* inHand[s]: conn, the local variable of the accept thread
  sock,      \* sock[c]: the connection as the operating system holds it
  owner,     \* owner[c]: the server whose listener took the connection
  gone,      \* gone[c]: the peer's close or reset has been delivered
  handler    \* handler[c]: where the client thread of c is

tcpVars == <<life, clients, acceptor, inHand, sock, owner, gone, handler>>

\* "running": _running is set; "flagged": stop() has cleared it; "swept":
\* stop() has closed and dropped the clients; "closed": the listener is closed.
LifeStates     == {"running", "flagged", "swept", "closed"}
SockStates     == {"queued", "open", "closed"}
\* "unstarted": the listener is bound, but Thread.start() has raised.
AcceptorStates == {"unstarted", "loop", "accept", "register", "joined", "posting", "spawn", "done"}
HandlerStates  == {"setup", "loop", "recv", "receive", "send",
                   "unregister", "close", "left", "posting", "done"}

TcpTypeOK ==
  /\ life     \in [TcpServers -> LifeStates]
  /\ clients  \in [TcpServers -> SUBSET Conns]
  /\ acceptor \in [TcpServers -> AcceptorStates]
  /\ inHand   \in [TcpServers -> Conns \cup {None}]
  /\ sock     \in [Conns -> SockStates]
  /\ owner    \in [Conns -> TcpServers \cup {None}]
  /\ gone     \in [Conns -> BOOLEAN]
  /\ handler  \in [Conns -> HandlerStates]

TcpInit ==
  /\ life     = [s \in TcpServers |-> "closed"]
  /\ clients  = [s \in TcpServers |-> {}]
  /\ acceptor = [s \in TcpServers |-> "done"]
  /\ inHand   = [s \in TcpServers |-> None]
  /\ sock     = [c \in Conns |-> "closed"]
  /\ owner    = [c \in Conns |-> None]
  /\ gone     = [c \in Conns |-> FALSE]
  /\ handler  = [c \in Conns |-> "done"]

Running(s)   == life[s] = "running"
Bound(s)     == life[s] # "closed"
QueuedAt(s)  == {c \in Conns : sock[c] = "queued" /\ owner[c] = s}

\* No socket and no thread of c exists any more.
Finished(c)  == sock[c] = "closed" /\ handler[c] = "done" /\ \A s \in TcpServers : inHand[s] # c
\* The accept thread of s and every client thread it started have ended.
Drained(s)   == acceptor[s] = "done" /\ \A c \in Conns : owner[c] = s => Finished(c)

-----------------------------------------------------------------------------
(* The peer and the operating system.                                      *)

\* The listener completes the handshake and queues the connection.
PeerConnect(c, s) ==
  /\ Finished(c) /\ Bound(s)
  /\ sock'  = [sock EXCEPT ![c] = "queued"]
  /\ owner' = [owner EXCEPT ![c] = s]
  /\ gone'  = [gone EXCEPT ![c] = FALSE]
  /\ UNCHANGED <<life, clients, acceptor, inHand, handler>>

\* Everything the peer sent has been read and its close is what comes next.
PeerClose(c) ==
  /\ sock[c] # "closed" /\ ~gone[c]
  /\ gone' = [gone EXCEPT ![c] = TRUE]
  /\ UNCHANGED <<life, clients, acceptor, inHand, sock, owner, handler>>

-----------------------------------------------------------------------------
(* start() and stop(), called by the GUI thread.                           *)

StartsWith(s, thread) ==
  /\ ~Bound(s) /\ Drained(s)
  /\ life'     = [life EXCEPT ![s] = "running"]
  /\ clients'  = [clients EXCEPT ![s] = {}]
  /\ acceptor' = [acceptor EXCEPT ![s] = thread]
  /\ UNCHANGED <<inHand, sock, owner, gone, handler>>

Start(s) == StartsWith(s, "loop")

\* The accept thread cannot be started: start() raises with the listener bound.
StartUnthreaded(s) == StartsWith(s, "unstarted")

\* Server and thread refer to each other: once nothing else refers to them,
\* the garbage collector, whenever it runs, closes the listener.
Collect(s) ==
  /\ acceptor[s] = "unstarted"
  /\ life'     = [life EXCEPT ![s] = "closed"]
  /\ clients'  = [clients EXCEPT ![s] = {}]
  /\ acceptor' = [acceptor EXCEPT ![s] = "done"]
  /\ sock'     = [c \in Conns |-> IF c \in QueuedAt(s) THEN "closed" ELSE sock[c]]
  /\ UNCHANGED <<inHand, owner, gone, handler>>

StopFlag(s) ==
  /\ Running(s)
  /\ life' = [life EXCEPT ![s] = "flagged"]
  /\ UNCHANGED <<clients, acceptor, inHand, sock, owner, gone, handler>>

StopClients(s) ==
  /\ life[s] = "flagged"
  /\ life'    = [life EXCEPT ![s] = "swept"]
  /\ sock'    = [c \in Conns |-> IF c \in clients[s] THEN "closed" ELSE sock[c]]
  /\ clients' = [clients EXCEPT ![s] = {}]
  /\ UNCHANGED <<acceptor, inHand, owner, gone, handler>>

\* Connections still in the backlog are reset with the listener.
StopListener(s) ==
  /\ life[s] = "swept"
  /\ life' = [life EXCEPT ![s] = "closed"]
  /\ sock' = [c \in Conns |-> IF c \in QueuedAt(s) THEN "closed" ELSE sock[c]]
  /\ UNCHANGED <<clients, acceptor, inHand, owner, gone, handler>>

-----------------------------------------------------------------------------
(* The accept thread.                                                      *)

AcceptorMoves(s, from, to) ==
  /\ acceptor[s] = from
  /\ acceptor' = [acceptor EXCEPT ![s] = to]

\* Mutant: "while True", which leaves it to the closed listener to end the loop.
AcceptForever(s) ==
  /\ AcceptorMoves(s, "loop", "accept")
  /\ UNCHANGED <<life, clients, inHand, sock, owner, gone, handler>>

AcceptCheck(s) ==
  /\ AcceptorMoves(s, "loop", IF Running(s) THEN "accept" ELSE "done")
  /\ UNCHANGED <<life, clients, inHand, sock, owner, gone, handler>>

Accept(s, c) ==
  /\ AcceptorMoves(s, "accept", "register")
  /\ c \in QueuedAt(s)
  /\ sock'   = [sock EXCEPT ![c] = "open"]
  /\ inHand' = [inHand EXCEPT ![s] = c]
  /\ UNCHANGED <<life, clients, owner, gone, handler>>

\* accept() waits for a second only when no connection is queued.
AcceptTimeout(s) ==
  /\ QueuedAt(s) = {}
  /\ AcceptorMoves(s, "accept", "loop")
  /\ UNCHANGED <<life, clients, inHand, sock, owner, gone, handler>>

\* OSError: the listener was closed ...
AcceptOnClosed(s) ==
  /\ ~Bound(s)
  /\ AcceptorMoves(s, "accept", "done")
  /\ UNCHANGED <<life, clients, inHand, sock, owner, gone, handler>>

\* ... or accept() reports a connection its peer has already given up.
AcceptAborted(s, c) ==
  /\ c \in QueuedAt(s) /\ gone[c]
  /\ AcceptorMoves(s, "accept", "done")
  /\ sock' = [sock EXCEPT ![c] = "closed"]
  /\ UNCHANGED <<life, clients, inHand, owner, gone, handler>>

Register(s) ==
  /\ AcceptorMoves(s, "register", "joined")
  /\ clients' = [clients EXCEPT ![s] = @ \cup {inHand[s]}]
  /\ UNCHANGED <<life, inHand, sock, owner, gone, handler>>

\* Mutant: a client thread is started before on_client_connect, too.
SpawnsTwice(s) ==
  /\ AcceptorMoves(s, "joined", "posting")
  /\ handler' = [handler EXCEPT ![inHand[s]] = "setup"]
  /\ UNCHANGED <<life, clients, inHand, sock, owner, gone>>

CallConnect(s) ==
  /\ AcceptorMoves(s, "joined", "posting")
  /\ UNCHANGED <<life, clients, inHand, sock, owner, gone, handler>>

ConnectReturns(s) ==
  /\ AcceptorMoves(s, "posting", "spawn")
  /\ UNCHANGED <<life, clients, inHand, sock, owner, gone, handler>>

Spawn(s) ==
  /\ AcceptorMoves(s, "spawn", "loop")
  /\ handler' = [handler EXCEPT ![inHand[s]] = "setup"]
  /\ inHand'  = [inHand EXCEPT ![s] = None]
  /\ UNCHANGED <<life, clients, sock, owner, gone>>

-----------------------------------------------------------------------------
(* The client thread.                                                      *)

HandlerMoves(c, from, to) ==
  /\ handler[c] = from
  /\ handler' = [handler EXCEPT ![c] = to]
  /\ UNCHANGED <<life, acceptor, inHand, owner, gone>>

\* settimeout() raises on a socket stop() has closed; it stands before the
\* try block, so the thread ends there, with no clean-up and no notice.
Setup(c) ==
  /\ HandlerMoves(c, "setup", IF sock[c] = "open" THEN "loop" ELSE "done")
  /\ UNCHANGED <<clients, sock>>

\* Mutant: "while True".
ServeForever(c) ==
  /\ HandlerMoves(c, "loop", "recv")
  /\ UNCHANGED <<clients, sock>>

LoopCheck(c) ==
  /\ HandlerMoves(c, "loop", IF Running(owner[c]) THEN "recv" ELSE "unregister")
  /\ UNCHANGED <<clients, sock>>

RecvData(c) ==
  /\ sock[c] = "open" /\ ~gone[c]
  /\ HandlerMoves(c, "recv", "receive")
  /\ UNCHANGED <<clients, sock>>

RecvTimeout(c) ==
  /\ ~(sock[c] = "open" /\ gone[c])
  /\ HandlerMoves(c, "recv", "loop")
  /\ UNCHANGED <<clients, sock>>

\* Mutant: empty data is taken for "nothing yet".
EndIsNoData(c) ==
  /\ sock[c] = "closed" \/ gone[c]
  /\ HandlerMoves(c, "recv", IF sock[c] = "closed" THEN "unregister" ELSE "loop")
  /\ UNCHANGED <<clients, sock>>

\* The peer closed or reset the connection, or stop() closed the socket.
RecvEnd(c) ==
  /\ sock[c] = "closed" \/ gone[c]
  /\ HandlerMoves(c, "recv", "unregister")
  /\ UNCHANGED <<clients, sock>>

\* on_receive() returns a response, returns None, or raises.
ReceiveReturns(c, next) ==
  /\ HandlerMoves(c, "receive", next)
  /\ UNCHANGED <<clients, sock>>

SendOk(c) ==
  /\ sock[c] = "open"
  /\ HandlerMoves(c, "send", "loop")
  /\ UNCHANGED <<clients, sock>>

\* Also of a peer that is there but does not read: sendall() times out.
SendFails(c) ==
  /\ HandlerMoves(c, "send", "unregister")
  /\ UNCHANGED <<clients, sock>>

Unregister(c) ==
  /\ HandlerMoves(c, "unregister", "close")
  /\ clients' = [clients EXCEPT ![owner[c]] = @ \ {c}]
  /\ UNCHANGED sock

\* Mutant: conn.close() is missing.
ForgetsClose(c) ==
  /\ HandlerMoves(c, "close", "left")
  /\ UNCHANGED <<clients, sock>>

CloseConn(c) ==
  /\ HandlerMoves(c, "close", "left")
  /\ sock' = [sock EXCEPT ![c] = "closed"]
  /\ UNCHANGED clients

CallDisconnect(c) ==
  /\ HandlerMoves(c, "left", "posting")
  /\ UNCHANGED <<clients, sock>>

DisconnectReturns(c) ==
  /\ HandlerMoves(c, "posting", "done")
  /\ UNCHANGED <<clients, sock>>

-----------------------------------------------------------------------------
\* What the threads do between two calls to their callbacks.
AcceptorStep(s) ==
  \/ AcceptCheck(s) \/ AcceptTimeout(s) \/ AcceptOnClosed(s)
  \/ \E c \in Conns : Accept(s, c) \/ AcceptAborted(s, c)
  \/ Register(s) \/ Spawn(s)

HandlerStep(c) ==
  \/ Setup(c) \/ LoopCheck(c) \/ RecvData(c) \/ RecvTimeout(c) \/ RecvEnd(c)
  \/ \E next \in {"send", "loop", "unregister"} : ReceiveReturns(c, next)
  \/ SendOk(c) \/ SendFails(c) \/ Unregister(c) \/ CloseConn(c)

PeerStep ==
  \E c \in Conns : PeerClose(c) \/ \E s \in TcpServers : PeerConnect(c, s)

StopStep(s) == StopFlag(s) \/ StopClients(s) \/ StopListener(s)

AcceptorThread(s) == AcceptorStep(s) \/ CallConnect(s) \/ ConnectReturns(s)
HandlerThread(c)  == HandlerStep(c) \/ CallDisconnect(c) \/ DisconnectReturns(c)

TcpNext ==
  \/ PeerStep
  \/ \E s \in TcpServers : Start(s) \/ StartUnthreaded(s) \/ Collect(s) \/ StopStep(s) \/ AcceptorThread(s)
  \/ \E c \in Conns : HandlerThread(c)

TcpSafety == TcpInit /\ [][TcpNext]_tcpVars

-----------------------------------------------------------------------------
(* Properties.                                                             *)

\* The list of clients holds open connections of its own server only: stop()
\* and the client thread both drop a connection from the list no later than
\* they close it, whichever of them comes first (client_count reads it).
RegisteredAreOpen ==
  \A s \in TcpServers : \A c \in clients[s] : sock[c] = "open" /\ owner[c] = s

\* No socket is leaked: a connection that is open is held by the accept thread
\* on its way to a client thread, or by a client thread that has yet to close it.
OpenIsHeld ==
  \A c \in Conns : sock[c] = "open" =>
    \/ \E s \in TcpServers : inHand[s] = c /\ acceptor[s] \in {"register", "joined", "posting", "spawn"}
    \/ handler[c] \notin {"left", "posting", "done"}

\* A connection has one thread at a time: while the accept thread holds it no
\* client thread runs for it, and no two accept threads hold it.
OneThreadPerConn ==
  \A s \in TcpServers : \A c \in Conns : inHand[s] = c =>
    /\ handler[c] = "done" /\ owner[c] = s
    /\ \A t \in TcpServers : inHand[t] = c => t = s

\* Once stop() has swept the client list, the accept thread can still add the
\* connection it had in hand, but no more than that one.
AtMostOneLateClient ==
  \A s \in TcpServers : life[s] \in {"swept", "closed"} =>
    \A c, d \in clients[s] : c = d

\* After stop() has returned, every thread of the server ends and every
\* socket it still had is closed, although stop() joins no thread.
StoppedServerDrains ==
  \A s \in TcpServers : life[s] = "closed" ~> Drained(s)

\* A client that goes away is noticed: its socket is closed and its thread
\* ends, whatever the thread was doing.
GoneClientIsReaped ==
  \A c \in Conns : (sock[c] = "open" /\ gone[c]) ~> Finished(c)
=============================================================================
