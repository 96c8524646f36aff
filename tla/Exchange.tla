------------------------------- MODULE Exchange -------------------------------
(***************************************************************************)
(* comms/tcp_client.py and the card it talks to: telegrams and replies as  *)
(* they pass over TCP, which keeps the order of bytes and nothing else.    *)
(* What recv() returns at either end is what has arrived of them: one      *)
(* telegram, part of it, or several.  The card takes it for one telegram.  *)
(*                                                                         *)
(* The lock of the client is held through connect, disconnect and send, so *)
(* that its callers are one thread here.  A connection the client has left *)
(* lives on at the card until its thread has noticed: a member of Links is *)
(* one connection, and is used again when both its ends are closed.        *)
(*                                                                         *)
(* A byte on its way carries the number of the send it belongs to, or of   *)
(* the send it is an answer to, which is history.                          *)
(***************************************************************************)
EXTENDS Reply

CONSTANTS Links, None,
          Sends,      \* the telegrams the client sends
          Statuses,   \* status bytes of the card
          Fills,      \* the other bytes of its replies
          MaxSends    \* bound: telegrams sent

VARIABLES
  sock,       \* _sock
  connected,  \* _connected
  waiting,    \* send() is in recv()
  answer,     \* what the last send() on this connection returned
  sent,       \* the telegrams sent
  up, down,   \* up[l], down[l]: bytes under way to the card, to the client
  place,      \* place[l]: where the card's thread for l is
  job,        \* job[l]: what on_receive has been called with
  inSync      \* history: no answer is owed to an earlier send on this connection

clientVars   == <<sock, connected, waiting, answer, sent>>
exchangeVars == <<clientVars, up, down, place, job, inSync>>

RecvSize == 1024

Tagged(bytes, n) == [i \in DOMAIN bytes |-> <<n, bytes[i]>>]
Bytes(tagged)    == [i \in DOMAIN tagged |-> tagged[i][2]]
First(n, s)      == SubSeq(s, 1, n)
Beyond(n, s)     == SubSeq(s, n + 1, Len(s))

\* What recv() may return of s.
Received(s) == 1..(IF Len(s) < RecvSize THEN Len(s) ELSE RecvSize)

\* A client that has lost its connection keeps the socket until it connects
\* again or disconnects, and never a connection without a socket.
ExchangeTypeOK ==
  /\ sock \in Links \cup {None} /\ (connected => sock # None)
  /\ connected \in BOOLEAN /\ waiting \in BOOLEAN /\ (waiting => connected)
  /\ sent \in Seq(Sends) /\ answer \in Seq((1..Len(sent)) \X Byte)
  /\ up   \in [Links -> Seq((1..Len(sent)) \X Byte)]
  /\ down \in [Links -> Seq((1..Len(sent)) \X Byte)]
  /\ job  \in [Links -> Seq((1..Len(sent)) \X Byte)]
  /\ place \in [Links -> {"recv", "handle", "closed"}]
  /\ inSync \in BOOLEAN

ExchangeInit ==
  /\ sock = None /\ connected = FALSE /\ waiting = FALSE /\ answer = <<>> /\ sent = <<>>
  /\ up = [l \in Links |-> <<>>] /\ down = [l \in Links |-> <<>>]
  /\ place = [l \in Links |-> "closed"] /\ job = [l \in Links |-> <<>>]
  /\ inSync = TRUE

-----------------------------------------------------------------------------
(* The client.                                                             *)

\* The socket object that is given up is closed; what was still on its way to
\* it is lost.
Drop(l) == down' = [k \in Links |-> IF k = l THEN <<>> ELSE down[k]]

\* connect() returns at once where _connected is set.
Connect(l) ==
  /\ ~connected /\ l # sock /\ place[l] = "closed"
  /\ sock' = l /\ connected' = TRUE
  /\ inSync' = TRUE /\ answer' = <<>>
  /\ place' = [place EXCEPT ![l] = "recv"]
  /\ Drop(sock)
  /\ UNCHANGED <<waiting, sent, up, job>>

\* It raises, and has replaced _sock by one without a connection.
ConnectFails ==
  /\ ~connected /\ sock # None
  /\ sock' = None
  /\ Drop(sock)
  /\ UNCHANGED <<connected, waiting, answer, sent, up, place, job, inSync>>

\* Mutant: _connected keeps its value.
ClosesOnly ==
  /\ ~waiting /\ sock # None
  /\ sock' = None
  /\ Drop(sock)
  /\ UNCHANGED <<connected, waiting, answer, sent, up, place, job, inSync>>

Disconnect ==
  /\ ~waiting /\ sock # None
  /\ sock' = None /\ connected' = FALSE
  /\ Drop(sock)
  /\ UNCHANGED <<waiting, answer, sent, up, place, job, inSync>>

\* sendall() returns, also when the card has closed its end and nobody knows.
Send(t) ==
  /\ connected /\ ~waiting /\ Len(sent) < MaxSends
  /\ sent' = Append(sent, t) /\ waiting' = TRUE /\ answer' = <<>>
  /\ up' = [up EXCEPT ![sock] = IF place[sock] = "closed" THEN @ ELSE @ \o Tagged(t, Len(sent'))]
  /\ inSync' = (inSync /\ down[sock] = <<>>)
  /\ UNCHANGED <<sock, connected, down, place, job>>

\* sendall() raises.
SendFails ==
  /\ connected /\ ~waiting /\ place[sock] = "closed"
  /\ connected' = FALSE /\ answer' = <<>>
  /\ UNCHANGED <<sock, waiting, sent, up, down, place, job, inSync>>

\* sendall() times out, which returns None and keeps the connection.  A socket
\* that takes any of the 57 bytes of the longest telegram takes all of them, so
\* that nothing has been sent.
SendTimesOut ==
  /\ connected /\ ~waiting
  /\ answer' = <<>>
  /\ UNCHANGED <<sock, connected, waiting, sent, up, down, place, job, inSync>>

RecvAnswer(n) ==
  /\ waiting /\ n \in Received(down[sock])
  /\ waiting' = FALSE /\ answer' = First(n, down[sock])
  /\ down' = [down EXCEPT ![sock] = Beyond(n, @)]
  /\ UNCHANGED <<sock, connected, sent, up, place, job, inSync>>

\* None is returned, and the connection kept.
RecvTimeout ==
  /\ waiting /\ down[sock] = <<>> /\ place[sock] # "closed"
  /\ waiting' = FALSE /\ inSync' = FALSE
  /\ UNCHANGED <<sock, connected, answer, sent, up, down, place, job>>

\* No data, which makes None of the answer and leaves the client connected, ...
RecvEmpty ==
  /\ waiting /\ down[sock] = <<>> /\ place[sock] = "closed"
  /\ waiting' = FALSE
  /\ UNCHANGED <<sock, connected, answer, sent, up, down, place, job, inSync>>

\* ... or a reset.
RecvRaises ==
  /\ waiting /\ place[sock] = "closed"
  /\ waiting' = FALSE /\ connected' = FALSE
  /\ UNCHANGED <<sock, answer, sent, up, down, place, job, inSync>>

-----------------------------------------------------------------------------
(* The card: _client_loop of the server with _on_receive, in the thread of *)
(* connection l.                                                           *)

\* Mutant: the CRC is not looked at.
AnyCrc(data) == ~Malformed(data)

Accepted(data) == ~Malformed(data) /\ Verify(data)

\* The data bytes a command takes.
DataLength(t) ==
  IF ~IsTypeC(t[3]) THEN 0
  ELSE IF t[4] = AnalogInputSetup THEN 3 ELSE IF t[4] = ReplyDelay THEN 1 ELSE 0

\* The telegrams the client builds have the data their commands take.  A piece
\* of one that verifies by chance would be executed as well.
ASSUME SendsAreWhole ==
  \A t \in Sends :
    /\ t \in Seq(Byte) /\ ~Malformed(t) /\ Verify(t) /\ Len(t) > 4 + DataLength(t)
    /\ \A i, j \in 1..Len(t) :
         ~Malformed(SubSeq(t, i, j)) /\ Verify(SubSeq(t, i, j)) => i = 1 /\ j = Len(t)

ASSUME RepliesAreBytes == Statuses \subseteq Byte /\ Fills \subseteq Byte

ASSUME NoneIsNoLink == None \notin Links

\* What parse_master or the CRC refuses is dropped, with all of it.
CardReceives(l, n) ==
  /\ place[l] = "recv" /\ n \in Received(up[l])
  /\ up' = [up EXCEPT ![l] = Beyond(n, @)]
  /\ IF Accepted(Bytes(First(n, up[l])))
     THEN place' = [place EXCEPT ![l] = "handle"] /\ job' = [job EXCEPT ![l] = First(n, up[l])]
     ELSE UNCHANGED <<place, job>>
  /\ UNCHANGED <<clientVars, down, inSync>>

CardMoves(l, from, to) ==
  /\ place[l] = from /\ place' = [place EXCEPT ![l] = to]
  /\ job' = [job EXCEPT ![l] = <<>>]
  /\ UNCHANGED <<clientVars, inSync>>

\* Mutant: the answer goes to the client that has connected last.
AnswersLast(l, status, fill) ==
  /\ CardMoves(l, "handle", "recv")
  /\ down' = [k \in Links |-> IF k # sock THEN down[k] ELSE
       down[k] \o Tagged(BuildSlaveReply(ReplyPayload(Bytes(job[l]), status, fill)), job[l][1][1])]
  /\ UNCHANGED up

\* After the reply delay; an answer to a client that has gone is lost.
CardAnswers(l, status, fill) ==
  /\ CardMoves(l, "handle", "recv")
  /\ down' = [down EXCEPT ![l] = IF l # sock THEN @ ELSE
       @ \o Tagged(BuildSlaveReply(ReplyPayload(Bytes(job[l]), status, fill)), job[l][1][1])]
  /\ UNCHANGED up

\* The card is offline or has another address.
CardIsSilent(l) ==
  /\ CardMoves(l, "handle", "recv")
  /\ UNCHANGED <<up, down>>

\* The server is stopped, or on_receive raises, or the client's end is closed.
CardCloses(l) ==
  /\ CardMoves(l, "recv", "closed") \/ CardMoves(l, "handle", "closed")
  /\ up' = [up EXCEPT ![l] = <<>>]
  /\ UNCHANGED down

-----------------------------------------------------------------------------
ClientGoes ==
  \/ \E l \in Links : Connect(l)
  \/ ConnectFails \/ Disconnect
  \/ \E t \in Sends : Send(t)
  \/ SendFails \/ SendTimesOut \/ RecvTimeout \/ RecvEmpty \/ RecvRaises
  \/ sock # None /\ \E n \in Received(down[sock]) : RecvAnswer(n)

CardGoes(l) ==
  \/ \E n \in Received(up[l]) : CardReceives(l, n)
  \/ \E status \in Statuses, fill \in Fills : CardAnswers(l, status, fill)
  \/ CardIsSilent(l) \/ CardCloses(l)

ExchangeNext == ClientGoes \/ \E l \in Links : CardGoes(l)

ExchangeSpec == ExchangeInit /\ [][ExchangeNext]_exchangeVars

-----------------------------------------------------------------------------
(* Properties.                                                             *)

Owners(tagged) == {tagged[i][1] : i \in DOMAIN tagged}

\* What send() returns is the answer to what it has sent, as long as every
\* earlier send on this connection had its whole answer: also when answers to
\* a connection that was given up are still on their way.
AnswerIsOwn == inSync => Owners(answer) \subseteq {Len(sent)}

\* Two telegrams arrive as one only where the client has not waited for the
\* answer to the first.
ArrivesAlone == inSync /\ sock # None => Cardinality(Owners(up[sock] \o job[sock])) <= 1

\* What parse_master hands to the protocol handler of data, as far as the
\* handler reads it.
Parsed(data) == SubSeq(data, 2, 4 + DataLength(data))

\* The card executes what was sent and nothing else: neither a piece of a
\* telegram nor the end of one with the beginning of another passes for one,
\* and of several that arrive together it executes the first.
ExecutesWhatWasSent ==
  \A l \in Links : place[l] = "handle" =>
    LET t == sent[job[l][1][1]] IN
    /\ Len(job[l]) >= Len(t)
    /\ First(Len(t), Bytes(job[l])) = t
    /\ Parsed(Bytes(job[l])) = Parsed(t)

\* The last answer, where it is a whole one to the last telegram, and what
\* decode_slave makes of it, given the command that was sent.
AnswerIsWhole ==
  /\ inSync /\ sent # <<>>
  /\ Len(answer) = Len(BuildSlaveReply(ReplyPayload(sent[Len(sent)], 0, 0)))

ShownAs(t) == DecodeSlave(Bytes(answer), IF IsTypeC(t[3]) THEN t[4] ELSE -1)

\* decode_slave takes a whole answer for what the handlers have built, with two
\* exceptions: it has no words for the DIP switch, whose byte it shows as a
\* status, and takes a status without any bank for an ACK if it has that value.
DecodedAsBuilt ==
  AnswerIsWhole =>
    LET t == sent[Len(sent)]
    IN  ShownAs(t) = IF Built(t) = "option and node" THEN "status"
                     ELSE IF Built(t) = "status" /\ Payload(Bytes(answer)) = <<Ack>> THEN "ack"
                     ELSE Built(t)

=============================================================================
