----------------------------- MODULE SerialServer -----------------------------
(***************************************************************************)
(* comms/serial_server.py: the port and the reader thread of every         *)
(* SerialServer object, and stop(), which two threads may run at once: the *)
(* owner of the object (the GUI thread, through ConnectionManager) and the *)
(* reader itself, from the handler of its own exceptions.  No lock guards  *)
(* _serial and _running, so stop() is modelled load by load.               *)
(*                                                                         *)
(* A member of SerialServers is one SerialServer object; the name is used  *)
(* again for a new object once port and thread of the old one are gone.    *)
(* What is framed out of the bytes read is the subject of SerialFramer:    *)
(* here a read yields some number of telegrams, at most MaxFramed.         *)
(***************************************************************************)
EXTENDS Naturals

CONSTANTS SerialServers,
          MaxFramed      \* bound: telegrams framed from what one read returns

ASSUME MaxFramedIsNat == MaxFramed \in Nat

VARIABLES
  running,   \* running[p]: _running
  attached,  \* attached[p]: _serial is not None
  port,      \* port[p]: the Serial object, whose is_open is port[p] = "open"
  reader,    \* reader[p]: where the reader thread of p is
  framed,    \* framed[p]: telegrams of the last read not yet dispatched
  stopper    \* stopper[p][t]: where t is in stop()

serialVars == <<running, attached, port, reader, framed, stopper>>

Callers      == {"owner", "reader"}
\* "unstarted": the port is open, but Thread.start() has raised.
ReaderStates == {"unstarted", "loop", "check", "read", "frame", "receive", "write",
                 "except", "stopping", "done"}
StopStates   == {"idle", "flag", "test", "isOpen", "close", "null",
                 "notice", "posting", "returned", "raised"}

SerialTypeOK ==
  /\ running  \in [SerialServers -> BOOLEAN]
  /\ attached \in [SerialServers -> BOOLEAN]
  /\ port     \in [SerialServers -> {"open", "closed"}]
  /\ reader   \in [SerialServers -> ReaderStates]
  /\ framed   \in [SerialServers -> 0..MaxFramed]
  /\ stopper  \in [SerialServers -> [Callers -> StopStates]]

SerialInit ==
  /\ running  = [p \in SerialServers |-> FALSE]
  /\ attached = [p \in SerialServers |-> FALSE]
  /\ port     = [p \in SerialServers |-> "closed"]
  /\ reader   = [p \in SerialServers |-> "done"]
  /\ framed   = [p \in SerialServers |-> 0]
  /\ stopper  = [p \in SerialServers |-> [t \in Callers |-> "idle"]]

-----------------------------------------------------------------------------
(* start(), up to the call of on_open.                                     *)

OpensWith(p, thread) ==
  /\ port[p] = "closed" /\ reader[p] = "done" /\ stopper[p]["owner"] = "idle"
  /\ running'  = [running EXCEPT ![p] = TRUE]
  /\ attached' = [attached EXCEPT ![p] = TRUE]
  /\ port'     = [port EXCEPT ![p] = "open"]
  /\ reader'   = [reader EXCEPT ![p] = thread]
  /\ framed'   = [framed EXCEPT ![p] = 0]
  /\ stopper'  = [stopper EXCEPT ![p]["reader"] = "idle"]

Open(p) == OpensWith(p, "loop")

\* The reader cannot be started: start() raises with the port open.
OpenUnthreaded(p) == OpensWith(p, "unstarted")

\* As of a TCPServer, the garbage collector frees what nothing refers to.
CollectPort(p) ==
  /\ reader[p] = "unstarted" /\ stopper[p]["owner"] = "idle"
  /\ running'  = [running EXCEPT ![p] = FALSE]
  /\ attached' = [attached EXCEPT ![p] = FALSE]
  /\ port'     = [port EXCEPT ![p] = "closed"]
  /\ reader'   = [reader EXCEPT ![p] = "done"]
  /\ UNCHANGED <<framed, stopper>>

-----------------------------------------------------------------------------
(* stop(), run by t.                                                       *)

StopMoves(p, t, from, to) ==
  /\ stopper[p][t] = from
  /\ stopper' = [stopper EXCEPT ![p][t] = to]
  /\ UNCHANGED <<reader, framed>>

\* The owner calls stop(); the reader calls it in ReaderExcept.
OwnerStops(p) ==
  /\ StopMoves(p, "owner", "idle", "flag")
  /\ UNCHANGED <<running, attached, port>>

\* Mutant: _serial is given up together with _running, before it is closed.
ClearsBoth(p, t) ==
  /\ StopMoves(p, t, "flag", "test")
  /\ running'  = [running EXCEPT ![p] = FALSE]
  /\ attached' = [attached EXCEPT ![p] = FALSE]
  /\ UNCHANGED port

ClearRunning(p, t) ==
  /\ StopMoves(p, t, "flag", "test")
  /\ running' = [running EXCEPT ![p] = FALSE]
  /\ UNCHANGED <<attached, port>>

\* "self._serial and self._serial.is_open" loads the attribute twice.
TestSerial(p, t) ==
  /\ StopMoves(p, t, "test", IF attached[p] THEN "isOpen" ELSE "null")
  /\ UNCHANGED <<running, attached, port>>

\* Mutant: a port that is closed already is taken for an error.
ClosedIsAnError(p, t) ==
  /\ StopMoves(p, t, "isOpen", IF attached[p] /\ port[p] = "open" THEN "close" ELSE "raised")
  /\ UNCHANGED <<running, attached, port>>

\* The other thread may have set _serial to None since: AttributeError.
TestIsOpen(p, t) ==
  /\ StopMoves(p, t, "isOpen", IF ~attached[p] THEN "raised"
                               ELSE IF port[p] = "open" THEN "close" ELSE "null")
  /\ UNCHANGED <<running, attached, port>>

\* Mutant: close() is missing.
LeavesPort(p, t) ==
  /\ StopMoves(p, t, "close", "null")
  /\ UNCHANGED <<running, attached, port>>

\* close() closes what is open; the AttributeError of a _serial that has
\* become None is caught here, as is an error of close() itself.
ClosePort(p, t) ==
  /\ StopMoves(p, t, "close", "null")
  /\ port' = [port EXCEPT ![p] = IF attached[p] THEN "closed" ELSE @]
  /\ UNCHANGED <<running, attached>>

ClearSerial(p, t) ==
  /\ StopMoves(p, t, "null", "notice")
  /\ attached' = [attached EXCEPT ![p] = FALSE]
  /\ UNCHANGED <<running, port>>

\* Mutant: on_close is not called.
NoNotice(p, t) ==
  /\ StopMoves(p, t, "notice", "returned")
  /\ UNCHANGED <<running, attached, port>>

CallClose(p, t) ==
  /\ StopMoves(p, t, "notice", "posting")
  /\ UNCHANGED <<running, attached, port>>

CloseReturns(p, t) ==
  /\ StopMoves(p, t, "posting", "returned")
  /\ UNCHANGED <<running, attached, port>>

OwnerStopped(p) ==
  /\ stopper[p]["owner"] \in {"returned", "raised"}
  /\ stopper' = [stopper EXCEPT ![p]["owner"] = "idle"]
  /\ UNCHANGED <<running, attached, port, reader, framed>>

-----------------------------------------------------------------------------
(* The reader thread.                                                      *)

ReaderMoves(p, from, to) ==
  /\ reader[p] = from
  /\ reader' = [reader EXCEPT ![p] = to]
  /\ UNCHANGED <<running, attached, port>>

ReaderLoop(p) ==
  /\ ReaderMoves(p, "loop", IF running[p] THEN "check" ELSE "done")
  /\ UNCHANGED <<framed, stopper>>

\* A _serial that becomes None in the middle of the test raises, which ends
\* the thread as well: _running has been cleared before.
ReaderCheck(p) ==
  /\ ReaderMoves(p, "check", IF attached[p] /\ port[p] = "open" THEN "read" ELSE "done")
  /\ UNCHANGED <<framed, stopper>>

ReadReturns(p, n) ==
  /\ ReaderMoves(p, "read", "frame")
  /\ framed' = [framed EXCEPT ![p] = n]
  /\ UNCHANGED stopper

\* The device fails, or the port was closed under the reader.
ReadFails(p) ==
  /\ ReaderMoves(p, "read", "except")
  /\ UNCHANGED <<framed, stopper>>

\* Mutant: what was dispatched is not deleted from the buffer.
SameAgain(p) ==
  /\ ReaderMoves(p, "frame", IF framed[p] > 0 THEN "receive" ELSE "loop")
  /\ UNCHANGED <<framed, stopper>>

\* The inner loop dispatches all it has framed and does not look at _running.
NextTelegram(p) ==
  /\ ReaderMoves(p, "frame", IF framed[p] > 0 THEN "receive" ELSE "loop")
  /\ framed' = [framed EXCEPT ![p] = IF @ > 0 THEN @ - 1 ELSE 0]
  /\ UNCHANGED stopper

\* on_receive() returns a response, returns None, or raises.
SerialReceive(p, next) ==
  /\ ReaderMoves(p, "receive", next)
  /\ UNCHANGED <<framed, stopper>>

\* The response is written, or dropped when the port has gone.
WriteResponse(p) ==
  /\ ReaderMoves(p, "write", "frame")
  /\ UNCHANGED <<framed, stopper>>

\* _serial became None between the two loads of the guard of write().
WriteRaises(p) ==
  /\ ~attached[p]
  /\ ReaderMoves(p, "write", "except")
  /\ UNCHANGED <<framed, stopper>>

ReaderExcept(p) ==
  /\ ReaderMoves(p, "except", IF running[p] THEN "stopping" ELSE "done")
  /\ stopper' = IF running[p] THEN [stopper EXCEPT ![p]["reader"] = "flag"] ELSE stopper
  /\ UNCHANGED framed

ReaderStopped(p) ==
  /\ stopper[p]["reader"] \in {"returned", "raised"}
  /\ ReaderMoves(p, "stopping", "done")
  /\ UNCHANGED <<framed, stopper>>

-----------------------------------------------------------------------------
SerialStopStep(p, t) ==
  ClearRunning(p, t) \/ TestSerial(p, t) \/ TestIsOpen(p, t) \/ ClosePort(p, t) \/ ClearSerial(p, t)

ReaderStep(p) ==
  \/ ReaderLoop(p) \/ ReaderCheck(p) \/ ReadFails(p) \/ NextTelegram(p)
  \/ \E n \in 0..MaxFramed : ReadReturns(p, n)
  \/ \E next \in {"write", "frame", "except"} : SerialReceive(p, next)
  \/ WriteResponse(p) \/ WriteRaises(p) \/ ReaderExcept(p) \/ ReaderStopped(p)
  \/ SerialStopStep(p, "reader")

SerialNotice(p, t) == CallClose(p, t) \/ CloseReturns(p, t)
OwnerInStop(p)     == SerialStopStep(p, "owner") \/ SerialNotice(p, "owner") \/ OwnerStopped(p)
ReaderThread(p)    == ReaderStep(p) \/ SerialNotice(p, "reader")

SerialNext ==
  \E p \in SerialServers :
    \/ Open(p) \/ OpenUnthreaded(p) \/ CollectPort(p)
    \/ OwnerStops(p) \/ OwnerInStop(p) \/ ReaderThread(p)

SerialSafety == SerialInit /\ [][SerialNext]_serialVars

-----------------------------------------------------------------------------
(* Properties.                                                             *)

\* Whoever gets past the closing step of stop(), or out of it with an
\* exception, leaves the port closed, however the two runs of stop() interleave.
StopLeavesPortClosed ==
  \A p \in SerialServers : \A t \in Callers :
    stopper[p][t] \in {"null", "notice", "posting", "returned", "raised"} => port[p] = "closed"

\* The attribute is given up only after the port was closed: no open port is
\* ever left without a reference to close it through.
OpenPortIsAttached ==
  \A p \in SerialServers : port[p] = "open" => attached[p]

\* At most one of the two runs of stop() fails, and then it is because the
\* other has done the closing.
OneStopSucceeds ==
  \A p \in SerialServers : stopper[p]["owner"] = "raised" => stopper[p]["reader"] \in {"notice", "posting", "returned"}

\* The reader never ends unnoticed: when its thread is gone, _running has been
\* cleared, by the owner or by the reader's own stop().
NoSilentDeath ==
  \A p \in SerialServers : reader[p] = "done" => ~running[p]

\* After _running is cleared, by whichever thread, the reader ends.
StoppedReaderEnds ==
  \A p \in SerialServers : ~running[p] ~> reader[p] = "done"

\* A close of the port is announced through on_close by one of the callers,
\* also when the other falls over the AttributeError.
CloseIsAnnounced ==
  \A p \in SerialServers :
    (port[p] = "open" /\ ~running[p]) ~> (\E t \in Callers : stopper[p][t] = "posting")
=============================================================================
