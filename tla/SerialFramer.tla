----------------------------- MODULE SerialFramer -----------------------------
(***************************************************************************)
(* The framing in SerialServer._read_loop: bytes come out of the port in   *)
(* chunks cut anywhere, telegrams are cut out of the buffer by their       *)
(* computed length, and what a silent second leaves behind is handed up    *)
(* as it is.  The thread is alone with its buffer, so that one pass of the *)
(* inner loop is one step.                                                 *)
(*                                                                         *)
(* inFlight and tracked are history variables: the telegrams whose framing *)
(* the code owes to the master, which are those sent since the last        *)
(* silence with nothing but whole telegrams before them.                   *)
(***************************************************************************)
EXTENDS Telegram, SequencesExt

CONSTANTS Telegrams,   \* the telegrams a master sends
          NoiseBytes,  \* the bytes of cut telegrams and line noise
          MaxRead,     \* what one read returns at most (256 in the code)
          MaxWire      \* bound: bytes sent and not yet read

ASSUME MaxReadIsPos == MaxRead \in Nat \ {0}
ASSUME BytesOnly    == NoiseBytes \subseteq Byte /\ Telegrams \subseteq Seq(Byte)

VARIABLES wire,      \* bytes sent and not yet read
          buffer,    \* buffer of _read_loop
          at,        \* "read", "frame": in the outer loop, in the inner;
                     \* "framed", "rest": in _dispatch, called from there
          handed,    \* what _dispatch was called with, while it runs
          inFlight, tracked

framerVars == <<wire, buffer, at, handed, inFlight, tracked>>

\* _dispatch never runs with nothing, and holds nothing once it has returned.
SomethingHanded == at \in {"framed", "rest"} <=> handed # <<>>

FramerTypeOK ==
  /\ wire     \in Seq(Byte)
  /\ buffer   \in Seq(Byte)
  /\ at       \in {"read", "frame", "framed", "rest"}
  /\ handed   \in Seq(Byte)
  /\ inFlight \in Seq(Seq(Byte))
  /\ tracked  \in BOOLEAN
  /\ SomethingHanded

FramerInit ==
  /\ wire     = <<>>
  /\ buffer   = <<>>
  /\ at       = "read"
  /\ handed   = <<>>
  /\ inFlight = <<>>
  /\ tracked  = TRUE

-----------------------------------------------------------------------------
(* _estimate_length, for a buffer of at least four bytes.                  *)

\* Mutant: the table has no entry for the reply delay.
NoReplyDelay(cmd) == IF cmd = AnalogInputSetup THEN 3 ELSE 0

TypeCDataLength(cmd) ==
  CASE cmd = AnalogInputSetup -> 3
    [] cmd = ReplyDelay       -> 1
    [] OTHER                  -> 0

PwmBank(typeA, k) == IF Bit(typeA, k) THEN (IF Bit(typeA, 0) THEN 16 ELSE 8) ELSE 0

CalcABLength(typeA) == 8 + PwmBank(typeA, 1) + PwmBank(typeA, 2) + PwmBank(typeA, 3) + 1

EstimateLength(buf) ==
  IF IsTypeC(buf[3]) THEN 4 + TypeCDataLength(buf[4]) + 1 ELSE CalcABLength(buf[3])

MaxTelegram == 57   \* CalcABLength with three banks of 16-bit values

\* The buffer from its first start byte on; nothing if it has none.
FromStart(buf) ==
  LET starts == {i \in 1..Len(buf) : buf[i] = MasterStart}
  IN  IF starts = {} THEN <<>>
      ELSE SubSeq(buf, CHOOSE i \in starts : \A j \in starts : i <= j, Len(buf))

\* Mutant: the comparison is strict.
OneMore(buf) == Len(buf) >= 5 /\ Len(buf) > EstimateLength(buf)

\* The buffer, from a start byte on, holds a telegram's expected length.
Complete(buf) == Len(buf) >= 5 /\ Len(buf) >= EstimateLength(buf)

-----------------------------------------------------------------------------
(* The master and the line.                                                *)

SendTelegram(t) ==
  /\ Len(wire) + Len(t) <= MaxWire
  /\ wire'     = wire \o t
  /\ inFlight' = IF tracked THEN Append(inFlight, t) ELSE inFlight
  /\ UNCHANGED <<buffer, at, handed, tracked>>

SendNoise(b) ==
  /\ Len(wire) < MaxWire
  /\ wire'    = Append(wire, b)
  /\ tracked' = FALSE
  /\ UNCHANGED <<buffer, at, handed, inFlight>>

-----------------------------------------------------------------------------
(* The reader.                                                             *)

Read(n) ==
  /\ at = "read" /\ n <= Len(wire)
  /\ buffer' = buffer \o SubSeq(wire, 1, n)
  /\ wire'   = SubSeq(wire, n + 1, Len(wire))
  /\ at'     = "frame"
  /\ UNCHANGED <<handed, inFlight, tracked>>

\* A read that times out empty: the rest, if any, is passed up.
ReadSilence ==
  /\ at = "read" /\ wire = <<>>
  /\ handed'  = buffer
  /\ buffer'  = <<>>
  /\ at'      = IF buffer = <<>> THEN "read" ELSE "rest"
  /\ tracked' = TRUE
  /\ UNCHANGED <<wire, inFlight>>

\* Mutant: all that has been read is taken for one telegram.
DispatchesAll ==
  /\ at = "frame" /\ Complete(FromStart(buffer))
  /\ handed'   = FromStart(buffer)
  /\ buffer'   = <<>>
  /\ at'       = "framed"
  /\ inFlight' = IF inFlight = <<>> THEN <<>> ELSE Tail(inFlight)
  /\ UNCHANGED <<wire, tracked>>

\* Mutant: what is before the start byte is not deleted first.
DispatchesJunk ==
  LET len == EstimateLength(FromStart(buffer))
  IN  /\ at = "frame" /\ Complete(FromStart(buffer))
      /\ handed'   = SubSeq(buffer, 1, len)
      /\ buffer'   = SubSeq(buffer, len + 1, Len(buffer))
      /\ at'       = "framed"
      /\ inFlight' = IF inFlight = <<>> THEN <<>> ELSE Tail(inFlight)
      /\ UNCHANGED <<wire, tracked>>

\* One pass of the inner loop hands up a complete telegram ...
FrameDispatch ==
  LET buf == FromStart(buffer)
      len == EstimateLength(buf)
  IN  /\ at = "frame" /\ Complete(buf)
      /\ handed'   = SubSeq(buf, 1, len)
      /\ buffer'   = SubSeq(buf, len + 1, Len(buf))
      /\ at'       = "framed"
      /\ inFlight' = IF inFlight = <<>> THEN <<>> ELSE Tail(inFlight)
      /\ UNCHANGED <<wire, tracked>>

\* Mutant: what is before the start byte is kept.
KeepsJunk ==
  /\ at = "frame" /\ ~Complete(FromStart(buffer))
  /\ at' = "read"
  /\ UNCHANGED <<wire, buffer, handed, inFlight, tracked>>

\* ... or waits for more, having dropped what is before the start byte.
FrameWait ==
  /\ at = "frame" /\ ~Complete(FromStart(buffer))
  /\ buffer' = IF Len(buffer) < 5 THEN buffer ELSE FromStart(buffer)
  /\ at'     = "read"
  /\ UNCHANGED <<wire, handed, inFlight, tracked>>

DispatchReturns ==
  /\ at \in {"framed", "rest"}
  /\ handed' = <<>>
  /\ at'     = IF at = "framed" THEN "frame" ELSE "read"
  /\ UNCHANGED <<wire, buffer, inFlight, tracked>>

ReaderOnLine == (\E n \in 1..MaxRead : Read(n)) \/ FrameDispatch \/ FrameWait \/ DispatchReturns

FramerNext ==
  \/ \E t \in Telegrams : SendTelegram(t)
  \/ \E b \in NoiseBytes : SendNoise(b)
  \/ ReaderOnLine \/ ReadSilence

FramerSafety == FramerInit /\ [][FramerNext]_framerVars

\* The reader goes on reading what has arrived, and on_receive returns.
FramerSpec == FramerSafety /\ WF_framerVars(ReaderOnLine)

-----------------------------------------------------------------------------
(* Properties.                                                             *)

\* The framer is never out of step: the telegrams it owes are what the buffer
\* and the wire begin with, wherever reads have cut them and whatever start
\* bytes occur inside them, and nothing else stands between them.
Aligned ==
  LET owed == FlattenSeq(inFlight)
  IN  IsPrefix(owed, buffer \o wire) /\ (tracked => owed = buffer \o wire)

\* No complete telegram waits for the next read or for a silence: when the
\* reader goes back to the port, the last byte of each owed telegram is missing.
NothingCompleteWaits ==
  at = "read" /\ inFlight # <<>> => Len(buffer) < Len(Head(inFlight))

\* Whatever arrives, the buffer does not grow: between two reads it holds
\* less than a minimal telegram or the beginning of one.
BufferIsBeginning ==
  at = "read" => \/ Len(buffer) < 5
                 \/ buffer[1] = MasterStart /\ Len(buffer) < EstimateLength(buffer)

\* The buffer never holds more than what one read adds to an incomplete telegram.
BufferBounded == Len(buffer) < MaxTelegram + MaxRead

\* What the inner loop hands up never makes parse_master raise; only what a
\* silence cut off can.
FramedParses == at = "framed" => ~Malformed(handed)

\* Without noise the line is a channel of telegrams.
Channel == INSTANCE TelegramChannel WITH queue <- inFlight, inHand <- handed

IsChannel == Channel!ChannelSpec
=============================================================================
