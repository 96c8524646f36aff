---------------------------- MODULE TelegramChannel ----------------------------
(* What the serial line promises to a master that sends whole telegrams:    *)
(* each is handed to the protocol handler, once, unchanged, in order and    *)
(* when the handler is done with the one before.                            *)
EXTENDS Sequences

CONSTANT Telegrams

VARIABLES queue,   \* telegrams sent and not yet handed up
          inHand   \* the telegram the handler is busy with, or nothing

channelVars == <<queue, inHand>>

ChannelInit == queue = <<>> /\ inHand = <<>>

Submit(t) == queue' = Append(queue, t) /\ UNCHANGED inHand

HandUp ==
  /\ inHand = <<>> /\ queue # <<>>
  /\ inHand' = Head(queue)
  /\ queue'  = Tail(queue)

Finish == inHand # <<>> /\ inHand' = <<>> /\ UNCHANGED queue

ChannelNext == HandUp \/ Finish \/ \E t \in Telegrams : Submit(t)

ChannelSpec ==
  /\ ChannelInit /\ [][ChannelNext]_channelVars
  /\ WF_channelVars(HandUp) /\ WF_channelVars(Finish)
=============================================================================
