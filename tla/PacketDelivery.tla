----------------------------- MODULE PacketDelivery -----------------------------
(***************************************************************************)
(* The packet pipeline as an ordered delivery to the output plugins.  The  *)
(* abstract state is the history of each queue and of onDataReceived, and  *)
(* whether onDataReceived is running.                                      *)
(***************************************************************************)
EXTENDS PacketPipeline

Handling == [p \in Plugins |-> \E k \in Packets : task[p][k] = "handle"]

Delivery ==
  INSTANCE OrderedDelivery WITH
    Receivers <- Plugins, offered <- arrived, delivered <- handled, busy <- Handling

(* Whatever the race on the list does, each output plugin is given packets *)
(* one at a time, in the order they were queued, and no packet twice.      *)
DeliversInOrder == Delivery!Spec

===============================================================================
