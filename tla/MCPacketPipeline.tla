--------------------------- MODULE MCPacketPipeline ---------------------------
(* PacketPipeline and its delivery for TLC.  There is no symmetry: plugins *)
(* are visited, and packets are numbered, in order.                        *)
EXTENDS PacketDelivery

===============================================================================
