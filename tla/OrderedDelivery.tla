---------------------------- MODULE OrderedDelivery ----------------------------
(***************************************************************************)
(* What output plugins may rely on when they implement onDataReceived: to  *)
(* each, packets come one at a time, in the order in which they were       *)
(* offered, and none comes twice.  Packets may be skipped: nothing here    *)
(* promises that an offered packet is ever delivered.                      *)
(***************************************************************************)
EXTENDS Integers, Sequences, SequencesExt

CONSTANTS
  Receivers,   (* The output plugins.                                      *)
  Packets      (* The packets that may be offered, each once.              *)

VARIABLES
  offered,     (* The packets offered to each so far, in order.            *)
  delivered,   (* The packets delivered to each so far, in order.          *)
  busy         (* Whether its onDataReceived is running.                   *)

odVars == <<offered, delivered, busy>>

Init ==
  /\ offered = [r \in Receivers |-> <<>>]
  /\ delivered = [r \in Receivers |-> <<>>]
  /\ busy = [r \in Receivers |-> FALSE]

(* The place among the offered packets of the last one delivered.          *)
LastPlace(r) ==
  IF delivered[r] = <<>> THEN 0
  ELSE CHOOSE n \in DOMAIN offered[r] : offered[r][n] = Last(delivered[r])

Offer(r) ==
  /\ \E k \in Packets \ ToSet(offered[r]) :
       offered' = [offered EXCEPT ![r] = Append(@, k)]
  /\ UNCHANGED <<delivered, busy>>

Deliver(r) ==
  /\ ~busy[r] /\ busy' = [busy EXCEPT ![r] = TRUE]
  /\ \E n \in LastPlace(r) + 1 .. Len(offered[r]) :
       delivered' = [delivered EXCEPT ![r] = Append(@, offered[r][n])]
  /\ UNCHANGED offered

Return(r) ==
  /\ busy[r] /\ busy' = [busy EXCEPT ![r] = FALSE]
  /\ UNCHANGED <<offered, delivered>>

Next == \E r \in Receivers : Offer(r) \/ Deliver(r) \/ Return(r)

Spec == Init /\ [][Next]_odVars

===============================================================================
