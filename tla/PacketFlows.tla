---------------------------- MODULE PacketFlows ----------------------------
(***************************************************************************)
(* What the queue of a station promises, whatever it is made of: a packet  *)
(* it accepts waits, is sent, alone or with others, and leaves for good.   *)
(* No packet is sent twice from the queue or forgotten in it, and packets  *)
(* of one flow (destination and port) are sent in the order they came in.  *)
(***************************************************************************)
EXTENDS Naturals

CONSTANT Packets   \* records with at least id, dst and port

VARIABLES waiting, sending, gone   \* sets of packets
vars == <<waiting, sending, gone>>

Init == waiting = {} /\ sending = {} /\ gone = {}

SameFlow(p, r) == p.dst = r.dst /\ p.port = r.port

\* Packets are numbered as they come in.
Accept == \E p \in Packets :
  /\ \A r \in waiting \cup sending \cup gone : r.id < p.id
  /\ waiting' = waiting \cup {p}
  /\ UNCHANGED <<sending, gone>>

\* Some packets are sent; what stays of their flows is younger.
Start == \E S \in SUBSET waiting :
  /\ \A p \in S, r \in waiting \ S : SameFlow(p, r) => p.id < r.id
  /\ waiting' = waiting \ S
  /\ sending' = sending \cup S
  /\ UNCHANGED gone

\* Packets that were sent are acknowledged, or given up.
Finish == \E S \in SUBSET sending :
  /\ sending' = sending \ S
  /\ gone' = gone \cup S
  /\ UNCHANGED waiting

Next == Accept \/ Start \/ Finish

Spec == Init /\ [][Next]_vars
=============================================================================
