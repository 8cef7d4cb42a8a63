---------------------------- MODULE MCSpcNetwork ----------------------------
(* Instances of SpcNetwork for TLC. *)
EXTENDS SpcNetwork

CONSTANTS n0, n1, n2, bc, p1, p2, p3, p4   \* model values

MCAddrs == {n0, n1, n2}
\* Three stations in a line.
MCPower == [n \in MCAddrs |-> [d \in MCAddrs |->
  CASE n = d              -> 0
    [] {n, d} = {n0, n2}  -> -1032
    [] OTHER              -> -944]]
MCThreshold == -1260
Packet(d, p, l) == [dst |-> d, port |-> p, large |-> l]
Offer(s, d, p, l) == [src |-> s, pkt |-> Packet(d, p, l)]

MCOffersPair == {Offer(n0, bc, p1, FALSE), Offer(n0, n1, p2, TRUE),
                 Offer(n0, n2, p3, TRUE)}
MCOffersBack == MCOffersPair \cup {Offer(n1, n0, p4, TRUE)}
MCOffersSmall == {Offer(n0, n1, p1, FALSE), Offer(n0, n2, p2, TRUE)}

\* No two stations send to the same one, as in the experiment, where node 0 alone
\* is given destinations; and no power is out of the range of its byte.
ASSUME LearnsAssumption == OneSource /\ InRange
=============================================================================
