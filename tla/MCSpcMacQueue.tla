--------------------------- MODULE MCSpcMacQueue ---------------------------
(* Instances of SpcMacQueue for TLC. *)
EXTENDS SpcMacQueue

CONSTANTS a, b, bc, udp, arp   \* model values

W(d, p) == [dst |-> d, port |-> p, size |-> 1]
MixedWorkload == {W(a, udp), W(a, arp), W(b, udp), W(bc, udp)}
=============================================================================
