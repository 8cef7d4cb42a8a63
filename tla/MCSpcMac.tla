------------------------------ MODULE MCSpcMac ------------------------------
(* Instances of SpcMacNode for TLC. *)
EXTENDS SpcMacNode

CONSTANTS self, a, b, bc, x, port   \* model values

MCAddrs == {self, a, b, x}
P(d, l) == [dst |-> d, port |-> port, large |-> l]

MixedWorkload == {P(a, TRUE), P(b, TRUE), P(b, FALSE), P(bc, FALSE)}
LargeWorkload == {P(a, TRUE), P(b, TRUE)}

\* What station x may send.
ToSelf == {Frame("RTS", self, x, NoAddr, "FIRST", CtsSendAndSifs),
           Frame("DATA", self, x, NoAddr, "FIRST", AckSendAndSifs),
           Frame("RTS_SPC", self, a, NoAddr, "FIRST", 2 * CtsSendAndSifs),
           Frame("RTS_SPC", a, self, NoAddr, "FIRST", 2 * CtsSendAndSifs),
           Frame("DATA_SPC", self, a, x, "FIRST", 2 * AckSendAndSifs),
           Frame("DATA_SPC", a, self, x, "FIRST", 2 * AckSendAndSifs)}
ToOthers == {Frame("RTS", a, x, NoAddr, "FIRST", CtsSendAndSifs)}
ToAnyone == ToSelf \cup ToOthers
OthersCtsSpc == {Frame("CTS_SPC", a, NoAddr, NoAddr, "FIRST", Sifs + MaxProp)}
=============================================================================
