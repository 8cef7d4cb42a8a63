------------------------------ MODULE MCSpcPhy ------------------------------
(* Instances of SpcPhy for TLC: weak signals that are heard only together,   *)
(* one that is heard but not received, one that is.                          *)
EXTENDS SpcPhy
=============================================================================
