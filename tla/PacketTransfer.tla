--------------------------- MODULE PacketTransfer ---------------------------
(***************************************************************************)
(* What a network of stations promises to the applications, whatever its   *)
(* stations exchange to keep it: a packet is held by the station that      *)
(* sends it until it is acknowledged, sent unanswered or given up.  It     *)
(* may be delivered more than once, as long as it is held or on its way,   *)
(* but not more than MaxCopies times; it is acknowledged only after it was *)
(* delivered; and nothing of it comes after it is over.                    *)
(***************************************************************************)
EXTENDS Naturals

CONSTANTS Offers,      \* the packets of the applications
          Receivers,   \* the stations
          MaxCopies    \* bound on the deliveries of one packet to one station

VARIABLES fresh, held, under, \* not yet sent; held; no longer held, under way
          got,                \* how often a packet was delivered to a station
          confirmed           \* packets that were acknowledged
vars == <<fresh, held, under, got, confirmed>>

Init ==
  /\ fresh = Offers /\ held = {} /\ under = {} /\ confirmed = {}
  /\ got = [p \in Offers |-> [s \in Receivers |-> 0]]

\* A station accepts a packet, or has no room for it.
Accept == \E p \in fresh :
  /\ fresh' = fresh \ {p}
  /\ held' \in {held, held \cup {p}}
  /\ UNCHANGED <<under, got, confirmed>>

Deliver == \E p \in held \cup under : \E s \in Receivers :
  /\ got[p][s] < MaxCopies
  /\ got' = [got EXCEPT ![p][s] = @ + 1]
  /\ under' \in SUBSET under
  /\ UNCHANGED <<fresh, held, confirmed>>

Confirm == \E p \in held :
  /\ \E s \in Receivers : got[p][s] > 0
  /\ held' = held \ {p}
  /\ confirmed' = confirmed \cup {p}
  /\ under' \in SUBSET (under \cup {p})
  /\ UNCHANGED <<fresh, got>>

\* Given up, or sent without an answer: then it is under way.
Release == \E S \in SUBSET held :
  /\ held' = held \ S
  /\ under' \in SUBSET (under \cup S)
  /\ UNCHANGED <<fresh, got, confirmed>>

Next == Accept \/ Deliver \/ Confirm \/ Release

Spec == Init /\ [][Next]_vars
=============================================================================
