---------------------------- MODULE SpcMacQueue ----------------------------
(***************************************************************************)
(* What SpcMac does with packets before they are frames: ns3::SpcMacQueue  *)
(* (spc-mac-queue.cc), the NodeInformationTable it feeds, and the two      *)
(* PacketInfo objects that describe the packets taken from it.  When       *)
(* SpcMac takes, sends and releases packets is the subject of SpcMacNode;  *)
(* here it may do so whenever its slots allow.                             *)
(*                                                                         *)
(* Packets of one destination and port that wait behind a superposed one   *)
(* leave the queue by Aggregation: only their payload bytes remain, in the *)
(* 16-bit size of the PacketInfo that the frame is later built from.       *)
(*                                                                         *)
(* The list m_queue is appended to at its end and never reordered: it is   *)
(* the set of its packets, in the order of their numbers.                  *)
(*                                                                         *)
(* A definition marked Variant is not the code's: it is a slip that could  *)
(* be made there, kept to show that a property would notice it.            *)
(***************************************************************************)
EXTENDS Integers, FiniteSets, Functions

CONSTANTS
  Addrs, Group,    \* unicast addresses, the broadcast address
  Ports,           \* UDP ports in use
  NoUdp,           \* what GetDestPort answers if no UDP header was ever read
  Workload,        \* destination, port and payload size of what arrives
  None,            \* the null packet
  MaxSize,         \* m_maxSize
  RestrictionNum,  \* m_restrictionPacketNum
  SizeLimit,       \* how many values PacketInfo's uint16_t size has
  Unassigned,      \* what the never assigned m_tnn may hold
  MaxArrivals      \* bound: packets the device hands over

Dests    == Addrs \cup {Group}
AllPorts == Ports \cup {NoUdp}   \* NoUdp: an ARP or ICMP packet
Packets  == [id : Nat, dst : Dests, port : AllPorts, size : Nat]
Slots    == {1, 2}
Numbers  == 1 .. RestrictionNum

ASSUME QueueAssumption ==
  /\ Group \notin Addrs
  /\ NoUdp \notin Ports
  /\ None \notin Packets
  /\ Workload \subseteq [dst : Dests, port : AllPorts, size : Nat]
  /\ {MaxSize, MaxArrivals} \subseteq Nat
  /\ RestrictionNum \in Nat \ {0, 1} /\ SizeLimit \in Nat \ {0}
  /\ Unassigned \subseteq Nat

\* As many packets as the restriction allows fit a frame.
ASSUME SizeAssumption == \A w \in Workload : w.size * RestrictionNum < SizeLimit

VARIABLES
  queue,   \* m_queue
  size,    \* m_size
  slot,    \* m_currentPacket1, m_currentPacket2
  info,    \* packetInfo1, packetInfo2: the port and the size they answer
  tnn,     \* m_tnn.num1, m_tnn.num2
  table,   \* m_nodeTable: for each address it has, what is not zero
  count,   \* packets handed over so far
  carried, \* history: the packets each slot's next frame stands for
  gone,    \* history: the packets acknowledged or given up
  tnnSet,  \* history: m_tnn was assigned
  rounds   \* history: how often the pair held was aggregated; 2 stands for
           \* more than once, or with an m_tnn that was never assigned
vars == <<queue, size, slot, info, tnn, table, count, carried, gone, tnnSet, rounds>>

Init ==
  /\ queue = {}
  /\ size = 0
  /\ slot = [s \in Slots |-> None]
  /\ info = [s \in Slots |-> [port |-> NoUdp, size |-> 0]]
  /\ tnn \in [Slots -> Unassigned]
  /\ table = [a \in {} |-> {}]
  /\ count = 0
  /\ carried = [s \in Slots |-> {}]
  /\ gone = {}
  /\ tnnSet = FALSE
  /\ rounds = 0

-----------------------------------------------------------------------------
(* NodeInformationTable.  Rows are never removed.  Path loss and traffic    *)
(* are measured in floating point; what SpcMac decides on is whether they   *)
(* are zero.                                                                *)

Measures == {"passLoss", "traffic", "size"}

Row(a)    == IF a \in DOMAIN table THEN table[a] ELSE {}
Put(a, r) == [x \in DOMAIN table \cup {a} |-> IF x = a THEN r ELSE table[x]]

\* Variant: an address without a row is not given one.
AddSizeIfPresent(a) == IF a \in DOMAIN table THEN Put(a, Row(a) \cup {"size"}) ELSE table

AddSize(a)        == Put(a, Row(a) \cup {"size"})
UpdatePassLoss(a) == Put(a, Row(a) \cup {"passLoss"})

\* GetPassLoss and GetTraffic answer -1, which is not 0, if there is no row.
Measured(a) == a \in DOMAIN table => {"passLoss", "traffic"} \subseteq table[a]

-----------------------------------------------------------------------------
(* Aggregation.                                                            *)

Flow(q, dst, port) == {p \in q : p.dst = dst /\ p.port = port}

\* Variant: num packets instead of num - 1.
CutOneMore(q, dst, port, num) ==
  {p \in Flow(q, dst, port) :
     Cardinality({r \in Flow(q, dst, port) : r.id < p.id}) < num}

\* Variant: the youngest of the flow.
CutYoungest(q, dst, port, num) ==
  {p \in Flow(q, dst, port) :
     num = 0 \/ Cardinality({r \in Flow(q, dst, port) : r.id > p.id}) < num - 1}

\* The packets that leave the queue: the oldest num - 1 of the flow.  num is
\* unsigned, so that 0 - 1 is more than any queue holds.
Cut(q, dst, port, num) ==
  {p \in Flow(q, dst, port) :
     num = 0 \/ Cardinality({r \in Flow(q, dst, port) : r.id < p.id}) < num - 1}

Sizes == [p \in Packets |-> p.size]
Bytes(packets) == SumFunctionOnSet(Sizes, packets)

\* Variant: the counter is left alone.
SizeKept(cut) == size
SizeWithout(cut) == size - Cardinality(cut)

\* Variant: the size is replaced.
SetSizeReplaced(i, cut) == [i EXCEPT !.size = Bytes(cut) % SizeLimit]
SetSize(i, cut) == [i EXCEPT !.size = (@ + Bytes(cut)) % SizeLimit]

\* SetPacketInfo: without a UDP header the port stays that of an earlier packet.
SetPacketInfo(i, p) ==
  [port |-> IF p.port = NoUdp THEN i.port ELSE p.port, size |-> p.size % SizeLimit]

-----------------------------------------------------------------------------
(* The operations.                                                         *)

\* Variant: one packet too many.
FullTooLate == size > MaxSize
Full == size = MaxSize

\* SpcMacQueue::Enqueue.
Enqueue == \E w \in Workload :
  LET p == [id |-> count + 1, dst |-> w.dst, port |-> w.port, size |-> w.size]
  IN /\ count < MaxArrivals
     /\ count' = count + 1
     /\ IF Full
          THEN UNCHANGED <<queue, size, table>>
          ELSE /\ queue' = queue \cup {p}
               /\ size' = size + 1
               /\ table' = IF p.dst = Group THEN table ELSE AddSize(p.dst)
     /\ UNCHANGED <<slot, info, tnn, carried, gone, tnnSet, rounds>>

\* The front of the list.
Front(q) == {p \in q : \A r \in q : p.id <= r.id}

\* StartBackoffIfNeeded fills slot 1 and, if there is a second packet, slot 2.
TakeOne == \E p \in Front(queue) :
  /\ slot = [s \in Slots |-> None]
  /\ queue = {p}
  /\ queue' = {}
  /\ size' = size - 1
  /\ slot' = [slot EXCEPT ![1] = p]
  /\ info' = [info EXCEPT ![1] = SetPacketInfo(@, p)]
  /\ carried' = [carried EXCEPT ![1] = {p}]
  /\ rounds' = 0
  /\ UNCHANGED <<tnn, table, count, gone, tnnSet>>

TakeTwo == \E p \in Front(queue) : \E r \in Front(queue \ {p}) :
  /\ slot = [s \in Slots |-> None]
  /\ queue' = queue \ {p, r}
  /\ size' = size - 2
  /\ slot' = [s \in Slots |-> IF s = 1 THEN p ELSE r]
  /\ info' = [s \in Slots |-> SetPacketInfo(info[s], IF s = 1 THEN p ELSE r)]
  /\ carried' = [s \in Slots |-> IF s = 1 THEN {p} ELSE {r}]
  /\ rounds' = 0
  /\ UNCHANGED <<tnn, table, count, gone, tnnSet>>

\* SetState can choose SPC.
Pair == /\ \A s \in Slots : slot[s] # None /\ slot[s].dst # Group
        /\ slot[1].dst # slot[2].dst

\* StartBackoff with the smallest window; with a larger one m_tnn is kept.
GetWaitTimeForBuffer ==
  /\ Pair
  /\ IF \A s \in Slots : Measured(slot[s].dst)
       THEN tnn' \in [Slots -> Numbers]
       ELSE tnn' = [s \in Slots |-> s]
  /\ tnnSet' = TRUE
  /\ UNCHANGED <<queue, size, slot, info, table, count, carried, gone, rounds>>

\* BackoffTimeout, when it superposes: again for every repetition of the RTS.
Aggregate ==
  LET cut == [s \in Slots |-> Cut(queue, slot[s].dst, info[s].port, tnn[s])]
  IN /\ Pair
     /\ queue' = queue \ (cut[1] \cup cut[2])
     /\ size' = SizeWithout(cut[1] \cup cut[2])
     /\ info' = [s \in Slots |-> SetSize(info[s], cut[s])]
     /\ carried' = [s \in Slots |-> carried[s] \cup cut[s]]
     /\ rounds' = IF rounds = 0 /\ tnnSet THEN 1 ELSE 2
     /\ UNCHANGED <<slot, tnn, table, count, gone, tnnSet>>

\* A CTS or CTS_SPC tells how a destination hears this station.
CtsReceived == \E a \in DOMAIN table :
  /\ table' = UpdatePassLoss(a)
  /\ UNCHANGED <<queue, size, slot, info, tnn, count, carried, gone, tnnSet, rounds>>

\* An acknowledgement, a frame that needs none, or the end of all repetitions.
Release == \E S \in SUBSET Slots \ {{}} :
  /\ \A s \in S : slot[s] # None
  /\ slot' = [s \in Slots |-> IF s \in S THEN None ELSE slot[s]]
  /\ carried' = [s \in Slots |-> IF s \in S THEN {} ELSE carried[s]]
  /\ gone' = gone \cup UNION {carried[s] : s \in S}
  /\ UNCHANGED <<queue, size, info, tnn, table, count, tnnSet, rounds>>

\* UpdateTraffic for every row, then ResetSize.
MeasureTrafficEnd ==
  /\ table' = [a \in DOMAIN table |->
       (table[a] \cap {"passLoss"}) \cup (IF "size" \in table[a] THEN {"traffic"} ELSE {})]
  /\ UNCHANGED <<queue, size, slot, info, tnn, count, carried, gone, tnnSet, rounds>>

Next == \/ Enqueue
        \/ TakeOne
        \/ TakeTwo
        \/ GetWaitTimeForBuffer
        \/ Aggregate
        \/ CtsReceived
        \/ Release
        \/ MeasureTrafficEnd

Spec == Init /\ [][Next]_vars

-----------------------------------------------------------------------------
(* Properties.                                                             *)

TypeOK ==
  /\ queue \subseteq Packets
  /\ size \in 0 .. MaxSize
  /\ slot \in [Slots -> Packets \cup {None}]
  /\ info \in [Slots -> [port : AllPorts, size : 0 .. SizeLimit - 1]]
  /\ tnn \in [Slots -> Nat]
  /\ DOMAIN table \subseteq Addrs
  /\ \A a \in DOMAIN table : table[a] \subseteq Measures
  /\ count \in 0 .. MaxArrivals
  /\ carried \in [Slots -> SUBSET Packets]
  /\ gone \subseteq Packets

\* m_size, which alone decides whether the queue is full, is the length of the
\* list after any mixture of taking and aggregating.
CounterIsLength == size = Cardinality(queue) /\ size <= MaxSize

\* The frame built from a slot has the bytes of all the packets that left the
\* queue for it, over all repetitions, as far as 16 bits hold them.
SizeIsSum == \A s \in Slots :
  slot[s] # None => info[s].size = Bytes(carried[s]) % SizeLimit

\* m_restrictionPacketNum keeps a frame below 2^16 bytes, the first time a pair
\* is sent and provided that m_tnn was assigned.
PayloadFits == \A s \in Slots :
  rounds <= 1 => Bytes(carried[s]) < SizeLimit

\* The rate towards a held packet's destination never comes from the -1 that
\* stands for an unknown address.
RowForHeld == \A s \in Slots :
  slot[s] # None /\ slot[s].dst # Group => slot[s].dst \in DOMAIN table

\* The queue, the slots and the aggregated packets keep each packet and the
\* order of each flow.
Arrivals == [id : 1 .. MaxArrivals, dst : Dests, port : AllPorts,
             size : {w.size : w \in Workload}]
Flows == INSTANCE PacketFlows WITH Packets <- Arrivals, waiting <- queue,
                                   sending <- carried[1] \cup carried[2]
KeepsFlows == Flows!Spec

\* "Aggregate by (destination address + port number)" (StartBackoffIfNeeded's
\* comment): a frame carries packets of its slot's own flow only.
AggregatesOwnFlow == \A s \in Slots : slot[s] # None =>
  \A p \in carried[s] : p.dst = slot[s].dst /\ p.port = slot[s].port
=============================================================================
