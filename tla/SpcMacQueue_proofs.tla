------------------------ MODULE SpcMacQueue_proofs ------------------------
(***************************************************************************)
(* TLAPS proofs about SpcMacQueue: the counter is the length of the list,  *)
(* every held packet's destination has a row in the table, the queue       *)
(* implements PacketFlows, and the size kept for a slot is that of the     *)
(* packets taken for it, and fits.                                         *)
(***************************************************************************)
EXTENDS SpcMacQueue, FiniteSums

(* The packets a station has had so far, and what is known of them.        *)
Accepted == queue \cup carried[1] \cup carried[2] \cup gone

ShapeOK == /\ queue \subseteq Arrivals
           /\ slot \in [Slots -> Packets \cup {None}]
           /\ carried \in [Slots -> SUBSET Arrivals]
           /\ gone \subseteq Arrivals
           /\ count \in 0 .. MaxArrivals

\* Packets have numbers of their own, none of them still to be given.
NumbersOK == /\ \A p \in Accepted : p.id <= count
             /\ \A p, r \in queue : p.id = r.id => p = r

\* A packet goes into a slot from the queue, so its row was written before.
RowsOK == /\ \A p \in queue : p.dst # Group => p.dst \in DOMAIN table
          /\ RowForHeld

\* An empty slot has nothing aggregated.
EmptyOK == \A s \in Slots : slot[s] = None => carried[s] = {}

\* No packet is in two places.
DisjointOK == /\ \A s \in Slots : carried[s] \cap queue = {}
              /\ carried[1] \cap carried[2] = {}

Inv == ShapeOK /\ NumbersOK /\ RowsOK /\ EmptyOK /\ DisjointOK /\ IsFiniteSet(queue) /\ CounterIsLength

-----------------------------------------------------------------------------

\* What leaves the queue is older than what stays of the flow.
LEMMA CutOldest ==
  ASSUME NEW q \in SUBSET Arrivals, IsFiniteSet(q),
         \A p, r \in q : p.id = r.id => p = r,
         NEW dst, NEW port, NEW num \in Nat
  PROVE  LET cut == Cut(q, dst, port, num)
         IN /\ cut \subseteq Flow(q, dst, port)
            /\ cut \subseteq q
            /\ \A p \in cut, r \in q \ cut : Flows!SameFlow(p, r) => p.id < r.id
<1> DEFINE flow     == Flow(q, dst, port)
           older(p) == {r \in flow : r.id < p.id}
           cut      == Cut(q, dst, port, num)
<1>1. flow \subseteq q /\ cut \subseteq flow
  BY DEF Flow, Cut
<1>2. \A p \in q : p.id \in Nat
  BY DEF Arrivals
<1>3. ASSUME NEW p \in cut, NEW r \in q \ cut, Flows!SameFlow(p, r)
      PROVE  p.id < r.id
  <2>1. r \in flow
    BY <1>1, <1>3 DEF Flow, Cut, Flows!SameFlow
  <2>2. num # 0 /\ ~(Cardinality(older(r)) < num - 1)
    BY <2>1, <1>3 DEF Cut
  <2>3. Cardinality(older(p)) < num - 1
    BY <2>2, <1>3 DEF Cut
  <2>4. SUFFICES ASSUME r.id < p.id PROVE FALSE
    BY <1>1, <1>2, <1>3
  <2>5. older(r) \subseteq older(p)
    BY <2>4, <1>1, <1>2
  <2>6. IsFiniteSet(older(p)) /\ IsFiniteSet(older(r))
    BY <1>1, FS_Subset
  <2>7. /\ Cardinality(older(r)) <= Cardinality(older(p))
        /\ Cardinality(older(r)) \in Nat /\ Cardinality(older(p)) \in Nat
    BY <2>5, <2>6, FS_Subset, FS_CardinalityType
  <2> QED
    BY <2>2, <2>3, <2>7
<1> QED
  BY <1>1, <1>3

LEMMA InitInv == Init => Inv
<1> SUFFICES ASSUME Init PROVE Inv
  OBVIOUS
<1>1. ShapeOK
  BY QueueAssumption DEF Init, ShapeOK, Slots
<1>2. NumbersOK
  BY DEF Init, NumbersOK, Accepted, Slots
<1>3. RowsOK
  BY DEF Init, RowsOK, RowForHeld
<1>5. EmptyOK /\ DisjointOK
  BY DEF Init, EmptyOK, DisjointOK, Slots
<1>4. IsFiniteSet(queue) /\ CounterIsLength
  BY FS_EmptySet, QueueAssumption DEF Init, CounterIsLength
<1> QED
  BY <1>1, <1>2, <1>3, <1>4, <1>5 DEF Inv

-----------------------------------------------------------------------------
(* One lemma for each operation that changes the queue: the invariant is   *)
(* kept and the step is one of PacketFlows.                                *)

LEMMA EnqueueStep == Inv /\ Enqueue => Inv' /\ [Flows!Next]_(Flows!vars)
<1> SUFFICES ASSUME Inv, Enqueue PROVE Inv' /\ [Flows!Next]_(Flows!vars)
  OBVIOUS
<1>1. PICK w \in Workload :
        /\ count < MaxArrivals
        /\ count' = count + 1
        /\ IF size = MaxSize
             THEN UNCHANGED <<queue, size, table>>
             ELSE /\ queue' = queue \cup
                       {[id |-> count + 1, dst |-> w.dst, port |-> w.port, size |-> w.size]}
                  /\ size' = size + 1
                  /\ table' = IF w.dst = Group THEN table ELSE AddSize(w.dst)
        /\ UNCHANGED <<slot, info, tnn, carried, gone, tnnSet, rounds>>
  BY DEF Enqueue, Full
<1> DEFINE p == [id |-> count + 1, dst |-> w.dst, port |-> w.port, size |-> w.size]
<1>2. p \in Arrivals /\ p.id = count + 1 /\ p.dst = w.dst
  BY <1>1, QueueAssumption DEF Inv, ShapeOK, Arrivals
<1>3. count \in Nat /\ count' \in 0 .. MaxArrivals /\ MaxArrivals \in Nat
  BY <1>1, QueueAssumption DEF Inv, ShapeOK
<1>4. DOMAIN table \subseteq DOMAIN table'
  BY <1>1 DEF AddSize, Put
<1>5. \A r \in Accepted : r.id \in Nat /\ r.id <= count
  BY DEF Inv, ShapeOK, NumbersOK, Accepted, Slots, Arrivals
<1>8. EmptyOK' /\ DisjointOK'
  <2>1. EmptyOK'
    BY <1>1 DEF Inv, EmptyOK
  <2>2. p \notin Accepted
    BY <1>2, <1>3, <1>5
  <2> HIDE DEF p
  <2>3. queue' \subseteq queue \cup {p}
    BY <1>1 DEF p
  <2>4. DisjointOK'
    BY <1>1, <2>2, <2>3 DEF Inv, DisjointOK, Accepted, Slots
  <2> QED
    BY <2>1, <2>4
<1>6. CASE size = MaxSize
  <2>1. ShapeOK' /\ NumbersOK'
    BY <1>1, <1>3, <1>5, <1>6 DEF Inv, ShapeOK, NumbersOK, Accepted
  <2>2. RowsOK' /\ (IsFiniteSet(queue) /\ CounterIsLength)'
    BY <1>1, <1>6 DEF Inv, RowsOK, RowForHeld, CounterIsLength
  <2> QED
    BY <2>1, <2>2, <1>1, <1>6, <1>8 DEF Inv, Flows!vars
<1>7. CASE size # MaxSize
  <2>1. queue' = queue \cup {p} /\ size' = size + 1
        /\ (p.dst # Group => p.dst \in DOMAIN table')
    BY <1>1, <1>2, <1>7 DEF AddSize, Put
  <2> HIDE DEF p
  <2>2. \A r \in Accepted : r.id < p.id
    BY <1>2, <1>3, <1>5
  <2>3. ShapeOK'
    BY <1>1, <1>2, <1>3, <2>1 DEF Inv, ShapeOK
  <2>4. NumbersOK'
    BY <1>1, <1>2, <1>3, <1>5, <2>1, <2>2 DEF Inv, NumbersOK, Accepted
  <2>5. RowsOK'
    BY <1>1, <1>4, <2>1 DEF Inv, RowsOK, RowForHeld
  <2>6. (IsFiniteSet(queue) /\ CounterIsLength)'
    <3>1. p \notin queue
      BY <2>2, <1>2, <1>3 DEF Accepted
    <3>2. IsFiniteSet(queue') /\ Cardinality(queue') = Cardinality(queue) + 1
      BY <3>1, <2>1, FS_AddElement DEF Inv
    <3>3. size \in Nat /\ MaxSize \in Nat /\ size <= MaxSize
      BY FS_CardinalityType, QueueAssumption DEF Inv, CounterIsLength
    <3> QED
      BY <3>2, <3>3, <2>1, <1>7 DEF Inv, CounterIsLength
  <2>7. Flows!Accept
    BY <1>1, <1>2, <2>1, <2>2 DEF Flows!Accept, Accepted
  <2> QED
    BY <2>3, <2>4, <2>5, <2>6, <2>7, <1>8 DEF Inv, Flows!Next
<1> QED
  BY <1>6, <1>7

\* Packets S leave the queue, for slots that hold packets with a row.
LEMMA LeaveStep ==
  ASSUME Inv, NEW S \in SUBSET queue,
         queue' = queue \ S,
         size' = size - Cardinality(S),
         carried' \in [Slots -> SUBSET Arrivals],
         carried[1]' \cup carried[2]' = carried[1] \cup carried[2] \cup S,
         \A p \in S, r \in queue \ S : Flows!SameFlow(p, r) => p.id < r.id,
         slot' \in [Slots -> Packets \cup {None}],
         \A s \in Slots : slot[s]' \in S \cup {slot[s]},
         EmptyOK', carried[1]' \cap carried[2]' = {},
         UNCHANGED <<table, count, gone>>
  PROVE  Inv' /\ [Flows!Next]_(Flows!vars)
<1>1. ShapeOK'
  BY DEF Inv, ShapeOK
<1>2. NumbersOK'
  BY DEF Inv, NumbersOK, Accepted
<1>3. RowsOK'
  BY DEF Inv, RowsOK, RowForHeld
<1>4. (IsFiniteSet(queue) /\ CounterIsLength)'
  <2>1. /\ IsFiniteSet(queue') /\ IsFiniteSet(S)
        /\ Cardinality(queue') = Cardinality(queue) - Cardinality(S)
    <3>1. queue \cap S = S
      OBVIOUS
    <3>2. IsFiniteSet(queue)
      BY DEF Inv
    <3>3. IsFiniteSet(S)
      BY <3>2, FS_Subset
    <3>4. /\ IsFiniteSet(queue \ S)
          /\ Cardinality(queue \ S) = Cardinality(queue) - Cardinality(queue \cap S)
      BY <3>2, FS_Difference
    <3> QED
      BY <3>1, <3>3, <3>4
  <2>2. Cardinality(S) \in Nat /\ Cardinality(queue) \in Nat /\ MaxSize \in Nat
    BY <2>1, FS_CardinalityType, QueueAssumption DEF Inv
  <2> QED
    BY <2>1, <2>2 DEF Inv, CounterIsLength
<1>5. Flows!Start
  <2>1. gone' = gone
    OBVIOUS
  <2>2. \E T \in SUBSET queue :
          /\ \A p \in T, r \in queue \ T : Flows!SameFlow(p, r) => p.id < r.id
          /\ queue' = queue \ T
          /\ carried[1]' \cup carried[2]' = carried[1] \cup carried[2] \cup T
          /\ gone' = gone
    <3> WITNESS S \in SUBSET queue
    <3> QED
      BY <2>1
  <2> QED
    BY <2>2 DEF Flows!Start
<1>6. DisjointOK'
  BY DEF Inv, DisjointOK, Slots
<1> QED
  BY <1>1, <1>2, <1>3, <1>4, <1>5, <1>6 DEF Inv, Flows!Next

LEMMA TakeOneStep == Inv /\ TakeOne => Inv' /\ [Flows!Next]_(Flows!vars)
<1> SUFFICES ASSUME Inv, TakeOne PROVE Inv' /\ [Flows!Next]_(Flows!vars)
  OBVIOUS
<1>1. PICK p \in Front(queue) :
        /\ slot = [s \in Slots |-> None]
        /\ queue = {p} /\ queue' = {}
        /\ size' = size - 1
        /\ slot' = [slot EXCEPT ![1] = p]
        /\ carried' = [carried EXCEPT ![1] = {p}]
        /\ UNCHANGED <<table, count, gone>>
  BY DEF TakeOne
<1>2. carried[1] = {} /\ carried[2] = {} /\ p \in Arrivals /\ p \in Packets
  BY <1>1, QueueAssumption DEF Inv, ShapeOK, EmptyOK, Slots, Arrivals, Packets
<1>3. carried' \in [Slots -> SUBSET Arrivals]
      /\ carried[1]' = {p} /\ carried[2]' = {}
  BY <1>1, <1>2 DEF Inv, ShapeOK, Slots
<1>4. slot' \in [Slots -> Packets \cup {None}] /\ slot[1]' = p /\ slot[2]' = None
  BY <1>1, <1>2 DEF Inv, ShapeOK, Slots
<1>5. EmptyOK'
  BY <1>2, <1>3, <1>4, QueueAssumption DEF EmptyOK, Slots
<1>6. Cardinality({p}) = 1
  BY FS_Singleton
<1>7. size' = size - Cardinality({p}) /\ queue' = queue \ {p}
  BY <1>1, <1>6
<1>8. \A s \in Slots : slot[s]' \in {p} \cup {slot[s]}
  BY <1>1, <1>4 DEF Slots
<1>9. \A x \in {p}, r \in queue \ {p} : Flows!SameFlow(x, r) => x.id < r.id
  BY <1>1
<1>10. carried[1]' \cup carried[2]' = carried[1] \cup carried[2] \cup {p}
       /\ {p} \in SUBSET queue /\ carried[1]' \cap carried[2]' = {}
  BY <1>1, <1>2, <1>3
<1> QED
  BY <1>1, <1>3, <1>4, <1>5, <1>7, <1>8, <1>9, <1>10, LeaveStep

LEMMA TakeTwoStep == Inv /\ TakeTwo => Inv' /\ [Flows!Next]_(Flows!vars)
<1> SUFFICES ASSUME Inv, TakeTwo PROVE Inv' /\ [Flows!Next]_(Flows!vars)
  OBVIOUS
<1>1. PICK p \in queue, r \in queue :
        /\ p \in Front(queue) /\ r \in Front(queue \ {p})
        /\ slot = [s \in Slots |-> None]
        /\ queue' = queue \ {p, r}
        /\ size' = size - 2
        /\ slot' = [s \in Slots |-> IF s = 1 THEN p ELSE r]
        /\ carried' = [s \in Slots |-> IF s = 1 THEN {p} ELSE {r}]
        /\ UNCHANGED <<table, count, gone>>
  BY DEF TakeTwo, Front
<1>2. p \in queue /\ r \in queue /\ p # r /\ queue \subseteq Packets
      /\ queue \subseteq Arrivals
  BY <1>1, QueueAssumption DEF Front, Inv, ShapeOK, Arrivals, Packets
<1>3. carried[1] = {} /\ carried[2] = {}
  BY <1>1 DEF Inv, EmptyOK, Slots
<1>4. carried' \in [Slots -> SUBSET Arrivals]
      /\ carried[1]' = {p} /\ carried[2]' = {r}
  BY <1>1, <1>2 DEF Slots
<1>5. slot' \in [Slots -> Packets \cup {None}] /\ slot[1]' = p /\ slot[2]' = r
  BY <1>1, <1>2 DEF Slots
<1>6. EmptyOK'
  BY <1>2, <1>5, QueueAssumption DEF EmptyOK, Slots
<1>7. size' = size - Cardinality({p, r})
  <2>1. Cardinality({p}) = 1 /\ IsFiniteSet({p})
    BY FS_Singleton
  <2>2. {p, r} = {p} \cup {r}
    OBVIOUS
  <2>3. Cardinality({p, r}) = 2
    BY <2>1, <2>2, <1>2, FS_AddElement
  <2> QED
    BY <1>1, <2>3
<1>8. \A s \in Slots : slot[s]' \in {p, r} \cup {slot[s]}
  BY <1>5 DEF Slots
<1>9. \A x \in {p, r}, y \in queue \ {p, r} : x.id < y.id
  <2>1. \A x \in queue : x.id \in Nat
    BY <1>2 DEF Arrivals
  <2> QED
    BY <1>1, <1>2, <2>1 DEF Front, Inv, NumbersOK
<1>10. carried[1]' \cup carried[2]' = carried[1] \cup carried[2] \cup {p, r}
       /\ {p, r} \in SUBSET queue /\ carried[1]' \cap carried[2]' = {}
  BY <1>2, <1>3, <1>4
<1> QED
  BY <1>1, <1>4, <1>5, <1>6, <1>7, <1>8, <1>9, <1>10, LeaveStep

LEMMA AggregateStep == Inv /\ tnn \in [Slots -> Nat] /\ Aggregate
                        => Inv' /\ [Flows!Next]_(Flows!vars)
<1> SUFFICES ASSUME Inv, tnn \in [Slots -> Nat], Aggregate
             PROVE  Inv' /\ [Flows!Next]_(Flows!vars)
  OBVIOUS
<1> DEFINE C(s) == Cut(queue, slot[s].dst, info[s].port, tnn[s])
           S    == C(1) \cup C(2)
<1>1. /\ Pair
      /\ queue' = queue \ S
      /\ size' = size - Cardinality(S)
      /\ carried' = [s \in Slots |-> carried[s] \cup C(s)]
      /\ UNCHANGED <<slot, table, count, gone>>
  BY DEF Aggregate, SizeWithout, Slots
<1>2. ASSUME NEW s \in Slots
      PROVE  /\ C(s) \subseteq queue
             /\ C(s) \subseteq Flow(queue, slot[s].dst, info[s].port)
             /\ \A p \in C(s), r \in queue \ C(s) : Flows!SameFlow(p, r) => p.id < r.id
  BY <1>2, CutOldest DEF Inv, ShapeOK, NumbersOK
<1>3. 1 \in Slots /\ 2 \in Slots
  BY DEF Slots
<1> HIDE DEF C
<1>4. S \in SUBSET queue
      /\ \A p \in S, r \in queue \ S : Flows!SameFlow(p, r) => p.id < r.id
  BY <1>2, <1>3
<1>5. carried' \in [Slots -> SUBSET Arrivals]
      /\ carried[1]' \cup carried[2]' = carried[1] \cup carried[2] \cup S
  BY <1>1, <1>2, <1>3 DEF Inv, ShapeOK
<1>8. carried[1]' \cap carried[2]' = {}
  <2>1. C(1) \cap C(2) = {}
    BY <1>1, <1>2, <1>3 DEF Pair, Flow
  <2> QED
    BY <1>1, <1>2, <1>3, <2>1 DEF Inv, DisjointOK
<1>6. EmptyOK'
  BY <1>1 DEF EmptyOK, Pair
<1>7. slot' \in [Slots -> Packets \cup {None}] /\ \A s \in Slots : slot[s]' \in S \cup {slot[s]}
  BY <1>1 DEF Inv, ShapeOK
<1> HIDE DEF S
<1> QED
  BY <1>1, <1>4, <1>5, <1>6, <1>7, <1>8, LeaveStep

LEMMA ReleaseStep == Inv /\ Release => Inv' /\ [Flows!Next]_(Flows!vars)
<1> SUFFICES ASSUME Inv, Release PROVE Inv' /\ [Flows!Next]_(Flows!vars)
  OBVIOUS
<1>1. PICK S \in SUBSET Slots :
        /\ slot' = [s \in Slots |-> IF s \in S THEN None ELSE slot[s]]
        /\ carried' = [s \in Slots |-> IF s \in S THEN {} ELSE carried[s]]
        /\ gone' = gone \cup UNION {carried[s] : s \in S}
        /\ UNCHANGED <<queue, size, table, count>>
  BY DEF Release
<1> DEFINE T == UNION {carried[s] : s \in S}
<1>2. T \subseteq Arrivals /\ T \subseteq carried[1] \cup carried[2]
  BY DEF Inv, ShapeOK, Slots
<1>3. ShapeOK'
  BY <1>1, <1>2 DEF Inv, ShapeOK
<1>4. carried[1]' \subseteq carried[1] /\ carried[2]' \subseteq carried[2]
  BY <1>1 DEF Slots
<1>5. NumbersOK'
  <2>1. Accepted' \subseteq Accepted /\ UNCHANGED <<queue, count>>
    BY <1>1, <1>2, <1>4 DEF Accepted
  <2> QED
    BY <2>1 DEF Inv, NumbersOK
<1>6. RowsOK' /\ EmptyOK' /\ (IsFiniteSet(queue) /\ CounterIsLength)'
  BY <1>1 DEF Inv, RowsOK, RowForHeld, EmptyOK, CounterIsLength
<1>7. DisjointOK'
  BY <1>1, <1>4 DEF Inv, DisjointOK, Slots
<1>8. Flows!Finish
  <2>1. carried[1]' \cup carried[2]' = (carried[1] \cup carried[2]) \ T
    BY <1>1 DEF Inv, DisjointOK, Slots
  <2> HIDE DEF T
  <2>2. \E U \in SUBSET (carried[1] \cup carried[2]) :
          /\ carried[1]' \cup carried[2]' = (carried[1] \cup carried[2]) \ U
          /\ gone' = gone \cup U
          /\ queue' = queue
    BY <1>1, <1>2, <2>1 DEF T
  <2> QED
    BY <2>2 DEF Flows!Finish
<1> QED
  BY <1>3, <1>5, <1>6, <1>7, <1>8 DEF Inv, Flows!Next

\* The operations that leave the queue and the slots alone.
LEMMA TableStep ==
  Inv /\ (GetWaitTimeForBuffer \/ CtsReceived \/ MeasureTrafficEnd \/ UNCHANGED vars)
    => Inv' /\ UNCHANGED (Flows!vars)
<1> SUFFICES ASSUME Inv,
                    GetWaitTimeForBuffer \/ CtsReceived \/ MeasureTrafficEnd \/ UNCHANGED vars
             PROVE  Inv' /\ UNCHANGED (Flows!vars)
  OBVIOUS
<1>1. UNCHANGED <<queue, size, slot, carried, count, gone>>
  BY DEF GetWaitTimeForBuffer, CtsReceived, MeasureTrafficEnd, vars
<1>2. DOMAIN table \subseteq DOMAIN table'
  BY DEF GetWaitTimeForBuffer, CtsReceived, MeasureTrafficEnd, vars, UpdatePassLoss, Put
<1>3. ShapeOK' /\ NumbersOK' /\ EmptyOK' /\ DisjointOK'
  BY <1>1 DEF Inv, ShapeOK, NumbersOK, Accepted, EmptyOK, DisjointOK
<1>4. RowsOK' /\ (IsFiniteSet(queue) /\ CounterIsLength)'
  BY <1>1, <1>2 DEF Inv, RowsOK, RowForHeld, CounterIsLength
<1> QED
  BY <1>1, <1>3, <1>4 DEF Inv, Flows!vars

LEMMA TnnInv ==
  /\ Init => tnn \in [Slots -> Nat]
  /\ tnn \in [Slots -> Nat] /\ [Next]_vars => tnn' \in [Slots -> Nat]
<1>1. Init => tnn \in [Slots -> Nat]
  BY QueueAssumption DEF Init
<1>2. ASSUME tnn \in [Slots -> Nat], GetWaitTimeForBuffer PROVE tnn' \in [Slots -> Nat]
  BY <1>2, QueueAssumption DEF GetWaitTimeForBuffer, Numbers, Slots
<1>3. [Next]_vars => GetWaitTimeForBuffer \/ tnn' = tnn
  BY DEF Next, vars, Enqueue, TakeOne, TakeTwo, Aggregate, CtsReceived, Release,
         MeasureTrafficEnd
<1> QED
  BY <1>1, <1>2, <1>3

LEMMA NextInv ==
  Inv /\ tnn \in [Slots -> Nat] /\ [Next]_vars => Inv' /\ [Flows!Next]_(Flows!vars)
BY EnqueueStep, TakeOneStep, TakeTwoStep, AggregateStep, ReleaseStep, TableStep DEF Next

LEMMA SpecInv == Spec => [](Inv /\ tnn \in [Slots -> Nat])
<1>1. Init => Inv /\ tnn \in [Slots -> Nat]
  BY InitInv, TnnInv
<1>2. (Inv /\ tnn \in [Slots -> Nat]) /\ [Next]_vars => (Inv /\ tnn \in [Slots -> Nat])'
  BY NextInv, TnnInv
<1> QED
  BY <1>1, <1>2, PTL DEF Spec

-----------------------------------------------------------------------------

\* m_size is the number of packets in m_queue, which never exceeds m_maxSize.
THEOREM CounterCorrect == Spec => []CounterIsLength
<1>1. Inv => CounterIsLength
  BY DEF Inv
<1> QED
  BY <1>1, SpecInv, PTL

\* SpcMac asks the node table only about destinations that have a row.
THEOREM RowsKnown == Spec => []RowForHeld
<1>1. Inv => RowForHeld
  BY DEF Inv, RowsOK
<1> QED
  BY <1>1, SpecInv, PTL

\* SpcMacQueue with Aggregation implements PacketFlows: no packet is forgotten
\* or sent twice from the queue, and each flow is sent in order.
THEOREM FlowsKept == Spec => KeepsFlows
<1>1. Init => Flows!Init
  BY DEF Init, Flows!Init, Slots
<1>2. Inv /\ tnn \in [Slots -> Nat] /\ [Next]_vars => [Flows!Next]_(Flows!vars)
  BY NextInv
<1> QED
  BY <1>1, <1>2, SpecInv, PTL DEF Spec, KeepsFlows, Flows!Spec

LEMMA ArrivalsArePackets == Arrivals \subseteq Packets
BY QueueAssumption DEF Arrivals, Packets

-----------------------------------------------------------------------------
(* The sizes of frames.  Numbers first.                                    *)

LEMMA Division ==
  ASSUME NEW n \in Nat \ {0}, NEW a \in Int
  PROVE  \E q \in Int, r \in 0 .. n - 1 : a = n * q + r /\ a % n = r
<1>1. /\ a = n * (a \div n) + (a % n)
      /\ a \div n \in Int /\ a % n \in 0 .. n - 1
  OBVIOUS
<1> QED
  BY <1>1

LEMMA DivisionUnique ==
  ASSUME NEW n \in Nat \ {0}, NEW q \in Int, NEW r \in 0 .. n - 1
  PROVE  (n * q + r) % n = r
OBVIOUS

\* To take the rest earlier does not change it.
LEMMA RestOfRest ==
  ASSUME NEW n \in Nat \ {0}, NEW a \in Nat, NEW b \in Nat
  PROVE  ((a % n) + b) % n = (a + b) % n
<1>1. PICK q \in Int, r \in 0 .. n - 1 : a = n * q + r /\ a % n = r
  <2>1. a \in Int
    OBVIOUS
  <2> QED
    BY <2>1, Division, Zenon
<1>2. PICK p \in Int, s \in 0 .. n - 1 : r + b = n * p + s /\ (r + b) % n = s
  <2>1. r + b \in Int
    OBVIOUS
  <2> QED
    BY <2>1, Division, Zenon
<1>3. n * q + n * p = n * (q + p) /\ q + p \in Int
  OBVIOUS
<1>4. a + b = n * (q + p) + s
  BY <1>1, <1>2, <1>3
<1>5. (a + b) % n = s
  BY <1>3, <1>4, DivisionUnique, Zenon
<1> QED
  BY <1>1, <1>2, <1>5, Zenon

\* The largest number of which n do not reach m.
LEMMA LargestShare ==
  ASSUME NEW n \in Nat \ {0}, NEW m \in Nat \ {0}
  PROVE  \E q \in Nat : n * q < m /\ \A a \in Nat : a * n < m => a <= q
<1>1. PICK q \in Int, r \in 0 .. n - 1 : m - 1 = n * q + r
  <2>1. m - 1 \in Int
    OBVIOUS
  <2>2. \E q \in Int, r \in 0 .. n - 1 : m - 1 = n * q + r /\ (m - 1) % n = r
    BY <2>1, Division, Zenon
  <2> QED
    BY <2>2, Zenon
<1>2. q \in Nat
  <2>1. SUFFICES ASSUME q <= -1 PROVE FALSE
    OBVIOUS
  <2>2. n * q <= n * (-1)
    BY <2>1
  <2> QED
    BY <1>1, <2>2
<1>3. ASSUME NEW a \in Nat, a * n < m PROVE a <= q
  <2>1. SUFFICES ASSUME a >= q + 1 PROVE FALSE
    BY <1>2
  <2>2. a * n >= (q + 1) * n
    BY <1>2, <2>1
  <2>3. (q + 1) * n = n * q + n
    BY <1>2
  <2>4. n * q \in Int /\ a * n \in Int
    BY <1>2
  <2> QED
    BY <1>1, <1>3, <2>2, <2>3, <2>4
<1>4. n * q < m
  BY <1>1, <1>2
<1> QED
  BY <1>2, <1>3, <1>4

\* What the restriction on the number of packets is for.
LEMMA Fits ==
  ASSUME NEW S, S \subseteq Arrivals, IsFiniteSet(S), Cardinality(S) <= RestrictionNum
  PROVE  Bytes(S) < SizeLimit
<1> DEFINE n == RestrictionNum
<1>1. n \in Nat \ {0} /\ SizeLimit \in Nat \ {0}
  BY QueueAssumption
<1>2. PICK q \in Nat : n * q < SizeLimit /\ \A a \in Nat : a * n < SizeLimit => a <= q
  BY <1>1, LargestShare
<1>3. ASSUME NEW p \in S PROVE Sizes[p] \in 0 .. q
  <2>1. PICK w \in Workload : p.size = w.size
    BY DEF Arrivals
  <2>2. w.size \in Nat /\ w.size * n < SizeLimit
    BY SizeAssumption, QueueAssumption
  <2>3. Sizes[p] = w.size
    BY <2>1, ArrivalsArePackets DEF Sizes
  <2> QED
    BY <1>2, <2>2, <2>3
<1>4. Bytes(S) \in 0 .. Cardinality(S) * q
  BY <1>3, SumAtMost DEF Bytes
<1>5. Cardinality(S) * q <= n * q
  <2>1. Cardinality(S) \in Nat
    BY FS_CardinalityType
  <2> QED
    BY <1>1, <2>1
<1>6. Cardinality(S) * q \in Int /\ n * q \in Int
  <2>1. Cardinality(S) \in Nat
    BY FS_CardinalityType
  <2> QED
    BY <1>1, <2>1
<1> QED
  BY <1>1, <1>2, <1>4, <1>5, <1>6

LEMMA BytesOfParts ==
  ASSUME NEW S, S \subseteq Packets, IsFiniteSet(S)
  PROVE  /\ Bytes(S) \in Nat
         /\ \A T \in SUBSET Packets : IsFiniteSet(T) /\ S \cap T = {}
              => Bytes(S \cup T) = Bytes(S) + Bytes(T)
<1>1. \A p \in Packets : Sizes[p] \in Nat
  BY DEF Sizes, Packets
<1> QED
  BY <1>1, SumNat, SumUnion DEF Bytes

LEMMA BytesOfOne ==
  ASSUME NEW p \in Packets PROVE p.size \in Nat /\ Bytes({p}) = p.size
<1>1. p.size \in Nat /\ Sizes[p] = p.size
  BY DEF Sizes, Packets
<1> QED
  BY <1>1, SumSingleton DEF Bytes

\* Aggregation takes at most num - 1 packets.
LEMMA CutSmall ==
  ASSUME NEW q \in SUBSET Arrivals, IsFiniteSet(q),
         \A p, r \in q : p.id = r.id => p = r,
         NEW dst, NEW port, NEW num \in Nat \ {0}
  PROVE  Cardinality(Cut(q, dst, port, num)) <= num - 1
<1> DEFINE flow     == Flow(q, dst, port)
           older(p) == {r \in flow : r.id < p.id}
           C        == Cut(q, dst, port, num)
<1>1. C \subseteq flow /\ flow \subseteq q
  BY DEF Cut, Flow
<1>2. \A p \in q : p.id \in Nat
  BY DEF Arrivals
<1>3. IsFiniteSet(flow) /\ IsFiniteSet(C)
  BY <1>1, FS_Subset
<1>4. CASE C = {}
  BY <1>4, FS_EmptySet
<1>5. CASE C # {}
  <2> DEFINE f == [p \in C |-> p.id]
  <2>1. \A p \in C : f[p] = p.id /\ f[p] \in Int
    BY <1>1, <1>2
  <2> HIDE DEF f, C
  <2>2. PICK x \in C : \A y \in C : f[y] <= f[x]
    BY <1>3, <1>5, <2>1, Greatest
  <2>3. C \ {x} \subseteq older(x)
    BY <1>1, <1>2, <2>1, <2>2
  <2>4. Cardinality(older(x)) < num - 1
    BY <2>2 DEF C, Cut
  <2>5. IsFiniteSet(older(x))
    BY <1>3, FS_Subset
  <2>6. Cardinality(C \ {x}) <= Cardinality(older(x)) /\ Cardinality(older(x)) \in Nat
    BY <2>3, <2>5, FS_Subset, FS_CardinalityType
  <2>7. Cardinality(C \ {x}) = Cardinality(C) - 1 /\ Cardinality(C) \in Nat
    BY <1>3, <2>2, FS_RemoveElement, FS_CardinalityType
  <2> HIDE DEF older
  <2> QED
    BY <2>4, <2>6, <2>7 DEF C
<1> QED
  BY <1>4, <1>5

-----------------------------------------------------------------------------
(* What the slots' frames hold.                                            *)

InfoOK  == info \in [Slots -> [port : AllPorts, size : 0 .. SizeLimit - 1]]
TableOK == DOMAIN table \subseteq Addrs /\ \A a \in DOMAIN table : table[a] \subseteq Measures

\* Until a pair is aggregated a frame stands for one packet; aggregated once,
\* with numbers that were assigned, for as many as the restriction allows.
CarriedOK(s) ==
  /\ IsFiniteSet(carried[s])
  /\ rounds = 0 => Cardinality(carried[s]) <= 1
  /\ rounds <= 1 => Cardinality(carried[s]) <= RestrictionNum
RoundsOK == /\ rounds \in 0 .. 2
            /\ tnnSet => tnn \in [Slots -> Numbers]
            /\ \A s \in Slots : CarriedOK(s)

Frames == InfoOK /\ TableOK /\ RoundsOK /\ SizeIsSum

LEMMA InfoSet ==
  ASSUME NEW p \in Packets, NEW i \in [port : AllPorts, size : 0 .. SizeLimit - 1]
  PROVE  /\ SetPacketInfo(i, p) \in [port : AllPorts, size : 0 .. SizeLimit - 1]
         /\ SetPacketInfo(i, p).size = Bytes({p}) % SizeLimit
<1>1. p.size \in Nat /\ Bytes({p}) = p.size /\ p.port \in AllPorts
  BY BytesOfOne DEF Packets
<1>2. p.size % SizeLimit \in 0 .. SizeLimit - 1
  BY <1>1, QueueAssumption
<1> DEFINE t == p.port
           z == p.size % SizeLimit
<1>3. SetPacketInfo(i, p) = [port |-> IF t = NoUdp THEN i.port ELSE t, size |-> z]
  BY DEF SetPacketInfo
<1>4. i.port \in AllPorts /\ t \in AllPorts /\ z \in 0 .. SizeLimit - 1
  BY <1>1, <1>2
<1> HIDE DEF t, z
<1>5. SetPacketInfo(i, p) \in [port : AllPorts, size : 0 .. SizeLimit - 1]
  BY <1>3, <1>4
<1>6. SetPacketInfo(i, p).size = z
  BY <1>3
<1> QED
  BY <1>1, <1>5, <1>6 DEF z

LEMMA FramesInit == Init => Frames
<1> SUFFICES ASSUME Init PROVE Frames
  OBVIOUS
<1>1. InfoOK
  BY QueueAssumption DEF Init, InfoOK, AllPorts
<1>2. TableOK
  BY DEF Init, TableOK
<1>3. RoundsOK
  BY FS_EmptySet, QueueAssumption DEF Init, RoundsOK, CarriedOK
<1>4. SizeIsSum
  BY DEF Init, SizeIsSum
<1> QED
  BY <1>1, <1>2, <1>3, <1>4 DEF Frames

LEMMA OneIsCarried ==
  ASSUME NEW p, NEW s \in Slots, carried'[s] = {p}
  PROVE  CarriedOK(s)'
<1>1. IsFiniteSet({p}) /\ Cardinality({p}) = 1
  BY FS_Singleton
<1> QED
  BY <1>1, QueueAssumption DEF CarriedOK

LEMMA FramesTake == Inv /\ Frames /\ (TakeOne \/ TakeTwo) => Frames'
<1> SUFFICES ASSUME Inv, Frames, TakeOne \/ TakeTwo PROVE Frames'
  OBVIOUS
<1> DEFINE I == [port : AllPorts, size : 0 .. SizeLimit - 1]
<1>1. /\ info \in [Slots -> I] /\ carried \in [Slots -> SUBSET Arrivals]
      /\ slot \in [Slots -> Packets \cup {None}]
      /\ queue \subseteq Packets
      /\ 1 \in Slots /\ 2 \in Slots
  BY ArrivalsArePackets DEF Inv, ShapeOK, Frames, InfoOK, Slots
<1>2. TableOK'
  BY DEF TakeOne, TakeTwo, Frames, TableOK
<1>3. rounds' = 0 /\ UNCHANGED <<tnn, tnnSet>>
  BY DEF TakeOne, TakeTwo
<1>4. CASE TakeOne
  <2>1. PICK p \in queue :
          /\ slot = [s \in Slots |-> None]
          /\ slot' = [slot EXCEPT ![1] = p]
          /\ info' = [info EXCEPT ![1] = SetPacketInfo(@, p)]
          /\ carried' = [carried EXCEPT ![1] = {p}]
    BY <1>4 DEF TakeOne, Front
  <2>2. p \in Packets /\ p # None
    BY <1>1, QueueAssumption
  <2>3. carried'[1] = {p} /\ carried'[2] = {}
    BY <1>1, <2>1 DEF Inv, EmptyOK
  <2>10. CarriedOK(1)'
    BY <1>1, <2>3, OneIsCarried
  <2>11. CarriedOK(2)'
    <3>1. IsFiniteSet({}) /\ Cardinality({}) = 0
      BY FS_EmptySet
    <3> QED
      BY <2>3, <3>1, QueueAssumption DEF CarriedOK
  <2>4. CarriedOK(1)' /\ CarriedOK(2)'
    BY <2>10, <2>11
  <2> DEFINE n == SetPacketInfo(info[1], p)
  <2>14. info' = [info EXCEPT ![1] = n]
    BY <2>1
  <2> HIDE DEF n, I
  <2>15. DOMAIN info = Slots /\ 1 \in Slots /\ 2 \in Slots /\ 1 # 2
    BY <1>1
  <2>16. info'[1] = n /\ info'[2] = info[2]
    BY <2>14, <2>15
  <2>17. info' = [s \in Slots |-> info'[s]]
    BY <2>14, <2>15
  <2>5. info'[1] = n /\ info'[2] = info[2] /\ info' = [s \in Slots |-> info'[s]]
    BY <2>16, <2>17
  <2>13. info[1] \in I /\ info[2] \in I
    BY <1>1
  <2>12. info'[1] \in I /\ info'[2] \in I
    BY <2>2, <2>5, <2>13, InfoSet DEF I, n
  <2>6. InfoOK'
    BY <2>5, <2>12 DEF InfoOK, Slots, I
  <2>7. slot'[2] = None /\ info'[1].size = Bytes(carried'[1]) % SizeLimit
    BY <1>1, <2>1, <2>2, <2>3, <2>5, <2>13, InfoSet DEF I, n
  <2>8. SizeIsSum'
    BY <2>7 DEF SizeIsSum, Slots
  <2>9. RoundsOK'
    BY <1>3, <2>4 DEF Frames, RoundsOK, Slots
  <2> QED
    BY <1>2, <2>6, <2>8, <2>9 DEF Frames
<1>5. CASE TakeTwo
  <2>1. PICK p \in queue, r \in queue :
          /\ slot' = [s \in Slots |-> IF s = 1 THEN p ELSE r]
          /\ info' = [s \in Slots |-> SetPacketInfo(info[s], IF s = 1 THEN p ELSE r)]
          /\ carried' = [s \in Slots |-> IF s = 1 THEN {p} ELSE {r}]
    BY <1>5 DEF TakeTwo, Front
  <2>2. p \in Packets /\ r \in Packets
    BY <1>1
  <2>3. carried'[1] = {p} /\ carried'[2] = {r}
    BY <1>1, <2>1
  <2>4. CarriedOK(1)' /\ CarriedOK(2)'
    BY <1>1, <2>3, OneIsCarried
  <2>5. info'[1] = SetPacketInfo(info[1], p) /\ info'[2] = SetPacketInfo(info[2], r)
        /\ info' = [s \in Slots |-> info'[s]]
    BY <1>1, <2>1
  <2>13. info[1] \in I /\ info[2] \in I
    BY <1>1
  <2>12. info'[1] \in I /\ info'[2] \in I
    BY <2>2, <2>5, <2>13, InfoSet
  <2>6. InfoOK'
    BY <2>5, <2>12 DEF InfoOK, Slots
  <2>7. /\ info'[1].size = Bytes(carried'[1]) % SizeLimit
        /\ info'[2].size = Bytes(carried'[2]) % SizeLimit
    BY <1>1, <2>2, <2>3, <2>5, InfoSet
  <2>8. SizeIsSum'
    BY <2>7 DEF SizeIsSum, Slots
  <2>9. RoundsOK'
    BY <1>3, <2>4 DEF Frames, RoundsOK, Slots
  <2> QED
    BY <1>2, <2>6, <2>8, <2>9 DEF Frames
<1> QED
  BY <1>4, <1>5

\* The bytes of what is aggregated are added to those that are there.
LEMMA FramesAggregate == Inv /\ tnn \in [Slots -> Nat] /\ Frames /\ Aggregate => Frames'
<1> SUFFICES ASSUME Inv, tnn \in [Slots -> Nat], Frames, Aggregate PROVE Frames'
  OBVIOUS
<1> DEFINE C(s) == Cut(queue, slot[s].dst, info[s].port, tnn[s])
<1>1. /\ Pair
      /\ info' = [s \in Slots |-> SetSize(info[s], C(s))]
      /\ carried' = [s \in Slots |-> carried[s] \cup C(s)]
      /\ rounds' = IF rounds = 0 /\ tnnSet THEN 1 ELSE 2
      /\ UNCHANGED <<slot, tnn, table, tnnSet>>
  BY DEF Aggregate
<1>2. /\ queue \subseteq Arrivals /\ queue \subseteq Packets /\ IsFiniteSet(queue)
      /\ \A p, r \in queue : p.id = r.id => p = r
      /\ rounds \in 0 .. 2
  BY ArrivalsArePackets DEF Inv, ShapeOK, NumbersOK, Frames, RoundsOK
<1>3. ASSUME NEW s \in Slots
      PROVE  /\ C(s) \subseteq queue /\ IsFiniteSet(C(s))
             /\ tnnSet => Cardinality(C(s)) <= RestrictionNum - 1
  <2>1. C(s) \subseteq queue
    BY DEF Cut, Flow
  <2>2. IsFiniteSet(C(s))
    BY <1>2, <2>1, FS_Subset
  <2>3. ASSUME tnnSet PROVE Cardinality(C(s)) <= RestrictionNum - 1
    <3>1. tnn[s] \in Numbers
      BY <2>3 DEF Frames, RoundsOK
    <3>2. tnn[s] \in Nat \ {0} /\ tnn[s] <= RestrictionNum
      BY <3>1, QueueAssumption DEF Numbers
    <3>3. Cardinality(C(s)) <= tnn[s] - 1
      BY <1>2, <3>2, CutSmall
    <3>4. Cardinality(C(s)) \in Nat /\ RestrictionNum \in Nat
      BY <2>2, FS_CardinalityType, QueueAssumption
    <3> QED
      BY <3>2, <3>3, <3>4
  <2> QED
    BY <2>1, <2>2, <2>3
<1> HIDE DEF C
<1>4. ASSUME NEW s \in Slots
      PROVE  /\ info'[s] \in [port : AllPorts, size : 0 .. SizeLimit - 1]
             /\ slot'[s] # None => info'[s].size = Bytes(carried'[s]) % SizeLimit
  <2> DEFINE i == info[s]
             b == Bytes(C(s))
             c == Bytes(carried[s])
  <2>1. i \in [port : AllPorts, size : 0 .. SizeLimit - 1] /\ i.size \in Nat
    BY DEF Frames, InfoOK
  <2>2. carried[s] \subseteq Packets /\ IsFiniteSet(carried[s]) /\ carried[s] \cap C(s) = {}
    BY <1>3, ArrivalsArePackets DEF Inv, ShapeOK, DisjointOK, Frames, RoundsOK, CarriedOK
  <2>3. b \in Nat /\ c \in Nat /\ Bytes(carried[s] \cup C(s)) = c + b
    BY <1>2, <1>3, <2>2, BytesOfParts
  <2>4. info'[s] = [i EXCEPT !.size = (i.size + b) % SizeLimit]
    BY <1>1 DEF SetSize
  <2>5. slot[s] # None => i.size = c % SizeLimit
    BY DEF Frames, SizeIsSum
  <2>6. carried'[s] = carried[s] \cup C(s) /\ slot'[s] = slot[s]
    BY <1>1
  <2>7. ((c % SizeLimit) + b) % SizeLimit = (c + b) % SizeLimit
    BY <2>3, RestOfRest, QueueAssumption, Zenon
  <2> HIDE DEF i, b, c
  <2>8. (i.size + b) % SizeLimit \in 0 .. SizeLimit - 1
    BY <2>1, <2>3, QueueAssumption
  <2> DEFINE z == (i.size + b) % SizeLimit
  <2>9. i = [port |-> i.port, size |-> i.size] /\ i.port \in AllPorts
    BY <2>1
  <2> HIDE DEF z
  <2>10. info'[s] = [port |-> i.port, size |-> z]
    BY <2>4, <2>9 DEF z
  <2>11. info'[s] \in [port : AllPorts, size : 0 .. SizeLimit - 1] /\ info'[s].size = z
    BY <2>8, <2>9, <2>10 DEF z
  <2>12. slot'[s] # None => z = (c + b) % SizeLimit
    BY <2>5, <2>6, <2>7, Zenon DEF z
  <2> QED
    BY <2>3, <2>6, <2>11, <2>12
<1>5. InfoOK' /\ SizeIsSum'
  <2>1. info' = [s \in Slots |-> info'[s]]
    BY <1>1
  <2> QED
    BY <1>4, <2>1 DEF InfoOK, SizeIsSum
<1>6. TableOK'
  BY <1>1 DEF Frames, TableOK
<1>7. ASSUME NEW s \in Slots PROVE CarriedOK(s)'
  <2>1. IsFiniteSet(carried[s]) /\ (rounds = 0 => Cardinality(carried[s]) <= 1)
    BY DEF Frames, RoundsOK, CarriedOK
  <2>2. carried'[s] = carried[s] \cup C(s) /\ carried[s] \cap C(s) = {}
    BY <1>1, <1>3 DEF Inv, DisjointOK
  <2>3. /\ IsFiniteSet(carried'[s])
        /\ Cardinality(carried'[s]) = Cardinality(carried[s]) + Cardinality(C(s))
    <3>1. Cardinality(carried[s] \cap C(s)) = 0
      BY <2>2, FS_EmptySet
    <3>2. Cardinality(carried[s]) \in Nat /\ Cardinality(C(s)) \in Nat
      BY <1>3, <2>1, FS_CardinalityType
    <3>3. /\ IsFiniteSet(carried[s] \cup C(s))
          /\ Cardinality(carried[s] \cup C(s)) =
               Cardinality(carried[s]) + Cardinality(C(s)) - Cardinality(carried[s] \cap C(s))
      BY <1>3, <2>1, FS_Union
    <3> QED
      BY <2>2, <3>1, <3>2, <3>3
  <2>4. rounds' # 0 /\ (rounds' <= 1 => rounds = 0 /\ tnnSet)
    BY <1>1, <1>2
  <2>5. rounds' <= 1 => Cardinality(carried'[s]) <= RestrictionNum
    <3>1. /\ Cardinality(carried[s]) \in Nat /\ Cardinality(C(s)) \in Nat
          /\ RestrictionNum \in Nat
      BY <1>3, <2>1, FS_CardinalityType, QueueAssumption
    <3> QED
      BY <1>3, <2>1, <2>3, <2>4, <3>1
  <2> QED
    BY <2>3, <2>4, <2>5 DEF CarriedOK
<1>8. RoundsOK'
  BY <1>1, <1>2, <1>7 DEF Frames, RoundsOK
<1> QED
  BY <1>5, <1>6, <1>8 DEF Frames

LEMMA FramesRelease == Inv /\ Frames /\ Release => Frames'
<1> SUFFICES ASSUME Inv, Frames, Release PROVE Frames'
  OBVIOUS
<1>1. PICK S \in SUBSET Slots :
        /\ slot' = [s \in Slots |-> IF s \in S THEN None ELSE slot[s]]
        /\ carried' = [s \in Slots |-> IF s \in S THEN {} ELSE carried[s]]
        /\ UNCHANGED <<info, tnn, table, tnnSet, rounds>>
  BY DEF Release
<1>2. SizeIsSum'
  BY <1>1 DEF Frames, SizeIsSum
<1>3. ASSUME NEW s \in Slots PROVE CarriedOK(s)'
  <2>1. carried'[s] \in {{}, carried[s]} /\ rounds' = rounds
    BY <1>1
  <2>2. IsFiniteSet({}) /\ Cardinality({}) = 0
    BY FS_EmptySet
  <2>3. CASE carried'[s] = {}
    BY <2>2, <2>3, QueueAssumption DEF CarriedOK
  <2>4. CASE carried'[s] = carried[s]
    BY <2>1, <2>4 DEF Frames, RoundsOK, CarriedOK
  <2> QED
    BY <2>1, <2>3, <2>4
<1> QED
  BY <1>1, <1>2, <1>3 DEF Frames, InfoOK, TableOK, RoundsOK

LEMMA FramesOther ==
  Inv /\ Frames /\ (Enqueue \/ GetWaitTimeForBuffer \/ CtsReceived \/ MeasureTrafficEnd
                    \/ UNCHANGED vars) => Frames'
<1> SUFFICES ASSUME Inv, Frames, Enqueue \/ GetWaitTimeForBuffer \/ CtsReceived
                    \/ MeasureTrafficEnd \/ UNCHANGED vars
             PROVE  Frames'
  OBVIOUS
<1>1. UNCHANGED <<slot, info, carried, rounds>>
  BY DEF Enqueue, GetWaitTimeForBuffer, CtsReceived, MeasureTrafficEnd, vars
<1>2. InfoOK' /\ SizeIsSum'
  BY <1>1 DEF Frames, InfoOK, SizeIsSum
<1>3. tnnSet' => tnn' \in [Slots -> Numbers]
  <2>1. CASE GetWaitTimeForBuffer
    BY <2>1, QueueAssumption DEF GetWaitTimeForBuffer, Numbers, Slots
  <2>2. CASE UNCHANGED <<tnn, tnnSet>>
    BY <2>2 DEF Frames, RoundsOK
  <2> QED
    BY <2>1, <2>2 DEF Enqueue, CtsReceived, MeasureTrafficEnd, vars
<1>4. RoundsOK'
  BY <1>1, <1>3 DEF Frames, RoundsOK, CarriedOK
<1>5. TableOK'
  <2>1. CASE UNCHANGED table
    BY <2>1 DEF Frames, TableOK
  <2>2. ASSUME NEW a \in Addrs, NEW r \in SUBSET Measures, table' = Put(a, r) PROVE TableOK'
    BY <2>2 DEF Frames, TableOK, Put
  <2>3. ASSUME NEW a PROVE Row(a) \subseteq Measures
    BY DEF Frames, TableOK, Row
  <2>4. CASE Enqueue
    <3>1. PICK w \in Workload :
            IF size = MaxSize THEN UNCHANGED table
              ELSE table' = IF w.dst = Group THEN table ELSE AddSize(w.dst)
      BY <2>4 DEF Enqueue, Full
    <3>2. w.dst # Group => w.dst \in Addrs
      BY QueueAssumption DEF Dests
    <3> QED
      BY <2>1, <2>2, <2>3, <3>1, <3>2 DEF AddSize, Measures
  <2>5. CASE CtsReceived
    <3>1. PICK a \in DOMAIN table : table' = UpdatePassLoss(a)
      BY <2>5 DEF CtsReceived
    <3> QED
      BY <2>2, <2>3, <3>1 DEF UpdatePassLoss, Measures, Frames, TableOK
  <2>6. CASE MeasureTrafficEnd
    BY <2>6 DEF MeasureTrafficEnd, Frames, TableOK, Measures
  <2> QED
    BY <2>1, <2>4, <2>5, <2>6 DEF GetWaitTimeForBuffer, vars
<1> QED
  BY <1>2, <1>4, <1>5 DEF Frames

LEMMA SpecFrames == Spec => [](Inv /\ tnn \in [Slots -> Nat] /\ Frames)
<1>1. Inv /\ tnn \in [Slots -> Nat] /\ Frames /\ [Next]_vars => Frames'
  BY FramesTake, FramesAggregate, FramesRelease, FramesOther DEF Next
<1> QED
  BY <1>1, SpecInv, FramesInit, PTL DEF Spec

\* Every reachable state is well typed: the counter stays within the queue's
\* limit, and only known addresses have a row.
THEOREM TypeCorrect == Spec => []TypeOK
<1>1. Inv /\ tnn \in [Slots -> Nat] /\ Frames => TypeOK
  <2> SUFFICES ASSUME Inv, tnn \in [Slots -> Nat], Frames PROVE TypeOK
    OBVIOUS
  <2>1. size \in 0 .. MaxSize
    BY FS_CardinalityType, QueueAssumption DEF Inv, CounterIsLength
  <2>2. queue \subseteq Packets /\ carried \in [Slots -> SUBSET Packets] /\ gone \subseteq Packets
    BY ArrivalsArePackets DEF Inv, ShapeOK
  <2> QED
    BY <2>1, <2>2 DEF TypeOK, Inv, ShapeOK, Frames, InfoOK, TableOK
<1> QED
  BY <1>1, SpecFrames, PTL

\* The size kept for a slot is that of the packets that left the queue for it:
\* SetPacketInfo and Aggregation, in 16 bits, add up to the sum in 16 bits.
THEOREM SizesAddUp == Spec => []SizeIsSum
<1>1. Frames => SizeIsSum
  BY DEF Frames
<1> QED
  BY <1>1, SpecFrames, PTL

\* m_restrictionPacketNum is what keeps the sum below 2^16: at most num - 1
\* packets join the one in the slot.
THEOREM PayloadsFit == Spec => []PayloadFits
<1>1. Inv /\ Frames => PayloadFits
  <2> SUFFICES ASSUME Inv, Frames, NEW s \in Slots, rounds <= 1
               PROVE  Bytes(carried[s]) < SizeLimit
    BY DEF PayloadFits
  <2>1. carried[s] \subseteq Arrivals
    BY DEF Inv, ShapeOK
  <2>2. IsFiniteSet(carried[s]) /\ Cardinality(carried[s]) <= RestrictionNum
    BY DEF Frames, RoundsOK, CarriedOK
  <2> QED
    BY <2>1, <2>2, Fits
<1> QED
  BY <1>1, SpecFrames, PTL
=============================================================================
