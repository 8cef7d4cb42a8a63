--------------------------- MODULE SpcPhy_proofs ---------------------------
(***************************************************************************)
(* TLAPS proofs about SpcPhy, for every set of powers, thresholds and      *)
(* durations, and any number of signals: that the parts of the receiver    *)
(* agree on what is received, and that the list of power changes tells     *)
(* what is, was and will be on air, which is what a reception is judged by *)
(* and the medium is held busy for.                                        *)
(***************************************************************************)
EXTENDS SpcPhy, FiniteSums

\* What the argument needs of the types; nothing of the list of changes.
Shape ==
  /\ endTx \in Nat
  /\ rxing \in BOOLEAN /\ helperRxing \in BOOLEAN /\ mac.rxing \in BOOLEAN
  /\ mac = [rx |-> mac.rx, tx |-> mac.tx, busy |-> mac.busy, rxing |-> mac.rxing]
  /\ endRxEvent \in Signals \cup {None}
  /\ signals \in 0 .. MaxSignals

Inv == Shape /\ ReceptionAgrees

LEMMA InitInv == Init => Inv
<1> SUFFICES ASSUME Init PROVE Inv
  OBVIOUS
<1>1. mac = [rx |-> 0, tx |-> 0, busy |-> 0, rxing |-> FALSE]
  BY DEF Init
<1>2. 0 \in 0 .. MaxSignals
  BY PhyAssumption
<1>3. Shape
  <2>1. mac.rx = 0 /\ mac.tx = 0 /\ mac.busy = 0 /\ mac.rxing = FALSE
    BY <1>1
  <2>2. mac = [rx |-> mac.rx, tx |-> mac.tx, busy |-> mac.busy, rxing |-> mac.rxing]
    BY <1>1, <2>1, Zenon
  <2> QED BY <1>2, <2>1, <2>2 DEF Init, Shape
<1>4. ReceptionAgrees
  BY <1>1 DEF Init, ReceptionAgrees
<1> QED BY <1>3, <1>4 DEF Inv

\* A station that sends has nothing left to receive: GetState answers RX
\* whenever the state helper's m_rxing is set, as it is then not sending.
LEMMA SendInv == Inv /\ StartSend => Inv'
<1> SUFFICES ASSUME Inv, NEW d \in Durations, GiveUp, SwitchToTx(d),
                    UNCHANGED <<air, signals>>
             PROVE  Inv'
  BY DEF StartSend
<1> USE DEF Inv, Shape, ReceptionAgrees
<1>1. GetState = "RX" <=> rxing
  BY DEF GetState
<1>2. ~rxing' /\ ~helperRxing' /\ endRxEvent' = None
  <2>1. CASE rxing
    BY <1>1, <2>1 DEF GiveUp, SwitchToTx
  <2>2. CASE ~rxing
    BY <1>1, <2>2 DEF GiveUp, SwitchToTx
  <2> QED BY <2>1, <2>2
<1>3. mac' = [rx |-> mac'.rx, tx |-> d, busy |-> mac.busy, rxing |-> FALSE]
  <2>1. NotifyTxStart = [rx |-> IF mac.rxing THEN 0 ELSE mac.rx, tx |-> mac.tx,
                         busy |-> mac.busy, rxing |-> FALSE]
    BY DEF NotifyTxStart
  <2> QED BY <2>1 DEF SwitchToTx
<1>4. endTx' \in Nat
  BY PhyAssumption DEF SwitchToTx, Durations
<1>5. Shape'
  <2>1. rxing' \in BOOLEAN /\ helperRxing' \in BOOLEAN /\ mac'.rxing \in BOOLEAN
    BY <1>2, <1>3 DEF GiveUp, SwitchToTx
  <2>2. mac' = [rx |-> mac'.rx, tx |-> mac'.tx, busy |-> mac'.busy, rxing |-> mac'.rxing]
    <3>1. mac'.tx = d /\ mac'.busy = mac.busy /\ mac'.rxing = FALSE
      BY <1>3
    <3> QED BY <1>3, <3>1, Zenon
  <2> QED BY <1>2, <1>4, <2>1, <2>2
<1>6. ReceptionAgrees'
  BY <1>2, <1>3
<1> QED BY <1>5, <1>6

\* A signal is received only by a station that neither sends nor receives.
LEMMA ReceiveInv == Inv /\ StartReceive => Inv'
<1> SUFFICES ASSUME Inv, StartReceive PROVE Inv'
  OBVIOUS
<1> USE DEF Inv, Shape, ReceptionAgrees
<1>1. PICK p \in Powers, d \in Durations, k \in Kinds :
        LET s == [id |-> signals + 1, power |-> p, left |-> d, kind |-> k]
        IN /\ signals < MaxSignals
           /\ signals' = signals + 1
           /\ air' = air \cup {s}
           /\ endTx' = endTx
           /\ IF Receivable(p)
                THEN helperRxing' = TRUE /\ SwitchToRx(d) /\ endRxEvent' = s
                ELSE /\ MaybeCcaBusy(GetEnergyDuration(firstPower', changes'))
                     /\ UNCHANGED <<helperRxing, rxing, endRxEvent>>
  BY DEF StartReceive
<1> DEFINE s == [id |-> signals + 1, power |-> p, left |-> d, kind |-> k]
<1>2. s \in Signals /\ signals' \in 0 .. MaxSignals
  BY <1>1, PhyAssumption DEF Signals, Durations
<1>3. CASE Receivable(p)
  <2>1. endTx = 0 /\ ~rxing
    BY <1>3 DEF Receivable, GetState
  <2>2. mac' = [rx |-> d, tx |-> mac.tx, busy |-> mac.busy, rxing |-> TRUE]
    BY <1>1, <1>3 DEF SwitchToRx
  <2>3. rxing' = TRUE /\ helperRxing' = TRUE /\ endRxEvent' = s /\ s \in air'
    BY <1>1, <1>3 DEF SwitchToRx
  <2> QED BY <1>1, <1>2, <2>1, <2>2, <2>3, NoneAssumption
<1>4. CASE ~Receivable(p)
  <2>1. /\ mac' = [rx |-> mac.rx, tx |-> mac.tx, busy |-> mac'.busy, rxing |-> mac.rxing]
    BY <1>1, <1>4 DEF MaybeCcaBusy, SwitchMaybeToCcaBusy
  <2> QED BY <1>1, <1>2, <1>4, <2>1
<1> QED BY <1>3, <1>4

LEMMA EndInv == Inv /\ EndReceive => Inv'
<1> SUFFICES ASSUME Inv, EndReceive PROVE Inv'
  OBVIOUS
<1>1. mac' = [rx |-> mac.rx, tx |-> mac.tx, busy |-> mac.busy, rxing |-> FALSE]
  BY DEF EndReceive, Inv, Shape
<1> QED BY <1>1 DEF EndReceive, Inv, Shape, ReceptionAgrees

\* The signal received and the instant the MAC keeps grow old together.
LEMMA TickInv == Inv /\ Tick => Inv'
<1> SUFFICES ASSUME Inv, Tick PROVE Inv'
  OBVIOUS
<1> USE DEF Inv, Shape, ReceptionAgrees
<1>1. mac' = [rx |-> Less(mac.rx), tx |-> Less(mac.tx), busy |-> Less(mac.busy),
              rxing |-> mac.rxing]
  BY DEF Tick
<1>2. endTx' \in Nat /\ (endTx = 0 => endTx' = 0)
  BY DEF Tick, Less
<1>3. CASE ~rxing
  BY <1>1, <1>2, <1>3 DEF Tick
<1>4. CASE rxing
  <2>1. endRxEvent \in Signals /\ endRxEvent.left \in Nat \ {0}
    BY <1>4 DEF Tick, Ends, Signals
  <2>2. endRxEvent' = Older(endRxEvent) /\ endRxEvent' \in Signals
        /\ endRxEvent'.left = endRxEvent.left - 1
    <3>1. endRxEvent' = Older(endRxEvent)
      BY <2>1, NoneAssumption DEF Tick
    <3>2. Older(endRxEvent) \in Signals /\ Older(endRxEvent).left = endRxEvent.left - 1
      <4> DEFINE e == endRxEvent
      <4>1. e = [id |-> e.id, power |-> e.power, left |-> e.left, kind |-> e.kind]
        BY <2>1 DEF Signals
      <4>2. e.id \in 1 .. MaxSignals /\ e.power \in Powers /\ e.left - 1 \in Nat /\ e.kind \in Kinds
        BY <2>1 DEF Signals
      <4>3. Older(e) = [id |-> e.id, power |-> e.power, left |-> e.left - 1, kind |-> e.kind]
        BY <4>1 DEF Older
      <4> QED BY <4>2, <4>3 DEF Signals
    <3> QED BY <3>1, <3>2
  <2>3. mac'.rx = endRxEvent'.left
    BY <1>1, <1>4, <2>1, <2>2 DEF Less
  <2>4. endRxEvent'.left > 0 => endRxEvent' \in air'
    BY <1>4, <2>1, <2>2 DEF Tick
  <2> QED BY <1>1, <1>2, <1>4, <2>2, <2>3, <2>4, NoneAssumption DEF Tick
<1> QED BY <1>3, <1>4

\* Whatever the MAC sends and whatever arrives, and in any order at one instant,
\* the state helper, the interference helper, the scheduled end of reception and
\* the MAC agree on the reception in progress (spc-phy.cc:133, spc-mac.cc:234).
THEOREM ReceptionConsistent == Spec => []ReceptionAgrees
<1>1. Inv /\ [Next]_vars => Inv'
  <2>1. CASE UNCHANGED vars
    BY <2>1 DEF vars, helper, Inv, Shape, ReceptionAgrees
  <2> QED BY <2>1, SendInv, ReceiveInv, EndInv, TickInv DEF Next
<1>2. Inv => ReceptionAgrees
  BY DEF Inv
<1> QED BY InitInv, <1>1, <1>2, PTL DEF Spec

-----------------------------------------------------------------------------
(* The list of changes, as any sorted list of them.                        *)

Changes == [at : Int, delta : Int]
Sorted(cs) == \A i, j \in DOMAIN cs : i < j => cs[i].at <= cs[j].at
List(cs) == cs \in Seq(Changes) /\ Sorted(cs)

\* The changes up to an instant, and the signals on air after it.
UpTo(cs, t)  == {i \in DOMAIN cs : cs[i].at <= t}
After(ar, t) == {s \in ar : s.left > t}

LEMMA ListTypes ==
  ASSUME NEW cs, List(cs)
  PROVE  /\ Len(cs) \in Nat /\ DOMAIN cs = 1 .. Len(cs)
         /\ \A i \in DOMAIN cs : cs[i] \in Changes /\ cs[i].at \in Int /\ cs[i].delta \in Int
         /\ \A i \in DOMAIN cs : Deltas(cs)[i] = cs[i].delta /\ Deltas(cs)[i] \in Int
         /\ IsFiniteSet(DOMAIN cs)
         /\ \A I \in SUBSET DOMAIN cs : IsFiniteSet(I) /\ Sum(cs, I) \in Int
<1>1. Len(cs) \in Nat /\ DOMAIN cs = 1 .. Len(cs)
  BY DEF List
<1>2. \A i \in DOMAIN cs : cs[i] \in Changes /\ cs[i].at \in Int /\ cs[i].delta \in Int
  <2>1. \A i \in DOMAIN cs : cs[i] \in Changes
    BY <1>1 DEF List
  <2> QED
    BY <2>1 DEF Changes
<1>3. \A i \in DOMAIN cs : Deltas(cs)[i] = cs[i].delta /\ Deltas(cs)[i] \in Int
  BY <1>2 DEF Deltas
<1>4. IsFiniteSet(DOMAIN cs)
  BY <1>1, FS_Interval
<1>5. \A I \in SUBSET DOMAIN cs : IsFiniteSet(I)
  BY <1>4, FS_Subset
<1>6. ASSUME NEW I \in SUBSET DOMAIN cs PROVE Sum(cs, I) \in Int
  BY <1>3, <1>5, SumType DEF Sum
<1> QED
  BY <1>1, <1>2, <1>3, <1>4, <1>5, <1>6

\* upper_bound finds the end of the changes up to an instant.
LEMMA Position ==
  ASSUME NEW cs, List(cs), NEW t \in Int
  PROVE  /\ GetPosition(cs, t) \in 0 .. Len(cs)
         /\ \A i \in DOMAIN cs : i <= GetPosition(cs, t) <=> cs[i].at <= t
         /\ UpTo(cs, t) = 1 .. GetPosition(cs, t)
<1>1. /\ Len(cs) \in Nat /\ DOMAIN cs = 1 .. Len(cs)
      /\ \A i \in DOMAIN cs : cs[i].at \in Int
      /\ IsFiniteSet(UpTo(cs, t))
  BY ListTypes DEF UpTo
<1>2. \E n \in 0 .. Len(cs) : \A i \in DOMAIN cs : i <= n <=> cs[i].at <= t
  <2>1. CASE UpTo(cs, t) = {}
    BY <1>1, <2>1 DEF UpTo
  <2>2. CASE UpTo(cs, t) # {}
    <3> DEFINE f == [i \in UpTo(cs, t) |-> i]
    <3>1. \A i \in UpTo(cs, t) : f[i] = i /\ f[i] \in Int
      BY <1>1 DEF UpTo
    <3> HIDE DEF f
    <3>2. PICK n \in UpTo(cs, t) : \A i \in UpTo(cs, t) : f[i] <= f[n]
      BY <1>1, <2>2, <3>1, Greatest
    <3>3. n \in 0 .. Len(cs) /\ cs[n].at <= t /\ n \in DOMAIN cs
      BY <1>1 DEF UpTo
    <3>4. ASSUME NEW i \in DOMAIN cs PROVE i <= n <=> cs[i].at <= t
      <4>1. ASSUME i <= n PROVE cs[i].at <= t
        BY <1>1, <3>3, <4>1 DEF List, Sorted
      <4>2. ASSUME cs[i].at <= t PROVE i <= n
        BY <3>1, <3>2, <4>2 DEF UpTo
      <4> QED
        BY <4>1, <4>2
    <3> QED
      BY <3>3, <3>4
  <2> QED
    BY <2>1, <2>2
<1>3. /\ GetPosition(cs, t) \in 0 .. Len(cs)
      /\ \A i \in DOMAIN cs : i <= GetPosition(cs, t) <=> cs[i].at <= t
  BY <1>2 DEF GetPosition
<1>4. UpTo(cs, t) = 1 .. GetPosition(cs, t)
  BY <1>1, <1>3 DEF UpTo
<1> QED
  BY <1>3, <1>4

\* What AddNiChangeEvent does: what was before stays, the rest moves up by one.
LEMMA Inserted ==
  ASSUME NEW cs, List(cs), NEW c \in Changes,
         NEW ds, ds = AddNiChangeEvent(cs, c)
  PROVE  /\ List(ds) /\ Len(ds) = Len(cs) + 1 /\ GetPosition(cs, c.at) \in 0 .. Len(cs)
         /\ \A i \in DOMAIN cs : i <= GetPosition(cs, c.at) <=> cs[i].at <= c.at
         /\ \A i \in 1 .. GetPosition(cs, c.at) : ds[i] = cs[i]
         /\ ds[GetPosition(cs, c.at) + 1] = c
         /\ \A i \in GetPosition(cs, c.at) + 1 .. Len(cs) : ds[i + 1] = cs[i]
         /\ \A i \in DOMAIN ds : ds[i] = c \/ \E j \in DOMAIN cs : ds[i] = cs[j]
<1> DEFINE n == GetPosition(cs, c.at)
<1>1. /\ Len(cs) \in Nat /\ DOMAIN cs = 1 .. Len(cs) /\ c.at \in Int
      /\ \A i \in DOMAIN cs : cs[i] \in Changes /\ cs[i].at \in Int
  BY ListTypes DEF Changes
<1>2. n \in 0 .. Len(cs) /\ \A i \in DOMAIN cs : i <= n <=> cs[i].at <= c.at
  BY <1>1, Position
<1>3. ds = [i \in 1 .. Len(cs) + 1 |->
              IF i <= n THEN cs[i] ELSE IF i = n + 1 THEN c ELSE cs[i - 1]]
  BY DEF AddNiChangeEvent
<1> HIDE DEF n
<1>4. /\ \A i \in 1 .. n : ds[i] = cs[i]
      /\ ds[n + 1] = c
      /\ \A i \in n + 1 .. Len(cs) : ds[i + 1] = cs[i]
  BY <1>1, <1>2, <1>3
<1>5. \A i \in 1 .. Len(cs) + 1 : ds[i] \in Changes
  BY <1>1, <1>2, <1>3
<1>6. ds \in Seq(Changes) /\ Len(ds) = Len(cs) + 1 /\ DOMAIN ds = 1 .. Len(cs) + 1
  <2> DEFINE m == Len(cs) + 1
  <2>1. m \in Nat /\ ds = [i \in 1 .. m |-> ds[i]]
    BY <1>1, <1>3
  <2> HIDE DEF m
  <2>2. \A i \in 1 .. m : ds[i] \in Changes
    BY <1>5 DEF m
  <2>3. ds \in Seq(Changes) /\ Len(ds) = m /\ DOMAIN ds = 1 .. m
    BY <2>1, <2>2
  <2> QED
    BY <2>3 DEF m
<1>7. ASSUME NEW i \in DOMAIN ds, NEW j \in DOMAIN ds, i < j PROVE ds[i].at <= ds[j].at
  <2>1. /\ i <= n => ds[i] = cs[i] /\ i \in DOMAIN cs
        /\ i = n + 1 => ds[i] = c
        /\ i > n + 1 => ds[i] = cs[i - 1] /\ i - 1 \in DOMAIN cs
        /\ j <= n => ds[j] = cs[j] /\ j \in DOMAIN cs
        /\ j = n + 1 => ds[j] = c
        /\ j > n + 1 => ds[j] = cs[j - 1] /\ j - 1 \in DOMAIN cs
    BY <1>1, <1>2, <1>3, <1>6
  <2>2. i \in Int /\ j \in Int /\ n \in Int
    BY <1>1, <1>2, <1>6
  <2>3. CASE j <= n
    BY <1>1, <1>7, <2>1, <2>2, <2>3 DEF List, Sorted
  <2>4. CASE j = n + 1
    BY <1>1, <1>2, <1>7, <2>1, <2>2, <2>4
  <2>5. CASE j > n + 1
    <3>1. CASE i <= n
      BY <1>1, <1>2, <2>1, <2>2, <2>5, <3>1 DEF List, Sorted
    <3>2. CASE i = n + 1
      BY <1>1, <1>2, <2>1, <2>2, <2>5, <3>2
    <3>3. CASE i > n + 1
      BY <1>1, <1>7, <2>1, <2>2, <2>5, <3>3 DEF List, Sorted
    <3> QED
      BY <2>2, <3>1, <3>2, <3>3
  <2> QED
    BY <2>2, <2>3, <2>4, <2>5
<1>8. \A i \in DOMAIN ds : ds[i] = c \/ \E j \in DOMAIN cs : ds[i] = cs[j]
  BY <1>1, <1>2, <1>3, <1>6
<1> QED
  BY <1>2, <1>4, <1>6, <1>7, <1>8 DEF List, Sorted, n

\* The sum up to an instant grows by what is inserted up to it.
LEMMA InsertedSum ==
  ASSUME NEW cs, List(cs), NEW c \in Changes, NEW ds, ds = AddNiChangeEvent(cs, c),
         NEW t \in Int
  PROVE  Sum(ds, UpTo(ds, t)) = Sum(cs, UpTo(cs, t)) + (IF c.at <= t THEN c.delta ELSE 0)
<1> DEFINE n == GetPosition(cs, c.at)
<1>2. /\ List(ds) /\ Len(ds) = Len(cs) + 1 /\ n \in 0 .. Len(cs)
      /\ \A i \in 1 .. n : ds[i] = cs[i]
      /\ ds[n + 1] = c
      /\ \A i \in n + 1 .. Len(cs) : ds[i + 1] = cs[i]
  <2>1. List(ds) /\ Len(ds) = Len(cs) + 1
    BY Inserted
  <2>2. n \in 0 .. Len(cs)
    BY Inserted
  <2>3. \A i \in 1 .. n : ds[i] = cs[i]
    BY Inserted
  <2>4. ds[n + 1] = c
    BY Inserted
  <2>5. \A i \in n + 1 .. Len(cs) : ds[i + 1] = cs[i]
    BY Inserted
  <2> QED
    BY <2>1, <2>2, <2>3, <2>4, <2>5
<1> HIDE DEF n
<1> DEFINE S == UpTo(cs, t)
           h == [i \in DOMAIN cs |-> IF i <= n THEN i ELSE i + 1]
           H == {h[i] : i \in S}
<1>1. /\ Len(cs) \in Nat /\ DOMAIN cs = 1 .. Len(cs) /\ c.at \in Int /\ c.delta \in Int
      /\ \A i \in DOMAIN cs : cs[i].at \in Int
      /\ \A i \in DOMAIN cs : Deltas(cs)[i] = cs[i].delta /\ Deltas(cs)[i] \in Int
      /\ S \subseteq DOMAIN cs /\ IsFiniteSet(S)
  BY ListTypes DEF Changes, UpTo
<1>3. /\ DOMAIN ds = 1 .. Len(cs) + 1
      /\ \A i \in DOMAIN ds : Deltas(ds)[i] = ds[i].delta
  BY <1>2, ListTypes
<1>4. \A i \in DOMAIN cs : h[i] \in DOMAIN ds \ {n + 1} /\ ds[h[i]] = cs[i]
  BY <1>1, <1>2, <1>3
<1>5. \A i, j \in S : h[i] = h[j] => i = j
  BY <1>1, <1>2
<1>6. \A i \in DOMAIN ds : i = n + 1 \/ \E j \in DOMAIN cs : h[j] = i
  <2> SUFFICES ASSUME NEW i \in DOMAIN ds, i # n + 1 PROVE \E j \in DOMAIN cs : h[j] = i
    OBVIOUS
  <2>1. CASE i <= n
    BY <1>1, <1>2, <1>3, <2>1
  <2>2. CASE i > n + 1
    <3>1. i - 1 \in DOMAIN cs /\ ~(i - 1 <= n)
      BY <1>1, <1>2, <1>3, <2>2
    <3>2. h[i - 1] = i
      BY <1>2, <1>3, <3>1
    <3> QED
      BY <3>1, <3>2
  <2> QED
    BY <1>2, <1>3, <2>1, <2>2
<1> HIDE DEF h
<1>7. \A i \in S : Deltas(cs)[i] \in Int /\ Deltas(ds)[h[i]] = Deltas(cs)[i]
  BY <1>1, <1>3, <1>4
<1>8. IsFiniteSet(H) /\ Sum(ds, H) = Sum(cs, S)
  <2>0. IsFiniteSet(S)
    BY <1>1
  <2> HIDE DEF S
  <2>1. /\ IsFiniteSet({h[x] : x \in S})
        /\ SumFunctionOnSet(Deltas(ds), {h[x] : x \in S}) = SumFunctionOnSet(Deltas(cs), S)
    BY <2>0, <1>5, <1>7, SumImage
  <2> QED
    BY <2>1 DEF Sum
<1>9. UpTo(ds, t) \ {n + 1} = H
  BY <1>1, <1>4, <1>6 DEF UpTo
<1>10. n + 1 \in UpTo(ds, t) <=> c.at <= t
  BY <1>2, <1>3 DEF UpTo
<1> HIDE DEF H, S
<1>11. CASE c.at <= t
  <2>1. UpTo(ds, t) = H \cup {n + 1} /\ n + 1 \notin H
    BY <1>9, <1>10, <1>11
  <2>2. Deltas(ds)[n + 1] = c.delta
    BY <1>2, <1>3
  <2>3. \A i \in H : Deltas(ds)[i] \in Int
    BY <1>7 DEF H
  <2>4. Sum(ds, UpTo(ds, t)) = c.delta + Sum(ds, H)
    BY <1>1, <1>8, <2>1, <2>2, <2>3, SumAdd DEF Sum
  <2>5. Sum(cs, S) \in Int
    BY <1>1, ListTypes
  <2> QED
    BY <1>1, <1>8, <1>11, <2>4, <2>5 DEF S
<1>12. CASE ~(c.at <= t)
  <2>1. UpTo(ds, t) = H
    BY <1>9, <1>10, <1>12
  <2>2. Sum(cs, S) \in Int
    BY <1>1, ListTypes
  <2> QED
    BY <1>8, <1>12, <2>1, <2>2 DEF S
<1> QED
  BY <1>11, <1>12

\* The sums of the first changes do not see what is inserted after them.
LEMMA InsertedBefore ==
  ASSUME NEW cs, List(cs), NEW c \in Changes, NEW ds, ds = AddNiChangeEvent(cs, c),
         NEW m \in Nat, m <= GetPosition(cs, c.at)
  PROVE  Sum(ds, 1 .. m) = Sum(cs, 1 .. m)
<1>1. /\ Len(cs) \in Nat /\ DOMAIN cs = 1 .. Len(cs)
      /\ \A i \in DOMAIN cs : Deltas(cs)[i] = cs[i].delta /\ Deltas(cs)[i] \in Int
  BY ListTypes
<1>2. /\ List(ds) /\ Len(ds) = Len(cs) + 1 /\ GetPosition(cs, c.at) \in 0 .. Len(cs)
      /\ \A i \in 1 .. GetPosition(cs, c.at) : ds[i] = cs[i]
  BY Inserted
<1>3. \A i \in 1 .. Len(ds) : Deltas(ds)[i] = ds[i].delta
  BY <1>2, ListTypes
<1>4. \A i \in 1 .. m : Deltas(cs)[i] \in Int /\ Deltas(ds)[i] = Deltas(cs)[i]
  <2> SUFFICES ASSUME NEW i \in 1 .. m
               PROVE  Deltas(cs)[i] \in Int /\ Deltas(ds)[i] = Deltas(cs)[i]
    OBVIOUS
  <2>1. i \in DOMAIN cs /\ i \in 1 .. GetPosition(cs, c.at) /\ i \in 1 .. Len(ds)
    BY <1>1, <1>2
  <2> QED
    BY <1>1, <1>2, <1>3, <2>1
<1>5. IsFiniteSet(1 .. m)
  BY FS_Interval
<1> QED
  BY <1>4, <1>5, SumSame DEF Sum

\* What AppendEvent keeps when nothing is received.
Kept(cs, start) ==
  [i \in 1 .. Len(cs) - GetPosition(cs, 0) + 1 |->
     IF i = 1 THEN start ELSE cs[GetPosition(cs, 0) + i - 1]]

LEMMA Restarted ==
  ASSUME NEW cs, List(cs), NEW start \in Changes, start.at = 0, NEW ds, ds = Kept(cs, start)
  PROVE  /\ List(ds) /\ 1 \in DOMAIN ds /\ ds[1] = start
         /\ \A i \in DOMAIN ds : i # 1 => ds[i].at > 0 /\ \E j \in DOMAIN cs : ds[i] = cs[j]
         /\ \A t \in Nat : /\ Sum(ds, UpTo(ds, t)) \in Int
                           /\ Sum(cs, UpTo(cs, 0)) + Sum(ds, UpTo(ds, t)) =
                                start.delta + Sum(cs, UpTo(cs, t))
<1> DEFINE n == GetPosition(cs, 0)
           m == Len(cs) - n + 1
<1>1. /\ Len(cs) \in Nat /\ DOMAIN cs = 1 .. Len(cs) /\ start.at \in Int /\ start.delta \in Int
      /\ \A i \in DOMAIN cs : cs[i] \in Changes /\ cs[i].at \in Int
      /\ \A i \in DOMAIN cs : Deltas(cs)[i] = cs[i].delta /\ Deltas(cs)[i] \in Int
  BY ListTypes DEF Changes
<1>2. /\ n \in 0 .. Len(cs) /\ (\A i \in DOMAIN cs : i <= n <=> cs[i].at <= 0)
      /\ UpTo(cs, 0) = 1 .. n
  BY Position
<1>3. m \in Nat /\ 1 \in 1 .. m /\ ds = [i \in 1 .. m |-> IF i = 1 THEN start ELSE cs[n + i - 1]]
  BY <1>1, <1>2 DEF Kept
<1>4. \A i \in 1 .. m : i # 1 => n + i - 1 \in DOMAIN cs /\ ~(n + i - 1 <= n)
  BY <1>1, <1>2
<1> HIDE DEF n, m
<1>5. ds[1] = start /\ \A i \in 1 .. m : i # 1 => ds[i] = cs[n + i - 1]
  BY <1>3
<1>6. /\ \A i \in 1 .. m : ds[i] \in Changes /\ ds[i].at \in Int
      /\ \A i \in 1 .. m : i # 1 => ds[i].at > 0 /\ ds[i] = cs[n + i - 1]
  <2>1. \A i \in 1 .. m : i # 1 => cs[n + i - 1] \in Changes /\ cs[n + i - 1].at \in Int
                                   /\ ~(cs[n + i - 1].at <= 0)
    BY <1>1, <1>2, <1>4
  <2> QED
    BY <1>1, <1>5, <2>1
<1>7. ds \in Seq(Changes) /\ Len(ds) = m /\ DOMAIN ds = 1 .. m
  <2>1. ds = [i \in 1 .. m |-> ds[i]]
    BY <1>3
  <2> QED
    BY <1>3, <1>6, <2>1
<1>8. ASSUME NEW i \in DOMAIN ds, NEW j \in DOMAIN ds, i < j PROVE ds[i].at <= ds[j].at
  <2>1. i \in Int /\ j \in Int /\ j # 1 /\ i \in 1 .. m /\ j \in 1 .. m
    BY <1>3, <1>7, <1>8
  <2>2. CASE i = 1
    BY <1>5, <1>6, <2>1, <2>2
  <2>3. CASE i # 1
    <3>1. n + i - 1 \in DOMAIN cs /\ n + j - 1 \in DOMAIN cs
      BY <1>4, <2>1, <2>3
    <3>2. cs[n + i - 1].at <= cs[n + j - 1].at
      BY <1>2, <1>8, <2>1, <3>1 DEF List, Sorted
    <3> QED
      BY <1>5, <2>1, <2>3, <3>2
  <2> QED
    BY <2>2, <2>3
<1>9. List(ds)
  BY <1>7, <1>8 DEF List, Sorted
<1>10. ASSUME NEW t \in Nat
       PROVE  /\ Sum(ds, UpTo(ds, t)) \in Int
              /\ Sum(cs, UpTo(cs, 0)) + Sum(ds, UpTo(ds, t)) = start.delta + Sum(cs, UpTo(cs, t))
  <2> DEFINE S == UpTo(cs, t) \ UpTo(cs, 0)
             h == [i \in DOMAIN cs |-> i - n + 1]
             H == {h[i] : i \in S}
  <2>1. /\ UpTo(cs, t) \subseteq DOMAIN cs /\ IsFiniteSet(UpTo(cs, t)) /\ S \subseteq DOMAIN cs
        /\ IsFiniteSet(S) /\ Sum(cs, S) \in Int /\ Sum(cs, UpTo(cs, 0)) \in Int
    BY ListTypes DEF UpTo
  <2>2. UpTo(cs, 0) \subseteq UpTo(cs, t)
    BY <1>1 DEF UpTo
  <2>3. Sum(cs, UpTo(cs, t)) = Sum(cs, UpTo(cs, 0)) + Sum(cs, S)
    BY <1>1, <2>1, <2>2, SumPart DEF Sum
  <2>4. \A i \in S : i > n /\ h[i] \in 2 .. m /\ ds[h[i]] = cs[i]
    <3> SUFFICES ASSUME NEW i \in S PROVE i > n /\ h[i] \in 2 .. m /\ ds[h[i]] = cs[i]
      OBVIOUS
    <3>1. i \in DOMAIN cs /\ i > n
      BY <1>1, <1>2, <2>1
    <3>2. i - n + 1 \in 2 .. m
      BY <1>1, <1>2, <3>1 DEF m
    <3>3. ds[i - n + 1] = cs[n + (i - n + 1) - 1]
      BY <1>5, <3>2
    <3>4. n + (i - n + 1) - 1 = i
      BY <1>1, <1>2, <3>1
    <3> QED
      BY <3>1, <3>2, <3>3, <3>4
  <2>40. \A x \in 2 .. m : x \in DOMAIN ds /\ x # 1
    BY <1>3, <1>7
  <2>5. \A i \in DOMAIN ds : Deltas(ds)[i] = ds[i].delta
    BY <1>9, ListTypes
  <2>6. UpTo(ds, t) = H \cup {1} /\ 1 \notin H
    <3>1. ASSUME NEW i \in UpTo(ds, t), i # 1 PROVE i \in H
      <4>1. i \in 1 .. m /\ ds[i].at <= t /\ ds[i].at > 0
        BY <1>6, <1>7, <3>1 DEF UpTo
      <4>2. n + i - 1 \in S
        BY <1>1, <1>4, <1>5, <3>1, <4>1 DEF UpTo
      <4>3. h[n + i - 1] = i
        BY <1>2, <1>4, <3>1, <4>1
      <4> QED
        BY <4>2, <4>3
    <3>2. ASSUME NEW i \in S PROVE h[i] \in UpTo(ds, t) /\ h[i] # 1
      <4>1. h[i] \in DOMAIN ds /\ h[i] # 1
        BY <1>3, <1>7, <2>4, <2>40
      <4> QED
        BY <2>4, <4>1 DEF UpTo
    <3>3. 1 \in UpTo(ds, t)
      BY <1>3, <1>5, <1>7 DEF UpTo
    <3> QED
      BY <3>1, <3>2, <3>3
  <2>7. \A i \in S : Deltas(cs)[i] \in Int /\ Deltas(ds)[h[i]] = Deltas(cs)[i]
    <3> SUFFICES ASSUME NEW i \in S
                 PROVE  Deltas(cs)[i] \in Int /\ Deltas(ds)[h[i]] = Deltas(cs)[i]
      OBVIOUS
    <3>1. h[i] \in DOMAIN ds
      BY <2>4, <2>40
    <3> QED
      BY <1>1, <2>1, <2>4, <2>5, <3>1
  <2>8. \A i, j \in S : h[i] = h[j] => i = j
    BY <1>1, <1>2, <2>1
  <2> HIDE DEF h, S
  <2>9. IsFiniteSet(H) /\ Sum(ds, H) = Sum(cs, S)
    <3>1. /\ IsFiniteSet({h[x] : x \in S})
          /\ SumFunctionOnSet(Deltas(ds), {h[x] : x \in S}) = SumFunctionOnSet(Deltas(cs), S)
      BY <2>1, <2>7, <2>8, SumImage
    <3> QED
      BY <3>1 DEF Sum
  <2>10. Deltas(ds)[1] = start.delta
    BY <1>3, <1>5, <1>7, <2>5
  <2>11. \A i \in H : Deltas(ds)[i] \in Int
    BY <2>7
  <2> HIDE DEF H
  <2>12. Sum(ds, UpTo(ds, t)) = start.delta + Sum(ds, H)
    BY <1>1, <2>6, <2>9, <2>10, <2>11, SumAdd DEF Sum
  <2> QED
    BY <1>1, <2>1, <2>3, <2>9, <2>12
<1>11. /\ 1 \in DOMAIN ds
       /\ \A i \in DOMAIN ds : i # 1 => ds[i].at > 0 /\ \E j \in DOMAIN cs : ds[i] = cs[j]
  BY <1>3, <1>4, <1>6, <1>7
<1> QED
  BY <1>5, <1>9, <1>10, <1>11

\* A unit of time later: the same changes, each a unit nearer or longer ago.
LEMMA Shifted ==
  ASSUME NEW cs, List(cs), \A i \in DOMAIN cs : cs[i].at \in -MaxDuration .. MaxDuration,
         NEW ds, ds = [i \in DOMAIN cs |->
                         [cs[i] EXCEPT !.at = IF @ = -MaxDuration THEN @ ELSE @ - 1]]
  PROVE  /\ List(ds) /\ DOMAIN ds = DOMAIN cs /\ Len(ds) = Len(cs)
         /\ \A i \in DOMAIN cs :
              /\ ds[i].at = IF cs[i].at = -MaxDuration THEN cs[i].at ELSE cs[i].at - 1
              /\ ds[i].at \in -MaxDuration .. MaxDuration
              /\ ds[i].delta = cs[i].delta
         /\ \A t \in Int : t >= -MaxDuration => UpTo(ds, t) = UpTo(cs, t + 1)
         /\ \A I \in SUBSET DOMAIN cs : Sum(ds, I) = Sum(cs, I)
<1>1. /\ Len(cs) \in Nat /\ DOMAIN cs = 1 .. Len(cs)
      /\ \A i \in DOMAIN cs : cs[i] \in Changes /\ cs[i].at \in Int /\ cs[i].delta \in Int
      /\ \A i \in DOMAIN cs : Deltas(cs)[i] = cs[i].delta /\ Deltas(cs)[i] \in Int
      /\ MaxDuration \in Nat
  BY ListTypes, PhyAssumption
<1>2. ASSUME NEW i \in DOMAIN cs
      PROVE  /\ ds[i] \in Changes
             /\ ds[i].at = IF cs[i].at = -MaxDuration THEN cs[i].at ELSE cs[i].at - 1
             /\ ds[i].at \in -MaxDuration .. MaxDuration
             /\ ds[i].delta = cs[i].delta
  <2>1. cs[i] = [at |-> cs[i].at, delta |-> cs[i].delta]
    BY <1>1 DEF Changes
  <2>2. ds[i] = [at |-> IF cs[i].at = -MaxDuration THEN cs[i].at ELSE cs[i].at - 1,
                 delta |-> cs[i].delta]
    BY <2>1
  <2>3. (IF cs[i].at = -MaxDuration THEN cs[i].at ELSE cs[i].at - 1) \in -MaxDuration .. MaxDuration
    BY <1>1
  <2> QED
    BY <1>1, <2>2, <2>3 DEF Changes
<1>3. ds \in Seq(Changes) /\ Len(ds) = Len(cs) /\ DOMAIN ds = DOMAIN cs
  <2>1. ds = [i \in 1 .. Len(cs) |-> ds[i]]
    BY <1>1
  <2>2. \A i \in 1 .. Len(cs) : ds[i] \in Changes
    BY <1>1, <1>2
  <2>3. ds \in Seq(Changes) /\ Len(ds) = Len(cs) /\ DOMAIN ds = 1 .. Len(cs)
    BY <1>1, <2>1, <2>2
  <2> QED
    BY <1>1, <2>3
<1>4. List(ds)
  <2>1. ASSUME NEW i \in DOMAIN ds, NEW j \in DOMAIN ds, i < j PROVE ds[i].at <= ds[j].at
    <3>1. cs[i].at <= cs[j].at /\ cs[i].at >= -MaxDuration /\ cs[j].at >= -MaxDuration
          /\ cs[i].at \in Int /\ cs[j].at \in Int
      BY <1>1, <1>3, <2>1 DEF List, Sorted
    <3>2. /\ ds[i].at = IF cs[i].at = -MaxDuration THEN cs[i].at ELSE cs[i].at - 1
          /\ ds[j].at = IF cs[j].at = -MaxDuration THEN cs[j].at ELSE cs[j].at - 1
      BY <1>2, <1>3
    <3> QED
      BY <1>1, <3>1, <3>2
  <2> QED
    BY <1>3, <2>1 DEF List, Sorted
<1>5. ASSUME NEW t \in Int, t >= -MaxDuration PROVE UpTo(ds, t) = UpTo(cs, t + 1)
  <2>1. ASSUME NEW i \in DOMAIN cs PROVE ds[i].at <= t <=> cs[i].at <= t + 1
    BY <1>1, <1>2, <1>5
  <2> QED
    BY <1>3, <2>1 DEF UpTo
<1>6. ASSUME NEW I \in SUBSET DOMAIN cs PROVE Sum(ds, I) = Sum(cs, I)
  <2>1. \A i \in I : Deltas(cs)[i] \in Int /\ Deltas(ds)[i] = Deltas(cs)[i]
    BY <1>1, <1>2, <1>3, <1>4, ListTypes
  <2>2. IsFiniteSet(I)
    BY ListTypes
  <2> QED
    BY <2>1, <2>2, SumSame DEF Sum
<1> QED
  BY <1>2, <1>3, <1>4, <1>5, <1>6

-----------------------------------------------------------------------------
(* The power of a set of signals.                                          *)

LEMMA StrengthOf ==
  ASSUME NEW s \in Signals
  PROVE  Strength[s] = s.power /\ s.power \in Nat /\ s.power > 0
<1>1. s.power \in Powers
  BY DEF Signals
<1>2. \A p \in Powers : p \in Nat /\ p > 0
  BY PhyAssumption
<1>3. Strength[s] = s.power
  BY DEF Strength
<1> QED
  BY <1>1, <1>2, <1>3

LEMMA PowerTypes ==
  ASSUME NEW S, S \subseteq Signals, IsFiniteSet(S)
  PROVE  /\ Power(S) \in Nat
         /\ \A s \in S : Strength[s] = s.power /\ Strength[s] \in Nat
<1>1. \A s \in S : Strength[s] = s.power /\ Strength[s] \in Nat
  BY StrengthOf
<1>2. Power(S) \in Nat
  BY <1>1, SumNat DEF Power
<1> QED
  BY <1>1, <1>2

LEMMA PowerAdd ==
  ASSUME NEW S, S \subseteq Signals, IsFiniteSet(S), NEW s \in Signals, s \notin S
  PROVE  IsFiniteSet(S \cup {s}) /\ Power(S \cup {s}) = Power(S) + s.power
<1>1. \A x \in S : Strength[x] \in Int
  BY PowerTypes
<1>2. Strength[s] = s.power /\ s.power \in Int
  BY StrengthOf
<1>3. Power(S \cup {s}) = s.power + Power(S)
  BY <1>1, <1>2, SumAdd DEF Power
<1>4. Power(S) \in Int
  BY PowerTypes
<1> QED
  BY <1>2, <1>3, <1>4, FS_AddElement

LEMMA PowerRemove ==
  ASSUME NEW S, S \subseteq Signals, IsFiniteSet(S), NEW s \in S
  PROVE  Power(S) = s.power + Power(S \ {s}) /\ Power(S \ {s}) \in Nat
<1>1. \A x \in S : Strength[x] \in Int
  BY PowerTypes
<1>2. Strength[s] = s.power
  BY PowerTypes
<1>3. Power(S) = s.power + Power(S \ {s})
  BY <1>1, <1>2, SumRemove DEF Power
<1>4. IsFiniteSet(S \ {s})
  BY FS_Subset
<1> QED
  BY <1>3, <1>4, PowerTypes

LEMMA PowerGrows ==
  ASSUME NEW S, S \subseteq Signals, IsFiniteSet(S), NEW T, T \subseteq S
  PROVE  Power(T) <= Power(S) /\ Power(T) \in Nat /\ Power(S) \in Nat
<1>1. \A x \in S : Strength[x] \in Nat
  BY PowerTypes
<1>2. Power(T) <= Power(S)
  BY <1>1, SumGrows DEF Power
<1>3. IsFiniteSet(T)
  BY FS_Subset
<1> QED
  BY <1>2, <1>3, PowerTypes

LEMMA OlderSignal ==
  ASSUME NEW s \in Signals, s.left > 0
  PROVE  /\ Older(s) \in Signals /\ Older(s).left = s.left - 1 /\ Older(s).id = s.id
         /\ Older(s).power = s.power /\ Older(s).kind = s.kind
<1>1. s = [id |-> s.id, power |-> s.power, left |-> s.left, kind |-> s.kind]
  BY DEF Signals
<1>2. s.id \in 1 .. MaxSignals /\ s.power \in Powers /\ s.left - 1 \in Nat /\ s.kind \in Kinds
  BY DEF Signals
<1>3. Older(s) = [id |-> s.id, power |-> s.power, left |-> s.left - 1, kind |-> s.kind]
  BY <1>1 DEF Older
<1> QED
  BY <1>2, <1>3 DEF Signals

LEMMA OlderDiffer ==
  ASSUME NEW s \in Signals, NEW r \in Signals, s.left > 0, r.left > 0, Older(s) = Older(r)
  PROVE  s = r
<1>1. /\ s = [id |-> s.id, power |-> s.power, left |-> s.left, kind |-> s.kind]
      /\ r = [id |-> r.id, power |-> r.power, left |-> r.left, kind |-> r.kind]
      /\ s.left \in Nat /\ r.left \in Nat
  BY DEF Signals
<1>2. s.id = r.id /\ s.power = r.power /\ s.kind = r.kind /\ s.left - 1 = r.left - 1
  BY OlderSignal
<1>3. s.left = r.left
  BY <1>1, <1>2
<1> QED
  BY <1>1, <1>2, <1>3, Zenon

LEMMA PowerOlder ==
  ASSUME NEW S, S \subseteq Signals, IsFiniteSet(S), \A s \in S : s.left > 0
  PROVE  IsFiniteSet({Older(s) : s \in S}) /\ Power({Older(s) : s \in S}) = Power(S)
<1> DEFINE h == [s \in S |-> Older(s)]
<1>0. IsFiniteSet(S)
  OBVIOUS
<1>1. \A x \in S : Strength[x] \in Int /\ Strength[h[x]] = Strength[x]
  <2> SUFFICES ASSUME NEW s \in S PROVE Strength[s] \in Int /\ Strength[h[s]] = Strength[s]
    OBVIOUS
  <2>1. Older(s) \in Signals /\ Older(s).power = s.power
    BY OlderSignal
  <2>2. Strength[Older(s)] = s.power
    BY <2>1 DEF Strength
  <2> QED
    BY <2>2, PowerTypes
<1>2. \A x, y \in S : h[x] = h[y] => x = y
  BY OlderDiffer
<1>3. {h[x] : x \in S} = {Older(s) : s \in S}
  OBVIOUS
<1> HIDE DEF h
<1>4. IsFiniteSet({h[x] : x \in S})
  BY FiniteImage
<1>5. SumFunctionOnSet(Strength, {h[x] : x \in S}) = SumFunctionOnSet(Strength, S)
  BY <1>0, <1>1, <1>2, SumImage
<1> QED
  BY <1>3, <1>4, <1>5 DEF Power

-----------------------------------------------------------------------------
(* The energy duration.                                                    *)

LEMMA MinOf ==
  ASSUME NEW S, S \subseteq Int, IsFiniteSet(S), S # {}
  PROVE  Min(S) \in S /\ \A y \in S : Min(S) <= y
<1> DEFINE f == [x \in S |-> -x]
<1>1. \A x \in S : f[x] = -x /\ f[x] \in Int /\ x \in Int
  OBVIOUS
<1> HIDE DEF f
<1>2. PICK x \in S : \A y \in S : f[y] <= f[x]
  BY <1>1, Greatest
<1>3. \A y \in S : x <= y
  BY <1>1, <1>2
<1> QED
  BY <1>3 DEF Min

LEMMA MaxOf ==
  ASSUME NEW S, S \subseteq Int, IsFiniteSet(S), S # {}
  PROVE  Max(S) \in S /\ \A y \in S : y <= Max(S)
<1> DEFINE f == [x \in S |-> x]
<1>1. \A x \in S : f[x] = x /\ f[x] \in Int
  OBVIOUS
<1> HIDE DEF f
<1>2. PICK x \in S : \A y \in S : f[y] <= f[x]
  BY <1>1, Greatest
<1>3. \A y \in S : y <= x
  BY <1>1, <1>2
<1> QED
  BY <1>3 DEF Max

\* A later instant finds fewer signals on air.
LEMMA LaterIsQuieter ==
  ASSUME NEW ar, ar \subseteq Signals, IsFiniteSet(ar), NEW t \in Nat, NEW u \in Nat, t <= u
  PROVE  /\ Power(After(ar, u)) <= Power(After(ar, t))
         /\ Power(After(ar, u)) \in Nat /\ Power(After(ar, t)) \in Nat
<1>1. \A s \in ar : s.left \in Nat
  BY DEF Signals
<1>2. After(ar, u) \subseteq After(ar, t)
  BY <1>1 DEF After
<1>3. After(ar, t) \subseteq Signals /\ IsFiniteSet(After(ar, t))
  BY FS_Subset DEF After
<1> QED
  BY <1>2, <1>3, PowerGrows

\* A list that sums to the air, sorted, with nothing but ends ahead: it tells how
\* long the power stays at or above the threshold.  Within an instant it tells so
\* only if no change at that instant finds the power below by itself.
LEMMA Energy ==
  ASSUME NEW cs, List(cs), NEW first \in Nat,
         NEW ar, ar \subseteq Signals, IsFiniteSet(ar), \A s \in ar : s.left <= MaxDuration,
         \A i \in DOMAIN cs : cs[i].at <= MaxDuration /\ (cs[i].at > 0 => cs[i].delta < 0),
         \A t \in Nat : first + Sum(cs, UpTo(cs, t)) = Power(After(ar, t)),
         NEW now \in DOMAIN cs, cs[now].at = 0,
         NEW D, D = GetEnergyDuration(first, cs)
  PROVE  /\ D \in 0 .. MaxDuration
         /\ \A t \in Nat : t < D => Power(After(ar, t)) >= CcaThreshold
         /\ D > 0 => \A t \in Nat : t >= D => Power(After(ar, t)) < CcaThreshold
         /\ D = 0 /\ (\A i \in DOMAIN cs : cs[i].at = 0 =>
                        Level(first, cs, i) >= CcaThreshold \/ 1 .. i = UpTo(cs, 0))
              => \A t \in Nat : Power(After(ar, t)) < CcaThreshold
<1> DEFINE low == {i \in DOMAIN cs : cs[i].at >= 0 /\ Level(first, cs, i) < CcaThreshold}
           m == Min(low \cup {Len(cs)})
<1>1. /\ Len(cs) \in Nat /\ DOMAIN cs = 1 .. Len(cs)
      /\ \A i \in DOMAIN cs : cs[i].at \in Int /\ cs[i].delta \in Int
      /\ MaxDuration \in Nat /\ CcaThreshold \in Nat /\ CcaThreshold > 0
  BY ListTypes, PhyAssumption
<1>2. \A i, j \in DOMAIN cs : i <= j => cs[i].at <= cs[j].at
  BY <1>1 DEF List, Sorted
<1>3. \A i \in DOMAIN cs : Level(first, cs, i) \in Int
  <2> SUFFICES ASSUME NEW i \in DOMAIN cs PROVE Level(first, cs, i) \in Int
    OBVIOUS
  <2>1. 1 .. i \subseteq DOMAIN cs
    BY <1>1
  <2>2. Sum(cs, 1 .. i) \in Int
    BY <2>1, ListTypes
  <2> QED
    BY <2>2 DEF Level
<1>4. ASSUME NEW i \in DOMAIN cs, NEW t \in Nat, 1 .. i = UpTo(cs, t)
      PROVE  Level(first, cs, i) = Power(After(ar, t))
  BY <1>4 DEF Level
<1>5. Len(cs) \in low
  <2>1. Len(cs) \in DOMAIN cs /\ cs[Len(cs)].at >= 0
    BY <1>1, <1>2
  <2>2. 1 .. Len(cs) = UpTo(cs, MaxDuration)
    BY <1>1 DEF UpTo
  <2>3. After(ar, MaxDuration) = {}
    <3>1. \A s \in ar : s.left \in Nat /\ ~(s.left > MaxDuration)
      BY <1>1 DEF Signals
    <3> QED
      BY <3>1 DEF After
  <2>4. Power({}) = 0
    BY SumEmpty DEF Power
  <2>5. Level(first, cs, Len(cs)) = 0
    BY <1>1, <1>4, <2>1, <2>2, <2>3, <2>4
  <2> QED
    BY <1>1, <2>1, <2>5
<1>6. m \in low /\ (\A i \in low : m <= i) /\ m \in DOMAIN cs /\ m \in Int
  <2>1. low \subseteq DOMAIN cs /\ low \cup {Len(cs)} = low
    BY <1>5
  <2>2. IsFiniteSet(low) /\ low \subseteq Int
    BY <1>1, <2>1, ListTypes, FS_Subset
  <2> HIDE DEF low
  <2>3. Min(low) \in low /\ \A i \in low : Min(low) <= i
    BY <1>5, <2>2, MinOf
  <2> QED
    BY <2>1, <2>2, <2>3
<1>7. D = cs[m].at /\ D \in 0 .. MaxDuration /\ Level(first, cs, m) < CcaThreshold
  <2>1. cs[m].at >= 0 /\ cs[m].at \in Int /\ Level(first, cs, m) < CcaThreshold
    BY <1>1, <1>6
  <2>2. cs # <<>>
    BY <1>1
  <2>3. D = IF cs[m].at > 0 THEN cs[m].at ELSE 0
    BY <2>2 DEF GetEnergyDuration
  <2> HIDE DEF m
  <2> QED
    BY <1>1, <1>6, <2>1, <2>3
<1> HIDE DEF m
<1>8. ASSUME NEW t \in Nat, t < D PROVE Power(After(ar, t)) >= CcaThreshold
  <2> DEFINE n == GetPosition(cs, t)
  <2>1. /\ n \in 0 .. Len(cs) /\ (\A i \in DOMAIN cs : i <= n <=> cs[i].at <= t)
        /\ UpTo(cs, t) = 1 .. n
    BY Position
  <2> HIDE DEF n
  <2>2. now <= n /\ n \in DOMAIN cs /\ n < m
    BY <1>1, <1>6, <1>7, <1>8, <2>1
  <2>3. cs[n].at >= 0
    BY <1>1, <1>2, <2>2
  <2>4. n \notin low
    BY <1>6, <2>1, <2>2
  <2>5. Level(first, cs, n) >= CcaThreshold
    BY <1>1, <1>3, <2>2, <2>3, <2>4
  <2> QED
    BY <1>4, <2>1, <2>2, <2>5
<1>9. ASSUME D > 0, NEW t \in Nat, t >= D PROVE Power(After(ar, t)) < CcaThreshold
  <2> DEFINE n == GetPosition(cs, D)
             R == UpTo(cs, D) \ (1 .. m)
  <2>1. /\ n \in 0 .. Len(cs) /\ (\A i \in DOMAIN cs : i <= n <=> cs[i].at <= D)
        /\ UpTo(cs, D) = 1 .. n
    <3>1. D \in Int
      BY <1>7
    <3> QED
      BY <3>1, Position
  <2> HIDE DEF n
  <2>2. m <= n /\ 1 .. m \subseteq UpTo(cs, D)
    BY <1>1, <1>6, <1>7, <2>1
  <2>3. \A i \in R : Deltas(cs)[i] \in Int /\ Deltas(cs)[i] <= 0
    <3> SUFFICES ASSUME NEW i \in R PROVE Deltas(cs)[i] \in Int /\ Deltas(cs)[i] <= 0
      OBVIOUS
    <3>1. i \in DOMAIN cs /\ m <= i
      BY <1>1, <1>6, <2>1
    <3>2. cs[i].at > 0
      BY <1>1, <1>2, <1>6, <1>7, <1>9, <3>1
    <3>3. cs[i].delta \in Int /\ cs[i].delta < 0
      BY <1>1, <3>1, <3>2
    <3> QED
      BY <3>1, <3>3, ListTypes
  <2>4. /\ UpTo(cs, D) \subseteq DOMAIN cs /\ IsFiniteSet(UpTo(cs, D)) /\ IsFiniteSet(R)
        /\ Sum(cs, UpTo(cs, D)) \in Int /\ Sum(cs, 1 .. m) \in Int
    BY <2>2, ListTypes DEF UpTo
  <2>5. Sum(cs, R) \in Int /\ Sum(cs, R) <= 0
    <3> HIDE DEF R
    <3> QED
      BY <2>3, <2>4, SumNotPositive DEF Sum
  <2>6. Sum(cs, UpTo(cs, D)) = Sum(cs, 1 .. m) + Sum(cs, R)
    <3>1. \A i \in UpTo(cs, D) : Deltas(cs)[i] \in Int
      BY <2>4, ListTypes
    <3> QED
      BY <2>2, <2>4, <3>1, SumPart DEF Sum
  <2>7. Power(After(ar, D)) < CcaThreshold
    <3>1. D \in Nat
      BY <1>7
    <3>2. first + Sum(cs, UpTo(cs, D)) = Power(After(ar, D))
      BY <3>1
    <3>3. first + Sum(cs, 1 .. m) < CcaThreshold
      BY <1>7 DEF Level
    <3> QED
      BY <1>1, <2>4, <2>5, <2>6, <3>2, <3>3
  <2>8. D \in Nat
    BY <1>7
  <2> QED
    BY <1>1, <1>9, <2>7, <2>8, LaterIsQuieter
<1>10. ASSUME D = 0, \A i \in DOMAIN cs : cs[i].at = 0 =>
                        Level(first, cs, i) >= CcaThreshold \/ 1 .. i = UpTo(cs, 0),
              NEW t \in Nat
       PROVE  Power(After(ar, t)) < CcaThreshold
  <2>1. 1 .. m = UpTo(cs, 0)
    <3>1. cs[m].at = 0 /\ m \in DOMAIN cs
      BY <1>6, <1>7, <1>10
    <3>2. Level(first, cs, m) >= CcaThreshold \/ 1 .. m = UpTo(cs, 0)
      BY <1>10, <3>1
    <3>3. Level(first, cs, m) \in Int /\ Level(first, cs, m) < CcaThreshold
      BY <1>3, <1>6, <1>7
    <3> QED
      BY <1>1, <3>2, <3>3
  <2>2. Power(After(ar, 0)) < CcaThreshold
    BY <1>4, <1>6, <1>7, <2>1
  <2> QED
    BY <1>1, <2>2, LaterIsQuieter
<1> HIDE DEF low
<1> QED
  BY <1>7, <1>8, <1>9, <1>10

-----------------------------------------------------------------------------
(* What a signal that begins does to the list.                             *)

\* Within the bounds, and with nothing but ends ahead.
Bounded(cs) == \A i \in DOMAIN cs : /\ cs[i].at \in -MaxDuration .. MaxDuration
                                    /\ cs[i].at > 0 => cs[i].delta < 0
\* Signals that still last.
Air(ar) == ar \subseteq Signals /\ IsFiniteSet(ar) /\ \A s \in ar : s.left \in 1 .. MaxDuration
\* The list sums to the air, at any instant from now on.
Balanced(first, cs, ar) ==
  \A t \in Nat : first + Sum(cs, UpTo(cs, t)) = Power(After(ar, t))
\* No change of this instant finds less than q.
Floor(first, cs, q) == \A i \in DOMAIN cs : cs[i].at = 0 => Level(first, cs, i) >= q

\* The two changes of a signal.
StartOf(s) == [at |-> 0, delta |-> s.power]
EndOf(s)   == [at |-> s.left, delta |-> -s.power]

LEMMA ChangesOf ==
  ASSUME NEW s \in Signals
  PROVE  /\ StartOf(s) \in Changes /\ StartOf(s).at = 0 /\ StartOf(s).delta = s.power
         /\ EndOf(s) \in Changes /\ EndOf(s).at = s.left /\ EndOf(s).delta = -s.power
         /\ s.power \in Nat /\ s.power > 0 /\ s.left \in Nat
<1>1. s.power \in Nat /\ s.power > 0 /\ s.left \in Nat
  BY StrengthOf DEF Signals
<1> QED
  BY <1>1 DEF StartOf, EndOf, Changes

LEMMA AfterTypes ==
  ASSUME NEW ar, Air(ar), NEW t \in Nat
  PROVE  After(ar, t) \subseteq Signals /\ IsFiniteSet(After(ar, t)) /\ Power(After(ar, t)) \in Nat
<1>1. After(ar, t) \subseteq Signals /\ IsFiniteSet(After(ar, t))
  BY FS_Subset DEF Air, After
<1> QED
  BY <1>1, PowerTypes

LEMMA AfterAdd ==
  ASSUME NEW ar, Air(ar), NEW s \in Signals, s \notin ar, NEW t \in Nat
  PROVE  Power(After(ar \cup {s}, t)) = Power(After(ar, t)) + (IF s.left > t THEN s.power ELSE 0)
<1>1. After(ar, t) \subseteq Signals /\ IsFiniteSet(After(ar, t)) /\ s \notin After(ar, t)
      /\ Power(After(ar, t)) \in Nat
  BY AfterTypes DEF After
<1>2. CASE s.left > t
  <2>1. After(ar \cup {s}, t) = After(ar, t) \cup {s}
    BY <1>2 DEF After
  <2> QED
    BY <1>1, <1>2, <2>1, PowerAdd
<1>3. CASE ~(s.left > t)
  <2>1. After(ar \cup {s}, t) = After(ar, t)
    BY <1>3 DEF After
  <2> QED
    BY <1>1, <1>3, <2>1
<1> QED
  BY <1>2, <1>3

LEMMA AirAdd ==
  ASSUME NEW ar, Air(ar), NEW s \in Signals, s.left \in 1 .. MaxDuration
  PROVE  Air(ar \cup {s})
BY FS_AddElement DEF Air

LEMMA UpToTypes ==
  ASSUME NEW cs, List(cs), NEW t
  PROVE  UpTo(cs, t) \subseteq DOMAIN cs /\ IsFiniteSet(UpTo(cs, t)) /\ Sum(cs, UpTo(cs, t)) \in Int
BY ListTypes DEF UpTo

LEMMA InsertedBounded ==
  ASSUME NEW cs, List(cs), Bounded(cs), NEW c \in Changes,
         c.at \in -MaxDuration .. MaxDuration, c.at > 0 => c.delta < 0
  PROVE  Bounded(AddNiChangeEvent(cs, c))
<1> DEFINE ds == AddNiChangeEvent(cs, c)
<1>1. \A i \in DOMAIN ds : ds[i] = c \/ \E j \in DOMAIN cs : ds[i] = cs[j]
  BY Inserted
<1> HIDE DEF ds
<1>2. Bounded(ds)
  BY <1>1 DEF Bounded
<1> QED
  BY <1>2 DEF ds

LEMMA InsertedFirst ==
  ASSUME NEW cs, List(cs), 1 \in DOMAIN cs, NEW c \in Changes, cs[1].at <= c.at
  PROVE  /\ 1 \in DOMAIN AddNiChangeEvent(cs, c)
         /\ AddNiChangeEvent(cs, c)[1] = cs[1]
         /\ c.at > 0 /\ (\A i \in DOMAIN cs : i # 1 => cs[i].at > 0)
              => \A i \in DOMAIN AddNiChangeEvent(cs, c) :
                   i # 1 => AddNiChangeEvent(cs, c)[i].at > 0
<1> DEFINE ds == AddNiChangeEvent(cs, c)
           n  == GetPosition(cs, c.at)
<1>1. Len(cs) \in Nat /\ DOMAIN cs = 1 .. Len(cs)
  BY ListTypes
<1>2. List(ds) /\ Len(ds) = Len(cs) + 1 /\ n \in 0 .. Len(cs)
  BY Inserted
<1>3. \A i \in DOMAIN cs : i <= n <=> cs[i].at <= c.at
  BY Inserted
<1>4. \A i \in 1 .. n : ds[i] = cs[i]
  BY Inserted
<1>5. ds[n + 1] = c
  BY Inserted
<1>6. \A i \in n + 1 .. Len(cs) : ds[i + 1] = cs[i]
  BY Inserted
<1>7. DOMAIN ds = 1 .. Len(cs) + 1
  BY <1>2, ListTypes
<1> HIDE DEF ds, n
<1>8. 1 \in 1 .. n /\ 1 \in DOMAIN ds
  BY <1>1, <1>2, <1>3, <1>7
<1>9. ASSUME c.at > 0, \A i \in DOMAIN cs : i # 1 => cs[i].at > 0, NEW i \in DOMAIN ds, i # 1
      PROVE  ds[i].at > 0
  <2>1. CASE i <= n
    <3>1. i \in 1 .. n /\ i \in DOMAIN cs
      BY <1>1, <1>2, <1>7, <2>1
    <3> QED
      BY <1>4, <1>9, <3>1
  <2>2. CASE i = n + 1
    BY <1>5, <1>9, <2>2
  <2>3. CASE i > n + 1
    <3>1. i - 1 \in n + 1 .. Len(cs) /\ i - 1 \in DOMAIN cs /\ i - 1 # 1
      BY <1>1, <1>2, <1>7, <1>8, <2>3
    <3>2. ds[(i - 1) + 1] = cs[i - 1] /\ (i - 1) + 1 = i
      BY <1>1, <1>6, <1>7, <3>1
    <3> QED
      BY <1>9, <3>1, <3>2
  <2> QED
    BY <1>1, <1>2, <1>7, <2>1, <2>2, <2>3
<1>10. ds[1] = cs[1]
  BY <1>4, <1>8
<1> QED
  BY <1>8, <1>9, <1>10 DEF ds

LEMMA InsertedFloor ==
  ASSUME NEW cs, List(cs), NEW c \in Changes, c.at >= 0, NEW first \in Int, NEW q \in Int,
         Floor(first, cs, q),
         c.at = 0 => first + Sum(cs, UpTo(cs, 0)) + c.delta >= q
  PROVE  Floor(first, AddNiChangeEvent(cs, c), q)
<1> DEFINE ds == AddNiChangeEvent(cs, c)
           n  == GetPosition(cs, c.at)
<1>1. /\ Len(cs) \in Nat /\ DOMAIN cs = 1 .. Len(cs) /\ c.at \in Int /\ c.delta \in Int
      /\ \A i \in DOMAIN cs : cs[i].at \in Int
  BY ListTypes DEF Changes
<1>2. List(ds) /\ Len(ds) = Len(cs) + 1 /\ n \in 0 .. Len(cs)
  BY Inserted
<1>3. \A i \in DOMAIN cs : i <= n <=> cs[i].at <= c.at
  BY Inserted
<1>4. \A i \in 1 .. n : ds[i] = cs[i]
  BY Inserted
<1>5. ds[n + 1] = c
  BY Inserted
<1>6. \A i \in n + 1 .. Len(cs) : ds[i + 1] = cs[i]
  BY Inserted
<1>7. \A k \in Nat : k <= n => Sum(ds, 1 .. k) = Sum(cs, 1 .. k)
  BY InsertedBefore
<1>8. Sum(ds, UpTo(ds, 0)) = Sum(cs, UpTo(cs, 0)) + (IF c.at <= 0 THEN c.delta ELSE 0)
  BY InsertedSum
<1>9. DOMAIN ds = 1 .. Len(cs) + 1 /\ \A i \in DOMAIN ds : ds[i].at \in Int
  BY <1>2, ListTypes
<1> HIDE DEF ds, n
<1> SUFFICES ASSUME NEW i \in DOMAIN ds, ds[i].at = 0
             PROVE  Level(first, ds, i) >= q
  BY DEF Floor, ds
<1>10. CASE i <= n
  <2>1. i \in DOMAIN cs /\ i \in 1 .. n /\ i \in Nat
    BY <1>1, <1>2, <1>9, <1>10
  <2>2. cs[i].at = 0 /\ Sum(ds, 1 .. i) = Sum(cs, 1 .. i)
    BY <1>4, <1>7, <1>10, <2>1
  <2> QED
    BY <2>1, <2>2 DEF Floor, Level
<1>11. CASE i = n + 1
  <2>1. c.at = 0
    BY <1>5, <1>11
  <2>2. 1 .. i = UpTo(ds, 0)
    <3>1. ASSUME NEW j \in DOMAIN ds, j <= i PROVE ds[j].at <= 0
      BY <1>2, <1>9, <3>1 DEF List, Sorted
    <3>2. ASSUME NEW j \in DOMAIN ds, j > i PROVE ~(ds[j].at <= 0)
      <4>1. j - 1 \in n + 1 .. Len(cs) /\ j - 1 \in DOMAIN cs /\ ~(j - 1 <= n)
        BY <1>1, <1>2, <1>9, <1>11, <3>2
      <4>2. ds[(j - 1) + 1] = cs[j - 1]
        BY <1>6, <4>1
      <4>3. (j - 1) + 1 = j
        BY <1>9
      <4>4. ~(cs[j - 1].at <= 0)
        BY <1>3, <2>1, <4>1
      <4> QED
        BY <4>2, <4>3, <4>4
    <3>3. \A j : j \in 1 .. i <=> j \in DOMAIN ds /\ j <= i
      BY <1>1, <1>2, <1>9, <1>11
    <3>4. \A j \in DOMAIN ds : j <= i \/ j > i
      BY <1>9
    <3> QED
      BY <3>1, <3>2, <3>3, <3>4 DEF UpTo
  <2>3. Sum(cs, UpTo(cs, 0)) \in Int
    BY UpToTypes
  <2> QED
    BY <1>1, <1>8, <2>1, <2>2, <2>3 DEF Level
<1>12. CASE i > n + 1
  <2>1. i - 1 \in n + 1 .. Len(cs) /\ i - 1 \in DOMAIN cs /\ ~(i - 1 <= n)
    BY <1>1, <1>2, <1>9, <1>12
  <2>2. ds[(i - 1) + 1] = cs[i - 1] /\ (i - 1) + 1 = i
    BY <1>6, <1>9, <2>1
  <2>3. ~(cs[i - 1].at <= c.at)
    BY <1>3, <2>1
  <2> QED
    BY <1>1, <2>1, <2>2, <2>3
<1> QED
  BY <1>2, <1>9, <1>10, <1>11, <1>12

\* The list and the first power when s begins and nothing was received.
Restarts(first, cs, ar, s) ==
  /\ List(cs) /\ Bounded(cs) /\ first \in Nat /\ Balanced(first, cs, ar \cup {s})
  /\ 1 \in DOMAIN cs /\ cs[1] = StartOf(s)
  /\ \A i \in DOMAIN cs : cs[i].at = 0 => 1 .. i = UpTo(cs, 0)
  /\ Floor(first, cs, s.power)

\* Nothing is received: what is over is folded into the first power.
LEMMA AppendKept ==
  ASSUME NEW cs, List(cs), Bounded(cs), NEW first \in Nat, NEW ar, Air(ar),
         Balanced(first, cs, ar),
         NEW s \in Signals, s \notin ar, s.left \in 1 .. MaxDuration,
         NEW nf, nf = first + Sum(cs, 1 .. GetPosition(cs, 0)),
         NEW ds, ds = AddNiChangeEvent(Kept(cs, StartOf(s)), EndOf(s))
  PROVE  Restarts(nf, ds, ar, s)
<1> DEFINE ks == Kept(cs, StartOf(s))
<1>1. /\ StartOf(s) \in Changes /\ StartOf(s).at = 0 /\ StartOf(s).delta = s.power
      /\ EndOf(s) \in Changes /\ EndOf(s).at = s.left /\ EndOf(s).delta = -s.power
      /\ s.power \in Nat /\ s.power > 0 /\ s.left \in Nat /\ s.left > 0 /\ MaxDuration \in Nat
  BY ChangesOf, PhyAssumption
<1>2. List(ks) /\ 1 \in DOMAIN ks /\ ks[1] = StartOf(s)
  BY <1>1, Restarted
<1>3. \A i \in DOMAIN ks : i # 1 => ks[i].at > 0 /\ \E j \in DOMAIN cs : ks[i] = cs[j]
  BY <1>1, Restarted
<1>4. \A t \in Nat : /\ Sum(ks, UpTo(ks, t)) \in Int
                     /\ Sum(cs, UpTo(cs, 0)) + Sum(ks, UpTo(ks, t)) =
                          s.power + Sum(cs, UpTo(cs, t))
  <2>1. \A t \in Nat : /\ Sum(ks, UpTo(ks, t)) \in Int
                       /\ Sum(cs, UpTo(cs, 0)) + Sum(ks, UpTo(ks, t)) =
                            StartOf(s).delta + Sum(cs, UpTo(cs, t))
    BY <1>1, Restarted
  <2> QED
    BY <1>1, <2>1
<1>5. 0 \in Nat /\ UpTo(cs, 0) = 1 .. GetPosition(cs, 0) /\ Sum(cs, UpTo(cs, 0)) \in Int
  BY Position, UpToTypes
<1>6. nf = Power(After(ar, 0)) /\ nf \in Nat /\ nf = first + Sum(cs, UpTo(cs, 0))
  BY <1>5, AfterTypes DEF Balanced
<1> HIDE DEF ks
<1>7. Bounded(ks)
  <2> SUFFICES ASSUME NEW i \in DOMAIN ks
               PROVE  ks[i].at \in -MaxDuration .. MaxDuration /\ (ks[i].at > 0 => ks[i].delta < 0)
    BY DEF Bounded
  <2>1. CASE i = 1
    BY <1>1, <1>2, <2>1
  <2>2. CASE i # 1
    BY <1>3, <2>2 DEF Bounded
  <2> QED
    BY <2>1, <2>2
<1>8. ds = AddNiChangeEvent(ks, EndOf(s)) /\ List(ds)
  <2>1. ds = AddNiChangeEvent(ks, EndOf(s))
    BY DEF ks
  <2> QED
    BY <1>1, <1>2, <2>1, Inserted
<1>9. Bounded(ds)
  BY <1>1, <1>2, <1>7, <1>8, InsertedBounded
<1>10. ASSUME NEW t \in Nat
       PROVE  nf + Sum(ds, UpTo(ds, t)) = Power(After(ar \cup {s}, t))
  <2>1. Sum(ds, UpTo(ds, t)) = Sum(ks, UpTo(ks, t)) + (IF s.left <= t THEN -s.power ELSE 0)
    BY <1>1, <1>2, <1>8, InsertedSum
  <2>2. first + Sum(cs, UpTo(cs, t)) = Power(After(ar, t)) /\ Sum(cs, UpTo(cs, t)) \in Int
    BY UpToTypes DEF Balanced
  <2>3. nf + Sum(ks, UpTo(ks, t)) = Power(After(ar, t)) + s.power
    <3>1. Sum(ks, UpTo(ks, t)) \in Int
      BY <1>4
    <3>2. Sum(cs, UpTo(cs, 0)) + Sum(ks, UpTo(ks, t)) = s.power + Sum(cs, UpTo(cs, t))
      BY <1>4
    <3>3. Sum(cs, UpTo(cs, 0)) \in Int /\ nf = first + Sum(cs, UpTo(cs, 0))
      BY <1>5, <1>6
    <3>4. \A f, c, d, k, q \in Int : c + k = q + d => (f + c) + k = (f + d) + q
      OBVIOUS
    <3>5. nf + Sum(ks, UpTo(ks, t)) = (first + Sum(cs, UpTo(cs, t))) + s.power
      BY <1>1, <2>2, <3>1, <3>2, <3>3, <3>4
    <3> QED
      BY <2>2, <3>5
  <2>4. Power(After(ar \cup {s}, t)) = Power(After(ar, t)) + (IF s.left > t THEN s.power ELSE 0)
    BY AfterAdd
  <2>5. Power(After(ar, t)) \in Nat /\ Sum(ks, UpTo(ks, t)) \in Int
    BY <1>4, AfterTypes
  <2>6. s.left \in Nat /\ s.power \in Nat /\ nf \in Nat
    BY <1>1, <1>6
  <2>7. CASE s.left <= t
    <3>1. Sum(ds, UpTo(ds, t)) = Sum(ks, UpTo(ks, t)) + -s.power
      BY <2>1, <2>7
    <3>2. Power(After(ar \cup {s}, t)) = Power(After(ar, t)) + 0
      BY <2>4, <2>6, <2>7
    <3> QED
      BY <2>3, <2>5, <2>6, <3>1, <3>2
  <2>8. CASE ~(s.left <= t)
    <3>1. Sum(ds, UpTo(ds, t)) = Sum(ks, UpTo(ks, t)) + 0
      BY <2>1, <2>8
    <3>2. Power(After(ar \cup {s}, t)) = Power(After(ar, t)) + s.power
      BY <2>4, <2>6, <2>8
    <3> QED
      BY <2>3, <2>5, <2>6, <3>1, <3>2
  <2> QED
    BY <2>7, <2>8
<1>11. Floor(nf, ks, s.power)
  <2>1. \A i \in DOMAIN ks : ks[i].at = 0 => i = 1
    BY <1>3, <1>7 DEF Bounded
  <2>2. Level(nf, ks, 1) >= s.power
    <3>1. 1 .. 1 = UpTo(ks, 0)
      <4>1. 1 \in UpTo(ks, 0)
        BY <1>1, <1>2 DEF UpTo
      <4>2. \A i \in UpTo(ks, 0) : i = 1
        BY <1>3, <1>7 DEF UpTo, Bounded
      <4> QED
        BY <4>1, <4>2
    <3>2. Sum(ks, UpTo(ks, 0)) = s.power
      BY <1>1, <1>4, <1>5
    <3>3. Level(nf, ks, 1) = nf + s.power
      BY <3>1, <3>2 DEF Level
    <3> QED
      BY <1>1, <1>6, <3>3
  <2> QED
    BY <2>1, <2>2 DEF Floor
<1>12. Floor(nf, ds, s.power)
  BY <1>1, <1>2, <1>6, <1>8, <1>11, InsertedFloor
<1>13. 1 \in DOMAIN ds /\ ds[1] = StartOf(s) /\ \A i \in DOMAIN ds : i # 1 => ds[i].at > 0
  <2>1. /\ 1 \in DOMAIN AddNiChangeEvent(ks, EndOf(s))
        /\ AddNiChangeEvent(ks, EndOf(s))[1] = ks[1]
        /\ \A i \in DOMAIN AddNiChangeEvent(ks, EndOf(s)) :
             i # 1 => AddNiChangeEvent(ks, EndOf(s))[i].at > 0
    <3>1. ks[1].at <= EndOf(s).at /\ EndOf(s).at > 0
      BY <1>1, <1>2
    <3>2. \A i \in DOMAIN ks : i # 1 => ks[i].at > 0
      BY <1>3
    <3> QED
      BY <1>1, <1>2, <3>1, <3>2, InsertedFirst
  <2> QED
    BY <1>2, <1>8, <2>1
<1>14. ASSUME NEW i \in DOMAIN ds, ds[i].at = 0 PROVE 1 .. i = UpTo(ds, 0)
  <2>1. i = 1
    BY <1>13, <1>14
  <2>2. ds[1].at = 0
    BY <1>1, <1>13
  <2>3. \A j \in DOMAIN ds : ds[j].at \in Int
    BY <1>8, ListTypes
  <2>4. UpTo(ds, 0) = {1}
    BY <1>13, <2>2, <2>3 DEF UpTo
  <2> QED
    BY <2>1, <2>4
<1> QED
  BY <1>6, <1>8, <1>9, <1>10, <1>12, <1>13, <1>14 DEF Balanced, Restarts

LEMMA InsertedAll ==
  ASSUME NEW cs, List(cs), NEW c \in Changes
  PROVE  /\ \E j \in DOMAIN AddNiChangeEvent(cs, c) : AddNiChangeEvent(cs, c)[j] = c
         /\ \A i \in DOMAIN cs :
              \E j \in DOMAIN AddNiChangeEvent(cs, c) : AddNiChangeEvent(cs, c)[j] = cs[i]
<1> DEFINE ds == AddNiChangeEvent(cs, c)
           n  == GetPosition(cs, c.at)
<1>1. Len(cs) \in Nat /\ DOMAIN cs = 1 .. Len(cs)
  BY ListTypes
<1>2. List(ds) /\ Len(ds) = Len(cs) + 1 /\ n \in 0 .. Len(cs)
  BY Inserted
<1>3. \A i \in 1 .. n : ds[i] = cs[i]
  BY Inserted
<1>4. ds[n + 1] = c
  BY Inserted
<1>5. \A i \in n + 1 .. Len(cs) : ds[i + 1] = cs[i]
  BY Inserted
<1>6. DOMAIN ds = 1 .. Len(cs) + 1
  BY <1>2, ListTypes
<1> HIDE DEF ds, n
<1>7. \E j \in DOMAIN ds : ds[j] = c
  BY <1>1, <1>2, <1>4, <1>6
<1>8. ASSUME NEW i \in DOMAIN cs PROVE \E j \in DOMAIN ds : ds[j] = cs[i]
  <2>1. CASE i <= n
    BY <1>1, <1>2, <1>3, <1>6, <2>1
  <2>2. CASE i > n
    BY <1>1, <1>2, <1>5, <1>6, <2>2
  <2> QED
    BY <1>1, <1>2, <2>1, <2>2
<1> QED
  BY <1>7, <1>8 DEF ds

\* The list ds, of cs, when s begins and something is received.
Continues(first, cs, ds, ar, s) ==
  /\ List(ds) /\ Bounded(ds) /\ Balanced(first, ds, ar \cup {s})
  /\ \E now \in DOMAIN ds : ds[now].at = 0
  /\ \A q \in Int : Floor(first, cs, q) /\ Power(After(ar, 0)) + s.power >= q
                      => Floor(first, ds, q)
  /\ 1 \in DOMAIN cs /\ cs[1].at <= 0 => 1 \in DOMAIN ds /\ ds[1] = cs[1]
  /\ \A x \in Int : x < 0 => Sum(ds, UpTo(ds, x)) = Sum(cs, UpTo(cs, x))

\* Something is received: nothing is forgotten.
LEMMA AppendTwo ==
  ASSUME NEW cs, List(cs), Bounded(cs), NEW first \in Nat, NEW ar, Air(ar),
         Balanced(first, cs, ar),
         NEW s \in Signals, s \notin ar, s.left \in 1 .. MaxDuration,
         NEW ds, ds = AddNiChangeEvent(AddNiChangeEvent(cs, StartOf(s)), EndOf(s))
  PROVE  Continues(first, cs, ds, ar, s)
<1> DEFINE ks == AddNiChangeEvent(cs, StartOf(s))
<1>1. /\ StartOf(s) \in Changes /\ StartOf(s).at = 0 /\ StartOf(s).delta = s.power
      /\ EndOf(s) \in Changes /\ EndOf(s).at = s.left /\ EndOf(s).delta = -s.power
      /\ s.power \in Nat /\ s.power > 0 /\ s.left \in Nat /\ s.left > 0 /\ MaxDuration \in Nat
  BY ChangesOf, PhyAssumption
<1>2. List(ks)
  BY <1>1, Inserted
<1>3. Bounded(ks)
  BY <1>1, InsertedBounded
<1>4. \A t \in Int : Sum(ks, UpTo(ks, t)) = Sum(cs, UpTo(cs, t)) + (IF 0 <= t THEN s.power ELSE 0)
  <2> SUFFICES ASSUME NEW t \in Int
               PROVE  Sum(ks, UpTo(ks, t)) =
                        Sum(cs, UpTo(cs, t)) + (IF 0 <= t THEN s.power ELSE 0)
    OBVIOUS
  <2>1. Sum(ks, UpTo(ks, t)) =
          Sum(cs, UpTo(cs, t)) + (IF StartOf(s).at <= t THEN StartOf(s).delta ELSE 0)
    BY <1>1, InsertedSum
  <2> QED
    BY <1>1, <2>1
<1>5. \E j \in DOMAIN ks : ks[j] = StartOf(s)
  BY <1>1, InsertedAll
<1>6. \A q \in Int : Floor(first, cs, q) /\ Power(After(ar, 0)) + s.power >= q
                       => Floor(first, ks, q)
  <2> SUFFICES ASSUME NEW q \in Int, Floor(first, cs, q), Power(After(ar, 0)) + s.power >= q
               PROVE  Floor(first, ks, q)
    OBVIOUS
  <2>1. first + Sum(cs, UpTo(cs, 0)) = Power(After(ar, 0))
    BY DEF Balanced
  <2>2. first + Sum(cs, UpTo(cs, 0)) + StartOf(s).delta >= q
    BY <1>1, <2>1
  <2> QED
    BY <1>1, <2>2, InsertedFloor
<1>7. 1 \in DOMAIN cs /\ cs[1].at <= 0 => 1 \in DOMAIN ks /\ ks[1] = cs[1]
  BY <1>1, InsertedFirst
<1>8. ds = AddNiChangeEvent(ks, EndOf(s))
  OBVIOUS
<1> HIDE DEF ks
<1>9. List(ds)
  BY <1>1, <1>2, <1>8, Inserted
<1>10. Bounded(ds)
  BY <1>1, <1>2, <1>3, <1>8, InsertedBounded
<1>11. \A t \in Int : Sum(ds, UpTo(ds, t)) =
                        Sum(ks, UpTo(ks, t)) + (IF s.left <= t THEN -s.power ELSE 0)
  <2> SUFFICES ASSUME NEW t \in Int
               PROVE  Sum(ds, UpTo(ds, t)) =
                        Sum(ks, UpTo(ks, t)) + (IF s.left <= t THEN -s.power ELSE 0)
    OBVIOUS
  <2>1. Sum(ds, UpTo(ds, t)) =
          Sum(ks, UpTo(ks, t)) + (IF EndOf(s).at <= t THEN EndOf(s).delta ELSE 0)
    BY <1>1, <1>2, <1>8, InsertedSum
  <2> QED
    BY <1>1, <2>1
<1>12. ASSUME NEW t \in Nat
       PROVE  first + Sum(ds, UpTo(ds, t)) = Power(After(ar \cup {s}, t))
  <2>1. /\ Sum(cs, UpTo(cs, t)) \in Int /\ Sum(ks, UpTo(ks, t)) \in Int
        /\ first + Sum(cs, UpTo(cs, t)) = Power(After(ar, t))
        /\ Power(After(ar, t)) \in Nat
    BY <1>2, UpToTypes, AfterTypes DEF Balanced
  <2>2. Sum(ks, UpTo(ks, t)) = Sum(cs, UpTo(cs, t)) + s.power
    BY <1>4
  <2>3. Power(After(ar \cup {s}, t)) = Power(After(ar, t)) + (IF s.left > t THEN s.power ELSE 0)
    BY AfterAdd
  <2>4. s.left \in Nat /\ s.power \in Nat
    BY <1>1
  <2>5. CASE s.left <= t
    <3>1. Sum(ds, UpTo(ds, t)) = Sum(ks, UpTo(ks, t)) + -s.power
      BY <1>11, <2>5
    <3>2. Power(After(ar \cup {s}, t)) = Power(After(ar, t)) + 0
      BY <2>3, <2>4, <2>5
    <3> QED
      BY <2>1, <2>2, <2>4, <3>1, <3>2
  <2>6. CASE ~(s.left <= t)
    <3>1. Sum(ds, UpTo(ds, t)) = Sum(ks, UpTo(ks, t)) + 0
      BY <1>11, <2>6
    <3>2. Power(After(ar \cup {s}, t)) = Power(After(ar, t)) + s.power
      BY <2>3, <2>4, <2>6
    <3> QED
      BY <2>1, <2>2, <2>4, <3>1, <3>2
  <2> QED
    BY <2>5, <2>6
<1>13. \E now \in DOMAIN ds : ds[now].at = 0
  <2>1. PICK j \in DOMAIN ks : ks[j] = StartOf(s)
    BY <1>5
  <2>2. \E now \in DOMAIN ds : ds[now] = ks[j]
    BY <1>1, <1>2, <1>8, InsertedAll
  <2> QED
    BY <1>1, <2>1, <2>2
<1>14. ASSUME NEW q \in Int, Floor(first, cs, q), Power(After(ar, 0)) + s.power >= q
       PROVE  Floor(first, ds, q)
  <2>1. Floor(first, ks, q)
    BY <1>6, <1>14
  <2>2. EndOf(s).at >= 0 /\ EndOf(s).at # 0 /\ first \in Int
    BY <1>1
  <2> QED
    BY <1>1, <1>2, <1>8, <2>1, <2>2, InsertedFloor
<1>15. ASSUME 1 \in DOMAIN cs, cs[1].at <= 0 PROVE 1 \in DOMAIN ds /\ ds[1] = cs[1]
  <2>1. 1 \in DOMAIN ks /\ ks[1] = cs[1] /\ cs[1].at \in Int
    BY <1>7, <1>15, ListTypes
  <2>2. ks[1].at <= EndOf(s).at
    BY <1>1, <1>15, <2>1
  <2> QED
    BY <1>1, <1>2, <1>8, <2>1, <2>2, InsertedFirst
<1>16. ASSUME NEW x \in Int, x < 0 PROVE Sum(ds, UpTo(ds, x)) = Sum(cs, UpTo(cs, x))
  <2>1. Sum(ks, UpTo(ks, x)) = Sum(cs, UpTo(cs, x)) + 0
    BY <1>4, <1>16
  <2>2. Sum(ds, UpTo(ds, x)) = Sum(ks, UpTo(ks, x)) + 0
    BY <1>1, <1>11, <1>16
  <2>3. Sum(cs, UpTo(cs, x)) \in Int /\ Sum(ks, UpTo(ks, x)) \in Int
    BY <1>2, UpToTypes
  <2> QED
    BY <2>1, <2>2, <2>3
<1> QED
  BY <1>9, <1>10, <1>12, <1>13, <1>14, <1>15, <1>16 DEF Balanced, Continues

\* A unit of time later, the signals that last.
Aged(ar) == {Older(s) : s \in {x \in ar : x.left > 1}}

LEMMA AirOlder ==
  ASSUME NEW ar, Air(ar)
  PROVE  /\ Air(Aged(ar))
         /\ \A t \in Nat : /\ After(Aged(ar), t) = {Older(s) : s \in After(ar, t + 1)}
                           /\ Power(After(Aged(ar), t)) = Power(After(ar, t + 1))
<1>1. \A s \in ar : /\ s \in Signals /\ s.left \in Nat /\ s.left \in 1 .. MaxDuration
                    /\ Older(s) \in Signals /\ Older(s).left = s.left - 1
  <2> SUFFICES ASSUME NEW s \in ar
               PROVE  /\ s \in Signals /\ s.left \in Nat /\ s.left \in 1 .. MaxDuration
                      /\ Older(s) \in Signals /\ Older(s).left = s.left - 1
    OBVIOUS
  <2>1. s \in Signals /\ s.left \in 1 .. MaxDuration
    BY DEF Air
  <2>2. s.left \in Nat /\ s.left > 0
    BY <2>1, PhyAssumption
  <2> QED
    BY <2>1, <2>2, OlderSignal
<1>2. Air(Aged(ar))
  <2>1. IsFiniteSet({x \in ar : x.left > 1}) /\ {x \in ar : x.left > 1} \subseteq Signals
    BY FS_Subset DEF Air
  <2>2. \A s \in {x \in ar : x.left > 1} : s.left > 0
    BY <1>1
  <2>3. IsFiniteSet(Aged(ar))
    BY <2>1, <2>2, PowerOlder DEF Aged
  <2>4. \A s \in Aged(ar) : s \in Signals /\ s.left \in 1 .. MaxDuration
    BY <1>1, PhyAssumption DEF Aged
  <2> QED
    BY <2>3, <2>4 DEF Air
<1>3. ASSUME NEW t \in Nat
      PROVE  /\ After(Aged(ar), t) = {Older(s) : s \in After(ar, t + 1)}
             /\ Power(After(Aged(ar), t)) = Power(After(ar, t + 1))
  <2>1. After(Aged(ar), t) = {Older(s) : s \in After(ar, t + 1)}
    <3>1. \A s \in ar : s.left > 1 /\ Older(s).left > t <=> s.left > t + 1
      BY <1>1
    <3> QED
      BY <3>1 DEF After, Aged
  <2>2. /\ After(ar, t + 1) \subseteq Signals /\ IsFiniteSet(After(ar, t + 1))
        /\ \A s \in After(ar, t + 1) : s.left > 0
    BY <1>1, AfterTypes DEF After
  <2> QED
    BY <2>1, <2>2, PowerOlder
<1> QED
  BY <1>2, <1>3

\* The list a unit of time later is that of the air a unit of time later.
LEMMA ListOlder ==
  ASSUME NEW cs, List(cs), Bounded(cs), NEW first \in Nat, NEW ar, Air(ar),
         Balanced(first, cs, ar),
         NEW ds, ds = [i \in DOMAIN cs |->
                         [cs[i] EXCEPT !.at = IF @ = -MaxDuration THEN @ ELSE @ - 1]]
  PROVE  /\ List(ds) /\ Bounded(ds) /\ Balanced(first, ds, Aged(ar)) /\ DOMAIN ds = DOMAIN cs
         /\ \A i \in DOMAIN cs :
              /\ ds[i].at = IF cs[i].at = -MaxDuration THEN cs[i].at ELSE cs[i].at - 1
              /\ ds[i].delta = cs[i].delta
         /\ \A x \in Int : x >= -MaxDuration =>
              Sum(ds, UpTo(ds, x)) = Sum(cs, UpTo(cs, x + 1))
         /\ MaxDuration > 0 =>
              \A q \in Int : Power(After(ar, 1)) >= q => Floor(first, ds, q)
<1>1. /\ List(ds) /\ DOMAIN ds = DOMAIN cs /\ Len(ds) = Len(cs)
      /\ \A i \in DOMAIN cs :
           /\ ds[i].at = IF cs[i].at = -MaxDuration THEN cs[i].at ELSE cs[i].at - 1
           /\ ds[i].at \in -MaxDuration .. MaxDuration
           /\ ds[i].delta = cs[i].delta
      /\ \A t \in Int : t >= -MaxDuration => UpTo(ds, t) = UpTo(cs, t + 1)
      /\ \A I \in SUBSET DOMAIN cs : Sum(ds, I) = Sum(cs, I)
  <2>1. \A i \in DOMAIN cs : cs[i].at \in -MaxDuration .. MaxDuration
    BY DEF Bounded
  <2> QED
    BY <2>1, Shifted
<1>2. /\ Len(cs) \in Nat /\ DOMAIN cs = 1 .. Len(cs) /\ MaxDuration \in Nat
      /\ \A i \in DOMAIN cs : cs[i].at \in Int /\ cs[i].delta \in Int
  BY ListTypes, PhyAssumption
<1>3. Bounded(ds)
  BY <1>1, <1>2 DEF Bounded
<1>4. \A x \in Int : x >= -MaxDuration => Sum(ds, UpTo(ds, x)) = Sum(cs, UpTo(cs, x + 1))
  <2> SUFFICES ASSUME NEW x \in Int, x >= -MaxDuration
               PROVE  Sum(ds, UpTo(ds, x)) = Sum(cs, UpTo(cs, x + 1))
    OBVIOUS
  <2>1. UpTo(ds, x) = UpTo(cs, x + 1) /\ UpTo(cs, x + 1) \subseteq DOMAIN cs
    BY <1>1 DEF UpTo
  <2> QED
    BY <1>1, <2>1
<1>5. ASSUME NEW t \in Nat PROVE first + Sum(ds, UpTo(ds, t)) = Power(After(Aged(ar), t))
  <2>1. t \in Int /\ t >= -MaxDuration /\ t + 1 \in Nat
    BY <1>2
  <2>2. Sum(ds, UpTo(ds, t)) = Sum(cs, UpTo(cs, t + 1))
    BY <1>4, <2>1
  <2>3. first + Sum(cs, UpTo(cs, t + 1)) = Power(After(ar, t + 1))
    BY <2>1 DEF Balanced
  <2>4. Power(After(Aged(ar), t)) = Power(After(ar, t + 1))
    BY AirOlder
  <2> QED
    BY <2>2, <2>3, <2>4
<1>6. ASSUME MaxDuration > 0, NEW q \in Int, Power(After(ar, 1)) >= q,
             NEW i \in DOMAIN ds, ds[i].at = 0
      PROVE  Level(first, ds, i) >= q
  <2>1. i \in DOMAIN cs /\ cs[i].at = 1 /\ i \in Nat
    BY <1>1, <1>2, <1>6
  <2>2. 1 .. i \subseteq UpTo(cs, 1)
    <3>1. \A j \in 1 .. i : j \in DOMAIN cs /\ (j < i \/ j = i)
      BY <1>2, <2>1
    <3>2. \A j \in DOMAIN cs : j < i => cs[j].at <= cs[i].at
      BY <2>1 DEF List, Sorted
    <3>3. \A j \in 1 .. i : j \in DOMAIN cs /\ cs[j].at <= 1
      BY <1>2, <2>1, <3>1, <3>2
    <3> QED
      BY <3>3 DEF UpTo
  <2> DEFINE R == UpTo(cs, 1) \ (1 .. i)
  <2>3. \A j \in R : Deltas(cs)[j] \in Int /\ Deltas(cs)[j] <= 0
    <3> SUFFICES ASSUME NEW j \in R PROVE Deltas(cs)[j] \in Int /\ Deltas(cs)[j] <= 0
      OBVIOUS
    <3>1. j \in DOMAIN cs /\ i < j
      BY <1>2, <2>1 DEF UpTo
    <3>2. cs[j].at >= 1
      BY <1>2, <2>1, <3>1 DEF List, Sorted
    <3>3. cs[j].delta < 0 /\ cs[j].delta \in Int
      BY <1>2, <3>1, <3>2 DEF Bounded
    <3> QED
      BY <3>1, <3>3, ListTypes
  <2>4. /\ UpTo(cs, 1) \subseteq DOMAIN cs /\ IsFiniteSet(UpTo(cs, 1)) /\ IsFiniteSet(R)
        /\ Sum(cs, UpTo(cs, 1)) \in Int /\ Sum(cs, 1 .. i) \in Int
    BY <2>2, UpToTypes, ListTypes
  <2>5. Sum(cs, R) \in Int /\ Sum(cs, R) <= 0
    <3> HIDE DEF R
    <3> QED
      BY <2>3, <2>4, SumNotPositive DEF Sum
  <2>6. Sum(cs, UpTo(cs, 1)) = Sum(cs, 1 .. i) + Sum(cs, R)
    <3>1. \A j \in UpTo(cs, 1) : Deltas(cs)[j] \in Int
      BY <2>4, ListTypes
    <3> QED
      BY <2>2, <2>4, <3>1, SumPart DEF Sum
  <2>7. first + Sum(cs, UpTo(cs, 1)) = Power(After(ar, 1))
    BY DEF Balanced
  <2>8. Sum(ds, 1 .. i) = Sum(cs, 1 .. i)
    BY <1>1, <2>2, <2>4
  <2>9. first + Sum(cs, 1 .. i) >= q
    BY <1>6, <2>4, <2>5, <2>6, <2>7
  <2> QED
    BY <2>8, <2>9 DEF Level
<1> QED
  BY <1>1, <1>3, <1>4, <1>5, <1>6 DEF Balanced, Floor

-----------------------------------------------------------------------------
(* The invariant.                                                          *)

AirOK == Air(air) /\ \A s \in air : s.id <= signals

\* The list: sorted, and the sum of it at any instant from now on is the air.
ListOK ==
  /\ List(changes) /\ Bounded(changes)
  /\ firstPower \in Nat
  /\ Balanced(firstPower, changes, air)

\* While a signal is received, no change of this instant finds less than its power.
EventOK == endRxEvent # None =>
  /\ endRxEvent.power > EdThreshold
  /\ endRxEvent.left \in 0 .. MaxDuration
  /\ endRxEvent.left > 0 => Floor(firstPower, changes, endRxEvent.power)

\* The MAC's instants are the state helper's.
MacOK ==
  /\ mac.tx = endTx /\ endTx \in 0 .. MaxDuration
  /\ mac.busy = endCcaBusy /\ endCcaBusy \in 0 .. MaxDuration
  /\ mac.rx = IF rxing THEN endRxEvent.left ELSE 0
  /\ missed \subseteq 1 .. MaxSignals

\* The medium is held busy while the air is, and no signal that counts is left out.
Unheard(ar, ms, e, t) == {s \in After(ar, t) : s.id \notin ms /\ s # e}
BusyOK  == \A t \in Nat : t < endCcaBusy => Power(After(air, t)) >= CcaThreshold
QuietOK == \A t \in Nat :
  t >= endCcaBusy => Power(Unheard(air, missed, endRxEvent, t)) < CcaThreshold

\* The list begins with the signal received, and tells what was heard since.
HearingOK ==
  IF endRxEvent = None THEN heard = <<>>
  ELSE /\ heard \in Seq(Int)
       /\ 1 \in DOMAIN changes
       /\ changes[1].at = -Len(heard) /\ changes[1].delta = endRxEvent.power
       /\ Len(heard) + endRxEvent.left <= MaxDuration
       /\ \A u \in 1 .. Len(heard) :
            heard[u] = firstPower + Sum(changes, UpTo(changes, u - 1 - Len(heard)))
                         - endRxEvent.power

Consistent ==
  Inv /\ AirOK /\ ListOK /\ EventOK /\ MacOK /\ BusyOK /\ QuietOK /\ HearingOK

LEMMA UnheardTypes ==
  ASSUME NEW ar, Air(ar), NEW ms, NEW e, NEW t \in Nat
  PROVE  /\ Unheard(ar, ms, e, t) \subseteq After(ar, t)
         /\ Unheard(ar, ms, e, t) \subseteq Signals /\ IsFiniteSet(Unheard(ar, ms, e, t))
         /\ Power(Unheard(ar, ms, e, t)) \in Nat
         /\ Power(Unheard(ar, ms, e, t)) <= Power(After(ar, t))
<1>1. After(ar, t) \subseteq Signals /\ IsFiniteSet(After(ar, t))
  BY AfterTypes
<1>2. Unheard(ar, ms, e, t) \subseteq After(ar, t)
  BY DEF Unheard
<1>3. Unheard(ar, ms, e, t) \subseteq Signals /\ IsFiniteSet(Unheard(ar, ms, e, t))
  BY <1>1, <1>2, FS_Subset
<1> QED
  BY <1>1, <1>2, <1>3, PowerGrows

\* What counts is only ever left out.
LEMMA QuietKept ==
  ASSUME NEW ar, Air(ar), NEW ms, NEW e, NEW br, NEW mt, NEW f, NEW t \in Nat,
         Unheard(br, mt, f, t) \subseteq Unheard(ar, ms, e, t),
         Power(Unheard(ar, ms, e, t)) < CcaThreshold
  PROVE  Power(Unheard(br, mt, f, t)) < CcaThreshold
<1> DEFINE S == Unheard(ar, ms, e, t)
           T == Unheard(br, mt, f, t)
<1>1. S \subseteq Signals /\ IsFiniteSet(S) /\ T \subseteq S /\ CcaThreshold \in Nat
      /\ Power(S) < CcaThreshold
  BY UnheardTypes, PhyAssumption
<1> HIDE DEF S, T
<1>2. Power(T) <= Power(S) /\ Power(T) \in Nat /\ Power(S) \in Nat
  BY <1>1, PowerGrows
<1>3. Power(T) < CcaThreshold
  BY <1>1, <1>2
<1> QED
  BY <1>3 DEF T

LEMMA InitConsistent == Init => Consistent
<1> SUFFICES ASSUME Init PROVE Consistent
  OBVIOUS
<1>1. Inv
  BY InitInv
<1>2. air = {} /\ changes = <<>> /\ firstPower = 0 /\ endRxEvent = None /\ heard = <<>>
      /\ endTx = 0 /\ endCcaBusy = 0 /\ rxing = FALSE /\ missed = {}
      /\ mac.rx = 0 /\ mac.tx = 0 /\ mac.busy = 0
  BY DEF Init
<1>3. Power({}) = 0 /\ MaxDuration \in Nat /\ CcaThreshold \in Nat /\ CcaThreshold > 0
  BY SumEmpty, PhyAssumption DEF Power
<1>4. AirOK
  BY <1>2, FS_EmptySet DEF AirOK, Air
<1>5. ListOK
  <2>1. changes \in Seq(Changes) /\ DOMAIN changes = {}
    BY <1>2
  <2>2. List(changes) /\ Bounded(changes)
    BY <2>1 DEF List, Sorted, Bounded
  <2>3. \A t : UpTo(changes, t) = {} /\ After(air, t) = {}
    BY <1>2, <2>1 DEF UpTo, After
  <2>4. Sum(changes, {}) = 0
    BY SumEmpty DEF Sum
  <2>5. Balanced(firstPower, changes, air)
    <3>1. \A t \in Nat : firstPower + Sum(changes, UpTo(changes, t)) = 0 + 0
      BY <1>2, <2>3, <2>4
    <3>2. \A t \in Nat : Power(After(air, t)) = 0
      BY <1>3, <2>3
    <3> QED
      BY <3>1, <3>2 DEF Balanced
  <2> QED
    BY <1>2, <2>2, <2>5 DEF ListOK
<1>6. EventOK /\ HearingOK
  BY <1>2 DEF EventOK, HearingOK
<1>7. MacOK
  BY <1>2, <1>3 DEF MacOK
<1>8. BusyOK
  BY <1>2 DEF BusyOK
<1>9. QuietOK
  <2>1. \A t : Unheard(air, missed, endRxEvent, t) = {}
    BY <1>2 DEF Unheard, After
  <2> QED
    BY <1>3, <2>1 DEF QuietOK
<1> QED
  BY <1>1, <1>4, <1>5, <1>6, <1>7, <1>8, <1>9 DEF Consistent

\* A reception given up counts as missed.
LEMMA SendConsistent == Consistent /\ StartSend => Consistent'
<1> SUFFICES ASSUME Consistent, StartSend PROVE Consistent'
  OBVIOUS
<1>1. Inv /\ Inv'
  BY SendInv DEF Consistent
<1>2. PICK d \in Durations :
        /\ GiveUp
        /\ SwitchToTx(d)
        /\ missed' = missed \cup (IF GetState = "RX" /\ endRxEvent # None
                                   THEN {endRxEvent.id} ELSE {})
        /\ heard' = <<>>
        /\ UNCHANGED <<firstPower, changes, endCcaBusy, air, signals>>
  BY DEF StartSend
<1>3. (GetState = "RX" <=> rxing) /\ (rxing <=> endRxEvent # None) /\ (rxing <=> mac.rxing)
      /\ rxing \in BOOLEAN /\ endRxEvent \in Signals \cup {None}
  BY <1>1 DEF GetState, Inv, Shape, ReceptionAgrees
<1>4. endRxEvent' = None /\ rxing' = FALSE /\ endTx' = d /\ d \in 0 .. MaxDuration
  <2>1. endRxEvent' = None
    BY <1>2, <1>3 DEF GiveUp
  <2>2. rxing' = FALSE
    BY <1>2, <1>3 DEF SwitchToTx
  <2> QED
    BY <1>2, <2>1, <2>2, PhyAssumption DEF SwitchToTx, Durations
<1>5. AirOK' /\ ListOK' /\ BusyOK'
  BY <1>2 DEF Consistent, AirOK, ListOK, BusyOK
<1>6. EventOK' /\ HearingOK'
  BY <1>2, <1>4 DEF EventOK, HearingOK
<1>7. missed' = missed \cup (IF rxing THEN {endRxEvent.id} ELSE {})
  BY <1>2, <1>3
<1>8. MacOK'
  <2>1. mac'.tx = d /\ mac'.busy = mac.busy /\ mac'.rx = IF mac.rxing THEN 0 ELSE mac.rx
    <3>1. mac = [rx |-> mac.rx, tx |-> mac.tx, busy |-> mac.busy, rxing |-> mac.rxing]
      BY <1>1 DEF Inv, Shape
    <3>2. NotifyTxStart = [rx |-> IF mac.rxing THEN 0 ELSE mac.rx, tx |-> mac.tx,
                           busy |-> mac.busy, rxing |-> FALSE]
      BY <1>1, <3>1 DEF NotifyTxStart, Inv, Shape
    <3> QED
      BY <1>2, <3>2 DEF SwitchToTx
  <2>2. missed' \subseteq 1 .. MaxSignals
    <3>1. rxing => endRxEvent.id \in 1 .. MaxSignals
      BY <1>3 DEF Signals
    <3> QED
      BY <1>7, <3>1 DEF Consistent, MacOK
  <2> QED
    BY <1>2, <1>3, <1>4, <2>1, <2>2 DEF Consistent, MacOK
<1>9. QuietOK'
  <2> SUFFICES ASSUME NEW t \in Nat, t >= endCcaBusy'
               PROVE  Power(Unheard(air', missed', endRxEvent', t)) < CcaThreshold
    BY DEF QuietOK
  <2>1. Power(Unheard(air, missed, endRxEvent, t)) < CcaThreshold
    BY <1>2 DEF Consistent, QuietOK
  <2>2. Unheard(air', missed', endRxEvent', t) \subseteq Unheard(air, missed, endRxEvent, t)
    <3>1. rxing \/ endRxEvent = None
      BY <1>3
    <3>2. \A s \in air : s \in Signals
      BY DEF Consistent, AirOK, Air
    <3> QED
      BY <1>2, <1>4, <1>7, <3>1, <3>2, NoneAssumption DEF Unheard
  <2> QED
    BY <2>1, <2>2, QuietKept DEF Consistent, AirOK
<1> QED
  BY <1>1, <1>5, <1>6, <1>8, <1>9 DEF Consistent

LEMMA EndConsistent == Consistent /\ EndReceive => Consistent'
<1> SUFFICES ASSUME Consistent, EndReceive PROVE Consistent'
  OBVIOUS
<1>1. Inv /\ Inv'
  BY EndInv DEF Consistent
<1>2. /\ endRxEvent # None /\ endRxEvent.left = 0 /\ endRxEvent' = None /\ rxing' = FALSE
      /\ heard' = <<>> /\ rxing = TRUE
      /\ UNCHANGED <<firstPower, changes, endTx, endCcaBusy, air, missed, signals, sends>>
  BY <1>1 DEF EndReceive, Ends, Inv, Shape, ReceptionAgrees
<1>3. AirOK' /\ ListOK' /\ BusyOK'
  BY <1>2 DEF Consistent, AirOK, ListOK, BusyOK
<1>4. EventOK' /\ HearingOK'
  BY <1>2 DEF EventOK, HearingOK
<1>5. MacOK'
  <2>1. mac'.rx = mac.rx /\ mac'.tx = mac.tx /\ mac'.busy = mac.busy
    <3>1. mac = [rx |-> mac.rx, tx |-> mac.tx, busy |-> mac.busy, rxing |-> mac.rxing]
      BY <1>1 DEF Inv, Shape
    <3>2. mac' = [rx |-> mac.rx, tx |-> mac.tx, busy |-> mac.busy, rxing |-> FALSE]
      BY <3>1 DEF EndReceive
    <3> QED
      BY <3>2
  <2> QED
    BY <1>2, <2>1 DEF Consistent, MacOK
<1>6. QuietOK'
  <2> SUFFICES ASSUME NEW t \in Nat, t >= endCcaBusy'
               PROVE  Power(Unheard(air', missed', endRxEvent', t)) < CcaThreshold
    BY DEF QuietOK
  <2>1. Power(Unheard(air, missed, endRxEvent, t)) < CcaThreshold
    BY <1>2 DEF Consistent, QuietOK
  <2>2. Unheard(air', missed', endRxEvent', t) \subseteq Unheard(air, missed, endRxEvent, t)
    <3>1. endRxEvent \notin air
      BY <1>2, PhyAssumption DEF Consistent, AirOK, Air
    <3> QED
      BY <1>2, <3>1 DEF Unheard, After
  <2> QED
    BY <2>1, <2>2, QuietKept DEF Consistent, AirOK
<1> QED
  BY <1>1, <1>3, <1>4, <1>5, <1>6 DEF Consistent

-----------------------------------------------------------------------------
(* A signal begins.                                                        *)

\* What AppendEvent leaves, whether something is received or not.
LEMMA Appended ==
  ASSUME Consistent, NEW s \in Signals, s \notin air, s.left \in 1 .. MaxDuration,
         AppendEvent(s.power, s.left)
  PROVE  /\ List(changes') /\ Bounded(changes') /\ firstPower' \in Nat
         /\ Balanced(firstPower', changes', air \cup {s})
         /\ \E now \in DOMAIN changes' : changes'[now].at = 0
         /\ ~rxing => /\ \A i \in DOMAIN changes' :
                           changes'[i].at = 0 => 1 .. i = UpTo(changes', 0)
                      /\ Floor(firstPower', changes', s.power)
                      /\ 1 \in DOMAIN changes' /\ changes'[1] = StartOf(s)
         /\ rxing => /\ firstPower' = firstPower
                     /\ endRxEvent.left > 0 => Floor(firstPower', changes', endRxEvent.power)
                     /\ 1 \in DOMAIN changes' /\ changes'[1] = changes[1]
                     /\ \A x \in Int : x < 0 =>
                          Sum(changes', UpTo(changes', x)) = Sum(changes, UpTo(changes, x))
<1>1. /\ Inv /\ Air(air) /\ List(changes) /\ Bounded(changes) /\ firstPower \in Nat
      /\ Balanced(firstPower, changes, air)
  BY DEF Consistent, AirOK, ListOK
<1>2. (rxing <=> helperRxing) /\ (rxing <=> endRxEvent # None) /\ rxing \in BOOLEAN
      /\ (rxing /\ endRxEvent.left > 0 => endRxEvent \in air)
  BY <1>1 DEF Inv, Shape, ReceptionAgrees
<1>3. s.power \in Nat /\ s.power > 0 /\ StartOf(s).at = 0
  BY ChangesOf
<1>4. CASE ~rxing
  <2>1. /\ firstPower' = firstPower + Sum(changes, 1 .. GetPosition(changes, 0))
        /\ changes' = AddNiChangeEvent(Kept(changes, StartOf(s)), EndOf(s))
    BY <1>2, <1>4 DEF AppendEvent, Folded, Kept, StartOf, EndOf
  <2>2. Restarts(firstPower', changes', air, s)
    BY <1>1, <2>1, AppendKept
  <2>3. /\ List(changes') /\ Bounded(changes') /\ firstPower' \in Nat
        /\ Balanced(firstPower', changes', air \cup {s})
        /\ 1 \in DOMAIN changes' /\ changes'[1] = StartOf(s)
        /\ \A i \in DOMAIN changes' : changes'[i].at = 0 => 1 .. i = UpTo(changes', 0)
        /\ Floor(firstPower', changes', s.power)
    BY <2>2 DEF Restarts
  <2> QED
    BY <1>3, <1>4, <2>3
<1>5. CASE rxing
  <2>1. /\ firstPower' = firstPower
        /\ changes' = AddNiChangeEvent(AddNiChangeEvent(changes, StartOf(s)), EndOf(s))
    BY <1>2, <1>5 DEF AppendEvent, StartOf, EndOf
  <2>2. Continues(firstPower, changes, changes', air, s)
    BY <1>1, <2>1, AppendTwo
  <2>3. /\ List(changes') /\ Bounded(changes') /\ Balanced(firstPower, changes', air \cup {s})
        /\ \E now \in DOMAIN changes' : changes'[now].at = 0
        /\ \A q \in Int : Floor(firstPower, changes, q)
                            /\ Power(After(air, 0)) + s.power >= q
                            => Floor(firstPower, changes', q)
        /\ 1 \in DOMAIN changes /\ changes[1].at <= 0
             => 1 \in DOMAIN changes' /\ changes'[1] = changes[1]
        /\ \A x \in Int : x < 0 =>
             Sum(changes', UpTo(changes', x)) = Sum(changes, UpTo(changes, x))
    BY <2>2 DEF Continues
  <2>4. 1 \in DOMAIN changes /\ changes[1].at <= 0
    <3>1. 1 \in DOMAIN changes /\ changes[1].at = -Len(heard) /\ heard \in Seq(Int)
      BY <1>2, <1>5 DEF Consistent, HearingOK
    <3>2. Len(heard) \in Nat
      BY <3>1
    <3> QED
      BY <3>1, <3>2
  <2>5. ASSUME endRxEvent.left > 0 PROVE Floor(firstPower, changes', endRxEvent.power)
    <3>1. endRxEvent \in air /\ endRxEvent \in Signals /\ Floor(firstPower, changes, endRxEvent.power)
      BY <1>1, <1>2, <1>5, <2>5 DEF Consistent, EventOK, Air
    <3>2. endRxEvent.power \in Nat
      BY <3>1, StrengthOf
    <3>3. Power(After(air, 0)) >= endRxEvent.power
      <4>1. endRxEvent \in After(air, 0)
        BY <2>5, <3>1 DEF After
      <4>2. After(air, 0) \subseteq Signals /\ IsFiniteSet(After(air, 0))
        BY <1>1, AfterTypes
      <4>3. /\ Power(After(air, 0)) = endRxEvent.power + Power(After(air, 0) \ {endRxEvent})
            /\ Power(After(air, 0) \ {endRxEvent}) \in Nat
        BY <4>1, <4>2, PowerRemove
      <4> QED
        BY <3>2, <4>3
    <3>4. Power(After(air, 0)) \in Nat
      BY <1>1, AfterTypes
    <3>5. Power(After(air, 0)) + s.power >= endRxEvent.power /\ endRxEvent.power \in Int
      BY <1>3, <3>2, <3>3, <3>4
    <3> QED
      BY <2>3, <3>1, <3>5
  <2> QED
    BY <1>1, <1>5, <2>1, <2>3, <2>4, <2>5
<1> QED
  BY <1>2, <1>4, <1>5

\* The energy duration found then is how long the air stays at or above the
\* threshold, but not always in the instant in which a reception ends.
LEMMA EnergyFound ==
  ASSUME Consistent, NEW s \in Signals, s \notin air, s.left \in 1 .. MaxDuration,
         AppendEvent(s.power, s.left),
         NEW D, D = GetEnergyDuration(firstPower', changes')
  PROVE  /\ D \in 0 .. MaxDuration
         /\ \A t \in Nat : t < D => Power(After(air \cup {s}, t)) >= CcaThreshold
         /\ D > 0 \/ ~Ends(endRxEvent, 0) =>
              \A t \in Nat : t >= D => Power(After(air \cup {s}, t)) < CcaThreshold
<1>1. /\ List(changes') /\ Bounded(changes') /\ firstPower' \in Nat
      /\ Balanced(firstPower', changes', air \cup {s})
      /\ ~rxing => \A i \in DOMAIN changes' :
                     changes'[i].at = 0 => 1 .. i = UpTo(changes', 0)
      /\ rxing /\ endRxEvent.left > 0 => Floor(firstPower', changes', endRxEvent.power)
  BY Appended
<1>2. PICK now \in DOMAIN changes' : changes'[now].at = 0
  BY Appended
<1>3. Air(air) /\ Air(air \cup {s})
  BY AirAdd DEF Consistent, AirOK
<1>4. ASSUME NEW first \in Nat, NEW cs, List(cs), Bounded(cs), NEW ar, Air(ar),
             Balanced(first, cs, ar), NEW n \in DOMAIN cs, cs[n].at = 0,
             D = GetEnergyDuration(first, cs)
      PROVE  /\ D \in 0 .. MaxDuration
             /\ \A t \in Nat : t < D => Power(After(ar, t)) >= CcaThreshold
             /\ D > 0 => \A t \in Nat : t >= D => Power(After(ar, t)) < CcaThreshold
             /\ D = 0 /\ (\A i \in DOMAIN cs : cs[i].at = 0 =>
                            Level(first, cs, i) >= CcaThreshold \/ 1 .. i = UpTo(cs, 0))
                  => \A t \in Nat : Power(After(ar, t)) < CcaThreshold
  <2>1. ar \subseteq Signals /\ IsFiniteSet(ar) /\ \A r \in ar : r.left <= MaxDuration
    BY <1>4, PhyAssumption DEF Air
  <2>2. \A i \in DOMAIN cs : cs[i].at <= MaxDuration /\ (cs[i].at > 0 => cs[i].delta < 0)
    BY <1>4, PhyAssumption DEF Bounded
  <2>3. \A t \in Nat : first + Sum(cs, UpTo(cs, t)) = Power(After(ar, t))
    BY <1>4 DEF Balanced
  <2> QED
    BY <1>4, <2>1, <2>2, <2>3, Energy
<1>5. /\ D \in 0 .. MaxDuration
      /\ \A t \in Nat : t < D => Power(After(air \cup {s}, t)) >= CcaThreshold
      /\ D > 0 => \A t \in Nat : t >= D => Power(After(air \cup {s}, t)) < CcaThreshold
      /\ D = 0 /\ (\A i \in DOMAIN changes' : changes'[i].at = 0 =>
                     Level(firstPower', changes', i) >= CcaThreshold \/ 1 .. i = UpTo(changes', 0))
           => \A t \in Nat : Power(After(air \cup {s}, t)) < CcaThreshold
  BY <1>1, <1>2, <1>3, <1>4
<1>6. ASSUME ~Ends(endRxEvent, 0), NEW i \in DOMAIN changes', changes'[i].at = 0
      PROVE  Level(firstPower', changes', i) >= CcaThreshold \/ 1 .. i = UpTo(changes', 0)
  <2>1. CASE ~rxing
    BY <1>1, <1>6, <2>1
  <2>2. CASE rxing
    <3>1. endRxEvent # None /\ endRxEvent \in Signals
      BY <2>2 DEF Consistent, Inv, Shape, ReceptionAgrees
    <3>2. endRxEvent.left > 0 /\ endRxEvent.power > EdThreshold /\ endRxEvent.power \in Nat
      BY <1>6, <3>1, StrengthOf, PhyAssumption DEF Consistent, EventOK, Ends
    <3>3. Level(firstPower', changes', i) >= endRxEvent.power
      BY <1>1, <1>6, <2>2, <3>2 DEF Floor
    <3>4. Level(firstPower', changes', i) \in Int
      <4>1. /\ Len(changes') \in Nat /\ DOMAIN changes' = 1 .. Len(changes')
            /\ \A I \in SUBSET DOMAIN changes' : Sum(changes', I) \in Int
        BY <1>1, ListTypes
      <4>2. 1 .. i \in SUBSET DOMAIN changes'
        BY <1>6, <4>1
      <4>3. Sum(changes', 1 .. i) \in Int
        BY <4>1, <4>2
      <4> QED
        BY <1>1, <4>3 DEF Level
    <3>5. EdThreshold \in Nat /\ EdThreshold >= CcaThreshold /\ CcaThreshold \in Nat
      BY PhyAssumption
    <3> QED
      BY <3>2, <3>3, <3>4, <3>5
  <2> QED
    BY <2>1, <2>2
<1>7. D \in Nat
  BY <1>5, PhyAssumption
<1>8. CASE D > 0
  BY <1>5, <1>8
<1>9. CASE D = 0
  <2>1. ~Ends(endRxEvent, 0) => \A t \in Nat : Power(After(air \cup {s}, t)) < CcaThreshold
    BY <1>5, <1>6, <1>9
  <2> QED
    BY <1>5, <1>9, <2>1
<1> QED
  BY <1>7, <1>8, <1>9

LEMMA LouderWith ==
  ASSUME NEW ar, Air(ar), NEW s \in Signals, s \notin ar, NEW t \in Nat
  PROVE  /\ Power(After(ar \cup {s}, t)) >= Power(After(ar, t))
         /\ Power(After(ar \cup {s}, t)) \in Nat /\ Power(After(ar, t)) \in Nat
<1>1. Power(After(ar, t)) \in Nat /\ s.power \in Nat
  BY AfterTypes, StrengthOf
<1>2. Power(After(ar \cup {s}, t)) = Power(After(ar, t)) + (IF s.left > t THEN s.power ELSE 0)
  BY AfterAdd
<1> QED
  BY <1>1, <1>2

\* The signal that begins, and what becomes of it.
Begins(s) ==
  /\ s \in Signals /\ s \notin air /\ s.left \in 1 .. MaxDuration
  /\ s.id = signals + 1 /\ signals < MaxSignals /\ signals' = signals + 1
  /\ air' = air \cup {s} /\ endTx' = endTx
  /\ AppendEvent(s.power, s.left)
  /\ IF Receivable(s.power)
       THEN /\ SwitchToRx(s.left) /\ endRxEvent' = s /\ heard' = <<>>
            /\ UNCHANGED <<endCcaBusy, missed>>
       ELSE /\ MaybeCcaBusy(GetEnergyDuration(firstPower', changes'))
            /\ missed' = missed \cup (IF Ends(endRxEvent, 0) THEN {s.id} ELSE {})
            /\ UNCHANGED <<helperRxing, rxing, endRxEvent, heard>>

LEMMA ReceiveBegins ==
  ASSUME Consistent, StartReceive
  PROVE  \E s : Begins(s)
<1>1. signals \in 0 .. MaxSignals
  BY DEF Consistent, Inv, Shape
<1>2. PICK p \in Powers, d \in Durations, k \in Kinds :
        LET s == [id |-> signals + 1, power |-> p, left |-> d, kind |-> k]
        IN /\ signals < MaxSignals
           /\ signals' = signals + 1
           /\ air' = air \cup {s}
           /\ AppendEvent(p, d)
           /\ IF Receivable(p)
                THEN /\ SwitchToRx(d) /\ endRxEvent' = s /\ heard' = <<>>
                     /\ UNCHANGED <<endCcaBusy, missed>>
                ELSE /\ MaybeCcaBusy(GetEnergyDuration(firstPower', changes'))
                     /\ missed' = missed \cup (IF Ends(endRxEvent, 0) THEN {s.id} ELSE {})
                     /\ UNCHANGED <<helperRxing, rxing, endRxEvent, heard>>
           /\ endTx' = endTx
  BY DEF StartReceive
<1> DEFINE s == [id |-> signals + 1, power |-> p, left |-> d, kind |-> k]
<1>3. s.id = signals + 1 /\ s.power = p /\ s.left = d
  OBVIOUS
<1>4. d \in Nat /\ d \in 1 .. MaxDuration
  BY PhyAssumption DEF Durations
<1>5. signals + 1 \in 1 .. MaxSignals
  BY <1>1, <1>2, PhyAssumption
<1>6. s \in Signals
  BY <1>4, <1>5 DEF Signals
<1>7. s \notin air
  <2>1. \A x \in air : x.id <= signals
    BY DEF Consistent, AirOK
  <2> QED
    BY <1>1, <1>3, <2>1
<1> QED
  BY <1>2, <1>3, <1>4, <1>6, <1>7 DEF Begins

LEMMA ReceiveConsistent == Consistent /\ StartReceive => Consistent'
<1> SUFFICES ASSUME Consistent, StartReceive PROVE Consistent'
  OBVIOUS
<1>1. Inv /\ Inv' /\ signals \in 0 .. MaxSignals /\ endTx \in Nat
      /\ (rxing <=> endRxEvent # None) /\ rxing \in BOOLEAN
  BY ReceiveInv DEF Consistent, Inv, Shape, ReceptionAgrees
<1>2. PICK s : /\ s \in Signals /\ s \notin air /\ s.left \in 1 .. MaxDuration
               /\ s.id = signals + 1 /\ signals < MaxSignals /\ signals' = signals + 1
               /\ air' = air \cup {s} /\ endTx' = endTx
               /\ AppendEvent(s.power, s.left)
               /\ IF Receivable(s.power)
                    THEN /\ SwitchToRx(s.left) /\ endRxEvent' = s /\ heard' = <<>>
                         /\ UNCHANGED <<endCcaBusy, missed>>
                    ELSE /\ MaybeCcaBusy(GetEnergyDuration(firstPower', changes'))
                         /\ missed' = missed \cup (IF Ends(endRxEvent, 0) THEN {s.id} ELSE {})
                         /\ UNCHANGED <<helperRxing, rxing, endRxEvent, heard>>
  BY ReceiveBegins DEF Begins
<1>3. /\ List(changes') /\ Bounded(changes') /\ firstPower' \in Nat
      /\ Balanced(firstPower', changes', air \cup {s})
      /\ ~rxing => /\ Floor(firstPower', changes', s.power)
                   /\ 1 \in DOMAIN changes' /\ changes'[1] = StartOf(s)
      /\ rxing => /\ firstPower' = firstPower
                  /\ endRxEvent.left > 0 => Floor(firstPower', changes', endRxEvent.power)
                  /\ 1 \in DOMAIN changes' /\ changes'[1] = changes[1]
                  /\ \A x \in Int : x < 0 =>
                       Sum(changes', UpTo(changes', x)) = Sum(changes, UpTo(changes, x))
  BY <1>2, Appended
<1>4. Air(air) /\ Air(air') /\ \A x \in air : x.id <= signals
  BY <1>2, AirAdd DEF Consistent, AirOK
<1>5. AirOK'
  <2>1. \A x \in air' : x.id <= signals'
    <3>1. \A x \in air : x.id \in Int
      BY <1>4 DEF Air, Signals
    <3> QED
      BY <1>1, <1>2, <1>4, <3>1
  <2> QED
    BY <1>4, <2>1 DEF AirOK
<1>6. ListOK'
  BY <1>2, <1>3 DEF ListOK
<1>7. CcaThreshold \in Nat /\ MaxDuration \in Nat /\ MaxSignals \in Nat
  BY PhyAssumption
<1>8. \A t \in Nat : /\ Power(After(air', t)) >= Power(After(air, t))
                     /\ Power(After(air', t)) \in Nat /\ Power(After(air, t)) \in Nat
  BY <1>2, <1>4, LouderWith
<1>9. mac = [rx |-> mac.rx, tx |-> mac.tx, busy |-> mac.busy, rxing |-> mac.rxing]
  BY <1>1 DEF Inv, Shape
<1>10. endCcaBusy \in 0 .. MaxDuration /\ mac.tx = endTx /\ mac.busy = endCcaBusy
       /\ endTx \in 0 .. MaxDuration /\ mac.rx = (IF rxing THEN endRxEvent.left ELSE 0)
       /\ missed \subseteq 1 .. MaxSignals
  BY DEF Consistent, MacOK
<1>11. CASE Receivable(s.power)
  <2>1. ~rxing /\ endRxEvent = None /\ s.power > EdThreshold
    BY <1>1, <1>11 DEF Receivable, GetState
  <2>2. /\ rxing' = TRUE /\ endRxEvent' = s /\ heard' = <<>> /\ endCcaBusy' = endCcaBusy
        /\ missed' = missed
    BY <1>2, <1>11 DEF SwitchToRx
  <2>3. mac'.rx = s.left /\ mac'.tx = mac.tx /\ mac'.busy = mac.busy
    <3>1. mac' = [rx |-> s.left, tx |-> mac.tx, busy |-> mac.busy, rxing |-> TRUE]
      BY <1>2, <1>9, <1>11 DEF SwitchToRx
    <3> QED
      BY <3>1
  <2>4. MacOK'
    BY <1>2, <1>10, <2>2, <2>3 DEF MacOK
  <2>5. EventOK'
    BY <1>2, <1>3, <1>7, <2>1, <2>2 DEF EventOK
  <2>6. BusyOK'
    BY <1>7, <1>8, <2>2 DEF Consistent, BusyOK
  <2>7. QuietOK'
    <3> SUFFICES ASSUME NEW t \in Nat, t >= endCcaBusy'
                 PROVE  Power(Unheard(air', missed', endRxEvent', t)) < CcaThreshold
      BY DEF QuietOK
    <3>1. Power(Unheard(air, missed, endRxEvent, t)) < CcaThreshold
      BY <2>2 DEF Consistent, QuietOK
    <3>2. Unheard(air', missed', endRxEvent', t) \subseteq Unheard(air, missed, endRxEvent, t)
      <4>1. \A x \in air : x \in Signals
        BY <1>4 DEF Air
      <4> QED
        BY <1>2, <2>1, <2>2, <4>1, NoneAssumption DEF Unheard, After
    <3> QED
      BY <1>4, <3>1, <3>2, QuietKept
  <2>8. HearingOK'
    <3>1. endRxEvent' # None /\ heard' \in Seq(Int) /\ Len(heard') = 0
      BY <1>2, <2>2, NoneAssumption
    <3>2. 1 \in DOMAIN changes' /\ changes'[1].at = 0 /\ changes'[1].delta = s.power
      BY <1>2, <1>3, <2>1, ChangesOf
    <3>3. Len(heard') + endRxEvent'.left <= MaxDuration
      BY <1>2, <1>7, <2>2, <3>1
    <3>4. changes'[1].at = -Len(heard') /\ changes'[1].delta = endRxEvent'.power
      <4>1. -Len(heard') = 0
        <5>1. \A k \in Int : -k \in Int /\ k + (-k) = 0
          OBVIOUS
        <5>2. \A k, m \in Int : k = 0 /\ k + m = 0 => m = 0
          OBVIOUS
        <5>3. Len(heard') \in Int
          BY <3>1
        <5> QED
          BY <3>1, <5>1, <5>2, <5>3, Zenon
      <4> QED
        BY <2>2, <3>2, <4>1
    <3>5. 1 .. Len(heard') = {}
      BY <3>1
    <3> QED
      BY <3>1, <3>2, <3>3, <3>4, <3>5 DEF HearingOK
  <2> QED
    BY <1>1, <1>5, <1>6, <2>4, <2>5, <2>6, <2>7, <2>8 DEF Consistent
<1>12. CASE ~Receivable(s.power)
  <2> DEFINE D == GetEnergyDuration(firstPower', changes')
  <2>1. /\ rxing' = rxing /\ endRxEvent' = endRxEvent /\ heard' = heard
        /\ missed' = missed \cup (IF Ends(endRxEvent, 0) THEN {s.id} ELSE {})
        /\ MaybeCcaBusy(D)
    BY <1>2, <1>12
  <2>2. /\ D \in 0 .. MaxDuration
        /\ \A t \in Nat : t < D => Power(After(air', t)) >= CcaThreshold
        /\ D > 0 \/ ~Ends(endRxEvent, 0) =>
             \A t \in Nat : t >= D => Power(After(air', t)) < CcaThreshold
    <3>1. /\ D \in 0 .. MaxDuration
          /\ \A t \in Nat : t < D => Power(After(air \cup {s}, t)) >= CcaThreshold
          /\ D > 0 \/ ~Ends(endRxEvent, 0) =>
               \A t \in Nat : t >= D => Power(After(air \cup {s}, t)) < CcaThreshold
      BY <1>2, EnergyFound
    <3> QED
      BY <1>2, <3>1
  <2> HIDE DEF D
  <2>3. D > 0 => D >= endCcaBusy
    <3> SUFFICES ASSUME D > 0, ~(D >= endCcaBusy) PROVE FALSE
      OBVIOUS
    <3>1. D \in Nat /\ D < endCcaBusy
      BY <1>7, <1>10, <2>2
    <3>2. Power(After(air, D)) >= CcaThreshold
      BY <3>1 DEF Consistent, BusyOK
    <3>3. Power(After(air', D)) < CcaThreshold
      BY <2>2, <3>1
    <3> QED
      BY <1>7, <1>8, <3>1, <3>2, <3>3
  <2>4. /\ endCcaBusy' = IF D = 0 THEN endCcaBusy ELSE D
        /\ mac'.busy = endCcaBusy' /\ mac'.rx = mac.rx /\ mac'.tx = mac.tx
    <3>1. CASE D = 0
      BY <1>10, <2>1, <3>1 DEF MaybeCcaBusy
    <3>2. CASE D # 0
      <4>1. mac' = [rx |-> mac.rx, tx |-> mac.tx, busy |-> D, rxing |-> mac.rxing]
        BY <1>9, <2>1, <3>2 DEF MaybeCcaBusy, SwitchMaybeToCcaBusy
      <4>2. D > 0 /\ D \in Int /\ endCcaBusy \in Int
        BY <1>7, <1>10, <2>2, <3>2
      <4>3. Max({endCcaBusy, D}) = D
        <5>1. {endCcaBusy, D} \subseteq Int /\ IsFiniteSet({endCcaBusy, D}) /\ {endCcaBusy, D} # {}
          <6>1. IsFiniteSet({endCcaBusy} \cup {D})
            BY FS_Singleton, FS_AddElement
          <6>2. {endCcaBusy} \cup {D} = {endCcaBusy, D}
            OBVIOUS
          <6> QED
            BY <4>2, <6>1, <6>2
        <5>2. Max({endCcaBusy, D}) \in {endCcaBusy, D} /\ D <= Max({endCcaBusy, D})
          BY <5>1, MaxOf
        <5> QED
          BY <2>3, <4>2, <5>2
      <4> QED
        BY <2>1, <3>2, <4>1, <4>3 DEF MaybeCcaBusy, SwitchMaybeToCcaBusy
    <3> QED
      BY <3>1, <3>2
  <2>5. MacOK'
    <3>1. missed' \subseteq 1 .. MaxSignals
      BY <1>1, <1>2, <1>7, <1>10, <2>1
    <3> QED
      BY <1>2, <1>10, <2>1, <2>2, <2>4, <3>1 DEF MacOK
  <2>6. EventOK'
    BY <1>1, <1>3, <2>1 DEF Consistent, EventOK
  <2>7. BusyOK'
    <3> SUFFICES ASSUME NEW t \in Nat, t < endCcaBusy'
                 PROVE  Power(After(air', t)) >= CcaThreshold
      BY DEF BusyOK
    <3>1. CASE D = 0
      <4>1. Power(After(air, t)) >= CcaThreshold
        BY <2>4, <3>1 DEF Consistent, BusyOK
      <4> QED
        BY <1>7, <1>8, <4>1
    <3>2. CASE D # 0
      BY <2>2, <2>4, <3>2
    <3> QED
      BY <3>1, <3>2
  <2>8. QuietOK'
    <3> SUFFICES ASSUME NEW t \in Nat, t >= endCcaBusy'
                 PROVE  Power(Unheard(air', missed', endRxEvent', t)) < CcaThreshold
      BY DEF QuietOK
    <3>1. CASE D > 0 \/ ~Ends(endRxEvent, 0)
      <4>1. t >= D
        BY <1>7, <1>10, <2>2, <2>4
      <4>2. Power(After(air', t)) < CcaThreshold
        BY <2>2, <3>1, <4>1
      <4>3. /\ Power(Unheard(air', missed', endRxEvent', t)) \in Nat
            /\ Power(Unheard(air', missed', endRxEvent', t)) <= Power(After(air', t))
        BY <1>4, UnheardTypes
      <4> QED
        BY <1>7, <1>8, <4>2, <4>3
    <3>2. CASE ~(D > 0) /\ Ends(endRxEvent, 0)
      <4>1. D = 0
        BY <1>7, <2>2, <3>2
      <4>2. Power(Unheard(air, missed, endRxEvent, t)) < CcaThreshold
        BY <2>4, <4>1 DEF Consistent, QuietOK
      <4>3. Unheard(air', missed', endRxEvent', t) \subseteq Unheard(air, missed, endRxEvent, t)
        BY <1>2, <2>1, <3>2 DEF Unheard, After
      <4> QED
        BY <1>4, <4>2, <4>3, QuietKept
    <3> QED
      BY <3>1, <3>2
  <2>9. HearingOK'
    <3>1. CASE endRxEvent = None
      BY <2>1, <3>1 DEF Consistent, HearingOK
    <3>2. CASE endRxEvent # None
      <4>1. /\ heard \in Seq(Int)
            /\ changes[1].at = -Len(heard) /\ changes[1].delta = endRxEvent.power
            /\ Len(heard) + endRxEvent.left <= MaxDuration
            /\ \A u \in 1 .. Len(heard) :
                 heard[u] = firstPower + Sum(changes, UpTo(changes, u - 1 - Len(heard)))
                              - endRxEvent.power
        BY <3>2 DEF Consistent, HearingOK
      <4>2. \A u \in 1 .. Len(heard) :
              Sum(changes', UpTo(changes', u - 1 - Len(heard))) =
              Sum(changes, UpTo(changes, u - 1 - Len(heard)))
        <5> SUFFICES ASSUME NEW u \in 1 .. Len(heard)
                     PROVE  Sum(changes', UpTo(changes', u - 1 - Len(heard))) =
                            Sum(changes, UpTo(changes, u - 1 - Len(heard)))
          OBVIOUS
        <5>1. Len(heard) \in Nat
          BY <4>1
        <5>2. u - 1 - Len(heard) \in Int /\ u - 1 - Len(heard) < 0
          BY <5>1
        <5> QED
          BY <1>1, <1>3, <3>2, <5>2
      <4>3. firstPower' = firstPower /\ 1 \in DOMAIN changes' /\ changes'[1] = changes[1]
        BY <1>1, <1>3, <3>2
      <4> QED
        BY <2>1, <3>2, <4>1, <4>2, <4>3 DEF HearingOK
    <3> QED
      BY <3>1, <3>2
  <2> QED
    BY <1>1, <1>5, <1>6, <2>5, <2>6, <2>7, <2>8, <2>9 DEF Consistent
<1> QED
  BY <1>11, <1>12

\* A unit of time later, the list, the air and the instants have all moved by one.
LEMMA TickConsistent == Consistent /\ Tick => Consistent'
<1> SUFFICES ASSUME Consistent, Tick PROVE Consistent'
  OBVIOUS
<1>1. Inv /\ Inv' /\ (rxing <=> endRxEvent # None) /\ rxing \in BOOLEAN
      /\ endRxEvent \in Signals \cup {None}
      /\ (rxing /\ endRxEvent.left > 0 => endRxEvent \in air)
  BY TickInv DEF Consistent, Inv, Shape, ReceptionAgrees
<1>2. /\ ~Ends(endRxEvent, 0)
      /\ changes' = [i \in DOMAIN changes |->
           [changes[i] EXCEPT !.at = IF @ = -MaxDuration THEN @ ELSE @ - 1]]
      /\ endTx' = Less(endTx) /\ endCcaBusy' = Less(endCcaBusy)
      /\ endRxEvent' = (IF endRxEvent = None THEN None ELSE Older(endRxEvent))
      /\ air' = Aged(air)
      /\ heard' = (IF endRxEvent = None THEN <<>>
                   ELSE Append(heard, Power(air \ {endRxEvent})))
      /\ firstPower' = firstPower /\ rxing' = rxing /\ missed' = missed /\ signals' = signals
  BY DEF Tick, Aged
<1>3. /\ mac'.rx = Less(mac.rx) /\ mac'.tx = Less(mac.tx) /\ mac'.busy = Less(mac.busy)
  <2>1. mac = [rx |-> mac.rx, tx |-> mac.tx, busy |-> mac.busy, rxing |-> mac.rxing]
    BY <1>1 DEF Inv, Shape
  <2>2. mac' = [rx |-> Less(mac.rx), tx |-> Less(mac.tx), busy |-> Less(mac.busy),
                rxing |-> mac.rxing]
    BY <2>1 DEF Tick
  <2> QED
    BY <2>2
<1>4. /\ Air(air) /\ (\A s \in air : s.id <= signals)
      /\ List(changes) /\ Bounded(changes) /\ firstPower \in Nat
      /\ Balanced(firstPower, changes, air)
      /\ CcaThreshold \in Nat /\ MaxDuration \in Nat
  BY PhyAssumption DEF Consistent, AirOK, ListOK
<1>5. \A s \in air : /\ s \in Signals /\ s.left \in 1 .. MaxDuration
                     /\ Older(s).id = s.id /\ Older(s).left = s.left - 1
  <2> SUFFICES ASSUME NEW s \in air
               PROVE  /\ s \in Signals /\ s.left \in 1 .. MaxDuration
                      /\ Older(s).id = s.id /\ Older(s).left = s.left - 1
    OBVIOUS
  <2>1. s \in Signals /\ s.left \in 1 .. MaxDuration
    BY <1>4 DEF Air
  <2>2. s.left > 0
    BY <1>4, <2>1
  <2> QED
    BY <2>1, <2>2, OlderSignal
<1>6. /\ List(changes') /\ Bounded(changes') /\ Balanced(firstPower, changes', Aged(air))
      /\ DOMAIN changes' = DOMAIN changes
      /\ \A i \in DOMAIN changes :
           /\ changes'[i].at = IF changes[i].at = -MaxDuration THEN changes[i].at
                               ELSE changes[i].at - 1
           /\ changes'[i].delta = changes[i].delta
      /\ \A x \in Int : x >= -MaxDuration =>
           Sum(changes', UpTo(changes', x)) = Sum(changes, UpTo(changes, x + 1))
      /\ MaxDuration > 0 => \A q \in Int :
           Power(After(air, 1)) >= q => Floor(firstPower, changes', q)
  BY <1>2, <1>4, ListOlder
<1>7. Air(Aged(air)) /\ \A t \in Nat :
        /\ After(Aged(air), t) = {Older(s) : s \in After(air, t + 1)}
        /\ Power(After(Aged(air), t)) = Power(After(air, t + 1))
  BY <1>4, AirOlder
<1>8. AirOK'
  <2>1. \A x \in Aged(air) : x.id <= signals
    BY <1>4, <1>5 DEF Aged
  <2> QED
    BY <1>2, <1>7, <2>1 DEF AirOK
<1>9. ListOK'
  BY <1>2, <1>4, <1>6, <1>7 DEF ListOK
<1>10. /\ mac.tx = endTx /\ endTx \in 0 .. MaxDuration
       /\ mac.busy = endCcaBusy /\ endCcaBusy \in 0 .. MaxDuration
       /\ mac.rx = (IF rxing THEN endRxEvent.left ELSE 0) /\ missed \subseteq 1 .. MaxSignals
  BY DEF Consistent, MacOK
<1>11. \A n \in 0 .. MaxDuration : Less(n) \in 0 .. MaxDuration /\ (n = 0 => Less(n) = 0)
                                    /\ (n > 0 => Less(n) = n - 1)
  BY <1>4 DEF Less
<1>12. ASSUME endRxEvent # None
       PROVE  /\ endRxEvent \in Signals /\ endRxEvent \in air /\ rxing
              /\ endRxEvent.left \in 1 .. MaxDuration /\ endRxEvent.power > EdThreshold
              /\ endRxEvent.power \in Nat /\ MaxDuration > 0
              /\ endRxEvent' = Older(endRxEvent) /\ endRxEvent' \in Signals /\ endRxEvent' # None
              /\ endRxEvent'.left = endRxEvent.left - 1 /\ endRxEvent'.power = endRxEvent.power
  <2>1. endRxEvent \in Signals /\ endRxEvent.left \in 0 .. MaxDuration
        /\ endRxEvent.power > EdThreshold /\ rxing /\ endRxEvent.left # 0
    BY <1>1, <1>2, <1>12 DEF Consistent, EventOK, Ends
  <2>2. endRxEvent.left \in 1 .. MaxDuration /\ endRxEvent.left > 0 /\ MaxDuration > 0
    BY <1>4, <2>1
  <2>3. endRxEvent \in air
    BY <1>1, <2>1, <2>2
  <2>4. endRxEvent' = Older(endRxEvent) /\ endRxEvent' \in Signals
        /\ endRxEvent'.left = endRxEvent.left - 1 /\ endRxEvent'.power = endRxEvent.power
    BY <1>2, <1>12, <2>1, <2>2, OlderSignal
  <2>5. endRxEvent.power \in Nat
    BY <2>1, StrengthOf
  <2> QED
    BY <2>1, <2>2, <2>3, <2>4, <2>5, NoneAssumption
<1>13. EventOK'
  <2> SUFFICES ASSUME endRxEvent' # None
               PROVE  /\ endRxEvent'.power > EdThreshold
                      /\ endRxEvent'.left \in 0 .. MaxDuration
                      /\ endRxEvent'.left > 0 => Floor(firstPower', changes', endRxEvent'.power)
    BY DEF EventOK
  <2>1. endRxEvent # None
    BY <1>2
  <2>2. endRxEvent'.left \in 0 .. MaxDuration
    BY <1>4, <1>12, <2>1
  <2>3. ASSUME endRxEvent'.left > 0 PROVE Floor(firstPower', changes', endRxEvent'.power)
    <3>1. endRxEvent \in After(air, 1)
      BY <1>4, <1>12, <2>1, <2>3 DEF After
    <3>2. After(air, 1) \subseteq Signals /\ IsFiniteSet(After(air, 1))
      BY <1>4, AfterTypes
    <3>3. /\ Power(After(air, 1)) = endRxEvent.power + Power(After(air, 1) \ {endRxEvent})
          /\ Power(After(air, 1) \ {endRxEvent}) \in Nat
      BY <3>1, <3>2, PowerRemove
    <3>4. Power(After(air, 1)) >= endRxEvent.power /\ endRxEvent.power \in Int
      BY <1>12, <2>1, <3>3
    <3> QED
      BY <1>2, <1>6, <1>12, <2>1, <3>4
  <2> QED
    BY <1>12, <2>1, <2>2, <2>3
<1>14. MacOK'
  <2>1. mac'.rx = IF rxing' THEN endRxEvent'.left ELSE 0
    <3>1. CASE rxing
      <4>1. mac.rx = endRxEvent.left /\ endRxEvent.left \in 0 .. MaxDuration
            /\ endRxEvent.left > 0 /\ endRxEvent'.left = endRxEvent.left - 1
        BY <1>1, <1>4, <1>10, <1>12, <3>1
      <4> QED
        BY <1>2, <1>3, <1>11, <3>1, <4>1
    <3>2. CASE ~rxing
      BY <1>2, <1>3, <1>10, <3>2 DEF Less
    <3> QED
      BY <3>1, <3>2
  <2> QED
    BY <1>2, <1>3, <1>10, <1>11, <2>1 DEF MacOK
<1>15. BusyOK'
  <2> SUFFICES ASSUME NEW t \in Nat, t < endCcaBusy'
               PROVE  Power(After(air', t)) >= CcaThreshold
    BY DEF BusyOK
  <2>1. t + 1 \in Nat /\ t + 1 < endCcaBusy
    BY <1>2, <1>4, <1>10 DEF Less
  <2>2. Power(After(air, t + 1)) >= CcaThreshold
    BY <2>1 DEF Consistent, BusyOK
  <2> QED
    BY <1>2, <1>7, <2>2
<1>16. QuietOK'
  <2> SUFFICES ASSUME NEW t \in Nat, t >= endCcaBusy'
               PROVE  Power(Unheard(air', missed', endRxEvent', t)) < CcaThreshold
    BY DEF QuietOK
  <2> DEFINE U == Unheard(air, missed, endRxEvent, t + 1)
             V == Unheard(air', missed', endRxEvent', t)
             W == {Older(s) : s \in U}
  <2>1. t + 1 \in Nat /\ t + 1 >= endCcaBusy
    BY <1>2, <1>4, <1>10 DEF Less
  <2>2. Power(U) < CcaThreshold
    BY <2>1 DEF Consistent, QuietOK
  <2>3. U \subseteq Signals /\ IsFiniteSet(U) /\ U \subseteq air /\ Power(U) \in Nat
    <3>1. U \subseteq After(air, t + 1) /\ U \subseteq Signals /\ IsFiniteSet(U) /\ Power(U) \in Nat
      BY <1>4, <2>1, UnheardTypes
    <3>2. After(air, t + 1) \subseteq air
      BY DEF After
    <3> QED
      BY <3>1, <3>2
  <2>4. \A s \in U : s.left > 0
    BY <1>4, <1>5, <2>3
  <2>5. V \subseteq W
    <3> SUFFICES ASSUME NEW x \in V PROVE x \in W
      OBVIOUS
    <3>1. x \in After(Aged(air), t) /\ x.id \notin missed /\ x # endRxEvent'
      BY <1>2 DEF Unheard
    <3>2. PICK s \in After(air, t + 1) : x = Older(s)
      BY <1>7, <3>1
    <3>3. s \in air /\ s \in Signals /\ s # None
      BY <1>5, NoneAssumption DEF After
    <3>4. s.id \notin missed
      BY <1>5, <3>1, <3>2, <3>3
    <3>5. s # endRxEvent
      BY <1>2, <3>1, <3>2, <3>3
    <3> QED
      BY <3>2, <3>4, <3>5 DEF Unheard
  <2>6. W \subseteq Signals
    <3> SUFFICES ASSUME NEW s \in U PROVE Older(s) \in Signals
      OBVIOUS
    <3> QED
      BY <2>3, <2>4, OlderSignal
  <2> HIDE DEF U, V
  <2>7. IsFiniteSet(W) /\ Power(W) = Power(U)
    BY <2>3, <2>4, PowerOlder
  <2> HIDE DEF W
  <2>8. Power(V) <= Power(W) /\ Power(V) \in Nat
    BY <2>5, <2>6, <2>7, PowerGrows
  <2>9. Power(V) < CcaThreshold
    BY <1>4, <2>2, <2>3, <2>7, <2>8
  <2> QED
    BY <2>9 DEF V
<1>17. HearingOK'
  <2>1. CASE endRxEvent = None
    BY <1>2, <2>1 DEF HearingOK
  <2>2. CASE endRxEvent # None
    <3> DEFINE n == Len(heard)
               x == Power(air \ {endRxEvent})
    <3>1. /\ heard \in Seq(Int) /\ 1 \in DOMAIN changes
          /\ changes[1].at = -n /\ changes[1].delta = endRxEvent.power
          /\ n + endRxEvent.left <= MaxDuration
          /\ \A u \in 1 .. n :
               heard[u] = firstPower + Sum(changes, UpTo(changes, u - 1 - n)) - endRxEvent.power
      BY <2>2 DEF Consistent, HearingOK
    <3>2. n \in Nat /\ n < MaxDuration
      BY <1>4, <1>12, <2>2, <3>1
    <3>3. Power(air) = endRxEvent.power + x /\ x \in Nat
      BY <1>4, <1>12, <2>2, PowerRemove DEF Air
    <3>4. heard' = Append(heard, x)
      BY <1>2, <2>2
    <3> HIDE DEF x
    <3>5. /\ heard' \in Seq(Int) /\ Len(heard') = n + 1 /\ heard'[n + 1] = x
          /\ \A u \in 1 .. n : heard'[u] = heard[u]
      BY <3>1, <3>2, <3>3, <3>4
    <3> HIDE DEF n
    <3>6. 1 \in DOMAIN changes' /\ changes'[1].at = -(n + 1)
          /\ changes'[1].delta = endRxEvent'.power
      <4>1. -n # -MaxDuration /\ -n - 1 = -(n + 1)
        BY <1>4, <3>2
      <4>2. 1 \in DOMAIN changes' /\ changes'[1].at = changes[1].at - 1
            /\ changes'[1].delta = changes[1].delta
        BY <1>6, <3>1, <4>1
      <4>3. endRxEvent'.power = endRxEvent.power
        BY <1>12, <2>2
      <4> QED
        BY <3>1, <4>1, <4>2, <4>3
    <3>7. (n + 1) + endRxEvent'.left <= MaxDuration
      BY <1>4, <1>12, <2>2, <3>1, <3>2
    <3>8. firstPower + Sum(changes, UpTo(changes, 0)) = Power(air)
      <4>1. After(air, 0) = air
        BY <1>4, <1>5 DEF After
      <4> QED
        BY <1>4, <4>1 DEF Balanced
    <3>9. ASSUME NEW u \in 1 .. n + 1
          PROVE  heard'[u] = firstPower + Sum(changes', UpTo(changes', u - 1 - (n + 1)))
                               - endRxEvent'.power
      <4>1. u - 1 - (n + 1) \in Int /\ u - 1 - (n + 1) >= -MaxDuration
            /\ u - 1 - (n + 1) + 1 = u - 1 - n
        BY <1>4, <3>2
      <4>2. Sum(changes', UpTo(changes', u - 1 - (n + 1))) = Sum(changes, UpTo(changes, u - 1 - n))
        BY <1>6, <4>1
      <4>3. endRxEvent'.power = endRxEvent.power /\ endRxEvent.power \in Nat
        BY <1>12, <2>2
      <4>4. CASE u <= n
        <5>1. u \in 1 .. n
          BY <3>2, <4>4
        <5> QED
          BY <3>1, <3>5, <4>2, <4>3, <5>1
      <4>5. CASE u = n + 1
        <5>1. u - 1 - n = 0
          BY <3>2, <4>5
        <5>2. firstPower + Sum(changes, UpTo(changes, u - 1 - n)) = endRxEvent.power + x
          BY <3>3, <3>8, <5>1
        <5>3. heard'[u] = x
          BY <3>5, <4>5
        <5>4. Sum(changes, UpTo(changes, u - 1 - n)) \in Int
          BY <1>4, UpToTypes
        <5>5. \A a, b, c, d \in Int : a + b = c + d => d = a + (b - c)
          OBVIOUS
        <5>6. x = firstPower + (Sum(changes, UpTo(changes, u - 1 - n)) - endRxEvent.power)
          BY <1>4, <3>3, <4>3, <5>2, <5>4, <5>5
        <5> QED
          BY <4>2, <4>3, <5>3, <5>6, Zenon
      <4> QED
        BY <3>2, <4>4, <4>5
    <3>10. endRxEvent' # None
      BY <1>12, <2>2
    <3> QED
      BY <1>2, <3>5, <3>6, <3>7, <3>9, <3>10 DEF HearingOK
  <2> QED
    BY <2>1, <2>2
<1> QED
  BY <1>1, <1>8, <1>9, <1>13, <1>14, <1>15, <1>16, <1>17 DEF Consistent

LEMMA NextConsistent == Consistent /\ [Next]_vars => Consistent'
<1> SUFFICES ASSUME Consistent, [Next]_vars PROVE Consistent'
  OBVIOUS
<1>1. CASE StartSend
  BY <1>1, SendConsistent
<1>2. CASE StartReceive
  BY <1>2, ReceiveConsistent
<1>3. CASE EndReceive
  BY <1>3, EndConsistent
<1>4. CASE Tick
  BY <1>4, TickConsistent
<1>5. CASE UNCHANGED vars
  BY <1>5 DEF vars, helper, Consistent, Inv, Shape, ReceptionAgrees, AirOK, ListOK, EventOK,
              MacOK, BusyOK, QuietOK, HearingOK
<1> QED
  BY <1>1, <1>2, <1>3, <1>4, <1>5 DEF Next

LEMMA AlwaysConsistent == Spec => []Consistent
BY InitConsistent, NextConsistent, PTL DEF Spec

-----------------------------------------------------------------------------
(* What follows.                                                           *)

\* The state is what the code's variables can hold (spc-phy.h, spc-interference-helper.h).
THEOREM TypeCorrect == Spec => []TypeOK
<1>1. Consistent => TypeOK
  <2> SUFFICES ASSUME Consistent PROVE TypeOK
    OBVIOUS
  <2>1. \A i \in DOMAIN changes : changes[i].at \in -MaxDuration .. MaxDuration
                                    /\ changes[i].delta \in Int
    BY ListTypes DEF Consistent, ListOK, Bounded
  <2>2. mac.rx \in 0 .. MaxDuration
    BY PhyAssumption DEF Consistent, MacOK, EventOK, Inv, Shape, ReceptionAgrees
  <2>3. Len(heard) <= MaxDuration
    <3>1. CASE endRxEvent = None
      <4>1. Len(<<>>) = 0
        OBVIOUS
      <4> QED
        BY <3>1, <4>1, PhyAssumption DEF Consistent, HearingOK
    <3>2. CASE endRxEvent # None
      <4>1. heard \in Seq(Int) /\ Len(heard) + endRxEvent.left <= MaxDuration
            /\ endRxEvent.left \in 0 .. MaxDuration
        BY <3>2 DEF Consistent, HearingOK, EventOK
      <4> QED
        BY <4>1, PhyAssumption
    <3> QED
      BY <3>1, <3>2
  <2> QED
    BY <2>1, <2>2, <2>3
       DEF TypeOK, Consistent, Inv, Shape, AirOK, Air, ListOK, MacOK
<1> QED
  BY <1>1, AlwaysConsistent, PTL

\* Whatever is folded into m_firstPower and whatever is kept, the list sums to the
\* air, at any instant from now on (AppendEvent and AddNiChangeEvent).
THEOREM ListAlwaysAir == Spec => []ListIsAir
<1>1. Consistent => ListIsAir
  <2> SUFFICES ASSUME Consistent, NEW t \in 0 .. MaxDuration
               PROVE  firstPower + Sum(changes, {i \in DOMAIN changes : changes[i].at <= t}) =
                        Power({s \in air : s.left > t})
    BY DEF ListIsAir
  <2>1. t \in Nat
    BY PhyAssumption
  <2> QED
    BY <2>1 DEF Consistent, ListOK, Balanced, UpTo, After
<1> QED
  BY <1>1, AlwaysConsistent, PTL

\* The PHY is never idle while what counts of the air is at or above the threshold
\* (SpcPhyStateHelper::GetState, MaybeCcaBusy).
THEOREM IdleAlwaysQuiet == Spec => []IdleIsQuiet
<1>1. Consistent => IdleIsQuiet
  <2> SUFFICES ASSUME Consistent, GetState = "IDLE"
               PROVE  Power({s \in air : s.id \notin missed}) < CcaThreshold
    BY DEF IdleIsQuiet
  <2>1. endCcaBusy \in 0 .. MaxDuration /\ ~(endCcaBusy > 0) /\ ~rxing
    BY DEF GetState, Consistent, MacOK
  <2>2. endRxEvent = None
    BY <2>1 DEF Consistent, Inv, ReceptionAgrees
  <2>3. 0 \in Nat /\ 0 >= endCcaBusy
    BY <2>1, PhyAssumption
  <2>4. Power(Unheard(air, missed, endRxEvent, 0)) < CcaThreshold
    BY <2>3 DEF Consistent, QuietOK
  <2>5. Unheard(air, missed, endRxEvent, 0) = {s \in air : s.id \notin missed}
    <3>1. \A s \in air : s \in Signals /\ s.left > 0
      BY PhyAssumption DEF Consistent, AirOK, Air
    <3> QED
      BY <2>2, <3>1, NoneAssumption DEF Unheard, After
  <2> QED
    BY <2>4, <2>5
<1> QED
  BY <1>1, AlwaysConsistent, PTL

\* The MAC's view of the medium is the PHY's (NotifyMaybeCcaBusyStart overwrites
\* where SwitchMaybeToCcaBusy keeps the later instant).
THEOREM MacAlwaysAgrees == Spec => []MacAgrees
<1>1. Consistent => MacAgrees
  <2> SUFFICES ASSUME Consistent PROVE MacAgrees
    OBVIOUS
  <2>1. mac.tx = endTx /\ mac.busy = endCcaBusy
        /\ mac.rx = IF rxing THEN endRxEvent.left ELSE 0
    BY DEF Consistent, MacOK
  <2>2. {mac.rx, mac.tx, mac.busy} =
        {endTx, endCcaBusy, IF rxing THEN endRxEvent.left ELSE 0}
    BY <2>1
  <2> QED
    BY <2>2 DEF MacAgrees
<1> QED
  BY <1>1, AlwaysConsistent, PTL

\* The noise a packet is judged by was what the other signals made of the air, unit
\* by unit (CalculateNoiseInterferenceW, CalculatePer).
THEOREM AlwaysJudgedByAir == Spec => []JudgedByAir
<1>1. Consistent => JudgedByAir
  <2> SUFFICES ASSUME Consistent, endRxEvent # None, endRxEvent.kind = "single"
               PROVE  Judged(endRxEvent) = heard
    BY DEF JudgedByAir
  <2> DEFINE e == endRxEvent
             n == Len(heard)
             own  == {i \in DOMAIN changes : changes[i].at = e.left /\ changes[i].delta = -e.power}
             m == Min(own \cup {Len(changes) + 1})
  <2>1. /\ heard \in Seq(Int) /\ 1 \in DOMAIN changes
        /\ changes[1].at = -n /\ changes[1].delta = e.power
        /\ \A u \in 1 .. n :
             heard[u] = firstPower + (Sum(changes, UpTo(changes, u - 1 - n)) - e.power)
    BY DEF Consistent, HearingOK
  <2>2. n \in Nat /\ heard = [u \in 1 .. n |-> heard[u]]
    BY <2>1
  <2>3. /\ List(changes) /\ firstPower \in Nat /\ Len(changes) \in Nat
        /\ DOMAIN changes = 1 .. Len(changes)
        /\ \A i \in DOMAIN changes : /\ changes[i].at \in Int
                                     /\ Deltas(changes)[i] = changes[i].delta
                                     /\ Deltas(changes)[i] \in Int
    BY ListTypes DEF Consistent, ListOK
  <2>4. e.left \in Nat
    BY PhyAssumption DEF Consistent, EventOK
  <2>5. m \in own \cup {Len(changes) + 1} /\ m <= Len(changes) + 1
    <3>1. IsFiniteSet(own)
      BY <2>3, ListTypes, FS_Subset
    <3>2. IsFiniteSet(own \cup {Len(changes) + 1})
      BY <3>1, FS_AddElement
    <3>3. own \cup {Len(changes) + 1} \subseteq Int
      BY <2>3
    <3> HIDE DEF own
    <3> QED
      BY <3>2, <3>3, MinOf
  <2>6. m \in Int /\ (m \in own => changes[m].at >= 0 /\ m \in DOMAIN changes)
    BY <2>3, <2>4, <2>5
  <2> HIDE DEF m
  <2>7. ASSUME NEW u \in 1 .. n PROVE Noise(e, u) = heard[u]
    <3> DEFINE x == u - 1 - n
               U == UpTo(changes, x)
               T == {i \in 2 .. m - 1 : changes[i].at <= x}
    <3>1. x \in Int /\ x < 0 /\ -n <= x /\ changes[1].at + u - 1 = x
      BY <2>1, <2>2
    <3>2. Noise(e, u) = firstPower + Sum(changes, T)
      BY <3>1 DEF Noise, m
    <3> HIDE DEF x
    <3>3. 1 \in U
      BY <2>1, <3>1 DEF UpTo
    <3>4. U \ {1} = T
      <4>1. ASSUME NEW i \in U, i # 1 PROVE i \in T
        <5>1. i \in DOMAIN changes /\ changes[i].at <= x
          BY DEF UpTo
        <5>2. CASE i >= m
          <6>1. m \in DOMAIN changes /\ changes[m].at >= 0
            BY <2>3, <2>5, <2>6, <5>1, <5>2
          <6>2. changes[m].at <= changes[i].at
            BY <2>3, <5>1, <5>2, <6>1 DEF List, Sorted
          <6> QED
            BY <2>3, <3>1, <5>1, <6>1, <6>2
        <5>3. CASE i < m
          BY <2>3, <2>6, <4>1, <5>1, <5>3
        <5> QED
          BY <2>3, <2>6, <5>1, <5>2, <5>3
      <4>2. ASSUME NEW i \in T PROVE i \in U /\ i # 1
        BY <2>3, <2>5, <2>6 DEF UpTo
      <4> QED
        BY <4>1, <4>2
    <3>5. IsFiniteSet(U) /\ (\A i \in U : Deltas(changes)[i] \in Int)
      BY <2>3, UpToTypes
    <3> HIDE DEF U, T
    <3>6. Sum(changes, U) = Deltas(changes)[1] + Sum(changes, U \ {1})
      BY <3>3, <3>5, SumRemove DEF Sum
    <3>7. Sum(changes, U \ {1}) \in Int
      BY <2>3, <3>5, UpToTypes, ListTypes DEF U
    <3>8. Deltas(changes)[1] = e.power /\ e.power \in Int
      BY <2>1, <2>3
    <3>9. heard[u] = firstPower + (Sum(changes, U) - e.power)
      BY <2>1 DEF U, x
    <3>10. \A a, b, c, d \in Int : d = b + c => a + (d - b) = a + c
      OBVIOUS
    <3>11. Sum(changes, U) = e.power + Sum(changes, T)
      BY <3>4, <3>6, <3>8
    <3>12. Sum(changes, U) \in Int /\ Sum(changes, T) \in Int
      BY <2>3, <3>4, <3>7, UpToTypes DEF U
    <3>13. firstPower + (Sum(changes, U) - e.power) = firstPower + Sum(changes, T)
      BY <2>3, <3>8, <3>10, <3>11, <3>12
    <3> QED
      BY <3>2, <3>9, <3>13, Zenon
  <2>8. Judged(e) = [u \in 1 .. -changes[1].at |-> Noise(e, u)]
    BY DEF Judged
  <2>9. -changes[1].at = n
    <3>1. \A k \in Int : -k \in Int /\ k + (-k) = 0
      OBVIOUS
    <3>2. \A a, b, c \in Int : a + b = 0 /\ b + c = 0 => c = a
      OBVIOUS
    <3>3. n \in Int /\ changes[1].at \in Int
      BY <2>1, <2>2, <2>3
    <3>4. n + changes[1].at = 0 /\ changes[1].at + (-changes[1].at) = 0
      BY <2>1, <3>1, <3>3, Zenon
    <3> QED
      BY <3>1, <3>2, <3>3, <3>4, Zenon
  <2> QED
    BY <2>2, <2>7, <2>8, <2>9
<1> QED
  BY <1>1, AlwaysConsistent, PTL

\* A signal that is not received holds the medium for as long as the air is at or
\* above the threshold (GetEnergyDuration).
THEOREM AlwaysBusyWhileEnergy == Spec => BusyWhileEnergy
<1>1. Consistent /\ [Next]_vars =>
        [signals' # signals /\ ~Ends(endRxEvent, 0) =>
           GetEnergyDuration(firstPower', changes') = Remaining(air')]_vars
  <2> SUFFICES ASSUME Consistent, [Next]_vars, signals' # signals, ~Ends(endRxEvent, 0)
               PROVE  GetEnergyDuration(firstPower', changes') = Remaining(air')
    OBVIOUS
  <2>1. StartReceive
    BY DEF Next, StartSend, EndReceive, Tick, vars
  <2>2. PICK s : Begins(s)
    BY <2>1, ReceiveBegins
  <2> DEFINE D == GetEnergyDuration(firstPower', changes')
             X == {0} \cup {t \in 1 .. MaxDuration :
                              Power({r \in air' : r.left >= t}) >= CcaThreshold}
  <2>3. /\ D \in 0 .. MaxDuration
        /\ \A t \in Nat : t < D => Power(After(air', t)) >= CcaThreshold
        /\ \A t \in Nat : t >= D => Power(After(air', t)) < CcaThreshold
    <3>1. /\ s \in Signals /\ s \notin air /\ s.left \in 1 .. MaxDuration
          /\ AppendEvent(s.power, s.left) /\ air' = air \cup {s}
      BY <2>2 DEF Begins
    <3>2. /\ D \in 0 .. MaxDuration
          /\ \A t \in Nat : t < D => Power(After(air \cup {s}, t)) >= CcaThreshold
          /\ D > 0 \/ ~Ends(endRxEvent, 0) =>
               \A t \in Nat : t >= D => Power(After(air \cup {s}, t)) < CcaThreshold
      BY <3>1, EnergyFound
    <3> QED
      BY <3>1, <3>2
  <2>4. MaxDuration \in Nat /\ CcaThreshold \in Nat /\ Air(air')
    <3>1. AirOK'
      BY <2>1, ReceiveConsistent DEF Consistent
    <3> QED
      BY <3>1, PhyAssumption DEF AirOK
  <2>5. \A t \in 1 .. MaxDuration : /\ {r \in air' : r.left >= t} = After(air', t - 1)
                                    /\ t - 1 \in Nat /\ Power(After(air', t - 1)) \in Nat
    <3> SUFFICES ASSUME NEW t \in 1 .. MaxDuration
                 PROVE  /\ {r \in air' : r.left >= t} = After(air', t - 1)
                        /\ t - 1 \in Nat /\ Power(After(air', t - 1)) \in Nat
      OBVIOUS
    <3>1. \A r \in air' : r.left \in Int
      BY <2>4 DEF Air
    <3>2. {r \in air' : r.left >= t} = After(air', t - 1)
      BY <3>1 DEF After
    <3>3. t - 1 \in Nat
      OBVIOUS
    <3> QED
      BY <2>4, <3>2, <3>3, AfterTypes
  <2> HIDE DEF D
  <2>6. X \subseteq 0 .. MaxDuration /\ X # {}
    BY <2>4
  <2>7. IsFiniteSet(X) /\ X \subseteq Int
    <3> HIDE DEF X
    <3>1. IsFiniteSet(0 .. MaxDuration)
      BY <2>4, FS_Interval
    <3>2. 0 .. MaxDuration \subseteq Int
      BY <2>4
    <3> QED
      BY <2>6, <3>1, <3>2, FS_Subset
  <2>8. D \in X
    <3>1. CASE D = 0
      BY <3>1
    <3>2. CASE D # 0
      <4>1. D \in 1 .. MaxDuration /\ D - 1 < D
        BY <2>3, <2>4, <3>2
      <4>2. Power({r \in air' : r.left >= D}) >= CcaThreshold
        BY <2>3, <2>5, <4>1
      <4> QED
        BY <4>1, <4>2
    <3> QED
      BY <3>1, <3>2
  <2>9. \A t \in X : t <= D
    <3> SUFFICES ASSUME NEW t \in X, ~(t <= D) PROVE FALSE
      OBVIOUS
    <3>1. t \in 1 .. MaxDuration /\ Power({r \in air' : r.left >= t}) >= CcaThreshold
      BY <2>3, <2>4
    <3>2. t - 1 >= D
      BY <2>3, <2>4, <3>1
    <3>3. Power(After(air', t - 1)) < CcaThreshold
      BY <2>3, <2>5, <3>1, <3>2
    <3> QED
      BY <2>4, <2>5, <3>1, <3>3
  <2> HIDE DEF X
  <2>10. Max(X) \in X /\ \A t \in X : t <= Max(X)
    BY <2>6, <2>7, MaxOf
  <2>11. Max(X) = D
    <3>1. Max(X) <= D /\ D <= Max(X)
      BY <2>8, <2>9, <2>10
    <3>2. Max(X) \in Int /\ D \in Int
      BY <2>7, <2>8, <2>10
    <3> QED
      BY <3>1, <3>2
  <2> QED
    BY <2>11 DEF Remaining, D, X
<1> QED
  BY <1>1, AlwaysConsistent, PTL DEF Spec, BusyWhileEnergy
=============================================================================
