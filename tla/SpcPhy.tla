------------------------------- MODULE SpcPhy -------------------------------
(***************************************************************************)
(* The receiver of one station: ns3::SpcPhy with its SpcPhyStateHelper and *)
(* SpcInterferenceHelper, and the three instants the MAC keeps of what its *)
(* listener tells it.  Signals of other stations may begin at any moment,  *)
(* in any order with what else happens at that instant; the MAC may send   *)
(* whenever it likes.                                                      *)
(*                                                                         *)
(* The interference helper knows the air only as a list of changes of      *)
(* power; air is what really is there.  Time is relative to now: an        *)
(* instant of the past is negative in the list, and 0 where the code only  *)
(* compares it with now.  Power is in units, exact where the code's        *)
(* doubles round.                                                          *)
(*                                                                         *)
(* A definition marked Variant is not the code's: it is a slip that could  *)
(* be made there, kept to show that a property would notice it.            *)
(***************************************************************************)
EXTENDS Integers, Sequences, FiniteSetsExt, Functions

CONSTANTS
  Powers,        \* received powers, in units
  EdThreshold,   \* m_edThresholdW
  CcaThreshold,  \* m_ccaMode1ThresholdW
  MaxDuration,   \* bound: the longest air time
  PreambleTime,  \* SpcPreamble::GetDuration: the header's part of a signal
  MaxSignals,    \* bound: signals that other stations send
  MaxSends,      \* bound: signals that this station sends
  None           \* no event

ASSUME PhyAssumption ==
  /\ Powers \subseteq Nat \ {0}
  /\ CcaThreshold \in Nat \ {0}
  /\ EdThreshold \in Nat /\ EdThreshold >= CcaThreshold
  /\ {MaxDuration, PreambleTime, MaxSignals, MaxSends} \subseteq Nat

\* One packet, or two in one signal.
Kinds     == {"single", "pair"}
Durations == PreambleTime + 1 .. MaxDuration   \* a header and some payload
Signals   == [id : 1 .. MaxSignals, power : Powers, left : Nat, kind : Kinds]
ASSUME NoneAssumption == None \notin Signals

VARIABLES
  firstPower, \* m_firstPower
  changes,    \* m_niChanges: a sequence of [at, delta]
  helperRxing,\* SpcInterferenceHelper::m_rxing
  endTx,      \* SpcPhyStateHelper::m_endTx
  endCcaBusy, \* SpcPhyStateHelper::m_endCcaBusy
  rxing,      \* SpcPhyStateHelper::m_rxing
  endRxEvent, \* m_endRxEvent while pending: the signal it is about
  mac,        \* the MAC's view: until when rx, tx, busy; m_rxing
  air,        \* the signals on air and how long they last
  missed,     \* history: signals given up for sending, and those that began
              \* in the very instant a reception ended, before its end ran
  heard,      \* history: power of the other signals in each unit of time
              \* since the signal being received began
  signals, sends   \* signals and sends so far
helper == <<firstPower, changes, helperRxing>>
vars == <<helper, endTx, endCcaBusy, rxing, endRxEvent, mac, air, missed, heard,
          signals, sends>>

Init ==
  /\ firstPower = 0 /\ changes = <<>> /\ helperRxing = FALSE
  /\ endTx = 0 /\ endCcaBusy = 0 /\ rxing = FALSE
  /\ endRxEvent = None
  /\ mac = [rx |-> 0, tx |-> 0, busy |-> 0, rxing |-> FALSE]
  /\ air = {} /\ missed = {} /\ heard = <<>>
  /\ signals = 0 /\ sends = 0

Ends(e, left) == e # None /\ e.left = left
Strength == [s \in Signals |-> s.power]
Power(S) == SumFunctionOnSet(Strength, S)

-----------------------------------------------------------------------------
(* SpcInterferenceHelper.                                                  *)

\* The sum of some of the changes.
Deltas(cs) == [i \in DOMAIN cs |-> cs[i].delta]
Sum(cs, I) == SumFunctionOnSet(Deltas(cs), I)

\* upper_bound: as many changes are not after t.
GetPosition(cs, t) ==
  CHOOSE n \in 0 .. Len(cs) : \A i \in DOMAIN cs : i <= n <=> cs[i].at <= t

AddNiChangeEvent(cs, c) ==
  LET n == GetPosition(cs, c.at)
  IN [i \in 1 .. Len(cs) + 1 |-> IF i <= n THEN cs[i] ELSE IF i = n + 1 THEN c ELSE cs[i - 1]]

\* Variant: the changes of this instant are erased and not added.
FoldedEarly(n) == {i \in 1 .. n : changes[i].at < 0}
\* The changes that AppendEvent adds up before it erases the first n.
Folded(n) == 1 .. n

\* What is over is forgotten, but not while a reception needs it: then its own
\* start remains the first change.
AppendEvent(power, d) ==
  LET start == [at |-> 0, delta |-> power]
      end   == [at |-> d, delta |-> -power]
      n     == GetPosition(changes, 0)
      left  == [i \in 1 .. Len(changes) - n + 1 |-> IF i = 1 THEN start ELSE changes[n + i - 1]]
  IN IF helperRxing
       THEN /\ changes' = AddNiChangeEvent(AddNiChangeEvent(changes, start), end)
            /\ UNCHANGED firstPower
       ELSE /\ firstPower' = firstPower + Sum(changes, Folded(n))
            /\ changes' = AddNiChangeEvent(left, end)

\* The power after the first i changes.
Level(first, cs, i) == first + Sum(cs, 1 .. i)

\* Variant: the change at which the power falls below is not counted.
EnergyDurationOneShort(first, cs) ==
  LET low == {i \in DOMAIN cs : cs[i].at >= 0 /\ Level(first, cs, i) < CcaThreshold}
      end == IF cs = <<>> \/ low = {} \/ Min(low \cup {Len(cs)}) = 1 THEN 0
             ELSE cs[Min(low) - 1].at
  IN IF end > 0 THEN end ELSE 0

\* The time until the power falls below the threshold.
GetEnergyDuration(first, cs) ==
  LET low == {i \in DOMAIN cs : cs[i].at >= 0 /\ Level(first, cs, i) < CcaThreshold}
      end == IF cs = <<>> THEN 0 ELSE cs[Min(low \cup {Len(cs)})].at
  IN IF end > 0 THEN end ELSE 0

\* The noise by which the signal received is judged in each unit of time since
\* its start, changes[1], up to its own end.
Noise(e, u) ==
  LET own  == {i \in DOMAIN changes : changes[i].at = e.left /\ changes[i].delta = -e.power}
      last == Min(own \cup {Len(changes) + 1}) - 1
  IN firstPower + Sum(changes, {i \in 2 .. last : changes[i].at <= changes[1].at + u - 1})

\* CalculatePer.  For two packets in one signal the header is judged by the noise
\* at its start (normalNoiseInterferenceW), which is never brought up to date.
Judged(e) == [u \in 1 .. -changes[1].at |->
  IF e.kind = "pair" /\ u <= PreambleTime THEN firstPower ELSE Noise(e, u)]

-----------------------------------------------------------------------------
(* SpcPhyStateHelper.                                                      *)

GetState == IF endTx > 0 THEN "TX"
            ELSE IF rxing THEN "RX"
            ELSE IF endCcaBusy > 0 THEN "CCA_BUSY" ELSE "IDLE"

\* The listener's NotifyTxStart ends what the MAC knows of a reception.
\* Variant: it does not.
NotifyTxStartRx == [mac EXCEPT !.rxing = FALSE]
NotifyTxStart == IF mac.rxing THEN [mac EXCEPT !.rx = 0, !.rxing = FALSE] ELSE mac

SwitchToTx(d) ==
  /\ endTx' = d
  /\ mac' = [NotifyTxStart EXCEPT !.tx = d]
  /\ rxing' = (rxing /\ GetState # "RX")

SwitchToRx(d) ==
  /\ rxing' = TRUE
  /\ mac' = [mac EXCEPT !.rx = d, !.rxing = TRUE]

SwitchMaybeToCcaBusy(d) ==
  /\ mac' = [mac EXCEPT !.busy = d]
  /\ endCcaBusy' = Max({endCcaBusy, d})

-----------------------------------------------------------------------------
(* SpcPhy.                                                                 *)

\* Variant: the interference helper is not told.
GiveUpQuietly ==
  /\ endRxEvent' = IF GetState = "RX" THEN None ELSE endRxEvent
  /\ UNCHANGED helperRxing
\* A reception is given up: its event is cancelled.
GiveUp ==
  /\ endRxEvent' = IF GetState = "RX" THEN None ELSE endRxEvent
  /\ helperRxing' = (helperRxing /\ GetState # "RX")

\* Both StartSend: the MAC sends.
StartSend == \E d \in Durations :
  /\ sends < MaxSends
  /\ sends' = sends + 1
  /\ GiveUp
  /\ SwitchToTx(d)
  /\ missed' = missed \cup (IF GetState = "RX" /\ endRxEvent # None THEN {endRxEvent.id} ELSE {})
  /\ heard' = <<>>
  /\ UNCHANGED <<firstPower, changes, endCcaBusy, air, signals>>

Receivable(power) == power > EdThreshold /\ GetState \in {"IDLE", "CCA_BUSY"}

\* Variant: nobody listens while sending.
MaybeCcaBusyIfSilent(d) ==
  IF d = 0 \/ endTx > 0 THEN UNCHANGED <<mac, endCcaBusy>> ELSE SwitchMaybeToCcaBusy(d)
MaybeCcaBusy(d) ==
  IF d = 0 THEN UNCHANGED <<mac, endCcaBusy>> ELSE SwitchMaybeToCcaBusy(d)

\* Both StartReceive: a signal begins to arrive.
StartReceive == \E p \in Powers, d \in Durations, k \in Kinds :
  LET s == [id |-> signals + 1, power |-> p, left |-> d, kind |-> k]
  IN /\ signals < MaxSignals
     /\ signals' = signals + 1
     /\ air' = air \cup {s}
     /\ AppendEvent(p, d)
     /\ IF Receivable(p)
          THEN /\ helperRxing' = TRUE
               /\ SwitchToRx(d)
               /\ endRxEvent' = s
               /\ heard' = <<>>
               /\ UNCHANGED <<endCcaBusy, missed>>
          ELSE /\ MaybeCcaBusy(GetEnergyDuration(firstPower', changes'))
               /\ missed' = missed \cup (IF Ends(endRxEvent, 0) THEN {s.id} ELSE {})
               /\ UNCHANGED <<helperRxing, rxing, endRxEvent, heard>>
     /\ UNCHANGED <<endTx, sends>>

\* EndReceive and EndReceive2.  Whatever is decoded, the MAC is told, once or
\* twice, and sets its m_rxing.
EndReceive ==
  /\ Ends(endRxEvent, 0)
  /\ endRxEvent' = None
  /\ helperRxing' = FALSE
  /\ rxing' = FALSE
  /\ mac' = [mac EXCEPT !.rxing = FALSE]
  /\ heard' = <<>>
  /\ UNCHANGED <<firstPower, changes, endTx, endCcaBusy, air, missed, signals, sends>>

-----------------------------------------------------------------------------
Less(n)  == IF n = 0 THEN 0 ELSE n - 1
Older(s) == [s EXCEPT !.left = @ - 1]

\* Time passes, unless a reception is to end.
Tick ==
  /\ ~Ends(endRxEvent, 0)
  /\ changes' = [i \in DOMAIN changes |->
       [changes[i] EXCEPT !.at = IF @ = -MaxDuration THEN @ ELSE @ - 1]]
  /\ endTx' = Less(endTx)
  /\ endCcaBusy' = Less(endCcaBusy)
  /\ endRxEvent' = IF endRxEvent = None THEN None ELSE Older(endRxEvent)
  /\ mac' = [mac EXCEPT !.rx = Less(@), !.tx = Less(@), !.busy = Less(@)]
  /\ air' = {Older(s) : s \in {x \in air : x.left > 1}}
  /\ heard' = IF endRxEvent = None THEN <<>> ELSE Append(heard, Power(air \ {endRxEvent}))
  /\ UNCHANGED <<firstPower, helperRxing, rxing, missed, signals, sends>>

Next == StartSend \/ StartReceive \/ EndReceive \/ Tick

Spec == Init /\ [][Next]_vars

-----------------------------------------------------------------------------
(* Properties.                                                             *)

TypeOK ==
  /\ firstPower \in Nat
  /\ \A i \in DOMAIN changes :
       /\ changes[i].at \in -MaxDuration .. MaxDuration
       /\ changes[i].delta \in Int
  /\ {helperRxing, rxing, mac.rxing} \subseteq BOOLEAN
  /\ {endTx, endCcaBusy, mac.rx, mac.tx, mac.busy} \subseteq 0 .. MaxDuration
  /\ endRxEvent \in Signals \cup {None}
  /\ air \subseteq Signals
  /\ \A s \in air : s.left \in 1 .. MaxDuration
  /\ missed \subseteq 1 .. MaxSignals
  /\ Len(heard) <= MaxDuration

\* The state helper, the interference helper, the event queue and the MAC agree
\* on whether, and until when, something is received, and nothing is while the
\* station sends: no end of a reception runs that was given up (the comment in
\* SwitchToTx, and the assertions of SwitchToRx, EndReceive and
\* CalculateNoiseInterferenceW).
ReceptionAgrees ==
  /\ rxing <=> helperRxing
  /\ rxing <=> mac.rxing
  /\ rxing <=> endRxEvent # None
  /\ rxing => /\ endTx = 0
              /\ mac.rx = endRxEvent.left
              /\ endRxEvent.left > 0 => endRxEvent \in air

\* At any instant from now on, the list sums to the power of what will be on
\* air then, whatever was folded into m_firstPower and whatever was kept.
ListIsAir == \A t \in 0 .. MaxDuration :
  firstPower + Sum(changes, {i \in DOMAIN changes : changes[i].at <= t}) =
    Power({s \in air : s.left > t})

\* A packet is judged by the power of the other signals in each unit of time of
\* its reception.
JudgedByAir ==
  endRxEvent # None /\ endRxEvent.kind = "single" => Judged(endRxEvent) = heard

\* The same for two packets in one signal: "accumulate all SNIR changes in the
\* snir vector" (CalculateSnrPer2).
PairJudgedByAir == endRxEvent # None => Judged(endRxEvent) = heard

\* A signal that is not received makes the medium busy for as long as the power
\* on air stays at or above the threshold; unless it begins in the very instant
\* in which a reception ends.
Remaining(S) == Max({0} \cup {t \in 1 .. MaxDuration : Power({s \in S : s.left >= t}) >= CcaThreshold})
BusyWhileEnergy ==
  [][signals' # signals /\ ~Ends(endRxEvent, 0) =>
       GetEnergyDuration(firstPower', changes') = Remaining(air')]_vars

\* The PHY is idle only if the power on air, leaving aside what it has missed,
\* is below the threshold.
IdleIsQuiet ==
  GetState = "IDLE" => Power({s \in air : s.id \notin missed}) < CcaThreshold

\* The MAC, which overwrites its busy instant where the state helper keeps the
\* later one, holds the medium busy exactly until the state helper does.
MacAgrees ==
  Max({mac.rx, mac.tx, mac.busy}) =
  Max({endTx, endCcaBusy, IF rxing THEN endRxEvent.left ELSE 0})
=============================================================================
