----------------------------- MODULE SpcNetwork -----------------------------
(***************************************************************************)
(* Stations running ns3::SpcMac over one ns3::SpcChannel: what one of them *)
(* sends every other one hears, with a delay below a slot, so that what    *)
(* different stations do in a slot may come in any order.  The             *)
(* applications (SpcSender) hand packets to SpcNetDevice::Send and get     *)
(* them from SpcNetDevice::Receive.                                        *)
(*                                                                         *)
(* A frame that no other signal disturbs is decoded, up to MaxLosses times *)
(* not; one that overlaps with another may be decoded or not.              *)
(***************************************************************************)
EXTENDS SpcMacHeader

Seqs == INSTANCE SequencesExt

CONSTANTS
  Power,        \* [Addrs -> [Addrs -> Int]]: CalcRxPower, in tenths of dBW
  Threshold,    \* SpcPhy's energy detection threshold, in tenths of dBW
  Offers,       \* what the applications send: [src, pkt], each pkt once
  Early,        \* bound: the Offers that are sent before time passes
  MaxLosses,    \* bound: frames not decoded though nothing disturbs them
  NoSignal,     \* nothing is received
  Unknown       \* no row in the NodeInformationTable

ASSUME NetworkAssumption ==
  /\ Power \in [Addrs -> [Addrs -> Int]]
  /\ Threshold \in Int
  /\ Offers \subseteq [src : Addrs, pkt : Packets]
  /\ \A o, r \in Offers : o.pkt = r.pkt => o = r
  /\ Early \subseteq Offers
  /\ MaxLosses \in Nat
  /\ Unknown \notin Int

Load    == {o.pkt : o \in Offers}
Payload == Packets \cup {NoPacket}
\* A frame under way from one station to another: the header as it is read,
\* the byte of power in it, the packets it carries, and whether another signal
\* disturbs it.
Signals == [from : Addrs, to : Addrs, frame : Frames, rssi : Rssi,
            pk1 : Payload, pk2 : Payload, clear : BOOLEAN]
ASSUME NoSignalAssumption == NoSignal \notin Signals

VARIABLES
  macs,      \* [Addrs -> Stations]
  info,      \* packetInfo1, packetInfo2: what the data of a slot is made from
  owed,      \* the powers measured of RTSs, arguments of the answers scheduled,
             \* in the order of scheduling: [due, rssi]
  table,     \* NodeInformationTable: the power learned of each station
  air,       \* signals that have still to reach a station
  heard,     \* the signal each station's SpcPhy receives
  noise,     \* how long SpcInterferenceHelper has energy at a station
  offers,    \* what the applications have still to send
  losses,    \* frames that may still be lost
  got,       \* history: how often each packet was delivered to each station
  confirmed, \* history: packets released by an ACK
  agreed,    \* history: whose CTS_SPC was counted since a station's RTS_SPC
  disturbed  \* history: some frame of the exchange under way was disturbed
hist == <<got, confirmed, agreed, disturbed>>
vars == <<macs, info, owed, table, air, heard, noise, offers, losses, hist>>

\* The constructor leaves m_sendState and m_unicast to chance; SpcMacNode starts
\* with every value of them.
Init ==
  /\ macs = [n \in Addrs |-> SpcMacInit(n, "FIRST", FALSE)]
  /\ info = [n \in Addrs |-> <<NoPacket, NoPacket>>]
  /\ owed = [n \in Addrs |-> <<>>]
  /\ table = [n \in Addrs |-> [d \in Addrs |-> Unknown]]
  /\ air = {}
  /\ heard = [n \in Addrs |-> NoSignal]
  /\ noise = [n \in Addrs |-> 0]
  /\ offers = Offers
  /\ losses = MaxLosses
  /\ got = [p \in Load |-> [n \in Addrs |-> 0]]
  /\ confirmed = {}
  /\ agreed = [n \in Addrs |-> {}]
  /\ disturbed = FALSE

Draws == 0 .. CwMax

-----------------------------------------------------------------------------
(* What the properties are about.                                          *)

\* No exchange is under way.
Silence ==
  /\ air = {}
  /\ \A n \in Addrs :
       /\ heard[n] = NoSignal /\ noise[n] <= 0 /\ macs[n].end["tx"] <= 0
       /\ \A e \in macs[n].ev : e.k \notin Waiting \cup ReplyKinds

Disturb(b) == disturbed' = ((disturbed \/ b) /\ ~Silence')

-----------------------------------------------------------------------------
(* A station runs one of its handlers, which leaves it in state m.         *)

\* SpcChannel::Send: one copy for every station but the sender.
Copies(n, f, rssi, pk1, pk2) ==
  IF f = NoFrame THEN {}
  ELSE LET w == Serialize(f, rssi, 0)
           g == Deserialize(w)
       IN {[from |-> n, to |-> d, frame |-> g,
            rssi |-> IF g.type \in {"CTS", "CTS_SPC"} THEN GetRtsRssi(w) ELSE 0,
            pk1 |-> pk1, pk2 |-> pk2, clear |-> TRUE] : d \in Addrs \ {n}}

\* Variant: data of one packet is made from the first slot's, whichever it is.
CarriedFirst(n, f, slot) ==
  CASE f = NoFrame                           -> <<NoPacket, NoPacket>>
    [] f # NoFrame /\ f.type = "DATA_SPC"    -> info[n]
    [] f # NoFrame /\ f.type = "DATA"        -> <<info[n][1], NoPacket>>
    [] OTHER                                 -> <<NoPacket, NoPacket>>

\* The packets a frame carries: data of one packet is made from the slot's.
Carried(n, f, slot) ==
  CASE f = NoFrame                           -> <<NoPacket, NoPacket>>
    [] f # NoFrame /\ f.type = "DATA_SPC"    -> info[n]
    [] f # NoFrame /\ f.type = "DATA"        ->
         <<IF slot = "SECOND" THEN info[n][2] ELSE info[n][1], NoPacket>>
    [] OTHER                                 -> <<NoPacket, NoPacket>>

Does(n, m, slot, rssi) ==
  LET c == Carried(n, m.sent, slot) IN
  /\ macs' = [macs EXCEPT ![n] = [m EXCEPT !.sent = NoFrame]]
  /\ info' = [info EXCEPT ![n] =
       <<IF m.p1 # NoPacket THEN m.p1 ELSE @[1],
         IF m.p2 # NoPacket THEN m.p2 ELSE @[2]>>]
  /\ air' = air \cup Copies(n, m.sent, rssi, c[1], c[2])

\* A handler that sends or waits: a reception it breaks off is not heard.
Sends(n, m, slot, rssi) ==
  /\ Does(n, m, slot, rssi)
  /\ heard' = [heard EXCEPT ![n] = IF m.rxing THEN @ ELSE NoSignal]
  /\ agreed' = IF IsType(m.sent, "RTS_SPC") \/ IsType(m.sent, "DATA_SPC")
                 THEN [agreed EXCEPT ![n] = {}] ELSE agreed
  /\ UNCHANGED <<table, noise, offers, losses, got, confirmed>>
  /\ Disturb(heard'[n] # heard[n])

Runs(n, e, k) == e \in Due(macs[n]) /\ e.k = k

FireBackoffGrantStart == \E n \in Addrs, draw \in Draws : \E e \in macs[n].ev :
  /\ Runs(n, e, "BackoffGrantStart")
  /\ Sends(n, BackoffGrantStart(Pop(macs[n], e), draw), "FIRST", 0)
  /\ UNCHANGED owed

\* The packets of Offers all differ: there is nothing to aggregate.
FireBackoffTimeout == \E n \in Addrs, draw \in Draws : \E e \in macs[n].ev :
  /\ Runs(n, e, "BackoffTimeout")
  /\ Sends(n, BackoffTimeout(Pop(macs[n], e), macs[n].q, draw),
           SetState(macs[n]).st, 0)
  /\ UNCHANGED owed

FireCtsTimeout == \E n \in Addrs, draw \in Draws : \E e \in macs[n].ev :
  /\ Runs(n, e, "CtsTimeout")
  /\ Sends(n, CtsTimeout(Pop(macs[n], e), draw), "FIRST", 0)
  /\ UNCHANGED owed

FireAckTimeout1 == \E n \in Addrs, draw \in Draws : \E e \in macs[n].ev :
  /\ Runs(n, e, "AckTimeout1")
  /\ Sends(n, AckTimeout1(Pop(macs[n], e), draw), "FIRST", 0)
  /\ UNCHANGED owed

FireAckTimeout2 == \E n \in Addrs, draw \in Draws : \E e \in macs[n].ev :
  /\ Runs(n, e, "AckTimeout2")
  /\ Sends(n, AckTimeout2(Pop(macs[n], e), draw), "FIRST", 0)
  /\ UNCHANGED owed

FireSendUnicastDataAfterCts == \E n \in Addrs : \E e \in macs[n].ev :
  /\ Runs(n, e, "SendUnicastDataAfterCts")
  /\ Sends(n, SendUnicastDataAfterCts(Pop(macs[n], e)), macs[n].st, 0)
  /\ UNCHANGED owed

FireSendSpcDataAfterCtsSpc == \E n \in Addrs, spc \in BOOLEAN : \E e \in macs[n].ev :
  /\ Runs(n, e, "SendSpcDataAfterCtsSpc")
  /\ Sends(n, SendSpcDataAfterCtsSpc(Pop(macs[n], e), spc), "FIRST", 0)
  /\ UNCHANGED owed

\* SendCtsAfterRts, SendCtsSpcAfterRtsSpc: the frame and the power measured.
\* Answers of one instant leave in the order in which they were scheduled.
FireCts == \E n \in Addrs : \E e \in macs[n].ev, i \in DOMAIN owed[n] :
  /\ Runs(n, e, "SendCtsAfterRts") \/ Runs(n, e, "SendCtsSpcAfterRtsSpc")
  /\ owed[n][i].due = 0 /\ \A j \in 1 .. (i - 1) : owed[n][j].due # 0
  /\ Sends(n, StartSend(Pop(macs[n], e), e.arg), "FIRST", owed[n][i].rssi)
  /\ owed' = [owed EXCEPT ![n] = Seqs!RemoveAt(@, i)]

FireSendAckAfterData == \E n \in Addrs : \E e \in macs[n].ev :
  /\ Runs(n, e, "SendAckAfterData")
  /\ Sends(n, StartSend(Pop(macs[n], e), e.arg), "FIRST", 0)
  /\ UNCHANGED owed

-----------------------------------------------------------------------------
(* Signals.                                                                *)

\* SpcChannel::Receive, Receive2 and SpcPhy::StartReceive
Arrive == \E s \in air :
  LET n  == s.to
      t  == AirTime(s.frame)
      rx == Power[s.from][n] >= Threshold /\ CanReceive(macs[n])
  IN
  /\ macs' = [macs EXCEPT ![n] = IF rx THEN StartReceive(@, s.frame)
                                 ELSE NotifyMaybeCcaBusyStartNow(@, t)]
  /\ heard' = [heard EXCEPT ![n] =
       IF rx THEN [s EXCEPT !.clear = noise[n] <= 0]
       ELSE IF @ = NoSignal THEN @ ELSE [@ EXCEPT !.clear = FALSE]]
  /\ noise' = [noise EXCEPT ![n] = IF @ >= t THEN @ ELSE t]
  /\ air' = air \ {s}
  /\ UNCHANGED <<info, owed, table, offers, losses, got, confirmed, agreed>>
  /\ Disturb(~rx \/ noise[n] > 0)

\* Whether a frame asks station n for a CTS or a CTS_SPC, and in how long.
Asks(n, f)     == \/ f.type = "RTS" /\ f.a1 = n
                  \/ f.type = "RTS_SPC" /\ n \in {f.a1, f.a2}
CtsDelay(n, f) == IF f.a1 = n THEN Sifs ELSE Sifs + CtsSendAndSifs

\* The station whose row a CTS or a CTS_SPC updates, past its assertion.
Measured(m, f) ==
  CASE f.type = "CTS" /\ f.a1 = m.addr /\ m.st # "SPC" -> {CurrentAddr(m)}
    [] f.type = "CTS_SPC" /\ m.st = "SPC" /\ ~IsExpired(m, "CtsTimeout")
                          /\ f.a1 \in {m.h1, m.h2} -> {f.a1}
    [] OTHER -> {}

\* The packets SpcNetDevice::Receive passes to the application.
Delivered(n, s, ok1, ok2) ==
  CASE s.frame.type = "DATA" ->
         {p \in {s.pk1} : ok1 /\ s.frame.a1 \in {n, Group}}
    [] s.frame.type = "DATA_SPC" ->
         {p \in {s.pk1} : ok1 /\ s.frame.a1 = n}
         \cup {p \in {s.pk2} : ok2 /\ s.frame.a2 = n}
    [] OTHER -> {}

HeldBy(m) == ({m.p1, m.p2} \cup {m.q[i] : i \in DOMAIN m.q}) \ {NoPacket}

\* A frame is decoded, or not: ok2 is about the second of superposed packets.
FireEndReceive ==
  \E n \in Addrs, ok1, ok2 \in BOOLEAN, draw \in Draws : \E e \in macs[n].ev :
  LET s    == heard[n]
      m    == EndReceive(Pop(macs[n], e), s.frame, ok1, ok2, draw)
      lost == s.clear /\ ~(ok1 /\ ok2)
      upd  == IF ok1 THEN Measured(macs[n], s.frame) ELSE {}
      to   == Delivered(n, s, ok1, ok2)
  IN
  /\ Runs(n, e, "EndReceive")
  /\ s.frame.type = "DATA_SPC" \/ ok2
  /\ lost => losses > 0
  /\ losses' = IF lost THEN losses - 1 ELSE losses
  /\ Does(n, m, "FIRST", 0)
  /\ owed' = [owed EXCEPT ![n] = IF ok1 /\ Asks(n, s.frame)
       THEN Append(@, [due  |-> CtsDelay(n, s.frame),
                       rssi |-> ConvertRssiToDbm(Power[s.from][n])])
       ELSE @]
  /\ table' = [table EXCEPT ![n] =
       [d \in Addrs |-> IF d \in upd THEN ConvertRssiToW(s.rssi) ELSE @[d]]]
  /\ heard' = [heard EXCEPT ![n] = NoSignal]
  /\ got' = [p \in Load |-> IF p \in to THEN [got[p] EXCEPT ![n] = @ + 1] ELSE got[p]]
  /\ confirmed' = confirmed \cup (HeldBy(macs[n]) \ HeldBy(m))
  /\ agreed' = IF s.frame.type = "CTS_SPC" /\ upd # {}
                 THEN [agreed EXCEPT ![n] = @ \cup {s.from}] ELSE agreed
  /\ UNCHANGED <<noise, offers>>
  /\ Disturb(lost)

-----------------------------------------------------------------------------
\* SpcSender::SendPacket and SpcNetDevice::Send
Send == \E o \in offers, draw \in Draws :
  /\ Does(o.src, Enqueue(macs[o.src], o.pkt, draw), "FIRST", 0)
  /\ offers' = offers \ {o}
  /\ UNCHANGED <<owed, table, heard, noise, losses, got, confirmed, agreed>>
  /\ Disturb(FALSE)

Tick ==
  /\ air = {} /\ offers \cap Early = {}
  /\ \A n \in Addrs : \A e \in macs[n].ev : e.due > 0
  /\ macs' = [n \in Addrs |-> Elapse(macs[n])]
  /\ owed' = [n \in Addrs |->
       [i \in DOMAIN owed[n] |-> [owed[n][i] EXCEPT !.due = @ - 1]]]
  /\ noise' = [n \in Addrs |-> IF noise[n] > 0 THEN noise[n] - 1 ELSE 0]
  /\ UNCHANGED <<info, table, air, heard, offers, losses, got, confirmed,
                 agreed>>
  /\ Disturb(FALSE)

\* The simulation ends with a failed NS_ASSERT.
Running == \A n \in Addrs : macs[n].failed = "none"

Fire ==
  \/ FireBackoffGrantStart
  \/ FireBackoffTimeout
  \/ FireCtsTimeout
  \/ FireAckTimeout1
  \/ FireAckTimeout2
  \/ FireSendUnicastDataAfterCts
  \/ FireSendSpcDataAfterCtsSpc
  \/ FireCts
  \/ FireSendAckAfterData
  \/ FireEndReceive

Next == Running /\ (Send \/ Arrive \/ Fire \/ Tick)

Spec == Init /\ [][Next]_vars

-----------------------------------------------------------------------------
(* Properties.                                                             *)

TypeOK ==
  /\ macs \in [Addrs -> Stations]
  /\ info \in [Addrs -> Payload \X Payload]
  /\ owed \in [Addrs -> Seq([due : Int, rssi : Rssi])]
  /\ table \in [Addrs -> [Addrs -> Int \cup {Unknown}]]
  /\ air \subseteq Signals
  /\ heard \in [Addrs -> Signals \cup {NoSignal}]
  /\ noise \in [Addrs -> Nat]
  /\ offers \subseteq Offers
  /\ losses \in 0 .. MaxLosses
  /\ got \in [Load -> [Addrs -> Nat]]
  /\ confirmed \subseteq Packets
  /\ agreed \in [Addrs -> SUBSET Addrs]
  /\ disturbed \in BOOLEAN

\* Every packet a station has taken is looked after: an event that will retry,
\* finish or give it up is scheduled, whatever the other stations do.
NoOrphanPacket == Running =>
  \A n \in Addrs : Held(macs[n]) => \E e \in macs[n].ev : e.k \in SenderKinds

\* A station opens no exchange while it waits for an answer, while it receives,
\* or before it has sent the CTS, CTS_SPC or second ACK it has promised; the
\* instant in which a wait or a reception ends is left out.
Promised(e) == e.k \in ReplyKinds /\
                 (e.arg.type \in {"CTS", "CTS_SPC"} \/ e.arg.spc = "SECOND")
NoLaunchOutOfTurn == [][
  \A s \in air' \ air : Launch(s.frame) =>
    \A e \in macs[s.from].ev :
      /\ ~Promised(e)
      /\ e.due > 0 => e.k \notin Waiting \cup {"EndReceive"}]_vars

\* A packet is held by no station but the one it was handed to, and comes to no
\* application but those it is for; neither before it was handed over.  (Data is
\* made from packetInfo1 or packetInfo2 and addressed from m_currentHdr1 or
\* m_currentHdr2, which outlive the packet they describe.)
NothingAstray == \A o \in Offers, n \in Addrs :
  /\ o.pkt \in HeldBy(macs[n]) => o \notin offers /\ n = o.src
  /\ got[o.pkt][n] > 0 => o \notin offers /\ n # o.src /\ o.pkt.dst \in {n, Group}

AllHeld == UNION {HeldBy(macs[n]) : n \in Addrs}
Under   == UNION {{s.pk1, s.pk2} : s \in air \cup ({heard[n] : n \in Addrs} \ {NoSignal})}
             \ (AllHeld \cup {NoPacket})

Transfer == INSTANCE PacketTransfer WITH
  Offers <- Load, Receivers <- Addrs,
  MaxCopies <- ResendDataMax + 2,
  fresh <- {o.pkt : o \in offers}, held <- AllHeld, under <- Under

\* The network does what PacketTransfer promises.
KeepsPromises == Transfer!Spec

\* Data is superposed only when both destinations have agreed to it.
BothAgreed == [][
  \A s \in air' \ air : s.frame.type = "DATA_SPC" =>
     {s.frame.a1, s.frame.a2} \subseteq agreed[s.from]]_vars

\* The stations that station n sends to.
Peers(n) == {o.pkt.dst : o \in {r \in Offers : r.src = n}} \ {Group}

\* A CTS_SPC does not say whose RTS_SPC the power in it was measured of, and
\* every station that sends to the one that answers counts it.
OneSource == \A n, k \in Addrs : Peers(n) \cap Peers(k) # {} => n = k

\* The received powers are levels that the byte of ConvertRssiToDbm can hold.
InRange == \A n \in Addrs : \A d \in Peers(n) : -1270 < Power[n][d] /\ Power[n][d] < 0

\* What a station learns of the way to another one is not better than it is,
\* and at most 1 dB worse.  It takes OneSource and InRange.
LearnedPower == \A n, d \in Addrs :
  table[n][d] # Unknown =>
    table[n][d] < Power[n][d] /\ Power[n][d] - 10 <= table[n][d]

\* A station that waits for a CTS goes on meaning the station it asked: the
\* handler of the CTS files the power under CurrentAddr, not under its sender,
\* whom a CTS does not name.  The instant in which the wait ends is left out.
AwaitsCts(m) == \E e \in m.ev : e.k = "CtsTimeout" /\ e.due > 0
KeepsDestination == [][
  \A n \in Addrs : AwaitsCts(macs[n]) =>
    CurrentAddr(macs[n])' = CurrentAddr(macs[n])]_vars

\* While nothing disturbs an exchange, no other station opens one.  There are
\* three exceptions.  ReceiveOk sets no m_waitTime for DATA, so that a station
\* may launch before it acknowledges (OwesAck); a station whose reception ends
\* in this very instant does not yet know what it received (Receiving); and a
\* frame of the other station may not have reached it yet (r).
OwesAck(n)   == \E e \in macs[n].ev : e.k = "SendAckAfterData"
Receiving(n) == \E e \in macs[n].ev : e.k = "EndReceive" /\ e.due = 0
NoLaunchInExchange == [][
  \A s \in air' \ air :
    Launch(s.frame) /\ ~disturbed /\ ~OwesAck(s.from) /\ ~Receiving(s.from) =>
      \A n \in Addrs \ {s.from} :
        \/ \A e \in macs[n].ev : e.due > 0 => e.k \notin Waiting \cup ReplyKinds
        \/ \E r \in air : r.from = n /\ r.to = s.from]_vars

\* An answer finds the station that waits for it ready to receive.
AnswersReach == [][
  \A s \in air \ air' : ~Launch(s.frame) /\ ~disturbed =>
    CanReceive(macs[s.to]) /\ noise[s.to] <= 0]_vars

\* A packet that counts as acknowledged was delivered.
AckedWasDelivered ==
  \A p \in confirmed : \E n \in Addrs : got[p][n] > 0
=============================================================================
