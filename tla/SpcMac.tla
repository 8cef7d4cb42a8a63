------------------------------- MODULE SpcMac -------------------------------
(***************************************************************************)
(* The handlers of ns3::SpcMac (src/spc-mac/model/spc-mac.cc), the medium   *)
(* access control of one station, as functions from the state of a station *)
(* to its state after the handler returns.  A handler that calls another   *)
(* one in the C++ code applies the other operator here, so that a whole    *)
(* call chain is one step, as it is in the discrete event simulator.       *)
(*                                                                         *)
(* Time is discrete and relative: every instant the code stores            *)
(* (m_lastRxStart + m_lastRxDuration, m_waitTime, the time of an event) is *)
(* kept as the number of time units from Now to it.  Instants in the past  *)
(* saturate at -Difs: the code only asks whether they are Difs old.        *)
(*                                                                         *)
(* A definition marked Variant is not the code's: it is a slip that could  *)
(* be made there, kept to show that a property would notice it.            *)
(***************************************************************************)
EXTENDS Integers, FiniteSets, Sequences

CONSTANTS
  Addrs,         \* unicast Mac48Addresses
  Group,         \* the broadcast address (Mac48Address::IsGroup)
  NoAddr,        \* an address field that was not set
  Ports,         \* UDP destination ports, which PacketInfo reads
  NoPacket,      \* the null Ptr<Packet>
  NoFrame,       \* nothing was put on air / no frame belongs to the event
  Sifs, Difs,    \* m_sifs, m_difs, in slots (m_slotTime is the time unit)
  MaxProp,       \* m_maxPropagationDelay
  RtsTime, CtsTime, AckTime, DataTime,  \* air time of a frame
  CwMin, CwMax, ResendRtsMax, ResendDataMax,
  QueueMax       \* SpcMacQueue's MaxPacketNumber

ASSUME TimeAssumption ==
  /\ {Sifs, Difs, MaxProp, RtsTime, CtsTime, AckTime, DataTime} \subseteq Nat \ {0}
  /\ {CwMin, CwMax, ResendRtsMax, ResendDataMax, QueueMax} \subseteq Nat
  /\ CwMin <= CwMax
  /\ QueueMax > 0

ASSUME ValueAssumption ==
  /\ Group \notin Addrs
  /\ NoAddr \notin Addrs \cup {Group}

Dests   == Addrs \cup {Group}
\* large: m_rtsSendThreshold <= packet->GetSize ()
Packets == [dst : Dests, port : Ports, large : BOOLEAN]

ASSUME NoPacketAssumption == NoPacket \notin Packets

FrameTypes == {"RTS", "CTS", "DATA", "RTS_SPC", "CTS_SPC", "DATA_SPC", "ACK"}
SpcNums    == {"FIRST", "SECOND"}
Address    == Dests \cup {NoAddr}
\* SpcMacHeader; dur is the duration field, spc the number of the ACK.
Frames     == [type : FrameTypes, a1 : Address, a2 : Address, a3 : Address,
               spc : SpcNums, dur : Nat]

ASSUME NoFrameAssumption == NoFrame \notin Frames

Frame(t, a1, a2, a3, n, d) ==
  [type |-> t, a1 |-> a1, a2 |-> a2, a3 |-> a3, spc |-> n, dur |-> d]

\* m_rtsSendAndSifsTime, m_ctsSendAndSifsTime, m_ackSendAndSifsTime
RtsSendAndSifs == RtsTime + MaxProp + Sifs
CtsSendAndSifs == CtsTime + MaxProp + Sifs
AckSendAndSifs == AckTime + MaxProp + Sifs

AirTime(f) == CASE f.type \in {"RTS", "RTS_SPC"}   -> RtsTime
                [] f.type \in {"CTS", "CTS_SPC"}   -> CtsTime
                [] f.type \in {"DATA", "DATA_SPC"} -> DataTime
                [] f.type = "ACK"                  -> AckTime

-----------------------------------------------------------------------------
(* The state of a station.                                                 *)

\* The instants GetSendGrantStart and GetBackoffGrantStart take the maximum of.
Causes == {"rx", "tx", "busy", "nav", "ack", "cts", "wait"}

\* The event kinds that retransmission and backoff live on.
SenderKinds == {"BackoffGrantStart", "BackoffTimeout", "CtsTimeout",
                "AckTimeout1", "AckTimeout2",
                "SendUnicastDataAfterCts", "SendSpcDataAfterCtsSpc"}
ReplyKinds  == {"SendCtsAfterRts", "SendCtsSpcAfterRtsSpc", "SendAckAfterData"}
Kinds       == SenderKinds \cup ReplyKinds \cup {"EndReceive"}

\* Kinds whose EventId member the code asks for IsExpired or cancels: an event
\* of these is "cur" while the member still refers to it.
Tracked == {"BackoffGrantStart", "CtsTimeout", "AckTimeout1", "AckTimeout2"}

\* A scheduled event: due from now, and before "after" others of that instant.
Events == [k : Kinds, due : Nat, after : Nat, cur : BOOLEAN,
           arg : Frames \cup {NoFrame}]

\* The events of an exchange this station has opened: what it waits for, and the
\* data that is a SIFS away.
Waiting == {"CtsTimeout", "AckTimeout1", "AckTimeout2",
            "SendUnicastDataAfterCts", "SendSpcDataAfterCtsSpc"}

\* A frame BackoffTimeout sends: it opens an exchange, or is one by itself.
Launch(f) == /\ f # NoFrame
             /\ \/ f.type \in {"RTS", "RTS_SPC"}
                \/ f.type = "DATA" /\ f.dur = 0
IsType(f, t) == f # NoFrame /\ f.type = t

SendStates == {"FIRST", "SECOND", "SPC"}

\* The handlers whose NS_ASSERTs depend on what happened before.
Asserting == {"ReceiveCts", "ReceiveCtsSpc", "SendRts", "SendRtsSpc",
              "SendUnicastDataAfterCts", "SendSpcDataAfterCtsSpc"}

Stations ==
  [addr   : Addrs,                     \* m_address
   p1     : Packets \cup {NoPacket},   \* m_currentPacket1
   p2     : Packets \cup {NoPacket},   \* m_currentPacket2
   h1     : Address,                   \* m_currentHdr1.GetAddr1 ()
   h2     : Address,                   \* m_currentHdr2.GetAddr1 ()
   st     : SendStates,                \* m_sendState
   uni    : BOOLEAN,                   \* m_unicast
   uniSet : BOOLEAN,                   \* whether m_unicast was ever assigned
   cw     : CwMin .. CwMax,            \* m_cw
   rrts   : 0 .. ResendRtsMax,         \* m_resendRtsNum
   rdata  : 0 .. ResendDataMax,        \* m_resendDataNum
   ncts   : Nat,                       \* m_recvCtsNum
   end    : [Causes -> Int],
   rxing  : BOOLEAN,                   \* m_rxing, of the MAC and of the PHY
   q      : Seq(Packets),              \* m_queue
   ev     : SUBSET Events,             \* this station's events in the simulator
   sent   : Frames \cup {NoFrame},     \* frame given to SpcPhy::StartSend
   failed : Asserting \cup {"none"}]   \* whose NS_ASSERT ended the program

\* The constructor.  It leaves m_sendState and m_unicast uninitialised: u is
\* whatever the memory held; m_sendState is read by no handler before SetState.
SpcMacInit(a, s, u) ==
  [addr |-> a, p1 |-> NoPacket, p2 |-> NoPacket, h1 |-> NoAddr, h2 |-> NoAddr,
   st |-> s, uni |-> u, uniSet |-> FALSE, cw |-> CwMin,
   rrts |-> 0, rdata |-> 0, ncts |-> 0, end |-> [c \in Causes |-> 0],
   rxing |-> FALSE, q |-> <<>>, ev |-> {}, sent |-> NoFrame,
   failed |-> "none"]

\* NS_ASSERT, in the builds that compile it: n if ok, else the program aborts.
NsAssert(m, handler, ok, n) == IF ok THEN n ELSE [m EXCEPT !.failed = handler]

Held(m) == m.p1 # NoPacket \/ m.p2 # NoPacket

-----------------------------------------------------------------------------
(* The simulator, as this station uses it: Simulator::Schedule,            *)
(* EventId::IsExpired and EventId::Cancel.  Events of one instant run in   *)
(* the order in which they were scheduled.                                 *)

\* Assigning a new event to a tracked EventId leaves the old event scheduled.
Schedule(m, k, d, f) ==
  [m EXCEPT !.ev =
     {[e EXCEPT !.after = IF e.due = d THEN @ + 1 ELSE @,
                !.cur   = @ /\ e.k # k] : e \in @}
     \cup {[k |-> k, due |-> d, after |-> 0, cur |-> k \in Tracked, arg |-> f]}]

IsExpired(m, k) == \A e \in m.ev : ~(e.k = k /\ e.cur)

Cancel(m, k) == [m EXCEPT !.ev = {e \in @ : ~(e.k = k /\ e.cur)}]

\* The events the simulator may run next: one, the first scheduled for now.
Due(m) == {e \in m.ev : /\ e.due = 0
                        /\ \A f \in m.ev : f.due = 0 => f.after <= e.after}

Pop(m, e) == [m EXCEPT !.ev = @ \ {e}, !.sent = NoFrame]

\* One time unit passes.
Saturate(t) == IF t < -Difs THEN -Difs ELSE t
Elapse(m) ==
  [m EXCEPT !.end  = [c \in Causes |-> Saturate(@[c] - 1)],
            !.ev   = {[e EXCEPT !.due = @ - 1] : e \in @},
            !.sent = NoFrame]

-----------------------------------------------------------------------------
(* When the medium is free.                                                *)

Latest(m) == CHOOSE t \in {m.end[c] : c \in Causes} :
                \A c \in Causes : m.end[c] <= t

GetBackoffGrantStart(m) == Latest(m) + Difs

\* Variant: the instants an answer is awaited until are left out.
GetSendGrantStartNoTimers(m) ==
  CHOOSE t \in {m.end[c] : c \in Causes \ {"ack", "cts"}} :
    \A c \in Causes \ {"ack", "cts"} : m.end[c] <= t

GetSendGrantStart(m) == Latest(m)

\* SetNav clears m_lastNavStart before it compares, so that the reservation
\* in force is replaced, by a shorter one too.
SetNav(m, d) == [m EXCEPT !.end["nav"] = d]

-----------------------------------------------------------------------------
(* The physical layer, as far as the MAC sees it: SpcPhy and               *)
(* SpcPhyStateHelper report each change to SpcMac's PhySpcMacListener.     *)

IsStateTx(m) == m.end["tx"] > 0
IsStateRx(m) == ~IsStateTx(m) /\ m.rxing

\* SpcPhy::StartSend: a reception in progress is given up.
StartSend(m, f) ==
  LET ev  == IF IsStateRx(m) THEN {e \in m.ev : e.k # "EndReceive"} ELSE m.ev
      end == [c \in Causes |-> CASE c = "tx"           -> AirTime(f)
                                 [] c = "rx" /\ m.rxing -> 0
                                 [] OTHER              -> m.end[c]]
  IN [m EXCEPT !.ev = ev, !.end = end, !.rxing = FALSE, !.sent = f]

\* SpcPhy::StartReceive of a frame above the energy detection threshold.
CanReceive(m) == ~IsStateTx(m) /\ ~m.rxing
StartReceive(m, f) ==
  [Schedule(m, "EndReceive", AirTime(f), f)
     EXCEPT !.end["rx"] = AirTime(f), !.rxing = TRUE, !.sent = NoFrame]

\* The reception ends in this instant and EndReceive has not run yet, with
\* nothing else on air.
EndsNow(m) == m.rxing /\ m.end["rx"] = 0 /\ m.end["busy"] <= 0

\* SpcInterferenceHelper::GetEnergyDuration, when a signal of length d begins:
\* until the last of the signals that now overlap is over.  The walk over the
\* changes stops at a reception that ends now, before it comes to the signal.
\* What is left of a reception given up for sending counts in the code and not
\* here: nothing in m remembers it (SpcPhy has the whole list).
GetEnergyDuration(m, d) ==
  LET ends == {d, m.end["busy"]} \cup (IF m.rxing THEN {m.end["rx"]} ELSE {})
  IN IF EndsNow(m) THEN 0 ELSE CHOOSE t \in ends : \A e \in ends : e <= t

\* A signal of length d that is not received: SwitchMaybeToCcaBusy, unless the
\* duration is zero.
NotifyMaybeCcaBusyStartNow(m, d) ==
  [m EXCEPT !.end["busy"] = IF GetEnergyDuration(m, d) = 0 THEN @
                            ELSE GetEnergyDuration(m, d),
            !.sent = NoFrame]

-----------------------------------------------------------------------------
(* Backoff.                                                                *)

\* Variant: m_unicast is left out.
InitSendKeepUnicast(m) == [m EXCEPT !.rrts = 0, !.rdata = 0, !.cw = CwMin]

InitSend(m) ==
  [m EXCEPT !.rrts = 0, !.rdata = 0, !.cw = CwMin, !.uni = FALSE, !.uniSet = TRUE]

UpdateCw(m) ==
  [m EXCEPT !.cw = IF 2 * (@ + 1) - 1 <= CwMax THEN 2 * (@ + 1) - 1 ELSE CwMax]

SetState(m) ==
  LET both == m.p1 # NoPacket /\ m.p2 # NoPacket /\ ~m.uni
      spc  == Group \notin {m.h1, m.h2} /\ m.h1 # m.h2
  IN [m EXCEPT !.st = IF both /\ spc THEN "SPC"
                      ELSE IF ~both /\ m.p1 = NoPacket /\ m.p2 # NoPacket
                        THEN "SECOND"
                        ELSE "FIRST"]

\* The number of slots is m_rng->GetNext (0, m_cw); draw is any number.
StartBackoff(m, draw) ==
  Schedule(SetState(m), "BackoffTimeout", draw % (m.cw + 1), NoFrame)

BackoffGrantStart(m, draw) ==
  IF GetBackoffGrantStart(m) <= 0
    THEN StartBackoff(m, draw)
    ELSE Schedule(m, "BackoffGrantStart", GetBackoffGrantStart(m), NoFrame)

\* SpcMacQueue::Dequeue, twice if it can.
TakePackets(m) ==
  LET rest == Tail(m.q)
      one  == [m EXCEPT !.p1 = Head(m.q), !.h1 = Head(m.q).dst, !.q = rest]
  IN IF rest = <<>>
       THEN one
       ELSE [one EXCEPT !.p2 = Head(rest), !.h2 = Head(rest).dst, !.q = Tail(rest)]

\* Variant: looks at the queue only.
StartBackoffIfQueued(m, draw) ==
  IF ~IsExpired(m, "BackoffGrantStart") \/ Held(m) \/ m.q = <<>> THEN m
  ELSE BackoffGrantStart(TakePackets(m), draw)

StartBackoffIfNeeded(m, draw) ==
  IF ~IsExpired(m, "BackoffGrantStart") THEN m
  ELSE IF Held(m) THEN BackoffGrantStart(m, draw)
  ELSE IF m.q # <<>> THEN BackoffGrantStart(TakePackets(m), draw)
  ELSE m

\* SpcMac::Enqueue; a full SpcMacQueue drops the packet.
Enqueue(m, p, draw) ==
  StartBackoffIfNeeded(
    [m EXCEPT !.q = IF Len(@) = QueueMax THEN @ ELSE Append(@, p),
              !.sent = NoFrame], draw)

-----------------------------------------------------------------------------
(* Sending.                                                                *)

\* The packet m_sendState points at, and its destination.
CurrentPacket(m) == IF m.st = "SECOND" THEN m.p2 ELSE m.p1
CurrentAddr(m)   == IF m.st = "SECOND" THEN m.h2 ELSE m.h1

SendRts(m) ==
  LET d == RtsSendAndSifs + CtsSendAndSifs
      n == Schedule(m, "CtsTimeout", d, NoFrame)
  IN NsAssert(m, "SendRts", m.st # "SPC" /\ IsExpired(m, "CtsTimeout"),
       StartSend([n EXCEPT !.end["cts"] = d],
                 Frame("RTS", CurrentAddr(m), m.addr, NoAddr, "FIRST",
                       CtsSendAndSifs)))

\* Variant: m_recvCtsNum goes on from the attempt before.
SendRtsSpcKeepCount(m) ==
  LET d == RtsSendAndSifs + 2 * CtsSendAndSifs
      n == Schedule(m, "CtsTimeout", d, NoFrame)
  IN StartSend([n EXCEPT !.end["cts"] = d],
               Frame("RTS_SPC", m.h1, m.h2, NoAddr, "FIRST", 2 * CtsSendAndSifs))

SendRtsSpc(m) ==
  LET d == RtsSendAndSifs + 2 * CtsSendAndSifs
      n == Schedule([m EXCEPT !.ncts = 0], "CtsTimeout", d, NoFrame)
  IN NsAssert(m, "SendRtsSpc", m.st = "SPC" /\ IsExpired(m, "CtsTimeout"),
       StartSend([n EXCEPT !.end["cts"] = d],
                 Frame("RTS_SPC", m.h1, m.h2, NoAddr, "FIRST",
                       2 * CtsSendAndSifs)))

\* A packet below the RTS threshold, or a broadcast: sent once, not answered.
SendUnicastDataNoAck(m, draw) ==
  LET n == InitSend(StartSend(m, Frame("DATA", CurrentAddr(m), m.addr, NoAddr,
                                       "FIRST", 0)))
  IN StartBackoffIfNeeded(IF m.st = "SECOND"
                            THEN [n EXCEPT !.p2 = NoPacket]
                            ELSE [n EXCEPT !.p1 = NoPacket], draw)

\* Data whose acknowledgement is awaited.
SendUnicastDataAfterCts(m) ==
  LET d == DataTime + MaxProp + AckSendAndSifs
      k == IF m.st = "SECOND" THEN "AckTimeout2" ELSE "AckTimeout1"
      n == Schedule([m EXCEPT !.end["ack"] = d], k, d, NoFrame)
  IN NsAssert(m, "SendUnicastDataAfterCts", m.st # "SPC" /\ IsExpired(m, k),
       StartSend(n, Frame("DATA", CurrentAddr(m), m.addr, NoAddr, "FIRST",
                          AckSendAndSifs)))

\* Variant: falls back to unicast without m_sendState = FIRST.
SendDataAfterCtsSpc(m, spc) ==
  LET d  == DataTime + MaxProp + 2 * AckSendAndSifs
      t1 == Schedule([m EXCEPT !.end["ack"] = d], "AckTimeout1", d, NoFrame)
      t2 == Schedule(t1, "AckTimeout2", d, NoFrame)
  IN IF spc
       THEN StartSend(t2, Frame("DATA_SPC", m.h1, m.h2, m.addr, "FIRST",
                                2 * AckSendAndSifs))
       ELSE SendUnicastDataAfterCts(m)

\* spc: superposed transmission is estimated no slower than two unicasts.
SendSpcDataAfterCtsSpc(m, spc) ==
  LET d  == DataTime + MaxProp + 2 * AckSendAndSifs
      t1 == Schedule([m EXCEPT !.end["ack"] = d], "AckTimeout1", d, NoFrame)
      t2 == Schedule(t1, "AckTimeout2", d, NoFrame)
      ok == /\ m.st = "SPC"
            /\ IsExpired(m, "AckTimeout1")
            /\ IsExpired(m, "AckTimeout2")
  IN NsAssert(m, "SendSpcDataAfterCtsSpc", ok,
       IF spc
         THEN StartSend(t2, Frame("DATA_SPC", m.h1, m.h2, m.addr, "FIRST",
                                  2 * AckSendAndSifs))
         ELSE SendUnicastDataAfterCts([m EXCEPT !.st = "FIRST"]))

\* SpcMacQueue::Aggregation: the oldest num - 1 queued packets of p's
\* destination and port leave the queue; num is unsigned, so 0 takes them all.
\* (A singleton: the only way to number the packets kept in queue order.)
Aggregation(q, p, num) ==
  LET match == {i \in DOMAIN q : q[i].dst = p.dst /\ q[i].port = p.port}
      cut   == {i \in match :
                  num = 0 \/ Cardinality({j \in match : j < i}) < num - 1}
      keep  == DOMAIN q \ cut
      n     == Cardinality(keep)
  IN {[i \in 1..n |-> q[g[i]]] :
        g \in {g \in [1..n -> keep] : \A i \in 2..n : g[i - 1] < g[i]}}

\* What BackoffTimeout may leave of the queue, when it aggregates n1 and n2.
QueuesAfter(m, n1, n2) ==
  IF Held(m) /\ GetSendGrantStart(m) <= 0 /\ SetState(m).st = "SPC"
    THEN UNION {Aggregation(r, m.p2, n2) : r \in Aggregation(m.q, m.p1, n1)}
    ELSE {m.q}

BackoffTimeout(m, queue, draw) ==
  LET n == [SetState(m) EXCEPT !.q = queue]
  IN IF ~Held(m) THEN InitSend(m)     \* "Does not have any frames."
     ELSE IF GetSendGrantStart(m) > 0
       THEN Schedule(m, "BackoffGrantStart", GetBackoffGrantStart(m), NoFrame)
     ELSE IF n.st = "SPC" THEN SendRtsSpc(n)
     ELSE IF CurrentAddr(n) # Group /\ CurrentPacket(n).large THEN SendRts(n)
     ELSE SendUnicastDataNoAck(n, draw)

-----------------------------------------------------------------------------
(* Timeouts.                                                               *)

\* Variant: m_resendRtsNum is not counted.
CtsTimeoutUncounted(m, draw) == BackoffGrantStart(UpdateCw(m), draw)

CtsTimeout(m, draw) ==
  IF m.rrts < ResendRtsMax
    THEN BackoffGrantStart(UpdateCw([m EXCEPT !.rrts = @ + 1]), draw)
    ELSE StartBackoffIfNeeded(
           [InitSend(m) EXCEPT !.p1 = NoPacket, !.p2 = NoPacket], draw)

\* Variant: m_unicast stays what InitSend made it.
RetrySuperposed(m, draw) == BackoffGrantStart(InitSend(m), draw)

\* A lost acknowledgement of superposed data: go on with unicast.
RetryUnicast(m, draw) == BackoffGrantStart([InitSend(m) EXCEPT !.uni = TRUE], draw)

RetryData(m, draw) ==
  BackoffGrantStart(UpdateCw([m EXCEPT !.rdata = @ + 1]), draw)

\* Variant: one repetition more than the limit allows.
AckTimeoutOneMore(m, draw) ==
  IF m.st = "SPC" THEN RetryUnicast(m, draw)
  ELSE IF m.rdata <= ResendDataMax THEN RetryData(m, draw)
  ELSE StartBackoffIfNeeded([InitSend(m) EXCEPT !.p1 = NoPacket], draw)

AckTimeout1(m, draw) ==
  IF m.st = "SPC" THEN RetryUnicast(m, draw)
  ELSE IF m.rdata < ResendDataMax THEN RetryData(m, draw)
  ELSE StartBackoffIfNeeded([InitSend(m) EXCEPT !.p1 = NoPacket], draw)

AckTimeout2(m, draw) ==
  IF m.st = "SPC" THEN RetryUnicast(m, draw)
  ELSE IF m.rdata < ResendDataMax THEN RetryData(m, draw)
  ELSE StartBackoffIfNeeded([InitSend(m) EXCEPT !.p2 = NoPacket], draw)

-----------------------------------------------------------------------------
(* Receiving.                                                              *)

\* Variant: what is addressed to others reserves nothing.
OverhearNothing(m, f) == m

\* The reservation another station's frame announces.
Overhear(m, f) ==
  CASE f.type \in {"RTS_SPC", "DATA_SPC"} ->
         IF m.addr \notin {f.a1, f.a2} THEN SetNav(m, f.dur) ELSE m
    [] f.type = "CTS_SPC" -> m
    [] OTHER -> IF m.addr # f.a1 THEN SetNav(m, f.dur) ELSE m

\* Variant: m_waitTime is not set.
WaitNot(m, d) == m

WaitUntil(m, d) ==
  [m EXCEPT !.end["wait"] = IF @ >= d THEN @ ELSE d]

ReceiveRts(m, f) ==
  IF f.a1 = m.addr
    THEN Schedule(WaitUntil(m, Sifs + CtsSendAndSifs), "SendCtsAfterRts", Sifs,
                Frame("CTS", f.a2, NoAddr, NoAddr, "FIRST", Sifs + MaxProp))
    ELSE m

ReceiveCts(m, f) ==
  IF f.a1 = m.addr
    THEN NsAssert(m, "ReceiveCts", m.st # "SPC",
           Schedule([Cancel(m, "CtsTimeout") EXCEPT !.end["cts"] = Sifs],
                    "SendUnicastDataAfterCts", Sifs, NoFrame))
    ELSE m

Ack(source, n) == Frame("ACK", source, NoAddr, NoAddr, n, 0)

\* Variant: the delay is the time ReceiveDataSpc waits.
ReceiveDataLate(m, f) ==
  IF f.a1 = m.addr
    THEN Schedule(m, "SendAckAfterData", 2 * AckSendAndSifs + Sifs, Ack(f.a2, "FIRST"))
    ELSE m

\* No m_waitTime here, unlike the other three answers.
ReceiveData(m, f) ==
  IF f.a1 = m.addr
    THEN Schedule(m, "SendAckAfterData", Sifs, Ack(f.a2, "FIRST"))
    ELSE m

\* The second station answers one CTS_SPC later than the first.
ReceiveRtsSpc(m, f) ==
  LET w   == WaitUntil(m, Sifs + 2 * CtsSendAndSifs)
      cts == Frame("CTS_SPC", m.addr, NoAddr, NoAddr, "FIRST", MaxProp + Sifs)
  IN IF f.a1 = m.addr THEN Schedule(w, "SendCtsSpcAfterRtsSpc", Sifs, cts)
     ELSE IF f.a2 = m.addr
       THEN Schedule(w, "SendCtsSpcAfterRtsSpc", Sifs + CtsSendAndSifs, cts)
     ELSE m

\* A CTS_SPC names only the station that sends it.
ReceiveCtsSpc(m, f) ==
  LET n == [m EXCEPT !.ncts = @ + 1]
  IN IF IsExpired(m, "CtsTimeout") \/ f.a1 \notin {m.h1, m.h2}
       THEN m
       ELSE NsAssert(m, "ReceiveCtsSpc", m.st = "SPC",
              IF n.ncts = 2
                THEN Schedule([Cancel(n, "CtsTimeout") EXCEPT !.end["cts"] = Sifs],
                              "SendSpcDataAfterCtsSpc", Sifs, NoFrame)
                ELSE n)

\* Variant: the second station does not wait for the first one's acknowledgement.
ReceiveDataSpcAtOnce(m, f, num) ==
  IF (num = "FIRST" /\ f.a1 = m.addr) \/ (num = "SECOND" /\ f.a2 = m.addr)
    THEN Schedule(WaitUntil(m, 2 * AckSendAndSifs + Sifs), "SendAckAfterData",
                  Sifs, Ack(f.a3, num))
    ELSE m

\* num: which of the two superposed packets this is.
ReceiveDataSpc(m, f, num) ==
  LET w == WaitUntil(m, 2 * AckSendAndSifs + Sifs)
  IN IF num = "FIRST" /\ f.a1 = m.addr
       THEN Schedule(w, "SendAckAfterData", Sifs, Ack(f.a3, "FIRST"))
     ELSE IF num = "SECOND" /\ f.a2 = m.addr
       THEN Schedule(w, "SendAckAfterData", AckSendAndSifs + Sifs,
                   Ack(f.a3, "SECOND"))
     ELSE m

\* Variant: the timeout is not cancelled.
ReceiveAckUncancelled(m, f, draw) ==
  LET n == IF m.st = "SECOND" \/ (m.st = "SPC" /\ f.spc = "SECOND")
             THEN [m EXCEPT !.p2 = NoPacket]
             ELSE [m EXCEPT !.p1 = NoPacket]
  IN IF f.a1 = m.addr THEN StartBackoffIfNeeded(InitSend(n), draw) ELSE m

\* Variant: whoever the acknowledgement is addressed to.
ReceiveAckOfOthers(m, f, draw) ==
  LET first == m.st = "FIRST" \/ (m.st = "SPC" /\ f.spc = "FIRST")
      n     == IF first THEN [Cancel(m, "AckTimeout1") EXCEPT !.p1 = NoPacket]
               ELSE [Cancel(m, "AckTimeout2") EXCEPT !.p2 = NoPacket]
  IN StartBackoffIfNeeded(InitSend(n), draw)

ReceiveAck(m, f, draw) ==
  LET first  == m.st = "FIRST"  \/ (m.st = "SPC" /\ f.spc = "FIRST")
      second == m.st = "SECOND" \/ (m.st = "SPC" /\ f.spc = "SECOND")
      n == CASE first  -> [Cancel(m, "AckTimeout1") EXCEPT !.p1 = NoPacket]
             [] second -> [Cancel(m, "AckTimeout2") EXCEPT !.p2 = NoPacket]
  IN IF f.a1 = m.addr THEN StartBackoffIfNeeded(InitSend(n), draw) ELSE m

ReceiveOk(m, f, num, draw) ==
  LET n == Overhear([m EXCEPT !.rxing = FALSE], f)
  IN CASE f.type = "RTS"      -> ReceiveRts(n, f)
       [] f.type = "CTS"      -> ReceiveCts(n, f)
       [] f.type = "DATA"     -> ReceiveData(n, f)
       [] f.type = "RTS_SPC"  -> ReceiveRtsSpc(n, f)
       [] f.type = "CTS_SPC"  -> ReceiveCtsSpc(n, f)
       [] f.type = "DATA_SPC" -> ReceiveDataSpc(n, f, num)
       [] f.type = "ACK"      -> ReceiveAck(n, f, draw)

ReceiveError(m) == [m EXCEPT !.rxing = FALSE]

\* SpcPhy::EndReceive and, for superposed packets, EndReceive2: each packet is
\* decoded (ok1, ok2) or lost, the first one first.
EndReceive(m, f, ok1, ok2, draw) ==
  LET n == IF ok1 THEN ReceiveOk(m, f, "FIRST", draw) ELSE ReceiveError(m)
  IN IF f.type # "DATA_SPC" THEN n
     ELSE IF ok2 THEN ReceiveOk(n, f, "SECOND", draw) ELSE ReceiveError(n)
=============================================================================
