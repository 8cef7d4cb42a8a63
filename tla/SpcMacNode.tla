----------------------------- MODULE SpcMacNode -----------------------------
(***************************************************************************)
(* One station running ns3::SpcMac in an environment: the application that *)
(* hands it packets, the stations that answer its frames or do not, the    *)
(* channel that loses or garbles what they send, and other stations that   *)
(* transmit on their own.  The simulator runs the station's events in the  *)
(* order of their times, and those of one instant in the order in which    *)
(* they were scheduled; what the environment does at an instant may come   *)
(* anywhere between them.                                                  *)
(***************************************************************************)
EXTENDS SpcMac

CONSTANTS
  Self,            \* the station's address
  Workload,        \* the packets the application may send
  MaxArrivals,     \* bound: how many it sends
  Foreign,         \* the frames other stations may send on their own
  MaxForeign,      \* bound: how many such frames, or bursts of energy
  AggregateNums    \* what m_tnn may hold: 1 .. m_restrictionPacketNum, or,
                   \* never assigned, anything

ASSUME NodeAssumption ==
  /\ Self \in Addrs
  /\ Workload \subseteq Packets
  /\ Foreign \subseteq Frames
  /\ \A f \in Foreign : ~(f.type = "CTS" /\ f.a1 = Self)  \* an answer, if any
  /\ {MaxArrivals, MaxForeign} \subseteq Nat
  /\ AggregateNums \subseteq Nat

VARIABLES
  mac,       \* the station
  air,       \* answers under way: frames that will begin to arrive, and when
  arrivals,  \* packets the application has still to send
  foreign,   \* frames other stations have still to send
  tied,      \* history: a backoff ended in the very instant a wait did, and
             \* the simulator ran it before the timeout
  superposed \* history: the two packets held were sent superposed before
vars == <<mac, air, arrivals, foreign, tied, superposed>>

Draws == 0 .. CwMax

Init ==
  /\ \E s \in SendStates, u \in BOOLEAN : mac = SpcMacInit(Self, s, u)
  /\ air = {}
  /\ arrivals = MaxArrivals
  /\ foreign = MaxForeign
  /\ tied = FALSE
  /\ superposed = FALSE

-----------------------------------------------------------------------------
(* The environment.                                                        *)

\* What may come back for a frame just sent: each answer that is due, or not.
\* The stations addressed answer as SpcMac's own ReceiveOk does: data that
\* SendUnicastDataNoAck sent is acknowledged, too.
Reply(d, f) == [due |-> d, frame |-> f]
RepliesTo(f) ==
  CASE f = NoFrame -> {}
    [] f # NoFrame /\ f.type = "RTS" ->
         {Reply(RtsTime + Sifs,
                Frame("CTS", Self, NoAddr, NoAddr, "FIRST", Sifs + MaxProp))}
    [] f # NoFrame /\ f.type = "RTS_SPC" ->
         {Reply(RtsTime + Sifs,
                Frame("CTS_SPC", f.a1, NoAddr, NoAddr, "FIRST", Sifs + MaxProp)),
          Reply(RtsTime + Sifs + CtsSendAndSifs,
                Frame("CTS_SPC", f.a2, NoAddr, NoAddr, "FIRST", Sifs + MaxProp))}
    [] f # NoFrame /\ f.type = "DATA" /\ f.a1 # Group ->
         {Reply(DataTime + Sifs, Ack(Self, "FIRST"))}
    [] f # NoFrame /\ f.type = "DATA_SPC" ->
         {Reply(DataTime + Sifs, Ack(Self, "FIRST")),
          Reply(DataTime + Sifs + AckSendAndSifs, Ack(Self, "SECOND"))}
    [] OTHER -> {}

\* The station sends: some of the answers are on their way.
Answered == \E r \in SUBSET RepliesTo(mac'.sent) : air' = air \cup r

\* The application hands over a packet (SpcNetDevice::Send, SendFrom).
Send ==
  /\ arrivals > 0
  /\ \E p \in Workload, draw \in Draws : mac' = Enqueue(mac, p, draw)
  /\ arrivals' = arrivals - 1
  /\ UNCHANGED <<air, foreign>>

\* An answer begins to arrive; a station that sends or receives misses it.
Arrive ==
  \E r \in air :
    /\ r.due = 0
    /\ mac' = IF CanReceive(mac) THEN StartReceive(mac, r.frame)
              ELSE NotifyMaybeCcaBusyStartNow(mac, AirTime(r.frame))
    /\ air' = air \ {r}
    /\ UNCHANGED <<arrivals, foreign>>

\* Another station transmits, to this one or to others, when it hears nothing.
Overheard ==
  /\ foreign > 0
  /\ CanReceive(mac)
  /\ \E f \in Foreign : mac' = StartReceive(mac, f)
  /\ foreign' = foreign - 1
  /\ UNCHANGED <<air, arrivals>>

\* Energy that is not received raises the clear channel assessment.
Busy ==
  /\ foreign > 0
  /\ mac' = NotifyMaybeCcaBusyStartNow(mac, DataTime)
  /\ foreign' = foreign - 1
  /\ UNCHANGED <<air, arrivals>>

Tick ==
  /\ \A e \in mac.ev : e.due > 0
  /\ \A r \in air : r.due > 0
  /\ mac' = Elapse(mac)
  /\ air' = {[r EXCEPT !.due = @ - 1] : r \in air}
  /\ UNCHANGED <<arrivals, foreign>>

-----------------------------------------------------------------------------
(* The simulator runs the event that is due.                               *)

Runs(e, k) == e \in Due(mac) /\ e.k = k

Sends == Answered /\ UNCHANGED <<arrivals, foreign>>

FireBackoffGrantStart == \E e \in mac.ev, draw \in Draws :
  /\ Runs(e, "BackoffGrantStart")
  /\ mac' = BackoffGrantStart(Pop(mac, e), draw)
  /\ Sends

FireBackoffTimeout == \E e \in mac.ev, draw \in Draws, n1, n2 \in AggregateNums :
  /\ Runs(e, "BackoffTimeout")
  /\ \E r \in QueuesAfter(mac, n1, n2) : mac' = BackoffTimeout(Pop(mac, e), r, draw)
  /\ Sends

FireCtsTimeout == \E e \in mac.ev, draw \in Draws :
  /\ Runs(e, "CtsTimeout")
  /\ mac' = CtsTimeout(Pop(mac, e), draw)
  /\ Sends

FireAckTimeout1 == \E e \in mac.ev, draw \in Draws :
  /\ Runs(e, "AckTimeout1")
  /\ mac' = AckTimeout1(Pop(mac, e), draw)
  /\ Sends

FireAckTimeout2 == \E e \in mac.ev, draw \in Draws :
  /\ Runs(e, "AckTimeout2")
  /\ mac' = AckTimeout2(Pop(mac, e), draw)
  /\ Sends

FireSendUnicastDataAfterCts == \E e \in mac.ev :
  /\ Runs(e, "SendUnicastDataAfterCts")
  /\ mac' = SendUnicastDataAfterCts(Pop(mac, e))
  /\ Sends

FireSendSpcDataAfterCtsSpc == \E e \in mac.ev, spc \in BOOLEAN :
  /\ Runs(e, "SendSpcDataAfterCtsSpc")
  /\ mac' = SendSpcDataAfterCtsSpc(Pop(mac, e), spc)
  /\ Sends

\* SendCtsAfterRts, SendCtsSpcAfterRtsSpc and SendAckAfterData build the frame
\* from their arguments only: the event carries it.
FireReply == \E e \in mac.ev, k \in ReplyKinds :
  /\ Runs(e, k)
  /\ mac' = StartSend(Pop(mac, e), e.arg)
  /\ Sends

FireEndReceive == \E e \in mac.ev, ok1, ok2 \in BOOLEAN, draw \in Draws :
  /\ Runs(e, "EndReceive")
  /\ mac' = EndReceive(Pop(mac, e), e.arg, ok1, ok2, draw)
  /\ Sends

Fire ==
  \/ FireBackoffGrantStart
  \/ FireBackoffTimeout
  \/ FireCtsTimeout
  \/ FireAckTimeout1
  \/ FireAckTimeout2
  \/ FireSendUnicastDataAfterCts
  \/ FireSendSpcDataAfterCtsSpc
  \/ FireReply
  \/ FireEndReceive

-----------------------------------------------------------------------------
(* What the properties remember of the past.                               *)

\* Two packets were taken from the queue at once.
PairTaken == /\ Len(mac'.q) < Len(mac.q)
             /\ ~IsType(mac'.sent, "RTS_SPC")
Remember ==
  /\ tied' = \/ tied
             \/ /\ Launch(mac'.sent) \/ mac'.failed \in {"SendRts", "SendRtsSpc"}
                /\ \E e \in mac.ev : e.due = 0 /\ e.k \in Waiting
  /\ superposed' = /\ mac'.p1 # NoPacket /\ mac'.p2 # NoPacket
                   /\ \/ superposed /\ ~PairTaken
                      \/ IsType(mac'.sent, "DATA_SPC")

-----------------------------------------------------------------------------

\* A failed NS_ASSERT ends the program.
Abort == mac.failed # "none" /\ UNCHANGED vars

Running == mac.failed = "none"

Next ==
  \/ /\ Running
     /\ Send \/ Arrive \/ Overheard \/ Busy \/ Tick \/ Fire
     /\ Remember
  \/ Abort

Spec == Init /\ [][Next]_vars

\* Simulator::Run: time goes on and every event that is due runs.
Fairness == 
  /\ WF_vars(Running /\ Tick /\ Remember)
  /\ WF_vars(Running /\ Arrive /\ Remember)
  /\ WF_vars(Running /\ Fire /\ Remember)

FairSpec == Spec /\ Fairness
-----------------------------------------------------------------------------
(* Properties.                                                             *)

TypeOK ==
  /\ mac \in Stations
  /\ air \subseteq [due : Nat, frame : Frames]
  /\ arrivals \in 0 .. MaxArrivals
  /\ foreign \in 0 .. MaxForeign

\* SetState reads m_unicast only when both packet slots are filled.  By then
\* InitSend or a timeout has assigned the field the constructor left out.
UnicastInitialised ==
  mac.p1 # NoPacket /\ mac.p2 # NoPacket => mac.uniSet

\* A packet taken from the queue is never forgotten: some event that retries,
\* finishes or gives it up is always scheduled.
NoOrphanPacket ==
  Running /\ Held(mac) => \E e \in mac.ev : e.k \in SenderKinds

\* What an exchange will do next fits the packets it is about, whatever other
\* backoff chains and receptions did meanwhile.
Scheduled(k) == \E e \in mac.ev : e.k = k
ExchangeMatchesPackets == tied \/
  /\ Scheduled("SendUnicastDataAfterCts") =>
       mac.st # "SPC" /\ CurrentPacket(mac) # NoPacket
  /\ Scheduled("SendSpcDataAfterCtsSpc") =>
       mac.st = "SPC" /\ mac.p1 # NoPacket /\ mac.p2 # NoPacket
  /\ Scheduled("CtsTimeout") => Held(mac)
  /\ Scheduled("AckTimeout1") => mac.p1 # NoPacket
  /\ Scheduled("AckTimeout2") => mac.p2 # NoPacket

\* The NS_ASSERTs of the MAC hold, when no backoff ends in the very instant a
\* wait does.
AssertionsHold == mac.failed # "none" => tied

\* SendRts's NS_ASSERT (m_ctsTimeoutEvent.IsExpired ()).
RtsTimerExpired == mac.failed # "SendRts"

\* ReceiveOk's NS_ASSERT (m_sendState == SPC), for a CTS_SPC.
CtsSpcAnswersSpc == mac.failed # "ReceiveCtsSpc"

\* No backoff chain opens an exchange while another waits for its answer or
\* while a frame is being received, save in the very instant that ends.
NoLaunchWhileWaiting == [][
  Launch(mac'.sent) =>
    \A e \in mac.ev : e.due > 0 => e.k \notin Waiting \cup {"EndReceive"}]_vars

\* Having promised a CTS, a CTS_SPC or the second ACK of a superposed pair, the
\* station opens no exchange of its own before it has sent it.
NoLaunchBeforeReply == [][
  Launch(mac'.sent) =>
    \A e \in mac.ev : ~(e.k \in ReplyKinds /\
      (e.arg.type \in {"CTS", "CTS_SPC"} \/ e.arg.spc = "SECOND"))]_vars

\* "m_currentPacket1 and 2 exist and it is not a retransmission of SPC"
\* (the comment in SetState): two packets are sent superposed at most once.
SuperposedOnce == [][
  superposed /\ IsType(mac'.sent, "DATA_SPC") => tied]_vars

\* BackoffTimeout's "Does not have any frames.": nothing is left to send.
NoFramesLeft ==
  (\E e \in Due(mac) : e.k = "BackoffTimeout") /\ ~Held(mac) => mac.q = <<>>

\* Every packet taken is released: acknowledged, sent unanswered or given up.
HeldIsReleased == Held(mac) ~> (~Held(mac) \/ mac.failed # "none")

=============================================================================
