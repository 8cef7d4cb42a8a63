------------------------- MODULE SpcMacNode_proofs --------------------------
(***************************************************************************)
(* TLAPS proofs about SpcMacNode, a station in its environment: the        *)
(* theorems have one step per event of the simulator, and take what each   *)
(* handler does from SpcMac_proofs and SpcMacExchange_proofs.              *)
(*                                                                         *)
(* The last part is about the packets an exchange is about: what a station *)
(* awaits fits what it holds, as long as no backoff ends in the very       *)
(* instant a wait does (the variable tied). There each event is first      *)
(* reduced to what it does to the exchange (Acts); the invariants are then *)
(* proved of these steps.                                                  *)
(***************************************************************************)
EXTENDS SpcMacNode, SpcMacExchange_proofs

-----------------------------------------------------------------------------
(* The invariant.                                                          *)

Inv ==
  /\ TypeOK
  /\ mac.addr = Self
  /\ Good(mac)
  /\ Idle(mac) => \A r \in air : ~CtsTo(r.frame, Self)

LEMMA RepliesType ==
  ASSUME NEW f \in Frames \cup {NoFrame}
  PROVE  /\ RepliesTo(f) \subseteq [due : Nat, frame : Frames]
         /\ f = NoFrame \/ f.type \in Answers => RepliesTo(f) = {}
<1> DEFINE R == [due : Nat, frame : Frames]
<1>1. CASE f = NoFrame
  BY <1>1 DEF RepliesTo
<1>2. CASE f # NoFrame
  <2>1. f \in Frames /\ f.type \in FrameTypes /\ f.a1 \in Address /\ f.a2 \in Address
    BY <1>2, FrameFields
  <2>2. Self \in Address /\ NoAddr \in Address
    BY NodeAssumption DEF Address, Dests
  <2>3. /\ RtsTime + Sifs \in Nat /\ DataTime + Sifs \in Nat /\ Sifs + MaxProp \in Nat
        /\ RtsTime + Sifs + CtsSendAndSifs \in Nat
        /\ DataTime + Sifs + AckSendAndSifs \in Nat
    BY DurationTypes, Sums
  <2>4. \A d \in Nat, g \in Frames : Reply(d, g) \in R
    BY DEF Reply
  <2>5. /\ Frame("CTS", Self, NoAddr, NoAddr, "FIRST", Sifs + MaxProp) \in Frames
        /\ Frame("CTS_SPC", f.a1, NoAddr, NoAddr, "FIRST", Sifs + MaxProp) \in Frames
        /\ Frame("CTS_SPC", f.a2, NoAddr, NoAddr, "FIRST", Sifs + MaxProp) \in Frames
        /\ Ack(Self, "FIRST") \in Frames /\ Ack(Self, "SECOND") \in Frames
    BY <2>1, <2>2, <2>3, AnswerFrame DEF Answers, SpcNums, Ack
  <2> HIDE DEF R
  <2>6. CASE f.type = "RTS"
    BY <1>2, <2>3, <2>4, <2>5, <2>6 DEF RepliesTo, Answers, R
  <2>7. CASE f.type = "RTS_SPC"
    BY <1>2, <2>3, <2>4, <2>5, <2>7 DEF RepliesTo, Answers, R
  <2>8. CASE f.type = "DATA" /\ f.a1 # Group
    BY <1>2, <2>3, <2>4, <2>5, <2>8 DEF RepliesTo, Answers, R
  <2>9. CASE f.type = "DATA_SPC"
    BY <1>2, <2>3, <2>4, <2>5, <2>9 DEF RepliesTo, Answers, R
  <2>10. CASE f.type \in Answers \/ (f.type = "DATA" /\ f.a1 = Group)
    BY <1>2, <2>10 DEF RepliesTo, Answers
  <2> QED
    BY <2>1, <2>6, <2>7, <2>8, <2>9, <2>10 DEF FrameTypes, Answers
<1> QED
  BY <1>1, <1>2

LEMMA InitInv == Init => Inv
<1> SUFFICES ASSUME Init PROVE Inv
  OBVIOUS
<1>1. PICK s \in SendStates, u \in BOOLEAN : mac = SpcMacInit(Self, s, u)
  BY DEF Init
<1>2. CwMin \in Nat /\ Self \in Addrs /\ MaxArrivals \in Nat /\ MaxForeign \in Nat
  BY TimeAssumption, NodeAssumption
<1>3. mac \in Stations
  <2>1. [c \in Causes |-> 0] \in [Causes -> Int]
    OBVIOUS
  <2>2. NoAddr \in Address /\ <<>> \in Seq(Packets)
    BY DEF Address
  <2>3. CwMin \in CwMin .. CwMax /\ 0 \in 0 .. ResendRtsMax /\ 0 \in 0 .. ResendDataMax
    BY TimeAssumption
  <2> QED
    BY <1>1, <1>2, <2>1, <2>2, <2>3 DEF SpcMacInit, Stations
<1>4. /\ mac.addr = Self /\ mac.p1 = NoPacket /\ mac.p2 = NoPacket /\ ~mac.uniSet
      /\ mac.q = <<>> /\ mac.ev = {} /\ mac.sent = NoFrame
  BY <1>1 DEF SpcMacInit
<1>5. Good(mac)
  BY <1>4 DEF Good, Fresh, Quiet, ArgsOK
<1>6. TypeOK
  BY <1>2, <1>3 DEF TypeOK, Init
<1> QED
  BY <1>4, <1>5, <1>6 DEF Inv, Init

\* A handler ran and its answers are on their way.
LEMMA FireInv ==
  ASSUME Inv, Leads(mac, mac'), Answered, UNCHANGED <<arrivals, foreign>>
  PROVE  Inv'
<1>1. PICK r \in SUBSET RepliesTo(mac'.sent) : air' = air \cup r
  BY DEF Answered
<1>2. /\ mac' \in Stations /\ Good(mac') /\ mac'.addr = Self
      /\ Idle(mac') => Idle(mac)
  BY DEF Leads, Inv
<1>3. mac'.sent \in Frames \cup {NoFrame}
  BY <1>2 DEF Stations
<1>4. r \subseteq [due : Nat, frame : Frames]
  BY <1>3, RepliesType
<1>5. Idle(mac') => r = {}
  BY <1>2, <1>3, RepliesType DEF Good, Fresh, Quiet
<1>6. TypeOK'
  BY <1>1, <1>2, <1>4 DEF Inv, TypeOK
<1>7. Idle(mac') => \A x \in air' : ~CtsTo(x.frame, Self)
  BY <1>1, <1>2, <1>5 DEF Inv
<1> QED
  BY <1>2, <1>6, <1>7 DEF Inv

\* Nothing was sent: answers under way are no more than they were.
LEMMA QuietInv ==
  ASSUME Inv, Leads(mac, mac'),
         air' \subseteq [due : Nat, frame : Frames],
         \A x \in air' : \E r \in air : x.frame = r.frame,
         arrivals' \in 0 .. MaxArrivals, foreign' \in 0 .. MaxForeign
  PROVE  Inv'
<1>1. /\ mac' \in Stations /\ Good(mac') /\ mac'.addr = Self
      /\ Idle(mac') => Idle(mac)
  BY DEF Leads, Inv
<1>2. TypeOK'
  BY <1>1 DEF TypeOK
<1>3. Idle(mac') => \A x \in air' : ~CtsTo(x.frame, Self)
  BY <1>1 DEF Inv
<1> QED
  BY <1>1, <1>2, <1>3 DEF Inv

LEMMA DrawsNat == Draws \subseteq Nat
BY TimeAssumption DEF Draws

\* The environment acts.
LEMMA EnvironmentInv ==
  ASSUME Inv
  PROVE  Send \/ Arrive \/ Overheard \/ Busy \/ Tick => Inv'
<1>1. /\ mac \in Stations /\ Good(mac) /\ mac.addr = Self
      /\ air \subseteq [due : Nat, frame : Frames]
      /\ arrivals \in 0 .. MaxArrivals /\ foreign \in 0 .. MaxForeign
      /\ Idle(mac) => \A r \in air : ~CtsTo(r.frame, Self)
  BY DEF Inv, TypeOK
<1>2. MaxArrivals \in Nat /\ MaxForeign \in Nat
  BY NodeAssumption
<1>3. DataTime \in Nat /\ \A f \in Frames : AirTime(f) \in Nat
  BY DurationTypes
<1>4. \A x \in air : \E r \in air : x.frame = r.frame
  OBVIOUS
<1>5. ASSUME Send PROVE Inv'
  <2>1. PICK p \in Workload, draw \in Draws : mac' = Enqueue(mac, p, draw)
    BY <1>5 DEF Send
  <2>2. p \in Packets /\ draw \in Nat
    BY NodeAssumption, DrawsNat
  <2>3. Leads(mac, mac')
    BY <1>1, <2>1, <2>2, EnqueueLeads
  <2>4. arrivals' \in 0 .. MaxArrivals
    BY <1>1, <1>2, <1>5 DEF Send
  <2> QED
    BY <1>1, <1>4, <1>5, <2>3, <2>4, QuietInv DEF Send
<1>6. ASSUME Arrive PROVE Inv'
  <2>1. PICK r \in air :
          /\ mac' = IF CanReceive(mac) THEN StartReceive(mac, r.frame)
                    ELSE NotifyMaybeCcaBusyStartNow(mac, AirTime(r.frame))
          /\ air' = air \ {r}
          /\ UNCHANGED <<arrivals, foreign>>
    BY <1>6 DEF Arrive
  <2>2. r.frame \in Frames /\ AirTime(r.frame) \in Nat
    BY <1>1, <1>3
  <2>3. Leads(mac, StartReceive(mac, r.frame))
    BY <1>1, <2>2, StartReceiveLeads
  <2>4. Leads(mac, NotifyMaybeCcaBusyStartNow(mac, AirTime(r.frame)))
    BY <1>1, <2>2, BusyLeads
  <2>5. Leads(mac, mac')
    BY <2>1, <2>3, <2>4
  <2> QED
    BY <1>1, <1>4, <2>1, <2>5, QuietInv
<1>7. ASSUME Overheard PROVE Inv'
  <2>1. PICK f \in Foreign : mac' = StartReceive(mac, f)
    BY <1>7 DEF Overheard
  <2>2. f \in Frames /\ ~CtsTo(f, mac.addr)
    BY <1>1, NodeAssumption DEF CtsTo
  <2>3. Leads(mac, mac')
    BY <1>1, <2>1, <2>2, StartReceiveLeads
  <2>4. foreign' \in 0 .. MaxForeign
    BY <1>1, <1>2, <1>7 DEF Overheard
  <2> QED
    BY <1>1, <1>4, <1>7, <2>3, <2>4, QuietInv DEF Overheard
<1>8. ASSUME Busy PROVE Inv'
  <2>1. Leads(mac, mac')
    BY <1>1, <1>3, <1>8, BusyLeads DEF Busy
  <2>2. foreign' \in 0 .. MaxForeign
    BY <1>1, <1>2, <1>8 DEF Busy
  <2> QED
    BY <1>1, <1>4, <1>8, <2>1, <2>2, QuietInv DEF Busy
<1>9. ASSUME Tick PROVE Inv'
  <2> DEFINE D(r) == [r EXCEPT !.due = @ - 1]
  <2>1. Leads(mac, mac')
    BY <1>1, <1>9, ElapseLeads DEF Tick
  <2>2. ASSUME NEW r \in air
        PROVE  D(r) \in [due : Nat, frame : Frames] /\ D(r).frame = r.frame
    <3>1. r.due > 0 /\ r \in [due : Nat, frame : Frames]
      BY <1>1, <1>9 DEF Tick
    <3> QED
      BY <3>1
  <2>3. air' = {D(r) : r \in air}
    BY <1>9 DEF Tick
  <2> HIDE DEF D
  <2>4. air' \subseteq [due : Nat, frame : Frames]
    BY <2>2, <2>3
  <2>5. \A x \in air' : \E r \in air : x.frame = r.frame
    BY <2>2, <2>3
  <2> QED
    BY <1>1, <1>9, <2>1, <2>4, <2>5, QuietInv DEF Tick
<1> QED
  BY <1>5, <1>6, <1>7, <1>8, <1>9

\* What is known of the event that runs.
LEMMA RunLemma ==
  ASSUME Inv, NEW e \in mac.ev
  PROVE  LET p == Pop(mac, e)
         IN /\ p \in Stations /\ Good(p) /\ Leads(mac, p)
            /\ e.k \in SenderKinds => ~Idle(mac) /\ ~Idle(p)
            /\ e.k \in ReplyKinds => e.arg \in Frames /\ e.arg.type \in Answers
            /\ e.k = "EndReceive" =>
                 e.arg \in Frames /\ (Idle(p) => ~CtsTo(e.arg, p.addr))
<1> DEFINE p == Pop(mac, e)
<1>1. mac \in Stations /\ Good(mac)
  BY DEF Inv, TypeOK
<1>2. Leads(mac, p) /\ Idle(p) = Idle(mac) /\ p.addr = mac.addr
  BY <1>1, PopLeads
<1> HIDE DEF p
<1>3. e.k \in SenderKinds => ~Idle(mac)
  BY <1>1 DEF Good, Fresh, Quiet
<1>4. ArgsOK(mac) /\ (Idle(mac) => Quiet(mac))
  BY <1>1 DEF Good, Fresh
<1>5. /\ e.k \in ReplyKinds => e.arg \in Frames /\ e.arg.type \in Answers
      /\ e.k = "EndReceive" =>
           e.arg \in Frames /\ (Idle(p) => ~CtsTo(e.arg, p.addr))
  BY <1>2, <1>4 DEF ArgsOK, Replies, Answers, Quiet
<1> QED
  BY <1>2, <1>3, <1>5 DEF Leads, p

\* An event runs.
LEMMA EventInv ==
  ASSUME Inv, Fire
  PROVE  Inv'
<1> DEFINE Done == Leads(mac, mac') /\ Sends
<1>1. Done => Inv'
  BY FireInv DEF Sends
<1>2. mac \in Stations
  BY DEF Inv, TypeOK
<1>3. \A e \in mac.ev : \A s :
         Leads(mac, Pop(mac, e)) /\ Leads(Pop(mac, e), s) => Leads(mac, s)
  BY LeadsTransitive
<1>4. CASE FireBackoffGrantStart
  <2>1. PICK e \in mac.ev, draw \in Draws :
          e.k = "BackoffGrantStart" /\ mac' = BackoffGrantStart(Pop(mac, e), draw) /\ Sends
    BY <1>4 DEF FireBackoffGrantStart, Runs
  <2>2. Leads(Pop(mac, e), mac')
    BY <2>1, RunLemma, SenderKindsTypes, DrawsNat, BackoffGrantStartLeads
  <2> QED
    BY <1>1, <1>3, <2>1, <2>2, RunLemma
<1>5. CASE FireBackoffTimeout
  <2>1. PICK e \in mac.ev, draw \in Draws, n1 \in AggregateNums, n2 \in AggregateNums :
          /\ e.k = "BackoffTimeout"
          /\ \E r \in QueuesAfter(mac, n1, n2) :
               mac' = BackoffTimeout(Pop(mac, e), r, draw)
          /\ Sends
    BY <1>5 DEF FireBackoffTimeout, Runs
  <2>2. PICK r \in QueuesAfter(mac, n1, n2) : mac' = BackoffTimeout(Pop(mac, e), r, draw)
    BY <2>1
  <2>3. r \in Seq(Packets)
    BY <1>2, QueuesAfterType
  <2>4. Leads(Pop(mac, e), mac')
    BY <2>1, <2>2, <2>3, RunLemma, SenderKindsTypes, DrawsNat, BackoffTimeoutLeads
  <2> QED
    BY <1>1, <1>3, <2>1, <2>4, RunLemma
<1>6. CASE FireCtsTimeout
  <2>1. PICK e \in mac.ev, draw \in Draws :
          e.k = "CtsTimeout" /\ mac' = CtsTimeout(Pop(mac, e), draw) /\ Sends
    BY <1>6 DEF FireCtsTimeout, Runs
  <2>2. Leads(Pop(mac, e), mac')
    BY <2>1, RunLemma, SenderKindsTypes, DrawsNat, CtsTimeoutLeads
  <2> QED
    BY <1>1, <1>3, <2>1, <2>2, RunLemma
<1>7. CASE FireAckTimeout1
  <2>1. PICK e \in mac.ev, draw \in Draws :
          e.k = "AckTimeout1" /\ mac' = AckTimeout1(Pop(mac, e), draw) /\ Sends
    BY <1>7 DEF FireAckTimeout1, Runs
  <2>2. Leads(Pop(mac, e), mac')
    BY <2>1, RunLemma, SenderKindsTypes, DrawsNat, AckTimeoutsLead
  <2> QED
    BY <1>1, <1>3, <2>1, <2>2, RunLemma
<1>8. CASE FireAckTimeout2
  <2>1. PICK e \in mac.ev, draw \in Draws :
          e.k = "AckTimeout2" /\ mac' = AckTimeout2(Pop(mac, e), draw) /\ Sends
    BY <1>8 DEF FireAckTimeout2, Runs
  <2>2. Leads(Pop(mac, e), mac')
    BY <2>1, RunLemma, SenderKindsTypes, DrawsNat, AckTimeoutsLead
  <2> QED
    BY <1>1, <1>3, <2>1, <2>2, RunLemma
<1>9. CASE FireSendUnicastDataAfterCts
  <2>1. PICK e \in mac.ev :
          /\ e.k = "SendUnicastDataAfterCts"
          /\ mac' = SendUnicastDataAfterCts(Pop(mac, e)) /\ Sends
    BY <1>9 DEF FireSendUnicastDataAfterCts, Runs
  <2>2. Leads(Pop(mac, e), mac')
    BY <2>1, RunLemma, SenderKindsTypes, SendUnicastDataAfterCtsLeads
  <2> QED
    BY <1>1, <1>3, <2>1, <2>2, RunLemma
<1>10. CASE FireSendSpcDataAfterCtsSpc
  <2>1. PICK e \in mac.ev, spc \in BOOLEAN :
          /\ e.k = "SendSpcDataAfterCtsSpc"
          /\ mac' = SendSpcDataAfterCtsSpc(Pop(mac, e), spc) /\ Sends
    BY <1>10 DEF FireSendSpcDataAfterCtsSpc, Runs
  <2>2. Leads(Pop(mac, e), mac')
    BY <2>1, RunLemma, SenderKindsTypes, SendSpcDataAfterCtsSpcLeads
  <2> QED
    BY <1>1, <1>3, <2>1, <2>2, RunLemma
<1>11. CASE FireReply
  <2>1. PICK e \in mac.ev :
          e.k \in ReplyKinds /\ mac' = StartSend(Pop(mac, e), e.arg) /\ Sends
    BY <1>11 DEF FireReply, Runs
  <2>2. Leads(Pop(mac, e), mac')
    BY <2>1, RunLemma, StartSendLeads
  <2> QED
    BY <1>1, <1>3, <2>1, <2>2, RunLemma
<1>12. CASE FireEndReceive
  <2>1. PICK e \in mac.ev, ok1 \in BOOLEAN, ok2 \in BOOLEAN, draw \in Draws :
          /\ e.k = "EndReceive"
          /\ mac' = EndReceive(Pop(mac, e), e.arg, ok1, ok2, draw) /\ Sends
    BY <1>12 DEF FireEndReceive, Runs
  <2>2. Leads(Pop(mac, e), mac')
    BY <2>1, RunLemma, DrawsNat, EndReceiveLeads
  <2> QED
    BY <1>1, <1>3, <2>1, <2>2, RunLemma
<1> QED
  BY <1>4, <1>5, <1>6, <1>7, <1>8, <1>9, <1>10, <1>11, <1>12 DEF Fire

LEMMA NextInv == Inv /\ [Next]_vars => Inv'
<1> SUFFICES ASSUME Inv, [Next]_vars PROVE Inv'
  OBVIOUS
<1>1. CASE Send \/ Arrive \/ Overheard \/ Busy \/ Tick
  BY <1>1, EnvironmentInv
<1>2. CASE Fire
  BY <1>2, EventInv
<1>3. CASE UNCHANGED vars
  BY <1>3 DEF vars, Inv, TypeOK, Good, Fresh, Quiet, ArgsOK, Idle
<1> QED
  BY <1>1, <1>2, <1>3 DEF Next, Abort

LEMMA SpecInv == Spec => []Inv
BY InitInv, NextInv, PTL DEF Spec

-----------------------------------------------------------------------------
(* What follows from it.                                                   *)

\* The variables keep their types, whatever the environment does: an event's
\* time is never in the past, a frame sent is well formed.
THEOREM TypeCorrect == Spec => []TypeOK
<1>1. Inv => TypeOK
  BY DEF Inv
<1> QED
  BY <1>1, SpecInv, PTL

\* SetState never reads the m_unicast the constructor left unassigned.
THEOREM UnicastAssigned == Spec => []UnicastInitialised
<1>1. Inv => UnicastInitialised
  BY DEF Inv, Good, Fresh, UnicastInitialised
<1> QED
  BY <1>1, SpecInv, PTL

-----------------------------------------------------------------------------
(* No packet is forgotten.                                                 *)

LEMMA EnvironmentAlive ==
  ASSUME Inv, Alive(mac), Send \/ Arrive \/ Overheard \/ Busy \/ Tick
  PROVE  Alive(mac')
<1>1. mac \in Stations
  BY DEF Inv, TypeOK
<1>2. CASE Send
  <2>1. PICK p \in Workload, draw \in Draws : mac' = Enqueue(mac, p, draw)
    BY <1>2 DEF Send
  <2> DEFINE n == [mac EXCEPT !.q = IF Len(@) = QueueMax THEN @ ELSE Append(@, p),
                              !.sent = NoFrame]
  <2>2. Shape(n)
    BY <1>1, StationShape DEF Shape
  <2> HIDE DEF n
  <2>3. Alive(StartBackoffIfNeeded(n, draw))
    BY <2>2, RestartAlive
  <2> QED
    BY <2>1, <2>3 DEF Enqueue, n
<1>3. CASE Arrive
  BY <1>1, <1>3, ReceptionAlive DEF Arrive
<1>4. CASE Overheard
  BY <1>1, <1>4, ReceptionAlive DEF Overheard
<1>5. CASE Busy
  BY <1>1, <1>5, ReceptionAlive DEF Busy
<1>6. CASE Tick
  BY <1>1, <1>6, ElapseAlive DEF Tick
<1> QED
  BY <1>2, <1>3, <1>4, <1>5, <1>6

LEMMA EventAlive ==
  ASSUME Inv, Alive(mac), Fire
  PROVE  Alive(mac')
<1>1. mac \in Stations
  BY DEF Inv, TypeOK
<1>2. \A e \in mac.ev : Pop(mac, e) \in Stations /\ Good(Pop(mac, e)) /\ Shape(Pop(mac, e))
  BY RunLemma, StationShape
<1>3. CASE FireBackoffGrantStart
  BY <1>2, <1>3, BackoffCovers DEF FireBackoffGrantStart, Alive
<1>4. CASE FireBackoffTimeout
  BY <1>2, <1>4, BackoffTimeoutAlive DEF FireBackoffTimeout
<1>5. CASE FireCtsTimeout
  BY <1>2, <1>5, TimeoutsAlive DEF FireCtsTimeout
<1>6. CASE FireAckTimeout1
  BY <1>2, <1>6, TimeoutsAlive DEF FireAckTimeout1
<1>7. CASE FireAckTimeout2
  BY <1>2, <1>7, TimeoutsAlive DEF FireAckTimeout2
<1>8. CASE FireSendUnicastDataAfterCts
  BY <1>2, <1>8, SendUnicastDataAfterCtsAlive DEF FireSendUnicastDataAfterCts
<1>9. CASE FireSendSpcDataAfterCtsSpc
  BY <1>2, <1>9, SendSpcDataAfterCtsSpcAlive DEF FireSendSpcDataAfterCtsSpc
<1>10. CASE FireReply
  <2>1. PICK e \in mac.ev : e.k \in ReplyKinds /\ mac' = StartSend(Pop(mac, e), e.arg)
    BY <1>10 DEF FireReply, Runs
  <2> DEFINE p == Pop(mac, e)
  <2>2. Shape(p) /\ Alive(p)
    BY <1>1, <1>2, <2>1, PopAlive, SenderKindsTypes
  <2> HIDE DEF p
  <2>3. LET s == StartSend(p, e.arg)
        IN s.p1 = p.p1 /\ s.p2 = p.p2 /\ s.failed = p.failed
    BY <2>2 DEF StartSend, Shape
  <2>4. Covered(p) => Covered(StartSend(p, e.arg))
    BY <2>2, StartSendCovered
  <2> QED
    BY <2>1, <2>2, <2>3, <2>4 DEF Alive, Held, p
<1>11. CASE FireEndReceive
  <2>1. PICK e \in mac.ev, ok1 \in BOOLEAN, ok2 \in BOOLEAN, draw \in Draws :
          /\ e.k = "EndReceive"
          /\ mac' = EndReceive(Pop(mac, e), e.arg, ok1, ok2, draw)
    BY <1>11 DEF FireEndReceive, Runs
  <2> DEFINE p == Pop(mac, e)
  <2>2. Alive(p)
    BY <1>1, <2>1, PopAlive, SenderKindsTypes
  <2>3. p \in Stations /\ Good(p) /\ e.arg \in Frames /\ (Idle(p) => ~CtsTo(e.arg, p.addr))
    BY <2>1, RunLemma
  <2>4. draw \in Nat
    BY DrawsNat
  <2> HIDE DEF p
  <2>5. Alive(EndReceive(p, e.arg, ok1, ok2, draw))
    BY <2>2, <2>3, <2>4, EndReceiveAlive
  <2> QED
    BY <2>1, <2>5 DEF p
<1> QED
  BY <1>3, <1>4, <1>5, <1>6, <1>7, <1>8, <1>9, <1>10, <1>11 DEF Fire

OrphanInv == Inv /\ Alive(mac)

LEMMA NextAlive == OrphanInv /\ [Next]_vars => OrphanInv'
<1> SUFFICES ASSUME Inv, Alive(mac), [Next]_vars PROVE Inv' /\ Alive(mac')
  BY DEF OrphanInv
<1>1. Inv'
  BY NextInv
<1>2. CASE Send \/ Arrive \/ Overheard \/ Busy \/ Tick
  BY <1>1, <1>2, EnvironmentAlive
<1>3. CASE Fire
  BY <1>1, <1>3, EventAlive
<1>4. CASE UNCHANGED vars
  BY <1>1, <1>4 DEF vars
<1> QED
  BY <1>2, <1>3, <1>4 DEF Next, Abort

\* A packet taken from the queue is never forgotten: as long as the station
\* holds one, an event that sends it, retries it or gives it up is scheduled.
THEOREM NoPacketForgotten == Spec => []NoOrphanPacket
<1>1. Init => OrphanInv
  <2>1. Init => ~Held(mac)
    BY DEF Init, SpcMacInit, Held
  <2> QED
    BY <2>1, InitInv DEF OrphanInv, Alive
<1>2. OrphanInv => NoOrphanPacket
  BY DEF OrphanInv, Alive, Covered, NoOrphanPacket, Running
<1> QED
  BY <1>1, <1>2, NextAlive, PTL DEF Spec

-----------------------------------------------------------------------------
(* The reply it promised.  What is marked does not matter to one station.  *)

Listing == [k : Kinds, due : Nat, arg : Frames \cup {NoFrame}]

LEMMA ListingType ==
  /\ \A e \in Events : e.due > 0 =>
       [k |-> e.k, due |-> e.due - 1, arg |-> e.arg] \in Listing
  /\ \A f \in Frames : [k |-> "EndReceive", due |-> AirTime(f), arg |-> f] \in Listing
  /\ \A m, f : f \in Frames => Listed(m, f, Listing)
<1>1. \A e \in Events : e.due > 0 =>
        [k |-> e.k, due |-> e.due - 1, arg |-> e.arg] \in Listing
  BY DEF Events, Listing
<1>2. \A f \in Frames : [k |-> "EndReceive", due |-> AirTime(f), arg |-> f] \in Listing
  BY DurationTypes, SenderKindsTypes DEF Listing
<1>3. ASSUME NEW f \in Frames PROVE CtsFor(f) \in Listing
  <2>1. /\ "FIRST" \in SpcNums /\ "CTS" \in Answers
        /\ Sifs + MaxProp \in Nat /\ Sifs \in Nat
    BY TimeAssumption DEF SpcNums, Answers
  <2>2. Frame("CTS", f.a2, NoAddr, NoAddr, "FIRST", Sifs + MaxProp) \in Frames
    BY <2>1, FrameFields, AnswerFrame
  <2>3. "SendCtsAfterRts" \in Kinds
    BY SenderKindsTypes
  <2> QED
    BY <2>1, <2>2, <2>3 DEF CtsFor, Listing
<1> QED
  BY <1>1, <1>2, <1>3 DEF Listed

LEMMA EnvironmentCalm ==
  ASSUME Inv, Deferring(mac, Listing), Send \/ Arrive \/ Overheard \/ Busy \/ Tick
  PROVE  Calm(mac', Listing)
<1>1. mac \in Stations /\ air \subseteq [due : Nat, frame : Frames]
  BY DEF Inv, TypeOK
<1>2. CASE Send
  BY <1>2, EnqueueCalm DEF Send
<1>3. CASE Arrive
  <2>1. PICK r \in air : \/ mac' = StartReceive(mac, r.frame)
                         \/ mac' = NotifyMaybeCcaBusyStartNow(mac, AirTime(r.frame))
    BY <1>3 DEF Arrive
  <2>2. r.frame \in Frames
    BY <1>1
  <2> QED
    BY <2>1, <2>2, ListingType, ReceptionCalm
<1>4. CASE Overheard
  BY <1>4, NodeAssumption, ListingType, ReceptionCalm DEF Overheard
<1>5. CASE Busy
  BY <1>5, ReceptionCalm DEF Busy
<1>6. CASE Tick
  <2>1. \A e \in mac.ev : e.due > 0 /\ e \in Events
    BY <1>1, <1>6 DEF Tick, Stations
  <2> QED
    BY <1>1, <1>6, <2>1, ListingType, ElapseCalm DEF Tick
<1> QED
  BY <1>2, <1>3, <1>4, <1>5, <1>6

\* A backoff ends: what it launches, it launches when no promise is open.
LEMMA BackoffTimeoutAfterReply ==
  ASSUME Inv, Deferring(mac, Listing), FireBackoffTimeout
  PROVE  /\ Deferring(mac', Listing)
         /\ Launch(mac'.sent) => \A e \in mac.ev : ~Promise(e)
<1>1. mac \in Stations
  BY DEF Inv, TypeOK
<1>a. PICK e \in mac.ev, draw \in Draws :
        e.k = "BackoffTimeout" /\ \E r : mac' = BackoffTimeout(Pop(mac, e), r, draw)
  BY DEF FireBackoffTimeout, Runs
<1>2. PICK r : mac' = BackoffTimeout(Pop(mac, e), r, draw)
  BY <1>a
<1> DEFINE p == Pop(mac, e)
<1>3. Calm(p, Listing) /\ p.ev = mac.ev \ {e} /\ p.end = mac.end
  BY PopCalm
<1>4. p \in Stations
  BY RunLemma
<1> HIDE DEF p
<1>5. Deferring(mac', Listing) /\ (GetSendGrantStart(p) > 0 => ~Launch(mac'.sent))
  BY <1>2, <1>3, BackoffTimeoutDefers DEF p
<1>6. ASSUME NEW x \in mac.ev, Promise(x)
      PROVE  GetSendGrantStart(p) > 0
  <2>1. x.due \in Nat /\ x.due < mac.end["wait"] /\ mac.end["wait"] \in Int
    BY <1>1, <1>6 DEF Deferring, Stations, Events
  <2>2. p.end["wait"] <= Latest(p)
    BY <1>4, LatestType DEF Causes
  <2>3. Latest(p) \in Int
    BY <1>4, LatestType
  <2> QED
    BY <1>3, <2>1, <2>2, <2>3 DEF GetSendGrantStart
<1> QED
  BY <1>5, <1>6

LEMMA EventCalm ==
  ASSUME Inv, Deferring(mac, Listing), Fire, ~FireBackoffTimeout
  PROVE  Calm(mac', Listing)
<1>1. \A e \in mac.ev : Calm(Pop(mac, e), Listing) /\ Deferring(Pop(mac, e), Listing)
  BY PopCalm DEF Calm
<1>2. CASE FireBackoffGrantStart
  BY <1>1, <1>2, BackoffKeeps, KeepsCalm DEF FireBackoffGrantStart
<1>3. CASE FireCtsTimeout
  BY <1>1, <1>3, TimeoutsKeep, KeepsCalm DEF FireCtsTimeout
<1>4. CASE FireAckTimeout1
  BY <1>1, <1>4, TimeoutsKeep, KeepsCalm DEF FireAckTimeout1
<1>5. CASE FireAckTimeout2
  BY <1>1, <1>5, TimeoutsKeep, KeepsCalm DEF FireAckTimeout2
<1>6. CASE FireSendUnicastDataAfterCts
  BY <1>1, <1>6, SendUnicastDataAfterCtsCalm DEF FireSendUnicastDataAfterCts
<1>7. CASE FireSendSpcDataAfterCtsSpc
  BY <1>1, <1>7, SendSpcDataAfterCtsSpcCalm DEF FireSendSpcDataAfterCtsSpc
<1>8. CASE FireReply
  <2>1. PICK e \in mac.ev : e.k \in ReplyKinds /\ mac' = StartSend(Pop(mac, e), e.arg)
    BY <1>8 DEF FireReply, Runs
  <2>2. e.arg.type \in Answers
    BY <2>1, RunLemma
  <2>3. ~Launch(e.arg)
    BY <2>2 DEF Launch, Answers
  <2> QED
    BY <1>1, <2>1, <2>3, StartSendDefers DEF Calm, Emits
<1>9. CASE FireEndReceive
  <2>1. PICK e \in mac.ev, ok1 \in BOOLEAN, ok2 \in BOOLEAN, draw \in Draws :
          /\ e.k = "EndReceive"
          /\ mac' = EndReceive(Pop(mac, e), e.arg, ok1, ok2, draw)
    BY <1>9 DEF FireEndReceive, Runs
  <2> DEFINE p == Pop(mac, e)
  <2>2. Calm(p, Listing)
    BY <1>1
  <2>3. p \in Stations /\ Good(p) /\ e.arg \in Frames /\ (Idle(p) => ~CtsTo(e.arg, p.addr))
    BY <2>1, RunLemma
  <2>4. draw \in Nat
    BY DrawsNat
  <2> HIDE DEF p
  <2>5. Keeps(p, EndReceive(p, e.arg, ok1, ok2, draw), Listing)
    BY <2>2, <2>3, <2>4, ListingType, EndReceiveKeeps DEF Calm
  <2> QED
    BY <2>1, <2>2, <2>5, KeepsCalm DEF p
<1> QED
  BY <1>2, <1>3, <1>4, <1>5, <1>6, <1>7, <1>8, <1>9 DEF Fire

-----------------------------------------------------------------------------
(* The invariant of the replies.                                           *)

ReplyInv == Inv /\ Deferring(mac, Listing)
AfterReply == Launch(mac'.sent) => \A e \in mac.ev : ~Promise(e)

LEMMA InitReply == Init => ReplyInv
<1> SUFFICES ASSUME Init PROVE Deferring(mac, Listing)
  BY InitInv DEF ReplyInv
<1>1. PICK s \in SendStates, u \in BOOLEAN : mac = SpcMacInit(Self, s, u)
  BY DEF Init
<1>2. /\ {"ev", "end", "sent"} \subseteq DOMAIN mac
      /\ mac.ev = {} /\ mac.end = [c \in Causes |-> 0]
  BY <1>1 DEF SpcMacInit
<1> QED
  BY <1>2 DEF Deferring, Causes

LEMMA NextReply ==
  ASSUME ReplyInv, [Next]_vars
  PROVE  ReplyInv' /\ [AfterReply]_vars
<1>1. Inv /\ Deferring(mac, Listing) /\ Inv'
  BY NextInv DEF ReplyInv
<1>2. CASE Send \/ Arrive \/ Overheard \/ Busy \/ Tick
  BY <1>1, <1>2, EnvironmentCalm DEF ReplyInv, AfterReply, Calm
<1>3. CASE Fire /\ ~FireBackoffTimeout
  BY <1>1, <1>3, EventCalm DEF ReplyInv, AfterReply, Calm
<1>4. CASE FireBackoffTimeout
  BY <1>1, <1>4, BackoffTimeoutAfterReply DEF ReplyInv, AfterReply
<1>5. CASE UNCHANGED vars
  <2>1. Deferring(mac', Listing)
    BY <1>1, <1>5 DEF vars
  <2> QED
    BY <1>1, <1>5, <2>1 DEF ReplyInv
<1> QED
  BY <1>2, <1>3, <1>4, <1>5 DEF Next, Abort

\* Having promised a CTS, a CTS_SPC or the second ACK of a superposed pair, a
\* station opens no exchange of its own before that reply has gone out,
\* whatever frames it hears and however many backoff chains it runs.
THEOREM RepliesFirst == Spec => NoLaunchBeforeReply
<1>1. ReplyInv /\ [Next]_vars => ReplyInv'
  BY NextReply
<1>2. ReplyInv /\ [Next]_vars => [AfterReply]_vars
  BY NextReply
<1>3. AfterReply <=>
        (Launch(mac'.sent) =>
           \A e \in mac.ev : ~(e.k \in ReplyKinds /\
             (e.arg.type \in {"CTS", "CTS_SPC"} \/ e.arg.spc = "SECOND")))
  BY DEF AfterReply, Promise, Awaited
<1>4. Spec => [][AfterReply]_vars
  BY <1>1, <1>2, InitReply, PTL DEF Spec
<1> QED
  BY <1>3, <1>4, PTL DEF NoLaunchBeforeReply

\* The answers to a frame, and when they begin to arrive.
LEMMA RepliesAre ==
  ASSUME NEW f \in Frames \cup {NoFrame}, NEW r \in RepliesTo(f)
  PROVE  /\ f # NoFrame /\ r.due \in Nat /\ r.frame \in Frames
         /\ \/ /\ f.type = "RTS" /\ r.frame.type = "CTS" /\ AirTime(r.frame) = CtsTime
               /\ r.due = RtsTime + Sifs
            \/ /\ f.type = "RTS_SPC" /\ r.frame.type = "CTS_SPC" /\ AirTime(r.frame) = CtsTime
               /\ \/ r.due = RtsTime + Sifs /\ r.frame.a1 = f.a1
                  \/ r.due = RtsTime + Sifs + CtsSendAndSifs /\ r.frame.a1 = f.a2
            \/ /\ f.type = "DATA" /\ f.a1 # Group /\ r.frame.type = "ACK"
               /\ AirTime(r.frame) = AckTime
               /\ r.due = DataTime + Sifs /\ r.frame.spc = "FIRST"
            \/ /\ f.type = "DATA_SPC" /\ r.frame.type = "ACK" /\ AirTime(r.frame) = AckTime
               /\ \/ r.due = DataTime + Sifs /\ r.frame.spc = "FIRST"
                  \/ r.due = DataTime + Sifs + AckSendAndSifs /\ r.frame.spc = "SECOND"
<1>1. f # NoFrame /\ f \in Frames /\ f.type \in FrameTypes
  BY RepliesType, FrameFields
<1>2. r.due \in Nat /\ r.frame \in Frames
  BY RepliesType
<1>3. \A d, g : Reply(d, g).due = d /\ Reply(d, g).frame = g
  BY DEF Reply
<1>4. \A t, x, n, d : /\ Frame(t, x, NoAddr, NoAddr, n, d).type = t
                      /\ Frame(t, x, NoAddr, NoAddr, n, d).a1 = x
                      /\ Frame(t, x, NoAddr, NoAddr, n, d).spc = n
  BY DEF Frame
<1>5. \A n : Ack(Self, n).type = "ACK" /\ Ack(Self, n).spc = n
  BY <1>4 DEF Ack
<1>6. CASE f.type = "RTS"
  <2>1. r = Reply(RtsTime + Sifs, Frame("CTS", Self, NoAddr, NoAddr, "FIRST", Sifs + MaxProp))
    BY <1>1, <1>6 DEF RepliesTo
  <2> QED
    BY <1>1, <1>2, <1>3, <1>4, <1>6, <2>1 DEF AirTime
<1>7. CASE f.type = "RTS_SPC"
  <2>1. \/ r = Reply(RtsTime + Sifs,
                     Frame("CTS_SPC", f.a1, NoAddr, NoAddr, "FIRST", Sifs + MaxProp))
        \/ r = Reply(RtsTime + Sifs + CtsSendAndSifs,
                     Frame("CTS_SPC", f.a2, NoAddr, NoAddr, "FIRST", Sifs + MaxProp))
    BY <1>1, <1>7 DEF RepliesTo
  <2> QED
    BY <1>1, <1>2, <1>3, <1>4, <1>7, <2>1 DEF AirTime
<1>8. CASE f.type = "DATA" /\ f.a1 # Group
  <2>1. r = Reply(DataTime + Sifs, Ack(Self, "FIRST"))
    BY <1>1, <1>8 DEF RepliesTo
  <2> QED
    BY <1>1, <1>2, <1>3, <1>5, <1>8, <2>1 DEF AirTime
<1>9. CASE f.type = "DATA_SPC"
  <2>1. \/ r = Reply(DataTime + Sifs, Ack(Self, "FIRST"))
        \/ r = Reply(DataTime + Sifs + AckSendAndSifs, Ack(Self, "SECOND"))
    BY <1>1, <1>9 DEF RepliesTo
  <2> QED
    BY <1>1, <1>2, <1>3, <1>5, <1>9, <2>1 DEF AirTime
<1>10. ~(f.type \in Answers) /\ ~(f.type = "DATA" /\ f.a1 = Group)
  <2>1. f.type \notin Answers
    BY RepliesType
  <2>2. ASSUME f.type = "DATA", f.a1 = Group PROVE FALSE
    BY <1>1, <2>2 DEF RepliesTo
  <2> QED
    BY <2>1, <2>2
<1> QED
  BY <1>1, <1>6, <1>7, <1>8, <1>9, <1>10 DEF FrameTypes, Answers

\* The answers come with their frame: a CTS while its timer is pending.
LEMMA GuardedAnswered ==
  ASSUME NEW m, NEW ar, Guarded(m, ar), m.sent \in Frames \cup {NoFrame},
         m.sent # NoFrame /\ m.sent.type = "RTS" =>
           m.st # "SPC" /\ Timer("CtsTimeout", RtsWait) \in Watch(m),
         NEW r \in SUBSET RepliesTo(m.sent)
  PROVE  Guarded(m, ar \cup r)
<1>1. Answering(ar \cup r)
  BY RepliesType DEF Guarded, Answering
<1>2. \A c \in Coming(m, ar \cup r) :
        c \in Coming(m, ar) \/ \E x \in r : c = Expected(x)
  BY DEF Coming
<1>3. ASSUME NEW x \in r, CtsTo(Expected(x).frame, m.addr)
      PROVE  /\ m.st # "SPC"
             /\ \E t \in Watch(m) : /\ t.k = "CtsTimeout"
                                    /\ t.due = Expected(x).at + CtsWait
  <2>1. Expected(x).frame.type = "CTS"
    BY <1>3 DEF CtsTo
  <2>2. x.frame.type = "CTS" /\ Expected(x).at = x.due + AirTime(x.frame)
    BY <2>1 DEF Expected
  <2>3. m.sent # NoFrame /\ m.sent.type = "RTS" /\ AirTime(x.frame) = CtsTime /\ x.due = RtsTime + Sifs
    BY <2>2, RepliesAre
  <2>4. Expected(x).at + CtsWait = RtsWait
    BY <2>2, <2>3, Times DEF CtsWait, RtsWait, RtsSendAndSifs, CtsSendAndSifs
  <2> DEFINE t == Timer("CtsTimeout", RtsWait)
  <2>5. t \in Watch(m) /\ t.k = "CtsTimeout" /\ t.due = RtsWait
    BY <2>3 DEF Timer
  <2> QED
    BY <2>3, <2>4, <2>5
<1>4. CtsComing(m, ar \cup r)
  BY <1>2, <1>3 DEF Guarded, CtsComing
<1> QED
  BY <1>1, <1>4 DEF Guarded

-----------------------------------------------------------------------------
(* The simulator and the environment.                                      *)

LEMMA EnvironmentGuarded ==
  ASSUME Inv, Guarded(mac, air), Send \/ Arrive \/ Overheard \/ Busy \/ Tick
  PROVE  Guarded(mac', air')
<1>1. /\ mac \in Stations /\ mac.addr = Self /\ Good(mac)
      /\ air \subseteq [due : Nat, frame : Frames]
  BY DEF Inv, TypeOK
<1>2. /\ DataTime \in Nat /\ \A f \in Frames : AirTime(f) \in Nat
      /\ \A c \in Causes : mac.end[c] \in Int
  BY Times DEF Guarded, Typed
<1>3. ASSUME NEW d \in Nat, NEW ar2 \in SUBSET air
      PROVE  Guarded(NotifyMaybeCcaBusyStartNow(mac, d), ar2)
  <2> DEFINE s == NotifyMaybeCcaBusyStartNow(mac, d)
  <2>1. /\ Sound(s) /\ Watch(s) = Watch(mac) /\ Still(mac, s) /\ s.rxing = mac.rxing
        /\ \A c \in Causes \ {"busy"} : s.end[c] = mac.end[c]
    BY BusyStep DEF Guarded
  <2>2. s \in Stations
    BY <1>1, BusyLeads DEF Leads
  <2> HIDE DEF s
  <2>3. /\ \A c \in Causes : s.end[c] \in Int
        /\ {"tx", "rx", "cts", "ack"} \subseteq Causes \ {"busy"}
    BY <2>2 DEF Stations, Causes
  <2>4. s.addr = mac.addr /\ s.st = mac.st
    BY <2>1 DEF Still
  <2>5. \A c \in {"tx", "rx", "cts", "ack"} : s.end[c] = mac.end[c]
    BY <2>1, <2>3
  <2>6. Guarded(s, ar2)
    BY <2>1, <2>3, <2>4, <2>5, GuardedSame
  <2> QED
    BY <2>6 DEF s
<1>4. CASE Send
  <2>1. PICK p \in Workload, draw \in Draws : mac' = Enqueue(mac, p, draw)
    BY <1>4 DEF Send
  <2> DEFINE n == Queued(mac, p)
  <2>2. /\ Sound(n) /\ Watch(n) = Watch(mac)
        /\ n = [mac EXCEPT !.q = n.q, !.sent = NoFrame] /\ Backs(n, mac', mac.p1, mac.p2)
    BY <2>1, EnqueueBacks DEF Guarded
  <2> HIDE DEF n
  <2>3. n.addr = mac.addr /\ n.st = mac.st /\ n.rxing = mac.rxing /\ n.end = mac.end
    BY <2>2 DEF Guarded, Sound
  <2>4. Guarded(n, air)
    BY <1>2, <2>2, <2>3, GuardedSame
  <2>5. Guarded(mac', air)
    BY <2>2, <2>4, GuardedBacks
  <2> QED
    BY <1>4, <2>5 DEF Send
<1>5. CASE Arrive
  <2>1. PICK r \in air :
          /\ r.due = 0
          /\ mac' = IF CanReceive(mac) THEN StartReceive(mac, r.frame)
                    ELSE NotifyMaybeCcaBusyStartNow(mac, AirTime(r.frame))
          /\ air' = air \ {r}
    BY <1>5 DEF Arrive
  <2>2. r.frame \in Frames /\ air \ {r} \in SUBSET air
    BY <1>1
  <2>3. CtsTo(r.frame, mac.addr) =>
          /\ mac.st # "SPC"
          /\ \E t \in Watch(mac) : t.k = "CtsTimeout" /\ t.due = AirTime(r.frame) + CtsWait
    <3>1. /\ Expected(r) \in Coming(mac, air) /\ Expected(r).frame = r.frame
          /\ Expected(r).at = r.due + AirTime(r.frame)
      BY ComingTypes DEF Guarded
    <3>2. Expected(r).at = AirTime(r.frame)
      BY <1>2, <2>1, <2>2, <3>1
    <3> QED
      BY <3>1, <3>2 DEF Guarded, CtsComing
  <2>4. CanReceive(mac) => Guarded(StartReceive(mac, r.frame), air \ {r})
    BY <2>2, <2>3, GuardedReceives
  <2>5. Guarded(NotifyMaybeCcaBusyStartNow(mac, AirTime(r.frame)), air \ {r})
    BY <1>2, <1>3, <2>2
  <2> QED
    BY <2>1, <2>4, <2>5
<1>6. CASE Overheard
  <2>1. PICK f \in Foreign : mac' = StartReceive(mac, f)
    BY <1>6 DEF Overheard
  <2>2. f \in Frames /\ ~CtsTo(f, mac.addr) /\ CanReceive(mac) /\ air' = air
    BY <1>1, <1>6, NodeAssumption DEF CtsTo, Overheard
  <2> QED
    BY <2>1, <2>2, GuardedReceives
<1>7. CASE Busy
  BY <1>2, <1>3, <1>7 DEF Busy
<1>8. CASE Tick
  <2>1. /\ \A e \in mac.ev : e.due > 0
        /\ \A r \in air : r.due > 0
        /\ mac' = Elapse(mac) /\ air' = Nearer(air)
    BY <1>8 DEF Tick, Nearer
  <2> QED
    BY <2>1, GuardedElapses
<1> QED
  BY <1>4, <1>5, <1>6, <1>7, <1>8

\* The event that runs, and the station without it.
LEMMA RunGuarded ==
  ASSUME Inv, Guarded(mac, air), NEW e \in mac.ev, e \in Due(mac)
  PROVE  LET p == Pop(mac, e)
         IN /\ p \in Stations /\ Good(p) /\ Guarded(p, air) /\ Hearing(p)
            /\ Watch(p) = Without(mac, e.k) /\ Still(mac, p) /\ p.sent = NoFrame
            /\ p.end = mac.end /\ p.addr = Self /\ Latest(p) = Latest(mac)
            /\ e.due = 0 /\ (e.k \in Watched => View(e) \in Watch(mac))
<1> DEFINE p == Pop(mac, e)
<1>1. e.due = 0
  BY DEF Due
<1>2. p \in Stations /\ Good(p)
  BY RunLemma
<1>3. Guarded(p, air)
  BY <1>1, GuardedPop
<1>4. /\ p = [mac EXCEPT !.ev = p.ev, !.sent = NoFrame]
      /\ Watch(p) = Without(mac, e.k)
  BY PopEvent DEF Guarded
<1> HIDE DEF p
<1>5. Still(mac, p) /\ p.sent = NoFrame /\ p.end = mac.end /\ p.addr = mac.addr
  BY <1>4 DEF Guarded, Sound, Still, Kept
<1>6. mac.addr = Self
  BY DEF Inv
<1>7. Latest(p) = Latest(mac)
  BY <1>5, LatestSame
<1>8. e.k \in Watched => View(e) \in Watch(mac)
  BY WatchMembers
<1> QED
  BY <1>1, <1>2, <1>3, <1>4, <1>5, <1>6, <1>7, <1>8, GuardedHearing DEF p

\* Neither another CTS nor data that was granted can be on its way, when the
\* answer comes that the station waits for.
LEMMA RunOpen ==
  ASSUME Inv, Guarded(mac, air), NEW e \in mac.ev, e \in Due(mac), e.k = "EndReceive"
  PROVE  LET p == Pop(mac, e)
         IN ~Awaiting(p, "EndReceive") /\ Open(p, air, e.arg)
<1> DEFINE p == Pop(mac, e)
           v == View(e)
<1>1. /\ Guarded(p, air) /\ Watch(p) = Without(mac, e.k) /\ p.addr = mac.addr
      /\ e.due = 0 /\ v \in Watch(mac)
  BY RunGuarded, WatchedKinds DEF Inv
<1>2. v.k = "EndReceive" /\ v.due = 0 /\ v.arg = e.arg
  BY <1>1 DEF View
<1> HIDE DEF p, v
<1>3. ~Awaiting(p, "EndReceive") /\ Watch(p) \subseteq Watch(mac)
  BY <1>1 DEF Without, Awaiting
<1>4. Awaiting(mac, "CtsTimeout") => \A k \in Granted : ~Awaiting(p, k)
  BY <1>1, <1>2, <1>3 DEF Guarded, Apart, Awaiting
<1>5. ASSUME CtsTo(e.arg, p.addr)
      PROVE  /\ \A c \in Coming(p, air) : ~CtsTo(c.frame, p.addr)
             /\ Awaiting(mac, "CtsTimeout")
  <2>1. Heard(v) \in Coming(mac, air) /\ Heard(v).at = 0 /\ Heard(v).frame = e.arg
    BY <1>1, <1>2, ComingTypes DEF Guarded
  <2>2. PICK t \in Watch(mac) : t.k = "CtsTimeout" /\ t.due = 0 + CtsWait
    BY <1>1, <1>5, <2>1 DEF Guarded, CtsComing
  <2>3. ASSUME NEW c \in Coming(p, air), CtsTo(c.frame, p.addr) PROVE FALSE
    <3>1. PICK r \in air : c = Expected(r)
      BY <1>3 DEF Coming, Awaiting
    <3>2. c \in Coming(mac, air)
      BY <3>1 DEF Coming
    <3>3. PICK u \in Watch(mac) : u.k = "CtsTimeout" /\ u.due = c.at + CtsWait
      BY <1>1, <2>3, <3>2 DEF Guarded, CtsComing
    <3>4. u = t
      BY <2>2, <3>3, WatchUnique DEF Guarded
    <3>5. c.at \in Nat /\ c.at > 0
      BY <3>1, <3>2, ComingTypes DEF Guarded
    <3> QED
      BY <2>2, <3>3, <3>4, <3>5, Times
  <2> QED
    BY <2>2, <2>3 DEF Awaiting
<1>6. Awaiting(p, "CtsTimeout") => Awaiting(mac, "CtsTimeout")
  BY <1>3 DEF Awaiting
<1> QED
  BY <1>3, <1>4, <1>5, <1>6 DEF Open, p

\* A handler ran: what it sent is answered.
LEMMA SentGuarded ==
  ASSUME mac' \in Stations, Guarded(mac', air), Answered,
         \/ mac'.sent = NoFrame \/ mac'.sent.type # "RTS"
         \/ mac'.st # "SPC" /\ Timer("CtsTimeout", RtsWait) \in Watch(mac')
  PROVE  Guarded(mac', air')
<1>1. PICK r \in SUBSET RepliesTo(mac'.sent) : air' = air \cup r
  BY DEF Answered
<1>2. mac'.sent \in Frames \cup {NoFrame}
  BY DEF Stations
<1> QED
  BY <1>1, <1>2, GuardedAnswered

LEMMA EventGuarded ==
  ASSUME Inv, Inv', Guarded(mac, air), Fire
  PROVE  Guarded(mac', air')
<1>1. mac' \in Stations
  BY DEF Inv, TypeOK
<1>2. ASSUME NEW e \in mac.ev, e \in Due(mac), NEW x, NEW y,
             Backs(Pop(mac, e), mac', x, y), Answered
      PROVE  Guarded(mac', air')
  <2>1. Guarded(Pop(mac, e), air) /\ Pop(mac, e).sent = NoFrame
    BY <1>2, RunGuarded
  <2>2. Guarded(mac', air)
    BY <1>2, <2>1, GuardedBacks
  <2>3. mac'.sent = NoFrame
    BY <1>2, <2>1 DEF Backs, Rests
  <2> QED
    BY <1>1, <1>2, <2>2, <2>3, SentGuarded
<1>3. CASE FireBackoffGrantStart
  <2>1. PICK e \in mac.ev, draw \in Draws :
          /\ e \in Due(mac) /\ mac' = BackoffGrantStart(Pop(mac, e), draw) /\ Answered
    BY <1>3 DEF FireBackoffGrantStart, Runs, Sends
  <2> DEFINE p == Pop(mac, e)
  <2>2. Guarded(p, air) /\ p.sent = NoFrame
    BY <2>1, RunGuarded
  <2> HIDE DEF p
  <2>3. /\ Rests(p, mac') /\ (mac'.st = p.st \/ Latest(p) + Difs <= 0)
    BY <2>1, <2>2, BackoffBacks DEF p, Guarded
  <2>4. Guarded(mac', air)
    BY <2>2, <2>3, GuardedRests
  <2>5. mac'.sent = NoFrame
    BY <2>2, <2>3 DEF Rests
  <2> QED
    BY <1>1, <2>1, <2>4, <2>5, SentGuarded
<1>4. CASE FireBackoffTimeout
  <2>1. PICK e \in mac.ev, draw \in Draws, n1 \in AggregateNums, n2 \in AggregateNums :
          /\ e \in Due(mac) /\ Answered
          /\ \E r \in QueuesAfter(mac, n1, n2) : mac' = BackoffTimeout(Pop(mac, e), r, draw)
    BY <1>4 DEF FireBackoffTimeout, Runs, Sends
  <2>2. PICK r : mac' = BackoffTimeout(Pop(mac, e), r, draw)
    BY <2>1
  <2>3. Guarded(Pop(mac, e), air) /\ Pop(mac, e).sent = NoFrame
    BY <2>1, RunGuarded
  <2>4. /\ Guarded(mac', air)
        /\ \/ mac'.sent = NoFrame \/ mac'.sent.type \in {"DATA", "RTS_SPC"}
           \/ /\ mac'.sent.type = "RTS" /\ mac'.st # "SPC"
              /\ Timer("CtsTimeout", RtsWait) \in Watch(mac')
    BY <2>2, <2>3, BackoffTimeoutGuarded
  <2> QED
    BY <1>1, <2>1, <2>4, SentGuarded
<1>5. CASE FireCtsTimeout
  <2>1. PICK e \in mac.ev, draw \in Draws :
          e \in Due(mac) /\ mac' = CtsTimeout(Pop(mac, e), draw) /\ Answered
    BY <1>5 DEF FireCtsTimeout, Runs, Sends
  <2>2. Sound(Pop(mac, e))
    BY <2>1, RunGuarded DEF Guarded
  <2>3. \E x, y : Backs(Pop(mac, e), mac', x, y)
    BY <2>1, <2>2, CtsTimeoutBacks
  <2> QED
    BY <1>2, <2>1, <2>3
<1>6. CASE FireAckTimeout1 \/ FireAckTimeout2
  <2>1. PICK e \in mac.ev, draw \in Draws :
          /\ e \in Due(mac) /\ Answered
          /\ mac' = AckTimeout1(Pop(mac, e), draw) \/ mac' = AckTimeout2(Pop(mac, e), draw)
    BY <1>6 DEF FireAckTimeout1, FireAckTimeout2, Runs, Sends
  <2>2. Sound(Pop(mac, e))
    BY <2>1, RunGuarded DEF Guarded
  <2>3. \E x, y : Backs(Pop(mac, e), mac', x, y)
    BY <2>1, <2>2, AckTimeoutBacks
  <2> QED
    BY <1>2, <2>1, <2>3
<1>7. CASE FireSendUnicastDataAfterCts \/ FireSendSpcDataAfterCtsSpc
  <2>1. PICK e \in mac.ev :
          /\ e \in Due(mac) /\ Answered
          /\ \/ mac' = SendUnicastDataAfterCts(Pop(mac, e))
             \/ \E spc \in BOOLEAN : mac' = SendSpcDataAfterCtsSpc(Pop(mac, e), spc)
    BY <1>7 DEF FireSendUnicastDataAfterCts, FireSendSpcDataAfterCtsSpc, Runs, Sends
  <2>2. Guarded(Pop(mac, e), air) /\ Pop(mac, e).sent = NoFrame
    BY <2>1, RunGuarded
  <2>3. /\ Guarded(mac', air)
        /\ mac'.sent = NoFrame \/ mac'.sent.type \in {"DATA", "DATA_SPC"}
    BY <2>1, <2>2, SendDataGuarded
  <2> QED
    BY <1>1, <2>1, <2>3, SentGuarded
<1>8. CASE FireReply
  <2>1. PICK e \in mac.ev : /\ e \in Due(mac) /\ e.k \in ReplyKinds /\ Answered
                            /\ mac' = StartSend(Pop(mac, e), e.arg)
    BY <1>8 DEF FireReply, Runs, Sends
  <2> DEFINE p == Pop(mac, e)
  <2>2. Guarded(p, air) /\ Hearing(p)
    BY <2>1, RunGuarded
  <2>3. e.arg \in Frames /\ e.arg.type \in Answers
    BY <2>1, RunLemma
  <2> HIDE DEF p
  <2>4. /\ Sound(mac') /\ Watch(mac') = Without(p, "EndReceive") /\ Still(p, mac')
        /\ mac'.sent = e.arg /\ mac'.end["tx"] = AirTime(e.arg)
        /\ mac'.end["rx"] \in {0, p.end["rx"]}
        /\ \A c \in Causes \ {"tx", "rx"} : mac'.end[c] = p.end[c]
    BY <2>1, <2>2, SendStep DEF p, Guarded
  <2>5. mac'.addr = p.addr /\ mac'.st = p.st /\ AirTime(e.arg) \in Int
    BY <2>3, <2>4, Times DEF Still
  <2>6. Guarded(mac', air)
    BY <2>2, <2>4, <2>5, GuardedSends
  <2>7. mac'.sent.type # "RTS"
    BY <2>3, <2>4 DEF Answers
  <2> QED
    BY <1>1, <2>1, <2>6, <2>7, SentGuarded
<1>9. CASE FireEndReceive
  <2>1. PICK e \in mac.ev, ok1 \in BOOLEAN, ok2 \in BOOLEAN, draw \in Draws :
          /\ e \in Due(mac) /\ e.k = "EndReceive" /\ Answered
          /\ mac' = EndReceive(Pop(mac, e), e.arg, ok1, ok2, draw)
    BY <1>9 DEF FireEndReceive, Runs, Sends
  <2> DEFINE p == Pop(mac, e)
  <2>2. p \in Stations /\ Good(p) /\ Guarded(p, air) /\ p.sent = NoFrame
    BY <2>1, RunGuarded
  <2>3. e.arg \in Frames /\ (Idle(p) => ~CtsTo(e.arg, p.addr))
    BY <2>1, RunLemma
  <2>4. ~Awaiting(p, "EndReceive") /\ Open(p, air, e.arg)
    BY <2>1, RunOpen
  <2>5. draw \in Nat
    BY DrawsNat
  <2> HIDE DEF p
  <2>6. Guarded(mac', air) /\ mac'.sent = NoFrame
    BY <2>1, <2>2, <2>3, <2>4, <2>5, EndReceiveGuarded DEF p
  <2> QED
    BY <1>1, <2>1, <2>6, SentGuarded
<1> QED
  BY <1>3, <1>4, <1>5, <1>6, <1>7, <1>8, <1>9 DEF Fire

-----------------------------------------------------------------------------
(* The invariant of the exchanges.                                         *)

WaitInv == ReplyInv /\ Guarded(mac, air)
AfterWait ==
  Launch(mac'.sent) =>
    \A e \in mac.ev : e.due > 0 => e.k \notin Waiting \cup {"EndReceive"}

LEMMA InitWait == Init => WaitInv
<1> SUFFICES ASSUME Init PROVE Guarded(mac, air)
  BY InitReply DEF WaitInv
<1>1. PICK s \in SendStates, u \in BOOLEAN : mac = SpcMacInit(Self, s, u)
  BY DEF Init
<1>2. /\ mac.ev = {} /\ mac.end = [c \in Causes |-> 0] /\ air = {}
      /\ {"addr", "p1", "p2", "h1", "h2", "st", "uni", "uniSet", "cw", "rrts", "rdata",
          "ncts", "end", "rxing", "q", "ev", "sent", "failed"} \subseteq DOMAIN mac
  BY <1>1 DEF SpcMacInit, Init
<1>3. Watch(mac) = {} /\ Coming(mac, air) = {}
  BY <1>2 DEF Watch, Coming
<1>4. Sound(mac)
  BY <1>2 DEF Sound, Single
<1> QED
  BY <1>2, <1>3, <1>4 DEF Guarded, Typed, Within, Apart, CtsComing, Answering

\* What a backoff launches, it launches when every wait is over.
LEMMA BackoffTimeoutAfterWait ==
  ASSUME WaitInv, FireBackoffTimeout
  PROVE  AfterWait
<1>1. /\ Inv /\ Deferring(mac, Listing) /\ Guarded(mac, air)
  BY DEF WaitInv, ReplyInv
<1>2. PICK e \in mac.ev, draw \in Draws :
        e \in Due(mac) /\ \E r : mac' = BackoffTimeout(Pop(mac, e), r, draw)
  BY DEF FireBackoffTimeout, Runs
<1>3. PICK r : mac' = BackoffTimeout(Pop(mac, e), r, draw)
  BY <1>2
<1>4. Calm(Pop(mac, e), Listing) /\ Latest(Pop(mac, e)) = Latest(mac)
  BY <1>1, <1>2, PopCalm, RunGuarded
<1>5. GetSendGrantStart(Pop(mac, e)) > 0 => ~Launch(mac'.sent)
  BY <1>3, <1>4, BackoffTimeoutDefers
<1>6. ASSUME Launch(mac'.sent), NEW x \in mac.ev, x.due > 0, x.k \in Watched
      PROVE  FALSE
  <2>1. ~(Latest(mac) > 0)
    BY <1>4, <1>5, <1>6 DEF GetSendGrantStart
  <2>2. \A w \in Watch(mac) : w.due = 0
    BY <1>1, <2>1, FreeNow DEF Guarded
  <2>3. View(x) \in Watch(mac) /\ View(x).due = x.due
    BY <1>6, WatchMembers DEF View
  <2> QED
    BY <1>6, <2>2, <2>3
<1> QED
  BY <1>6 DEF AfterWait, Watched

LEMMA NextWait ==
  ASSUME WaitInv, [Next]_vars
  PROVE  WaitInv' /\ [AfterWait]_vars
<1>1. Inv /\ Deferring(mac, Listing) /\ Guarded(mac, air) /\ ReplyInv
  BY DEF WaitInv, ReplyInv
<1>2. ReplyInv' /\ Inv'
  BY <1>1, NextReply DEF ReplyInv
<1>3. CASE Send \/ Arrive \/ Overheard \/ Busy \/ Tick
  <2>1. ~Launch(mac'.sent)
    BY <1>1, <1>3, EnvironmentCalm DEF Calm
  <2> QED
    BY <1>1, <1>2, <1>3, <2>1, EnvironmentGuarded DEF WaitInv, AfterWait
<1>4. CASE Fire
  <2>1. WaitInv'
    BY <1>1, <1>2, <1>4, EventGuarded DEF WaitInv
  <2>2. CASE FireBackoffTimeout
    BY <2>1, <2>2, BackoffTimeoutAfterWait
  <2>3. CASE ~FireBackoffTimeout
    <3>1. ~Launch(mac'.sent)
      BY <1>1, <1>4, <2>3, EventCalm DEF Calm
    <3> QED
      BY <2>1, <3>1 DEF AfterWait
  <2> QED
    BY <2>2, <2>3
<1>5. CASE UNCHANGED vars
  <2>1. Guarded(mac', air')
    BY <1>1, <1>5 DEF vars
  <2> QED
    BY <1>2, <1>5, <2>1 DEF WaitInv
<1> QED
  BY <1>3, <1>4, <1>5 DEF Next, Abort

\* Whatever chains of backoff events are scheduled, a station opens no exchange
\* before the instant its own exchange or a reception under way is over: each of
\* them ends no later than an instant GetSendGrantStart takes the maximum of.
THEOREM WaitsFirst == Spec => NoLaunchWhileWaiting
<1>1. WaitInv /\ [Next]_vars => WaitInv'
  BY NextWait
<1>2. WaitInv /\ [Next]_vars => [AfterWait]_vars
  BY NextWait
<1>3. Spec => [][AfterWait]_vars
  BY <1>1, <1>2, InitWait, PTL DEF Spec
<1> QED
  BY <1>3, PTL DEF NoLaunchWhileWaiting, AfterWait

-----------------------------------------------------------------------------
\* What the station waits for, and the data it was granted.
Awaits(m) == {k \in Waiting : Awaiting(m, k)}

\* An event e runs; p is the station without it.
Turn(e, p) ==
  /\ e \in mac.ev /\ e.due = 0
  /\ p \in Stations /\ Guarded(p, air) /\ p.addr = Self
  /\ Watch(p) = Without(mac, e.k) /\ Still(mac, p) /\ p.sent = NoFrame
  /\ e.k \in Watched => View(e) \in Watch(mac)

\* Backoff goes on with the packets held.
Resumes(e, p) ==
  /\ e.k \notin Watched
  /\ Backs(p, mac', p.p1, p.p2) /\ Kept(p, mac')
  /\ mac'.uni = p.uni \/ ~Held(p)

\* A backoff ends when no instant holds the station back: n is the station with
\* m_sendState chosen and the queue aggregated.
Free(e, p, n) ==
  /\ e.k \notin Watched /\ Held(p) /\ ~(Latest(p) > 0)
  /\ n \in Stations /\ Guarded(n, air) /\ Rests(p, n) /\ n.uni = p.uni
  /\ n.p1 = p.p1 /\ n.p2 = p.p2 /\ n.h1 = p.h1 /\ n.h2 = p.h2
  /\ n.st = SetState(p).st
  /\ \E n1, n2 \in AggregateNums : n.q \in QueuesAfter(mac, n1, n2)

OpensSpc(n) ==
  /\ n.st = "SPC"
  /\ \/ Fails(n, mac', "SendRtsSpc") /\ Awaiting(n, "CtsTimeout")
     \/ Arms(Recounted(n), mac', {Timer("CtsTimeout", RtsSpcWait)}, "cts", RtsSpcWait,
             RtsSpc(n))
OpensRts(n) ==
  /\ n.st # "SPC"
  /\ \/ Fails(n, mac', "SendRts") /\ Awaiting(n, "CtsTimeout")
     \/ Arms(n, mac', {Timer("CtsTimeout", RtsWait)}, "cts", RtsWait, Rts(n))
SendsOnce(n) ==
  /\ n.st # "SPC" /\ ~(CurrentAddr(n) # Group /\ CurrentPacket(n).large)
  /\ \E t : /\ Guarded(t, air) /\ Watch(t) = Without(n, "EndReceive") /\ Still(n, t)
            /\ t.sent = Data(n, 0)
            /\ IF n.st = "SECOND" THEN Backs(t, mac', n.p1, NoPacket)
                                  ELSE Backs(t, mac', NoPacket, n.p2)
Opens(e, p) == \E n : Free(e, p, n) /\ (OpensSpc(n) \/ OpensRts(n) \/ SendsOnce(n))

\* An answer did not come.
MissesCts(e, p) ==
  /\ e.k = "CtsTimeout"
  /\ \/ Backs(p, mac', p.p1, p.p2) /\ Kept(p, mac') /\ mac'.uni = p.uni
     \/ Backs(p, mac', NoPacket, NoPacket)
MissesAck(e, p) ==
  /\ e.k \in AckTimers
  /\ \/ Backs(p, mac', p.p1, p.p2) /\ Kept(p, mac') /\ p.st = "SPC" /\ mac'.uni
     \/ Backs(p, mac', p.p1, p.p2) /\ Kept(p, mac') /\ p.st # "SPC" /\ mac'.uni = p.uni
     \/ /\ p.st # "SPC"
        /\ IF e.k = "AckTimeout1" THEN Backs(p, mac', NoPacket, p.p2)
                                  ELSE Backs(p, mac', p.p1, NoPacket)

\* Data goes out.
SendsData(e, p) ==
  /\ e.k = "SendUnicastDataAfterCts"
  /\ \/ /\ p.st = "SPC" \/ Awaiting(p, OwnTimer(p))
        /\ Fails(p, mac', "SendUnicastDataAfterCts")
     \/ /\ p.st # "SPC"
        /\ Arms(p, mac', {Timer(OwnTimer(p), AckWait)}, "ack", AckWait,
                Data(p, AckSendAndSifs))
SendsPair(e, p) ==
  /\ e.k = "SendSpcDataAfterCtsSpc"
  /\ \/ /\ p.st # "SPC" \/ Awaiting(p, "AckTimeout1") \/ Awaiting(p, "AckTimeout2")
        /\ Fails(p, mac', "SendSpcDataAfterCtsSpc")
     \/ /\ p.st = "SPC"
        /\ Arms(p, mac', {Timer("AckTimeout1", AckSpcWait), Timer("AckTimeout2", AckSpcWait)},
                "ack", AckSpcWait, DataSpc(p))
     \/ /\ p.st = "SPC"
        /\ LET n == [p EXCEPT !.st = "FIRST"]
           IN Arms(n, mac', {Timer("AckTimeout1", AckWait)}, "ack", AckWait,
                   Data(n, AckSendAndSifs))

\* The station answers another one.
Responds(e, p) ==
  /\ e.k \notin Watched
  /\ Watch(mac') = Without(p, "EndReceive") /\ Still(p, mac')
  /\ mac'.sent \in Frames /\ mac'.sent.type \in Answers

\* The reception of f ends: s is the station m after it.
SameExchange(m, s) == Watch(s) = Watch(m) /\ Still(m, s) /\ s.sent = m.sent
HearsCts(m, f, s) ==
  /\ CtsTo(f, m.addr) /\ Awaiting(m, "CtsTimeout") /\ m.st # "SPC"
  /\ \E n : SameExchange(m, n) /\ Proceeds(n, s, "SendUnicastDataAfterCts")
HearsCtsSpc(m, f, s) ==
  /\ f.type = "CTS_SPC" /\ Awaiting(m, "CtsTimeout") /\ f.a1 \in {m.h1, m.h2}
  /\ \E n : /\ SameExchange(m, n) /\ Sound(n)
            /\ \/ Fails(n, s, "ReceiveCtsSpc") /\ m.st # "SPC"
               \/ s = Counted(n) /\ m.st = "SPC" /\ m.ncts + 1 # 2
               \/ /\ Proceeds(Counted(n), s, "SendSpcDataAfterCtsSpc")
                  /\ m.st = "SPC" /\ m.ncts + 1 = 2
HearsAck(m, f, s) ==
  /\ f.type = "ACK" /\ f.a1 = m.addr
  /\ \E c : LET k == AckedTimer(m.st, f.spc)
            IN /\ Guarded(c, air) /\ Watch(c) = Without(m, k) /\ Still(m, c)
               /\ c.sent = m.sent
               /\ IF k = "AckTimeout1" THEN Backs(c, s, NoPacket, m.p2)
                                       ELSE Backs(c, s, m.p1, NoPacket)
Takes(m, f, s) ==
  SameExchange(m, s) \/ HearsCts(m, f, s) \/ HearsCtsSpc(m, f, s) \/ HearsAck(m, f, s)
Hears(e, p) == e.k = "EndReceive" /\ e.arg \in Frames /\ Takes(p, e.arg, mac')

Acts(e, p) ==
  \/ Resumes(e, p) \/ Opens(e, p) \/ MissesCts(e, p) \/ MissesAck(e, p)
  \/ SendsData(e, p) \/ SendsPair(e, p) \/ Responds(e, p) \/ Hears(e, p)

\* The application hands over a packet: n is the station with it queued.
Supplies ==
  \E w \in Workload : \E n :
    /\ Guarded(n, air) /\ Watch(n) = Watch(mac) /\ n.sent = NoFrame
    /\ n.p1 = mac.p1 /\ n.p2 = mac.p2 /\ n.h1 = mac.h1 /\ n.h2 = mac.h2
    /\ n.st = mac.st /\ n.uni = mac.uni /\ n.ncts = mac.ncts /\ n.addr = mac.addr
    /\ n.failed = mac.failed /\ n.q \in {mac.q, Append(mac.q, w)}
    /\ Backs(n, mac', n.p1, n.p2) /\ mac'.uni = n.uni /\ air' = air

\* Something begins to arrive, or z = 1 time unit passes.
Passes(z) ==
  /\ Still(mac, mac') /\ mac'.sent = NoFrame
  /\ \A w \in Watch(mac) : w.k \in Waiting =>
       \E x \in Watch(mac') : x.k = w.k /\ x.due = w.due - z
  /\ \A x \in Watch(mac') : x.k \in Waiting =>
       \E w \in Watch(mac) : x.k = w.k /\ x.due = w.due - z
  /\ \A c \in Coming(mac', air') :
       \/ c.frame \in Foreign
       \/ \E b \in Coming(mac, air) : b.frame = c.frame /\ b.at = c.at + z

-----------------------------------------------------------------------------
(* What a handler does to the exchange.                                    *)

LEMMA TurnStarts ==
  ASSUME WaitInv, NEW e \in mac.ev, e \in Due(mac)
  PROVE  /\ Turn(e, Pop(mac, e)) /\ Sound(Pop(mac, e)) /\ Hearing(Pop(mac, e))
         /\ Good(Pop(mac, e))
<1>1. Inv /\ Guarded(mac, air)
  BY DEF WaitInv, ReplyInv
<1> QED
  BY <1>1, RunGuarded DEF Turn, Guarded

LEMMA KeptGoes ==
  ASSUME NEW m, NEW s, Rests(m, s), Kept(m, s),
         s.st = m.st \/ (s.st \in SendStates /\ Latest(m) + Difs <= 0)
  PROVE  Backs(m, s, m.p1, m.p2)
BY DEF Backs, Goes, Kept

LEMMA BackoffGrantActs ==
  ASSUME NEW e, NEW p, Turn(e, p), Sound(p), e.k = "BackoffGrantStart",
         NEW draw, mac' = BackoffGrantStart(p, draw)
  PROVE  Resumes(e, p)
<1>1. /\ Rests(p, mac') /\ Kept(p, mac') /\ mac'.uni = p.uni
      /\ (mac'.st = p.st \/ (mac'.st \in SendStates /\ Latest(p) + Difs <= 0))
  BY BackoffBacks
<1> QED
  BY <1>1, KeptGoes, WatchedKinds DEF Resumes

\* A backoff ends.
LEMMA BackoffTimeoutActs ==
  ASSUME mac \in Stations,
         NEW e, NEW p, Turn(e, p), Sound(p), Hearing(p), Good(p), e.k = "BackoffTimeout",
         NEW n1 \in AggregateNums, NEW n2 \in AggregateNums,
         NEW r \in QueuesAfter(mac, n1, n2), NEW draw,
         mac' = BackoffTimeout(p, r, draw)
  PROVE  Resumes(e, p) \/ Opens(e, p)
<1> DEFINE n == Chosen(p, r)
<1>1. e.k \notin Watched
  BY WatchedKinds
<1>2. \/ ~Held(p) /\ Rests(p, mac') /\ Kept(p, mac') /\ mac'.st = p.st
      \/ /\ Held(p) /\ Latest(p) > 0
         /\ Rests(p, mac') /\ Kept(p, mac') /\ mac'.st = p.st /\ mac'.uni = p.uni
      \/ /\ Held(p) /\ ~(Latest(p) > 0)
         /\ \/ n.st = "SPC" /\ mac' = SendRtsSpc(n)
            \/ /\ n.st # "SPC" /\ CurrentAddr(n) # Group /\ CurrentPacket(n).large
               /\ mac' = SendRts(n)
            \/ /\ n.st # "SPC"
               /\ ~(CurrentAddr(n) # Group /\ CurrentPacket(n).large)
               /\ mac' = SendUnicastDataNoAck(n, draw)
  BY BackoffTimeoutArms
<1>3. /\ Rests(p, n) /\ n.q = r /\ n.uni = p.uni
      /\ n.p1 = p.p1 /\ n.p2 = p.p2 /\ n.h1 = p.h1 /\ n.h2 = p.h2
      /\ n.st = SetState(p).st
  BY ChosenStep
<1>4. n \in Stations
  <2>1. SetState(p) \in Stations
    BY SetStateLeads DEF Turn, Leads
  <2>2. r \in Seq(Packets)
    BY QueuesAfterType
  <2> QED
    BY <2>1, <2>2 DEF Chosen, Stations
<1> HIDE DEF n
<1>5. CASE Rests(p, mac') /\ Kept(p, mac') /\ mac'.st = p.st /\ (mac'.uni = p.uni \/ ~Held(p))
  BY <1>1, <1>5, KeptGoes DEF Resumes
<1>6. CASE /\ Held(p) /\ ~(Latest(p) > 0)
           /\ \/ n.st = "SPC" /\ mac' = SendRtsSpc(n)
              \/ /\ n.st # "SPC" /\ CurrentAddr(n) # Group /\ CurrentPacket(n).large
                 /\ mac' = SendRts(n)
              \/ /\ n.st # "SPC"
                 /\ ~(CurrentAddr(n) # Group /\ CurrentPacket(n).large)
                 /\ mac' = SendUnicastDataNoAck(n, draw)
  <2>1. Guarded(p, air) /\ \A w \in Watch(p) : w.due = 0
    BY <1>6, FreeNow DEF Turn, Guarded
  <2>2. Guarded(n, air) /\ \A w \in Watch(n) : w.due = 0
    BY <1>3, <2>1, GuardedChosen
  <2>3. Sound(n) /\ Hearing(n)
    BY <2>2, GuardedHearing DEF Guarded
  <2>4. Free(e, p, n)
    BY <1>1, <1>3, <1>4, <1>6, <2>2 DEF Free
  <2>5. CASE n.st = "SPC" /\ mac' = SendRtsSpc(n)
    <3>1. OpensSpc(n)
      BY <2>3, <2>5, SendRtsSpcArms DEF OpensSpc
    <3> QED
      BY <2>4, <3>1 DEF Opens
  <2>6. CASE n.st # "SPC" /\ mac' = SendRts(n)
    <3>1. OpensRts(n)
      BY <2>3, <2>6, SendRtsArms DEF OpensRts
    <3> QED
      BY <2>4, <3>1 DEF Opens
  <2>7. CASE /\ n.st # "SPC"
             /\ ~(CurrentAddr(n) # Group /\ CurrentPacket(n).large)
             /\ mac' = SendUnicastDataNoAck(n, draw)
    <3>1. PICK t : /\ Sound(t) /\ Watch(t) = Without(n, "EndReceive") /\ Still(n, t)
                   /\ t.sent = Data(n, 0) /\ t.end["tx"] = AirTime(Data(n, 0))
                   /\ t.end["rx"] \in {0, n.end["rx"]}
                   /\ \A c \in Causes \ {"tx", "rx"} : t.end[c] = n.end[c]
                   /\ IF n.st = "SECOND" THEN Backs(t, mac', n.p1, NoPacket)
                                         ELSE Backs(t, mac', NoPacket, n.p2)
      BY <2>3, <2>7, SendNoAckBacks
    <3>2. AirTime(Data(n, 0)) \in Int
      BY OwnFrames, Times
    <3>3. t.addr = n.addr /\ t.st = n.st
      BY <3>1 DEF Still
    <3>4. Guarded(t, air)
      BY <2>2, <3>1, <3>2, <3>3, GuardedSends
    <3>5. SendsOnce(n)
      BY <2>7, <3>1, <3>4 DEF SendsOnce
    <3> QED
      BY <2>4, <3>5 DEF Opens
  <2> QED
    BY <1>6, <2>5, <2>6, <2>7
<1> QED
  BY <1>2, <1>5, <1>6

\* A wait ends without an answer, or data that was granted goes out.
LEMMA TimeoutActs ==
  ASSUME NEW e, NEW p, Turn(e, p), Sound(p), NEW draw
  PROVE  /\ e.k = "CtsTimeout" /\ mac' = CtsTimeout(p, draw) => MissesCts(e, p)
         /\ e.k = "AckTimeout1" /\ mac' = AckTimeout1(p, draw) => MissesAck(e, p)
         /\ e.k = "AckTimeout2" /\ mac' = AckTimeout2(p, draw) => MissesAck(e, p)
<1>1. e.k = "CtsTimeout" /\ mac' = CtsTimeout(p, draw) => MissesCts(e, p)
  BY CtsTimeoutBacks DEF MissesCts
<1>2. ASSUME e.k = "AckTimeout1", mac' = AckTimeout1(p, draw) PROVE MissesAck(e, p)
  <2>1. \/ Backs(p, mac', p.p1, p.p2) /\ Kept(p, mac') /\ p.st = "SPC" /\ mac'.uni
        \/ Backs(p, mac', p.p1, p.p2) /\ Kept(p, mac') /\ p.st # "SPC" /\ mac'.uni = p.uni
        \/ Backs(p, mac', NoPacket, p.p2) /\ p.st # "SPC"
    BY <1>2, AckTimeoutBacks
  <2> QED
    BY <1>2, <2>1 DEF MissesAck, AckTimers
<1>3. ASSUME e.k = "AckTimeout2", mac' = AckTimeout2(p, draw) PROVE MissesAck(e, p)
  <2>1. \/ Backs(p, mac', p.p1, p.p2) /\ Kept(p, mac') /\ p.st = "SPC" /\ mac'.uni
        \/ Backs(p, mac', p.p1, p.p2) /\ Kept(p, mac') /\ p.st # "SPC" /\ mac'.uni = p.uni
        \/ Backs(p, mac', p.p1, NoPacket) /\ p.st # "SPC"
    BY <1>3, AckTimeoutBacks
  <2> QED
    BY <1>3, <2>1 DEF MissesAck, AckTimers
<1> QED
  BY <1>1, <1>2, <1>3

LEMMA GrantActs ==
  ASSUME NEW e, NEW p, Turn(e, p), Sound(p), Hearing(p)
  PROVE  /\ e.k = "SendUnicastDataAfterCts" /\ mac' = SendUnicastDataAfterCts(p)
              => SendsData(e, p)
         /\ \A spc \in BOOLEAN :
              e.k = "SendSpcDataAfterCtsSpc" /\ mac' = SendSpcDataAfterCtsSpc(p, spc)
                => SendsPair(e, p)
<1>1. e.k = "SendUnicastDataAfterCts" /\ mac' = SendUnicastDataAfterCts(p)
        => SendsData(e, p)
  BY SendUnicastArms DEF SendsData
<1>2. ASSUME NEW spc \in BOOLEAN, e.k = "SendSpcDataAfterCtsSpc",
             mac' = SendSpcDataAfterCtsSpc(p, spc)
      PROVE  SendsPair(e, p)
  BY <1>2, SendSpcArms DEF SendsPair
<1> QED
  BY <1>1, <1>2

LEMMA ReplyActs ==
  ASSUME NEW e, NEW p, Turn(e, p), Sound(p), Hearing(p), e.k \in ReplyKinds,
         e.arg \in Frames, e.arg.type \in Answers, mac' = StartSend(p, e.arg)
  PROVE  Responds(e, p)
<1>1. Watch(mac') = Without(p, "EndReceive") /\ Still(p, mac') /\ mac'.sent = e.arg
  BY SendStep
<1> QED
  BY <1>1, WatchedKinds DEF Responds

LEMMA SameExchangeTransitive ==
  ASSUME NEW m, NEW n, NEW s, SameExchange(m, n), SameExchange(n, s)
  PROVE  SameExchange(m, s)
BY DEF SameExchange, Still, Kept

LEMMA ReceiveOkTakes ==
  ASSUME NEW m \in Stations, Good(m), Guarded(m, air),
         ~Awaiting(m, "EndReceive"), NEW f \in Frames, NEW num \in SpcNums,
         NEW draw \in Nat, Open(m, air, f),
         CtsTo(f, m.addr) => Awaiting(m, "CtsTimeout") /\ m.st # "SPC"
  PROVE  LET s == ReceiveOk(m, f, num, draw)
         IN Takes(m, f, s) /\ (f.type = "DATA_SPC" => SameExchange(m, s))
<1> DEFINE r == [m EXCEPT !.rxing = FALSE]
           n == Overhear(r, f)
           s == ReceiveOk(m, f, num, draw)
<1>1. /\ Guarded(r, air) /\ Watch(r) = Watch(m) /\ Still(m, r) /\ r.sent = m.sent
  BY ErrorGuarded
<1>2. r \in Stations /\ Good(r)
  BY RxingLeads DEF Leads
<1>3. Defers(r, n)
  BY HeardDefers DEF Guarded
<1>4. n \in Stations /\ Good(n)
  <2> HIDE DEF r
  <2> QED
    BY <1>2, OverhearLeads DEF Leads
<1>5. /\ f.type = "RTS" => s = ReceiveRts(n, f)
      /\ f.type = "CTS" => s = ReceiveCts(n, f)
      /\ f.type = "DATA" => s = ReceiveData(n, f)
      /\ f.type = "RTS_SPC" => s = ReceiveRtsSpc(n, f)
      /\ f.type = "CTS_SPC" => s = ReceiveCtsSpc(n, f)
      /\ f.type = "DATA_SPC" => s = ReceiveDataSpc(n, f, num)
      /\ f.type = "ACK" => s = ReceiveAck(n, f, draw)
  BY DEF ReceiveOk
<1> HIDE DEF r, n, s
<1>6. Guarded(n, air) /\ SameExchange(m, n) /\ Sound(n)
  BY <1>1, <1>3, <1>4, DefersGuarded DEF Defers, Still, Kept, Guarded, SameExchange
<1>7. /\ n.addr = m.addr /\ n.st = m.st /\ n.p1 = m.p1 /\ n.p2 = m.p2 /\ n.ncts = m.ncts
      /\ n.h1 = m.h1 /\ n.h2 = m.h2 /\ n.sent = m.sent /\ Watch(n) = Watch(m)
      /\ \A k : Awaiting(n, k) <=> Awaiting(m, k)
  BY <1>6 DEF SameExchange, Still, Kept, Awaiting
<1>8. CASE f.type \in {"RTS", "DATA", "RTS_SPC", "DATA_SPC"}
  <2>1. Defers(n, s)
    BY <1>5, <1>6, <1>8, AnswersDefer
  <2>2. SameExchange(m, s)
    BY <1>6, <2>1, SameExchangeTransitive DEF Defers, SameExchange
  <2> QED
    BY <2>2 DEF Takes, s
<1>9. CASE f.type = "CTS"
  <2>1. f.a1 = n.addr => ~Awaiting(n, "SendUnicastDataAfterCts")
    BY <1>7, <1>9, WatchedKinds DEF Open, CtsTo
  <2>2. \/ s = n /\ f.a1 # n.addr
        \/ Fails(n, s, "ReceiveCts") /\ f.a1 = n.addr /\ n.st = "SPC"
        \/ /\ Proceeds(n, s, "SendUnicastDataAfterCts")
           /\ f.a1 = n.addr /\ n.st # "SPC"
    BY <1>5, <1>6, <1>9, <2>1, ReceiveCtsProceeds
  <2>3. SameExchange(m, s) \/ HearsCts(m, f, s)
    BY <1>6, <1>7, <1>9, <2>2 DEF CtsTo, HearsCts
  <2> QED
    BY <1>9, <2>3 DEF Takes, s
<1>10. CASE f.type = "CTS_SPC"
  <2>1. Awaiting(n, "CtsTimeout") => ~Awaiting(n, "SendSpcDataAfterCtsSpc")
    BY <1>7, <1>10, WatchedKinds DEF Open
  <2>2. \/ s = n
        \/ /\ Awaiting(n, "CtsTimeout") /\ f.a1 \in {n.h1, n.h2}
           /\ \/ Fails(n, s, "ReceiveCtsSpc") /\ n.st # "SPC"
              \/ s = Counted(n) /\ n.st = "SPC" /\ Counted(n).ncts # 2
              \/ /\ Proceeds(Counted(n), s, "SendSpcDataAfterCtsSpc")
                 /\ n.st = "SPC" /\ Counted(n).ncts = 2
    BY <1>5, <1>6, <1>10, <2>1, ReceiveCtsSpcProceeds
  <2>3. Counted(n).ncts = m.ncts + 1
    BY <1>6, <1>7, CountStep
  <2>4. CASE s = n
    BY <1>6, <1>10, <2>4 DEF Takes, s
  <2>5. CASE s # n
    <3>1. HearsCtsSpc(m, f, s)
      BY <1>6, <1>7, <1>10, <2>2, <2>3, <2>5 DEF HearsCtsSpc
    <3> QED
      BY <1>10, <3>1 DEF Takes, s
  <2> QED
    BY <2>4, <2>5
<1>11. CASE f.type = "ACK"
  <2>1. n.st \in SendStates /\ f.spc \in SpcNums
    BY <1>4, FrameFields DEF Stations
  <2> DEFINE k == AckedTimer(n.st, f.spc)
  <2>2. \/ s = n
        \/ \E c : /\ f.a1 = n.addr
                  /\ Sound(c) /\ Watch(c) = Without(n, k) /\ Still(n, c)
                  /\ c.end = n.end /\ c.rxing = n.rxing /\ c.sent = n.sent
                  /\ IF k = "AckTimeout1" THEN Backs(c, s, NoPacket, n.p2)
                                          ELSE Backs(c, s, n.p1, NoPacket)
    BY <1>5, <1>6, <1>11, <2>1, ReceiveAckBacks
  <2>3. k # "CtsTimeout" /\ k = AckedTimer(m.st, f.spc)
    BY <1>7 DEF AckedTimer
  <2> HIDE DEF k
  <2>4. CASE s = n
    BY <1>6, <1>11, <2>4 DEF Takes, s
  <2>5. CASE s # n
    <3>1. PICK c : /\ f.a1 = n.addr
                   /\ Sound(c) /\ Watch(c) = Without(n, k) /\ Still(n, c)
                   /\ c.end = n.end /\ c.rxing = n.rxing /\ c.sent = n.sent
                   /\ IF k = "AckTimeout1" THEN Backs(c, s, NoPacket, n.p2)
                                           ELSE Backs(c, s, n.p1, NoPacket)
      BY <2>2, <2>5
    <3>2. c.st = n.st /\ c.addr = n.addr
      BY <3>1 DEF Still
    <3>3. Guarded(c, air)
      BY <1>6, <2>3, <3>1, <3>2, GuardedWithout
    <3>4. Still(m, c) /\ Watch(c) = Without(m, k)
      BY <1>6, <1>7, <3>1 DEF SameExchange, Still, Kept, Without
    <3>5. HearsAck(m, f, s)
      BY <1>7, <1>11, <2>3, <3>1, <3>3, <3>4 DEF HearsAck
    <3> QED
      BY <1>11, <3>5 DEF Takes, s
  <2> QED
    BY <2>4, <2>5
<1> QED
  BY <1>8, <1>9, <1>10, <1>11, FrameFields DEF FrameTypes

LEMMA EndReceiveTakes ==
  ASSUME NEW m \in Stations, Good(m), Guarded(m, air),
         ~Awaiting(m, "EndReceive"), NEW f \in Frames, NEW ok1 \in BOOLEAN,
         NEW ok2 \in BOOLEAN, NEW draw \in Nat, Idle(m) => ~CtsTo(f, m.addr),
         Open(m, air, f),
         CtsTo(f, m.addr) => Awaiting(m, "CtsTimeout") /\ m.st # "SPC"
  PROVE  Takes(m, f, EndReceive(m, f, ok1, ok2, draw))
<1> DEFINE n == IF ok1 THEN ReceiveOk(m, f, "FIRST", draw) ELSE ReceiveError(m)
           s == EndReceive(m, f, ok1, ok2, draw)
<1>1. s = IF f.type # "DATA_SPC" THEN n
          ELSE IF ok2 THEN ReceiveOk(n, f, "SECOND", draw) ELSE ReceiveError(n)
  BY DEF EndReceive
<1>2. SpcNums = {"FIRST", "SECOND"}
  BY DEF SpcNums
<1>3. SameExchange(m, ReceiveError(m))
  BY ErrorGuarded DEF ReceiveError, SameExchange
<1>4. Takes(m, f, n) /\ (f.type = "DATA_SPC" => SameExchange(m, n))
  <2>1. CASE ok1
    BY <1>2, <2>1, ReceiveOkTakes
  <2>2. CASE ~ok1
    BY <1>3, <2>2 DEF Takes
  <2> QED
    BY <2>1, <2>2
<1>5. /\ Guarded(n, air) /\ n \in Stations /\ Good(n)
      /\ f.type = "DATA_SPC" => ~Awaiting(n, "EndReceive")
  <2>1. CASE ok1
    BY <1>2, <2>1, ReceiveOkGuarded, ReceiveOkLeads DEF Leads
  <2>2. CASE ~ok1
    <3>1. Guarded(n, air) /\ Watch(n) = Watch(m)
      BY <2>2, ErrorGuarded DEF ReceiveError
    <3>2. n \in Stations /\ Good(n)
      BY <2>2, RxingLeads DEF ReceiveError, Leads
    <3> QED
      BY <3>1, <3>2 DEF Awaiting
  <2> QED
    BY <2>1, <2>2
<1> HIDE DEF n, s
<1>6. CASE f.type = "DATA_SPC"
  <2>1. ~CtsTo(f, n.addr) /\ Open(n, air, f) /\ SameExchange(m, n)
    BY <1>4, <1>6 DEF CtsTo, Open
  <2>2. SameExchange(n, ReceiveError(n))
    BY <1>5, <1>6, ErrorGuarded DEF ReceiveError, SameExchange
  <2>3. SameExchange(n, ReceiveOk(n, f, "SECOND", draw))
    BY <1>2, <1>5, <1>6, <2>1, ReceiveOkTakes
  <2>4. SameExchange(n, s)
    BY <1>1, <1>6, <2>2, <2>3
  <2>5. SameExchange(m, s)
    BY <2>1, <2>4, SameExchangeTransitive
  <2> QED
    BY <2>5 DEF Takes, s
<1> QED
  BY <1>1, <1>4, <1>6 DEF s

LEMMA ReceptionActs ==
  ASSUME WaitInv, NEW e \in mac.ev, e \in Due(mac), e.k = "EndReceive",
         NEW ok1 \in BOOLEAN, NEW ok2 \in BOOLEAN, NEW draw \in Nat,
         mac' = EndReceive(Pop(mac, e), e.arg, ok1, ok2, draw)
  PROVE  Hears(e, Pop(mac, e))
<1> DEFINE p == Pop(mac, e)
           v == View(e)
<1>1. Inv /\ Guarded(mac, air)
  BY DEF WaitInv, ReplyInv
<1>2. p \in Stations /\ Good(p) /\ Guarded(p, air) /\ Turn(e, p)
  BY <1>1, TurnStarts, RunGuarded
<1>3. e.arg \in Frames /\ (Idle(p) => ~CtsTo(e.arg, p.addr))
  BY <1>1, RunLemma
<1>4. ~Awaiting(p, "EndReceive") /\ Open(p, air, e.arg)
  BY <1>1, RunOpen
<1>5. e.due = 0 /\ v \in Watch(mac) /\ v.k = "EndReceive" /\ v.due = 0 /\ v.arg = e.arg
  BY <1>2, WatchedKinds DEF Turn, View
<1> HIDE DEF p, v
<1>6. p.addr = mac.addr /\ p.st = mac.st /\ Watch(p) = Without(mac, "EndReceive")
  BY <1>2 DEF Turn, Still
<1>7. ASSUME CtsTo(e.arg, p.addr) PROVE Awaiting(p, "CtsTimeout") /\ p.st # "SPC"
  <2>1. Heard(v) \in Coming(mac, air) /\ Heard(v).frame = e.arg
    BY <1>1, <1>5, ComingTypes DEF Guarded
  <2>2. mac.st # "SPC" /\ \E t \in Watch(mac) : t.k = "CtsTimeout"
    BY <1>1, <1>6, <1>7, <2>1 DEF Guarded, CtsComing
  <2> QED
    BY <1>6, <2>2 DEF Without, Awaiting
<1>8. Takes(p, e.arg, mac')
  BY <1>2, <1>3, <1>4, <1>7, EndReceiveTakes DEF p
<1> QED
  BY <1>3, <1>8 DEF Hears, p

\* What an event does to the exchange.
LEMMA FireActs ==
  ASSUME WaitInv, Fire
  PROVE  Answered /\ \E e, p : Turn(e, p) /\ Acts(e, p)
<1>1. Inv /\ Guarded(mac, air) /\ mac \in Stations
  BY DEF WaitInv, ReplyInv, Inv, TypeOK
<1>2. Answered
  BY DEF Fire, FireBackoffGrantStart, FireBackoffTimeout, FireCtsTimeout, FireAckTimeout1,
     FireAckTimeout2, FireSendUnicastDataAfterCts, FireSendSpcDataAfterCtsSpc, FireReply,
     FireEndReceive, Sends
<1>3. CASE FireBackoffGrantStart
  <2>1. PICK e \in mac.ev, draw \in Draws :
          Runs(e, "BackoffGrantStart") /\ mac' = BackoffGrantStart(Pop(mac, e), draw)
    BY <1>3 DEF FireBackoffGrantStart
  <2>2. Turn(e, Pop(mac, e)) /\ Resumes(e, Pop(mac, e))
    BY <2>1, TurnStarts, BackoffGrantActs DEF Runs
  <2> QED
    BY <1>2, <2>2 DEF Acts
<1>4. CASE FireBackoffTimeout
  <2>1. PICK e \in mac.ev, draw \in Draws, n1 \in AggregateNums, n2 \in AggregateNums :
          /\ Runs(e, "BackoffTimeout")
          /\ \E r \in QueuesAfter(mac, n1, n2) : mac' = BackoffTimeout(Pop(mac, e), r, draw)
    BY <1>4 DEF FireBackoffTimeout
  <2>2. PICK r \in QueuesAfter(mac, n1, n2) : mac' = BackoffTimeout(Pop(mac, e), r, draw)
    BY <2>1
  <2>3. /\ Turn(e, Pop(mac, e)) /\ Sound(Pop(mac, e)) /\ Hearing(Pop(mac, e))
        /\ Good(Pop(mac, e)) /\ e.k = "BackoffTimeout"
    BY <2>1, TurnStarts DEF Runs
  <2>4. Resumes(e, Pop(mac, e)) \/ Opens(e, Pop(mac, e))
    BY <1>1, <2>2, <2>3, BackoffTimeoutActs
  <2> QED
    BY <1>2, <2>3, <2>4 DEF Acts
<1>5. CASE FireCtsTimeout \/ FireAckTimeout1 \/ FireAckTimeout2
  <2>1. PICK e \in mac.ev, draw \in Draws :
          /\ e \in Due(mac)
          /\ \/ e.k = "CtsTimeout" /\ mac' = CtsTimeout(Pop(mac, e), draw)
             \/ e.k = "AckTimeout1" /\ mac' = AckTimeout1(Pop(mac, e), draw)
             \/ e.k = "AckTimeout2" /\ mac' = AckTimeout2(Pop(mac, e), draw)
    BY <1>5 DEF FireCtsTimeout, FireAckTimeout1, FireAckTimeout2, Runs
  <2>2. Turn(e, Pop(mac, e)) /\ Sound(Pop(mac, e))
    BY <2>1, TurnStarts
  <2>3. MissesCts(e, Pop(mac, e)) \/ MissesAck(e, Pop(mac, e))
    BY <2>1, <2>2, TimeoutActs
  <2> QED
    BY <1>2, <2>2, <2>3 DEF Acts
<1>6. CASE FireSendUnicastDataAfterCts \/ FireSendSpcDataAfterCtsSpc
  <2>1. PICK e \in mac.ev :
          /\ e \in Due(mac)
          /\ \/ /\ e.k = "SendUnicastDataAfterCts"
                /\ mac' = SendUnicastDataAfterCts(Pop(mac, e))
             \/ /\ e.k = "SendSpcDataAfterCtsSpc"
                /\ \E spc \in BOOLEAN : mac' = SendSpcDataAfterCtsSpc(Pop(mac, e), spc)
    BY <1>6 DEF FireSendUnicastDataAfterCts, FireSendSpcDataAfterCtsSpc, Runs
  <2>2. Turn(e, Pop(mac, e)) /\ Sound(Pop(mac, e)) /\ Hearing(Pop(mac, e))
    BY <2>1, TurnStarts
  <2>3. SendsData(e, Pop(mac, e)) \/ SendsPair(e, Pop(mac, e))
    BY <2>1, <2>2, GrantActs
  <2> QED
    BY <1>2, <2>2, <2>3 DEF Acts
<1>7. CASE FireReply
  <2>1. PICK e \in mac.ev : /\ e \in Due(mac) /\ e.k \in ReplyKinds
                            /\ mac' = StartSend(Pop(mac, e), e.arg)
    BY <1>7 DEF FireReply, Runs
  <2>2. Turn(e, Pop(mac, e)) /\ Sound(Pop(mac, e)) /\ Hearing(Pop(mac, e))
    BY <2>1, TurnStarts
  <2>3. e.arg \in Frames /\ e.arg.type \in Answers
    BY <1>1, <2>1, RunLemma
  <2>4. Responds(e, Pop(mac, e))
    BY <2>1, <2>2, <2>3, ReplyActs
  <2> QED
    BY <1>2, <2>2, <2>4 DEF Acts
<1>8. CASE FireEndReceive
  <2>1. PICK e \in mac.ev, ok1 \in BOOLEAN, ok2 \in BOOLEAN, draw \in Draws :
          /\ e \in Due(mac) /\ e.k = "EndReceive"
          /\ mac' = EndReceive(Pop(mac, e), e.arg, ok1, ok2, draw)
    BY <1>8 DEF FireEndReceive, Runs
  <2>2. Turn(e, Pop(mac, e)) /\ Hears(e, Pop(mac, e))
    BY <2>1, TurnStarts, ReceptionActs, DrawsNat
  <2> QED
    BY <1>2, <2>2 DEF Acts
<1> QED
  BY <1>3, <1>4, <1>5, <1>6, <1>7, <1>8 DEF Fire

-----------------------------------------------------------------------------
(* What the environment does to it.                                        *)

LEMMA SendSupplies ==
  ASSUME WaitInv, Send PROVE Supplies
<1>1. Guarded(mac, air)
  BY DEF WaitInv
<1>2. PICK w \in Workload, draw \in Draws : mac' = Enqueue(mac, w, draw)
  BY DEF Send
<1> DEFINE n == Queued(mac, w)
<1>3. /\ Sound(n) /\ Watch(n) = Watch(mac) /\ n = [mac EXCEPT !.q = n.q, !.sent = NoFrame]
      /\ n.q = (IF Len(mac.q) = QueueMax THEN mac.q ELSE Append(mac.q, w))
      /\ Backs(n, mac', mac.p1, mac.p2) /\ mac'.uni = mac.uni
  BY <1>1, <1>2, EnqueueBacks DEF Guarded
<1> HIDE DEF n
<1>4. /\ n.addr = mac.addr /\ n.st = mac.st /\ n.rxing = mac.rxing /\ n.end = mac.end
      /\ n.p1 = mac.p1 /\ n.p2 = mac.p2 /\ n.h1 = mac.h1 /\ n.h2 = mac.h2
      /\ n.uni = mac.uni /\ n.ncts = mac.ncts /\ n.failed = mac.failed /\ n.sent = NoFrame
  BY <1>1, <1>3 DEF Guarded, Sound
<1>5. Guarded(n, air)
  BY <1>1, <1>3, <1>4, GuardedSame DEF Guarded, Typed
<1> QED
  BY <1>3, <1>4, <1>5 DEF Supplies, Send

LEMMA ReceptionPasses ==
  ASSUME WaitInv, NEW f \in Frames, NEW ar \in SUBSET air,
         CanReceive(mac), mac' = StartReceive(mac, f), air' = ar,
         f \in Foreign \/ \E r \in air : r.due = 0 /\ r.frame = f
  PROVE  Passes(0)
<1>1. Guarded(mac, air) /\ Answering(air) /\ Typed(mac)
  BY DEF WaitInv, Guarded
<1> DEFINE v == Reception(AirTime(f), f)
<1>2. ~mac.rxing /\ \A w \in Watch(mac) : w.k # "EndReceive"
  BY <1>1 DEF CanReceive, Guarded, Within
<1>3. Watch(mac') = Watch(mac) \cup {v} /\ Still(mac, mac') /\ mac'.sent = NoFrame
  BY <1>1, <1>2, StartReceiveStep DEF Guarded, Awaiting
<1>4. v.k = "EndReceive" /\ v.due = AirTime(f) /\ v.arg = f /\ v.k \notin Waiting
  BY DEF Reception, Waiting
<1>5. AirTime(f) \in Nat /\ \A w \in Watch(mac) : w.due \in Nat
  BY <1>1, Times DEF Typed
<1> HIDE DEF v
<1>6. ASSUME NEW c \in Coming(mac', air')
      PROVE  c.frame \in Foreign \/ \E b \in Coming(mac, air) : b.frame = c.frame /\ b.at = c.at + 0
  <2>1. \/ \E r \in ar : c = Expected(r)
        \/ \E w \in Watch(mac') : w.k = "EndReceive" /\ c = Heard(w)
    BY DEF Coming
  <2>2. CASE \E r \in ar : c = Expected(r)
    <3>1. c \in Coming(mac, air)
      BY <2>2 DEF Coming
    <3>2. c.at \in Nat
      BY <1>1, <3>1, ComingTypes
    <3> QED
      BY <3>1, <3>2
  <2>3. CASE \E w \in Watch(mac') : w.k = "EndReceive" /\ c = Heard(w)
    <3>1. c = Heard(v)
      BY <1>2, <1>3, <2>3
    <3>2. c.at = AirTime(f) /\ c.frame = f
      BY <1>4, <3>1 DEF Heard
    <3>3. ASSUME NEW r \in air, r.due = 0, r.frame = f
          PROVE  \E b \in Coming(mac, air) : b.frame = c.frame /\ b.at = c.at + 0
      <4>1. /\ Expected(r) \in Coming(mac, air) /\ Expected(r).frame = f
            /\ Expected(r).at = 0 + AirTime(f)
        BY <1>1, <3>3, ComingTypes
      <4> QED
        BY <1>5, <3>2, <4>1
    <3> QED
      BY <3>2, <3>3
  <2> QED
    BY <2>1, <2>2, <2>3
<1> QED
  BY <1>3, <1>4, <1>5, <1>6 DEF Passes

LEMMA BusyPasses ==
  ASSUME WaitInv, NEW d, NEW ar \in SUBSET air, air' = ar,
         mac' = NotifyMaybeCcaBusyStartNow(mac, d)
  PROVE  Passes(0)
<1>1. Guarded(mac, air) /\ Answering(air) /\ Typed(mac)
  BY DEF WaitInv, Guarded
<1>2. Watch(mac') = Watch(mac) /\ Still(mac, mac') /\ mac'.sent = NoFrame
  BY <1>1, BusyStep DEF Guarded
<1>3. Coming(mac', air') \subseteq Coming(mac, air)
  BY <1>2 DEF Coming
<1>4. \A c \in Coming(mac, air) : c.at \in Nat
  BY <1>1, ComingTypes
<1>5. \A w \in Watch(mac) : w.due \in Nat
  BY <1>1 DEF Typed
<1> QED
  BY <1>2, <1>3, <1>4, <1>5 DEF Passes

LEMMA ElapsePasses ==
  ASSUME NEW m, NEW ar, Guarded(m, ar), \A e \in m.ev : e.due > 0, \A r \in ar : r.due > 0
  PROVE  LET s == Elapse(m)
         IN /\ Still(m, s) /\ s.sent = NoFrame
            /\ \A c \in Coming(s, Nearer(ar)) :
                 \E b \in Coming(m, ar) : b.frame = c.frame /\ b.at = c.at + 1
            /\ \A w \in Watch(m) : \E x \in Watch(s) : x.k = w.k /\ x.due = w.due - 1
            /\ \A x \in Watch(s) : \E w \in Watch(m) : x.k = w.k /\ x.due = w.due - 1
<1> DEFINE s == Elapse(m)
<1>1. Answering(ar) /\ Typed(m) /\ Sound(m)
  BY DEF Guarded
<1>2. Watch(s) = {Sooner(w) : w \in Watch(m)} /\ Still(m, s) /\ s.sent = NoFrame
  BY <1>1, ElapseStep
<1>3. \A w \in Watch(m) : w.due > 0
  <2> SUFFICES ASSUME NEW w \in Watch(m) PROVE w.due > 0
    OBVIOUS
  <2>1. PICK e \in m.ev : w = View(e)
    BY WatchMembers
  <2> QED
    BY <2>1 DEF View
<1> HIDE DEF s
<1>4. /\ Answering(Nearer(ar))
      /\ \A c \in Coming(s, Nearer(ar)) :
           \E b \in Coming(m, ar) : b.frame = c.frame /\ b.at = c.at + 1
      /\ \A w \in Watch(m) : Sooner(w) \in Watch(s) /\ Sooner(w).k = w.k
                             /\ Sooner(w).due = w.due - 1
      /\ \A x \in Watch(s) : \E w \in Watch(m) :
           x.k = w.k /\ x.due = w.due - 1 /\ x.arg = w.arg /\ x.due \in Nat
  BY <1>2, <1>3, NearerComing DEF Guarded
<1> QED
  BY <1>2, <1>4 DEF s

LEMMA TickPasses ==
  ASSUME WaitInv, Tick PROVE Passes(1)
<1>1. /\ \A e \in mac.ev : e.due > 0
      /\ \A r \in air : r.due > 0
      /\ mac' = Elapse(mac) /\ air' = Nearer(air) /\ Guarded(mac, air)
  BY DEF Tick, Nearer, WaitInv
<1>2. /\ Still(mac, mac') /\ mac'.sent = NoFrame
      /\ \A c \in Coming(mac', air') :
           \E b \in Coming(mac, air) : b.frame = c.frame /\ b.at = c.at + 1
      /\ \A w \in Watch(mac) : \E x \in Watch(mac') : x.k = w.k /\ x.due = w.due - 1
      /\ \A x \in Watch(mac') : \E w \in Watch(mac) : x.k = w.k /\ x.due = w.due - 1
  BY <1>1, ElapsePasses
<1> QED
  BY <1>2 DEF Passes

LEMMA EnvironmentActs ==
  ASSUME WaitInv, Send \/ Arrive \/ Overheard \/ Busy \/ Tick
  PROVE  Supplies \/ \E z \in {0, 1} : Passes(z)
<1>1. air \subseteq [due : Nat, frame : Frames]
  BY DEF WaitInv, ReplyInv, Inv, TypeOK
<1>2. CASE Arrive
  <2>1. PICK r \in air :
          /\ r.due = 0
          /\ mac' = IF CanReceive(mac) THEN StartReceive(mac, r.frame)
                    ELSE NotifyMaybeCcaBusyStartNow(mac, AirTime(r.frame))
          /\ air' = air \ {r}
    BY <1>2 DEF Arrive
  <2>2. r.frame \in Frames /\ air \ {r} \in SUBSET air
    BY <1>1
  <2>3. CASE CanReceive(mac)
    BY <2>1, <2>2, <2>3, ReceptionPasses
  <2>4. CASE ~CanReceive(mac)
    BY <2>1, <2>2, <2>4, BusyPasses
  <2> QED
    BY <2>3, <2>4
<1>3. CASE Overheard
  <2>1. PICK f \in Foreign : mac' = StartReceive(mac, f)
    BY <1>3 DEF Overheard
  <2>2. CanReceive(mac) /\ air' = air /\ f \in Frames
    BY <1>3, NodeAssumption DEF Overheard
  <2> QED
    BY <2>1, <2>2, ReceptionPasses
<1>4. CASE Busy
  BY <1>4, BusyPasses DEF Busy
<1> QED
  BY <1>2, <1>3, <1>4, SendSupplies, TickPasses

-----------------------------------------------------------------------------
(* One exchange at a time, and two packets superposed once.                *)

Alone(m) ==
  /\ Awaits(m) \subseteq AckTimers \/ \E k \in Waiting : Awaits(m) = {k}
  /\ "SendUnicastDataAfterCts" \in Awaits(m) => m.st # "SPC"
  /\ "SendSpcDataAfterCtsSpc" \in Awaits(m) => m.st = "SPC"

\* Two packets that were sent superposed: their acknowledgements are awaited, or
\* they go on one by one.
Once(m) ==
  \/ Awaits(m) = AckTimers /\ m.st = "SPC"
  \/ /\ m.uni
     /\ "SendSpcDataAfterCtsSpc" \notin Awaits(m)
     /\ "CtsTimeout" \in Awaits(m) => m.st # "SPC"

Ordered ==
  /\ Alone(mac)
  /\ superposed => mac.p1 # NoPacket /\ mac.p2 # NoPacket /\ Once(mac)

LEMMA WaitingKinds ==
  /\ "CtsTimeout" \in Waiting /\ AckTimers \subseteq Waiting /\ Granted \subseteq Waiting
  /\ AckTimers = {"AckTimeout1", "AckTimeout2"}
  /\ Granted = {"SendUnicastDataAfterCts", "SendSpcDataAfterCtsSpc"}
  /\ Waiting = {"CtsTimeout"} \cup AckTimers \cup Granted
  /\ "EndReceive" \notin Waiting /\ Waiting \subseteq Watched
BY DEF Waiting, AckTimers, Granted, Watched

LEMMA AwaitsOf ==
  ASSUME NEW m, NEW s
  PROVE  /\ Watch(s) = Watch(m) => Awaits(s) = Awaits(m)
         /\ \A k : Watch(s) = Without(m, k) => Awaits(s) = Awaits(m) \ {k}
         /\ \A k \in Waiting : \A d : Watch(s) = Without(m, "EndReceive") \cup {Timer(k, d)} =>
              Awaits(s) = Awaits(m) \cup {k}
         /\ \A j \in Waiting, k \in Waiting : \A d :
              Watch(s) = Without(m, "EndReceive") \cup {Timer(j, d), Timer(k, d)} =>
                Awaits(s) = Awaits(m) \cup {j, k}
         /\ \A k \in Waiting : \A d : Watch(s) = Without(m, "CtsTimeout") \cup {Timer(k, d)} =>
              Awaits(s) = (Awaits(m) \ {"CtsTimeout"}) \cup {k}
<1>1. "EndReceive" \notin Waiting /\ \A k, d : Timer(k, d).k = k
  BY WaitingKinds DEF Timer
<1>2. Watch(s) = Watch(m) => Awaits(s) = Awaits(m)
  BY DEF Awaits, Awaiting
<1>3. \A k : Watch(s) = Without(m, k) => Awaits(s) = Awaits(m) \ {k}
  BY DEF Awaits, Awaiting, Without
<1>4. ASSUME NEW k \in Waiting, NEW d, Watch(s) = Without(m, "EndReceive") \cup {Timer(k, d)}
      PROVE  Awaits(s) = Awaits(m) \cup {k}
  BY <1>1, <1>4 DEF Awaits, Awaiting, Without
<1>5. ASSUME NEW j \in Waiting, NEW k \in Waiting, NEW d,
             Watch(s) = Without(m, "EndReceive") \cup {Timer(j, d), Timer(k, d)}
      PROVE  Awaits(s) = Awaits(m) \cup {j, k}
  BY <1>1, <1>5 DEF Awaits, Awaiting, Without
<1>6. ASSUME NEW k \in Waiting, NEW d, Watch(s) = Without(m, "CtsTimeout") \cup {Timer(k, d)}
      PROVE  Awaits(s) = (Awaits(m) \ {"CtsTimeout"}) \cup {k}
  BY <1>1, <1>6 DEF Awaits, Awaiting, Without
<1> QED
  BY <1>2, <1>3, <1>4, <1>5, <1>6

LEMMA BacksAwaits ==
  ASSUME NEW m, NEW ar, Guarded(m, ar), NEW s, NEW x, NEW y, Backs(m, s, x, y)
  PROVE  /\ Awaits(s) = Awaits(m) /\ (s.st = m.st \/ Awaits(m) = {})
         /\ s.sent = m.sent /\ s.ncts = m.ncts /\ s.failed = m.failed
<1>1. Rests(m, s) /\ (s.st = m.st \/ Latest(m) + Difs <= 0)
  BY DEF Backs
<1>2. Latest(m) + Difs <= 0 => Watch(m) = {}
  BY FreeEmpty DEF Guarded
<1>3. Watch(m) = {} => Awaits(m) = {}
  BY DEF Awaits, Awaiting
<1> QED
  BY <1>1, <1>2, <1>3, AwaitsOf DEF Rests

\* The station as it is when an event runs.
LEMMA TurnAwaits ==
  ASSUME NEW e, NEW p, Turn(e, p)
  PROVE  /\ Awaits(p) = Awaits(mac) \ {e.k} /\ (e.k \in Waiting => e.k \in Awaits(mac))
         /\ p.p1 = mac.p1 /\ p.p2 = mac.p2 /\ p.h1 = mac.h1 /\ p.h2 = mac.h2 /\ p.q = mac.q
         /\ p.st = mac.st /\ p.uni = mac.uni /\ p.ncts = mac.ncts /\ p.failed = mac.failed
         /\ p.addr = Self /\ p.sent = NoFrame /\ Guarded(p, air) /\ p \in Stations
         /\ p.st \in SendStates
<1>1. Watch(p) = Without(mac, e.k) /\ Still(mac, p)
  BY DEF Turn
<1>2. e.k \in Waiting => e.k \in Awaits(mac)
  <2>1. e.k \in Waiting => View(e) \in Watch(mac) /\ View(e).k = e.k
    BY WaitingKinds DEF Turn, View
  <2> QED
    BY <2>1 DEF Awaits, Awaiting
<1> QED
  BY <1>1, <1>2, AwaitsOf DEF Turn, Still, Kept, Stations

LEMMA OwnFramesType ==
  ASSUME NEW m \in Stations
  PROVE  /\ {Rts(m), RtsSpc(m), Data(m, 0), Data(m, AckSendAndSifs), DataSpc(m)} \subseteq Frames
         /\ Data(m, 0).dur = 0
<1>1. {m.addr, m.h1, m.h2, CurrentAddr(m), NoAddr} \subseteq Address
  BY StationAddresses
<1>2. /\ {0, CtsSendAndSifs, 2 * CtsSendAndSifs, AckSendAndSifs, 2 * AckSendAndSifs} \subseteq Nat
      /\ "FIRST" \in SpcNums
  BY Times DEF SpcNums
<1>3. {"RTS", "RTS_SPC", "DATA", "DATA_SPC"} \subseteq FrameTypes
  BY DEF FrameTypes
<1>4. Rts(m) \in Frames
  BY <1>1, <1>2, <1>3, FrameType DEF Rts
<1>5. RtsSpc(m) \in Frames
  BY <1>1, <1>2, <1>3, FrameType DEF RtsSpc
<1>6. Data(m, 0) \in Frames /\ Data(m, AckSendAndSifs) \in Frames
  BY <1>1, <1>2, <1>3, FrameType DEF Data
<1>7. DataSpc(m) \in Frames
  BY <1>1, <1>2, <1>3, FrameType DEF DataSpc
<1> QED
  BY <1>4, <1>5, <1>6, <1>7 DEF Data, Frame

\* A backoff that ends while something is awaited makes a tie.
OpensFor(n) ==
  /\ Awaits(n) = {}
  /\ \/ /\ n.st = "SPC"
        /\ Arms(Recounted(n), mac', {Timer("CtsTimeout", RtsSpcWait)}, "cts", RtsSpcWait,
                RtsSpc(n))
     \/ /\ n.st # "SPC"
        /\ Arms(n, mac', {Timer("CtsTimeout", RtsWait)}, "cts", RtsWait, Rts(n))
     \/ SendsOnce(n)

LEMMA OpensAlone ==
  ASSUME Remember, ~tied', NEW e, NEW p, Turn(e, p), Opens(e, p)
  PROVE  Awaits(mac) = {} /\ \E n : Free(e, p, n) /\ OpensFor(n)
<1>1. PICK n : Free(e, p, n) /\ (OpensSpc(n) \/ OpensRts(n) \/ SendsOnce(n))
  BY DEF Opens
<1>2. n \in Stations /\ Watch(n) = Watch(p) /\ ~(Latest(p) > 0) /\ e.k \notin Watched
  BY <1>1 DEF Free, Rests
<1>3. Launch(mac'.sent) \/ mac'.failed \in {"SendRts", "SendRtsSpc"}
  <2>1. NoFrame \notin Frames /\ Rts(n) \in Frames /\ RtsSpc(n) \in Frames
        /\ Data(n, 0) \in Frames /\ Data(n, 0).dur = 0
    BY <1>2, OwnFramesType, NoFrameAssumption
  <2>2. Rts(n).type = "RTS" /\ RtsSpc(n).type = "RTS_SPC" /\ Data(n, 0).type = "DATA"
    BY OwnFrames
  <2>3. \/ mac'.failed \in {"SendRts", "SendRtsSpc"}
        \/ mac'.sent \in {RtsSpc(n), Rts(n), Data(n, 0)}
    BY <1>1 DEF OpensSpc, OpensRts, SendsOnce, Fails, Arms, Backs, Rests
  <2> QED
    BY <2>1, <2>2, <2>3 DEF Launch
<1>4. ASSUME NEW k \in Awaits(mac) PROVE FALSE
  <2>1. PICK w \in Watch(mac) : w.k = k /\ k \in Waiting
    BY DEF Awaits, Awaiting
  <2>2. w \in Watch(p)
    BY <1>2, <2>1, WaitingKinds DEF Turn, Without
  <2>3. w.due = 0
    BY <1>2, <2>2, FreeNow DEF Turn, Guarded
  <2>4. PICK x \in mac.ev : w = View(x)
    BY WatchMembers
  <2>5. x.due = 0 /\ x.k \in Waiting
    BY <2>1, <2>3, <2>4 DEF View
  <2> QED
    BY <1>3, <2>5 DEF Remember
<1>5. Awaits(n) = {}
  BY <1>2, <1>4, TurnAwaits, AwaitsOf
<1>6. ~Awaiting(n, "CtsTimeout")
  BY <1>5, WaitingKinds DEF Awaits
<1>7. OpensFor(n)
  BY <1>1, <1>5, <1>6 DEF OpensFor, OpensSpc, OpensRts
<1> QED
  BY <1>1, <1>4, <1>7

\* What was superposed stays so, or the pair of data frames goes out now.
LEMMA Remembered ==
  ASSUME Remember, Alone(mac'),
         \/ mac'.sent = NoFrame \/ mac'.sent.type # "DATA_SPC"
         \/ Once(mac'),
         superposed /\ mac'.p1 # NoPacket /\ mac'.p2 # NoPacket /\ ~PairTaken => Once(mac')
  PROVE  Ordered'
BY DEF Remember, Ordered, IsType, Alone, Once, Awaits, Awaiting, Watch, View

LEMMA UnicastState ==
  ASSUME NEW m \in Stations
  PROVE  /\ SetState(m).st = "SPC" => ~m.uni /\ m.p1 # NoPacket /\ m.p2 # NoPacket
         /\ SetState(m).st = "SECOND" => m.p2 # NoPacket
         /\ Held(m) /\ SetState(m).st = "FIRST" => m.p1 # NoPacket
<1> DEFINE both == m.p1 # NoPacket /\ m.p2 # NoPacket /\ ~m.uni
           spc  == Group \notin {m.h1, m.h2} /\ m.h1 # m.h2
           t    == IF both /\ spc THEN "SPC"
                   ELSE IF ~both /\ m.p1 = NoPacket /\ m.p2 # NoPacket
                     THEN "SECOND" ELSE "FIRST"
<1>1. SetState(m) = [m EXCEPT !.st = t]
  BY DEF SetState
<1>2. "st" \in DOMAIN m
  BY DEF Stations
<1>3. SetState(m).st = t
  BY <1>1, <1>2
<1>4. (t = "SPC" => both) /\ (t = "SECOND" => m.p2 # NoPacket)
      /\ (t = "FIRST" => m.p1 # NoPacket \/ m.p2 = NoPacket)
  OBVIOUS
<1> QED
  BY <1>3, <1>4 DEF Held

LEMMA BackoffOrdered ==
  ASSUME Ordered, Remember, ~tied', NEW e, NEW p, Turn(e, p),
         Resumes(e, p) \/ Opens(e, p)
  PROVE  Ordered'
<1>1. /\ Awaits(p) = Awaits(mac) \ {e.k}
      /\ p.p1 = mac.p1 /\ p.p2 = mac.p2 /\ p.st = mac.st /\ p.uni = mac.uni
      /\ p.sent = NoFrame /\ Guarded(p, air)
  BY TurnAwaits
<1>2. e.k \notin Waiting
  BY WaitingKinds DEF Resumes, Opens, Free
<1>3. CASE Resumes(e, p)
  <2>1. /\ Awaits(mac') = Awaits(mac) /\ (mac'.st = mac.st \/ Awaits(mac) = {})
        /\ mac'.sent = NoFrame
    BY <1>1, <1>2, <1>3, BacksAwaits DEF Resumes, Awaits
  <2>2. mac'.p1 = mac.p1 /\ mac'.p2 = mac.p2 /\ (mac'.uni = mac.uni \/ ~Held(mac))
    BY <1>1, <1>3 DEF Resumes, Kept, Held
  <2>3. Alone(mac')
    BY <2>1 DEF Ordered, Alone
  <2>4. superposed => Once(mac')
    BY <2>1, <2>2 DEF Ordered, Once, Held, AckTimers
  <2> QED
    BY <2>1, <2>3, <2>4, Remembered
<1>4. CASE Opens(e, p)
  <2>1. Awaits(mac) = {}
    BY <1>4, OpensAlone
  <2>2. PICK n : Free(e, p, n) /\ OpensFor(n)
    BY <1>4, OpensAlone
  <2>3. /\ n.p1 = mac.p1 /\ n.p2 = mac.p2 /\ n.uni = mac.uni /\ n.st = SetState(p).st
        /\ Awaits(n) = {} /\ n \in Stations /\ Guarded(n, air) /\ Sound(n)
    BY <1>1, <2>2 DEF Free, OpensFor, Guarded
  <2>4. superposed => n.uni /\ n.st # "SPC"
    <3>1. superposed => n.uni
      BY <2>1, <2>3 DEF Ordered, Once, AckTimers
    <3>2. p \in Stations
      BY TurnAwaits
    <3>3. SetState(p).st = "SPC" => ~p.uni
      BY <3>2, UnicastState
    <3> QED
      BY <1>1, <2>3, <3>1, <3>3
  <2>5. CASE /\ n.st = "SPC"
             /\ Arms(Recounted(n), mac', {Timer("CtsTimeout", RtsSpcWait)}, "cts",
                     RtsSpcWait, RtsSpc(n))
    <3> DEFINE o == Recounted(n)
    <3>1. Watch(o) = Watch(n)
      BY <2>3, RecountStep
    <3> HIDE DEF o
    <3>2. Awaits(mac') = {"CtsTimeout"}
      <4>1. Awaits(o) = {}
        BY <2>3, <3>1, AwaitsOf
      <4>2. Watch(mac') = Without(o, "EndReceive") \cup {Timer("CtsTimeout", RtsSpcWait)}
        BY <2>5 DEF Arms, o
      <4> QED
        BY <4>1, <4>2, AwaitsOf, WaitingKinds
    <3>3. mac'.sent.type # "DATA_SPC"
      BY <2>5, OwnFrames DEF Arms
    <3>4. Alone(mac')
      BY <3>2, WaitingKinds DEF Alone
    <3> QED
      BY <2>4, <2>5, <3>3, <3>4, Remembered
  <2>6. CASE /\ n.st # "SPC"
             /\ Arms(n, mac', {Timer("CtsTimeout", RtsWait)}, "cts", RtsWait, Rts(n))
    <3>1. Awaits(mac') = {"CtsTimeout"} /\ mac'.st = n.st /\ mac'.uni = n.uni
      BY <2>3, <2>6, AwaitsOf, WaitingKinds DEF Arms, Still
    <3>2. mac'.sent.type # "DATA_SPC"
      BY <2>6, OwnFrames DEF Arms
    <3>3. Alone(mac')
      BY <3>1, WaitingKinds DEF Alone
    <3>4. superposed => Once(mac')
      BY <2>4, <3>1 DEF Once
    <3> QED
      BY <3>2, <3>3, <3>4, Remembered
  <2>7. CASE SendsOnce(n)
    <3>1. PICK t : /\ Guarded(t, air) /\ Watch(t) = Without(n, "EndReceive") /\ Still(n, t)
                   /\ t.sent = Data(n, 0)
                   /\ IF n.st = "SECOND" THEN Backs(t, mac', n.p1, NoPacket)
                                         ELSE Backs(t, mac', NoPacket, n.p2)
      BY <2>7 DEF SendsOnce
    <3>2. Awaits(t) = {}
      BY <2>3, <3>1, AwaitsOf
    <3>3. Awaits(mac') = {} /\ mac'.sent = Data(n, 0)
      BY <3>1, <3>2, BacksAwaits
    <3>4. mac'.sent.type # "DATA_SPC"
      BY <3>3, OwnFrames
    <3>5. Alone(mac')
      BY <3>3, WaitingKinds DEF Alone
    <3>6. superposed => mac'.p1 = NoPacket \/ mac'.p2 = NoPacket
      BY <2>3, <3>1 DEF Ordered, Backs, Goes
    <3> QED
      BY <3>4, <3>5, <3>6, Remembered
  <2> QED
    BY <2>2, <2>5, <2>6, <2>7 DEF OpensFor
<1> QED
  BY <1>3, <1>4

LEMMA MissesOrdered ==
  ASSUME Ordered, Remember, NEW e, NEW p, Turn(e, p), MissesCts(e, p) \/ MissesAck(e, p)
  PROVE  Ordered'
<1>1. /\ Awaits(p) = Awaits(mac) \ {e.k} /\ e.k \in Awaits(mac)
      /\ p.p1 = mac.p1 /\ p.p2 = mac.p2 /\ p.st = mac.st /\ p.uni = mac.uni /\ p.q = mac.q
      /\ p.sent = NoFrame /\ Guarded(p, air)
  BY TurnAwaits, WaitingKinds DEF MissesCts, MissesAck
<1>2. /\ Awaits(mac') = Awaits(p) /\ (mac'.st = p.st \/ Awaits(p) = {})
      /\ mac'.sent = NoFrame
  BY <1>1, BacksAwaits DEF MissesCts, MissesAck
<1>3. CASE MissesCts(e, p)
  <2>1. Awaits(mac) = {"CtsTimeout"} /\ Awaits(mac') = {}
    BY <1>1, <1>2, <1>3, WaitingKinds DEF MissesCts, Ordered, Alone
  <2>2. Alone(mac')
    BY <2>1, WaitingKinds DEF Alone
  <2>3. superposed => mac.uni
    BY <2>1, WaitingKinds DEF Ordered, Once
  <2>4. CASE Kept(p, mac') /\ mac'.uni = p.uni
    BY <1>1, <1>2, <2>1, <2>2, <2>3, <2>4, Remembered DEF Once
  <2>5. CASE Backs(p, mac', NoPacket, NoPacket)
    <3>1. mac'.p2 = NoPacket \/ Len(mac'.q) < Len(mac.q)
      <4>1. SUFFICES ASSUME mac'.p2 # NoPacket
                     PROVE  Len(mac'.q) < Len(mac.q)
        OBVIOUS
      <4>2. /\ mac.q # <<>> /\ Tail(mac.q) # <<>> /\ mac'.q = Tail(Tail(mac.q))
        BY <1>1, <2>5, <4>1 DEF Backs, Goes
      <4>3. mac.q \in Seq(Packets)
        BY <1>1 DEF Turn, Stations
      <4>4. Tail(mac.q) \in Seq(Packets) /\ Len(Tail(mac.q)) = Len(mac.q) - 1
        BY <4>2, <4>3
      <4>5. Len(Tail(Tail(mac.q))) = Len(Tail(mac.q)) - 1 /\ Len(mac.q) \in Nat
        BY <4>2, <4>3, <4>4
      <4> QED
        BY <4>2, <4>4, <4>5
    <3>2. mac'.p2 # NoPacket => PairTaken
      BY <1>2, <3>1 DEF PairTaken, IsType
    <3> QED
      BY <1>2, <2>2, <3>2, Remembered
  <2> QED
    BY <1>3, <2>4, <2>5 DEF MissesCts
<1>4. CASE MissesAck(e, p)
  <2>1. Awaits(mac) \subseteq AckTimers
    BY <1>1, <1>4, WaitingKinds DEF MissesAck, Ordered, Alone
  <2>2. /\ Awaits(mac') \subseteq AckTimers /\ e.k \notin Awaits(mac')
        /\ \A k \in AckTimers : k # "CtsTimeout" /\ k \notin Granted
    BY <1>1, <1>2, <2>1, WaitingKinds
  <2>3. Alone(mac')
    BY <2>2, WaitingKinds DEF Alone
  <2>4. superposed /\ mac.st # "SPC" => mac.uni
    BY DEF Ordered, Once
  <2>5. mac'.uni => Once(mac')
    BY <2>2, WaitingKinds DEF Once
  <2>6. CASE Kept(p, mac') /\ p.st = "SPC" /\ mac'.uni
    BY <1>2, <2>3, <2>5, <2>6, Remembered
  <2>7. CASE Kept(p, mac') /\ p.st # "SPC" /\ mac'.uni = p.uni
    BY <1>1, <1>2, <2>3, <2>4, <2>5, <2>7, Remembered
  <2>8. CASE IF e.k = "AckTimeout1" THEN Backs(p, mac', NoPacket, p.p2)
                                    ELSE Backs(p, mac', p.p1, NoPacket)
    <3>1. superposed => mac'.p1 = NoPacket \/ mac'.p2 = NoPacket
      BY <1>1, <2>8 DEF Ordered, Backs, Goes
    <3> QED
      BY <1>2, <2>3, <3>1, Remembered
  <2> QED
    BY <1>4, <2>6, <2>7, <2>8 DEF MissesAck
<1> QED
  BY <1>3, <1>4

\* Data that was granted goes out: nothing else is awaited.
LEMMA GrantsAlone ==
  ASSUME Alone(mac), NEW e, NEW p, Turn(e, p)
  PROVE  /\ SendsData(e, p) =>
              /\ Awaits(mac) = {"SendUnicastDataAfterCts"} /\ Awaits(p) = {} /\ p.st # "SPC"
              /\ Arms(p, mac', {Timer(OwnTimer(p), AckWait)}, "ack", AckWait,
                      Data(p, AckSendAndSifs))
         /\ SendsPair(e, p) =>
              /\ Awaits(mac) = {"SendSpcDataAfterCtsSpc"} /\ Awaits(p) = {} /\ p.st = "SPC"
              /\ \/ Arms(p, mac', {Timer("AckTimeout1", AckSpcWait),
                                   Timer("AckTimeout2", AckSpcWait)},
                         "ack", AckSpcWait, DataSpc(p))
                 \/ Arms([p EXCEPT !.st = "FIRST"], mac', {Timer("AckTimeout1", AckWait)},
                         "ack", AckWait, Data([p EXCEPT !.st = "FIRST"], AckSendAndSifs))
<1>1. /\ Awaits(p) = Awaits(mac) \ {e.k} /\ (e.k \in Waiting => e.k \in Awaits(mac))
      /\ p.st = mac.st
  BY TurnAwaits
<1>2. OwnTimer(p) \in AckTimers
  BY DEF OwnTimer, AckTimers
<1>3. Awaits(p) = {} => \A k \in Waiting : ~Awaiting(p, k)
  BY DEF Awaits
<1>4. ASSUME SendsData(e, p)
      PROVE  /\ Awaits(mac) = {"SendUnicastDataAfterCts"} /\ Awaits(p) = {} /\ p.st # "SPC"
             /\ Arms(p, mac', {Timer(OwnTimer(p), AckWait)}, "ack", AckWait,
                     Data(p, AckSendAndSifs))
  <2>1. Awaits(mac) = {"SendUnicastDataAfterCts"} /\ Awaits(p) = {} /\ p.st # "SPC"
    BY <1>1, <1>4, WaitingKinds DEF SendsData, Alone
  <2>2. ~Awaiting(p, OwnTimer(p))
    BY <1>2, <1>3, <2>1, WaitingKinds
  <2> QED
    BY <1>4, <2>1, <2>2 DEF SendsData
<1>5. ASSUME SendsPair(e, p)
      PROVE  /\ Awaits(mac) = {"SendSpcDataAfterCtsSpc"} /\ Awaits(p) = {} /\ p.st = "SPC"
             /\ \/ Arms(p, mac', {Timer("AckTimeout1", AckSpcWait),
                                  Timer("AckTimeout2", AckSpcWait)},
                        "ack", AckSpcWait, DataSpc(p))
                \/ Arms([p EXCEPT !.st = "FIRST"], mac', {Timer("AckTimeout1", AckWait)},
                        "ack", AckWait, Data([p EXCEPT !.st = "FIRST"], AckSendAndSifs))
  <2>1. Awaits(mac) = {"SendSpcDataAfterCtsSpc"} /\ Awaits(p) = {} /\ p.st = "SPC"
    BY <1>1, <1>5, WaitingKinds DEF SendsPair, Alone
  <2>2. ~Awaiting(p, "AckTimeout1") /\ ~Awaiting(p, "AckTimeout2")
    BY <1>3, <2>1, WaitingKinds
  <2> QED
    BY <1>5, <2>1, <2>2 DEF SendsPair
<1> QED
  BY <1>4, <1>5

LEMMA SendsOrdered ==
  ASSUME Ordered, Remember, NEW e, NEW p, Turn(e, p),
         SendsData(e, p) \/ SendsPair(e, p) \/ Responds(e, p)
  PROVE  Ordered'
<1>1. /\ Awaits(p) = Awaits(mac) \ {e.k}
      /\ p.p1 = mac.p1 /\ p.p2 = mac.p2 /\ p.st = mac.st /\ p.uni = mac.uni
      /\ p.sent = NoFrame /\ Guarded(p, air) /\ p \in Stations
  BY TurnAwaits
<1>2. Alone(mac)
  BY DEF Ordered
<1>3. CASE SendsData(e, p)
  <2>1. /\ Awaits(mac) = {"SendUnicastDataAfterCts"} /\ Awaits(p) = {} /\ p.st # "SPC"
        /\ Arms(p, mac', {Timer(OwnTimer(p), AckWait)}, "ack", AckWait,
                Data(p, AckSendAndSifs))
    BY <1>2, <1>3, GrantsAlone
  <2>2. OwnTimer(p) \in AckTimers
    BY DEF OwnTimer, AckTimers
  <2>3. Awaits(mac') = {OwnTimer(p)}
    BY <2>1, <2>2, AwaitsOf, WaitingKinds DEF Arms
  <2>4. mac'.uni = mac.uni /\ mac'.sent.type # "DATA_SPC"
    BY <1>1, <2>1, OwnFrames DEF Arms, Still
  <2>5. Alone(mac')
    BY <2>2, <2>3, WaitingKinds DEF Alone
  <2>6. superposed => Once(mac')
    BY <2>1, <2>2, <2>3, <2>4, WaitingKinds DEF Ordered, Once
  <2> QED
    BY <2>4, <2>5, <2>6, Remembered
<1>4. CASE SendsPair(e, p)
  <2> DEFINE n == [p EXCEPT !.st = "FIRST"]
  <2>1. /\ Awaits(mac) = {"SendSpcDataAfterCtsSpc"} /\ Awaits(p) = {} /\ p.st = "SPC"
        /\ \/ Arms(p, mac', {Timer("AckTimeout1", AckSpcWait),
                             Timer("AckTimeout2", AckSpcWait)},
                   "ack", AckSpcWait, DataSpc(p))
           \/ Arms(n, mac', {Timer("AckTimeout1", AckWait)},
                   "ack", AckWait, Data(n, AckSendAndSifs))
    BY <1>2, <1>4, GrantsAlone
  <2>2. ~superposed
    BY <2>1, WaitingKinds DEF Ordered, Once
  <2>3. n.ev = p.ev
    BY <1>1 DEF Stations
  <2>4. CASE Arms(p, mac', {Timer("AckTimeout1", AckSpcWait),
                            Timer("AckTimeout2", AckSpcWait)},
                  "ack", AckSpcWait, DataSpc(p))
    <3>1. Awaits(mac') = AckTimers /\ mac'.st = "SPC"
      BY <2>1, <2>4, AwaitsOf, WaitingKinds DEF Arms, Still
    <3>2. Alone(mac') /\ Once(mac')
      BY <3>1, WaitingKinds DEF Alone, Once
    <3> QED
      BY <2>2, <3>2, Remembered
  <2>5. CASE Arms(n, mac', {Timer("AckTimeout1", AckWait)},
                  "ack", AckWait, Data(n, AckSendAndSifs))
    <3> HIDE DEF n
    <3>1. Awaits(n) = {}
      BY <2>1, <2>3, SameWatch, AwaitsOf
    <3>2. Awaits(mac') = {"AckTimeout1"}
      BY <2>5, <3>1, AwaitsOf, WaitingKinds DEF Arms
    <3>3. mac'.sent.type # "DATA_SPC"
      BY <2>5, OwnFrames DEF Arms
    <3>4. Alone(mac')
      BY <3>2, WaitingKinds DEF Alone
    <3> QED
      BY <2>2, <3>3, <3>4, Remembered
  <2> QED
    BY <2>1, <2>4, <2>5
<1>5. CASE Responds(e, p)
  <2>1. e.k \notin Waiting
    BY <1>5, WaitingKinds DEF Responds
  <2>2. Awaits(mac') = Awaits(mac)
    BY <1>1, <1>5, <2>1, AwaitsOf, WaitingKinds DEF Responds, Awaits
  <2>3. mac'.st = mac.st /\ mac'.uni = mac.uni /\ mac'.sent.type # "DATA_SPC"
    BY <1>1, <1>5 DEF Responds, Still, Answers
  <2> QED
    BY <2>2, <2>3, Remembered DEF Ordered, Alone, Once
<1> QED
  BY <1>3, <1>4, <1>5

\* What a reception that ends finds awaited.
LEMMA HeardAlone ==
  ASSUME Alone(mac), NEW e, NEW p, Turn(e, p), Hears(e, p)
  PROVE  /\ Awaits(p) = Awaits(mac)
         /\ HearsCts(p, e.arg, mac') \/ HearsCtsSpc(p, e.arg, mac') =>
              Awaits(mac) = {"CtsTimeout"}
<1>1. Awaits(p) = Awaits(mac)
  BY TurnAwaits, WaitingKinds DEF Hears, Awaits
<1>2. ASSUME HearsCts(p, e.arg, mac') \/ HearsCtsSpc(p, e.arg, mac')
      PROVE  Awaits(mac) = {"CtsTimeout"}
  <2>1. "CtsTimeout" \in Awaits(p)
    BY <1>2, WaitingKinds DEF HearsCts, HearsCtsSpc, Awaits
  <2> QED
    BY <1>1, <2>1, WaitingKinds DEF Alone
<1> QED
  BY <1>1, <1>2

LEMMA HearsOrdered ==
  ASSUME Ordered, Remember, NEW e, NEW p, Turn(e, p), Hears(e, p)
  PROVE  Ordered'
<1>1. /\ p.p1 = mac.p1 /\ p.p2 = mac.p2 /\ p.st = mac.st /\ p.uni = mac.uni
      /\ p.sent = NoFrame /\ Guarded(p, air)
  BY TurnAwaits
<1>2. Awaits(p) = Awaits(mac)
  BY HeardAlone DEF Ordered
<1>3. CASE SameExchange(p, mac')
  <2>1. /\ Awaits(mac') = Awaits(mac) /\ mac'.st = mac.st /\ mac'.uni = mac.uni
        /\ mac'.sent = NoFrame
    BY <1>1, <1>2, <1>3, AwaitsOf DEF SameExchange, Still
  <2> QED
    BY <2>1, Remembered DEF Ordered, Alone, Once
<1>4. CASE HearsCts(p, e.arg, mac')
  <2>1. Awaits(mac) = {"CtsTimeout"} /\ p.st # "SPC"
    BY <1>4, HeardAlone DEF Ordered, HearsCts
  <2>2. PICK n : SameExchange(p, n) /\ Proceeds(n, mac', "SendUnicastDataAfterCts")
    BY <1>4 DEF HearsCts
  <2>3. Awaits(n) = {"CtsTimeout"} /\ n.st = p.st /\ n.uni = p.uni /\ n.sent = NoFrame
    BY <1>1, <1>2, <2>1, <2>2, AwaitsOf DEF SameExchange, Still
  <2>4. /\ Awaits(mac') = {"SendUnicastDataAfterCts"}
        /\ mac'.st = mac.st /\ mac'.uni = mac.uni /\ mac'.sent = NoFrame
    BY <1>1, <2>2, <2>3, AwaitsOf, WaitingKinds DEF Proceeds, Still
  <2>5. Alone(mac')
    BY <1>1, <2>1, <2>4, WaitingKinds DEF Alone
  <2>6. superposed => Once(mac')
    BY <2>1, <2>4, WaitingKinds DEF Ordered, Once
  <2> QED
    BY <2>4, <2>5, <2>6, Remembered
<1>5. CASE HearsCtsSpc(p, e.arg, mac')
  <2>1. Awaits(mac) = {"CtsTimeout"}
    BY <1>5, HeardAlone DEF Ordered
  <2>2. PICK n : /\ SameExchange(p, n) /\ Sound(n)
                 /\ \/ Fails(n, mac', "ReceiveCtsSpc") /\ p.st # "SPC"
                    \/ mac' = Counted(n) /\ p.st = "SPC" /\ p.ncts + 1 # 2
                    \/ /\ Proceeds(Counted(n), mac', "SendSpcDataAfterCtsSpc")
                       /\ p.st = "SPC" /\ p.ncts + 1 = 2
    BY <1>5 DEF HearsCtsSpc
  <2> DEFINE o == Counted(n)
  <2>3. /\ Awaits(n) = {"CtsTimeout"} /\ n.st = p.st /\ n.uni = p.uni /\ n.sent = NoFrame
        /\ n.p1 = p.p1 /\ n.p2 = p.p2
    BY <1>1, <1>2, <2>1, <2>2, AwaitsOf DEF SameExchange, Still, Kept
  <2>4. /\ Awaits(o) = {"CtsTimeout"} /\ o.st = p.st /\ o.uni = p.uni /\ o.sent = NoFrame
        /\ o.p1 = p.p1 /\ o.p2 = p.p2
    BY <2>2, <2>3, CountStep, AwaitsOf DEF Kept
  <2> HIDE DEF o
  <2>5. CASE Fails(n, mac', "ReceiveCtsSpc") \/ mac' = o
    <3>1. /\ Awaits(mac') = {"CtsTimeout"} /\ mac'.st = p.st /\ mac'.uni = p.uni
          /\ mac'.sent = NoFrame
      BY <2>3, <2>4, <2>5, AwaitsOf DEF Fails
    <3>2. Alone(mac') /\ (superposed => Once(mac'))
      BY <1>1, <2>1, <3>1 DEF Ordered, Alone, Once
    <3> QED
      BY <3>1, <3>2, Remembered
  <2>6. CASE Proceeds(o, mac', "SendSpcDataAfterCtsSpc") /\ p.st = "SPC"
    <3>1. /\ Awaits(mac') = {"SendSpcDataAfterCtsSpc"} /\ mac'.st = "SPC"
          /\ mac'.sent = NoFrame
      BY <2>4, <2>6, AwaitsOf, WaitingKinds DEF Proceeds, Still
    <3>2. ~superposed
      BY <1>1, <2>1, <2>6, WaitingKinds DEF Ordered, Once
    <3>3. Alone(mac')
      BY <3>1, WaitingKinds DEF Alone
    <3> QED
      BY <3>1, <3>2, <3>3, Remembered
  <2> QED
    BY <2>2, <2>5, <2>6 DEF o
<1>6. CASE HearsAck(p, e.arg, mac')
  <2> DEFINE k == AckedTimer(p.st, e.arg.spc)
  <2>1. PICK c : /\ Guarded(c, air) /\ Watch(c) = Without(p, k) /\ Still(p, c)
                 /\ c.sent = p.sent
                 /\ IF k = "AckTimeout1" THEN Backs(c, mac', NoPacket, p.p2)
                                         ELSE Backs(c, mac', p.p1, NoPacket)
    BY <1>6 DEF HearsAck
  <2> HIDE DEF k
  <2>2. Awaits(c) \subseteq Awaits(mac) /\ c.st = mac.st
    BY <1>1, <1>2, <2>1, AwaitsOf DEF Still
  <2>3. /\ Awaits(mac') = Awaits(c) /\ (mac'.st = c.st \/ Awaits(c) = {})
        /\ mac'.sent = NoFrame
    BY <1>1, <2>1, BacksAwaits
  <2>4. Alone(mac')
    BY <2>2, <2>3 DEF Ordered, Alone
  <2>5. superposed => mac'.p1 = NoPacket \/ mac'.p2 = NoPacket
    BY <1>1, <2>1 DEF Ordered, Backs, Goes
  <2> QED
    BY <2>3, <2>4, <2>5, Remembered
<1> QED
  BY <1>3, <1>4, <1>5, <1>6 DEF Hears, Takes

-----------------------------------------------------------------------------
(* Two packets are superposed once.                                        *)

LEMMA EnvironmentOrdered ==
  ASSUME Ordered, Remember, Supplies \/ \E z \in {0, 1} : Passes(z)
  PROVE  Ordered'
<1>1. CASE Supplies
  <2>1. PICK w \in Workload : \E n :
          /\ Guarded(n, air) /\ Watch(n) = Watch(mac) /\ n.sent = NoFrame
          /\ n.p1 = mac.p1 /\ n.p2 = mac.p2 /\ n.h1 = mac.h1 /\ n.h2 = mac.h2
          /\ n.st = mac.st /\ n.uni = mac.uni /\ n.ncts = mac.ncts /\ n.addr = mac.addr
          /\ n.failed = mac.failed /\ n.q \in {mac.q, Append(mac.q, w)}
          /\ Backs(n, mac', n.p1, n.p2) /\ mac'.uni = n.uni /\ air' = air
    BY <1>1 DEF Supplies
  <2>2. PICK n :
          /\ Guarded(n, air) /\ Watch(n) = Watch(mac) /\ n.sent = NoFrame
          /\ n.st = mac.st /\ n.uni = mac.uni
          /\ Backs(n, mac', n.p1, n.p2) /\ mac'.uni = n.uni
    BY <2>1
  <2>3. /\ Awaits(mac') = Awaits(mac) /\ mac'.sent = NoFrame
        /\ mac'.st = mac.st \/ Awaits(mac) = {}
    BY <2>2, AwaitsOf, BacksAwaits
  <2>4. Alone(mac')
    BY <2>3, WaitingKinds DEF Ordered, Alone
  <2>5. superposed => Once(mac')
    BY <2>2, <2>3, WaitingKinds DEF Ordered, Once
  <2> QED
    BY <2>3, <2>4, <2>5, Remembered
<1>2. ASSUME NEW z \in {0, 1}, Passes(z)
      PROVE  Ordered'
  <2>1. /\ Still(mac, mac') /\ mac'.sent = NoFrame
        /\ \A w \in Watch(mac) : w.k \in Waiting =>
             \E x \in Watch(mac') : x.k = w.k /\ x.due = w.due - z
        /\ \A x \in Watch(mac') : x.k \in Waiting =>
             \E w \in Watch(mac) : x.k = w.k /\ x.due = w.due - z
    BY <1>2 DEF Passes
  <2>2. Awaits(mac') = Awaits(mac)
    BY <2>1 DEF Awaits, Awaiting
  <2>3. mac'.st = mac.st /\ mac'.uni = mac.uni /\ mac'.sent = NoFrame
    BY <2>1 DEF Still
  <2> QED
    BY <2>2, <2>3, Remembered DEF Ordered, Alone, Once
<1> QED
  BY <1>1, <1>2

OrderInv == WaitInv /\ (~tied => Ordered)

LEMMA InitOrder == Init => OrderInv
<1>1. ASSUME Init PROVE Ordered
  <2>1. mac.ev = {} /\ ~superposed
    BY <1>1 DEF Init, SpcMacInit
  <2>2. Awaits(mac) = {}
    BY <2>1 DEF Awaits, Awaiting, Watch
  <2> QED
    BY <2>1, <2>2, WaitingKinds DEF Ordered, Alone
<1> QED
  BY <1>1, InitWait DEF OrderInv

LEMMA ActsOrdered ==
  ASSUME Ordered, Remember, ~tied', NEW e, NEW p, Turn(e, p), Acts(e, p)
  PROVE  Ordered'
<1>1. CASE Resumes(e, p) \/ Opens(e, p)
  BY <1>1, BackoffOrdered
<1>2. CASE MissesCts(e, p) \/ MissesAck(e, p)
  BY <1>2, MissesOrdered
<1>3. CASE SendsData(e, p) \/ SendsPair(e, p) \/ Responds(e, p)
  BY <1>3, SendsOrdered
<1>4. CASE Hears(e, p)
  BY <1>4, HearsOrdered
<1> QED
  BY <1>1, <1>2, <1>3, <1>4 DEF Acts

\* Only SendSpcDataAfterCtsSpc puts superposed data on the air.
LEMMA PairSent ==
  ASSUME NEW e, NEW p, Turn(e, p), Acts(e, p), IsType(mac'.sent, "DATA_SPC")
  PROVE  SendsPair(e, p)
<1>1. mac'.sent # NoFrame /\ mac'.sent.type = "DATA_SPC"
  BY DEF IsType
<1>2. p.sent = NoFrame /\ Guarded(p, air)
  BY TurnAwaits
<1>3. ~Resumes(e, p) /\ ~MissesCts(e, p) /\ ~MissesAck(e, p)
  BY <1>1, <1>2, BacksAwaits DEF Resumes, MissesCts, MissesAck
<1>4. ~Opens(e, p)
  <2>1. SUFFICES ASSUME NEW n, Free(e, p, n), OpensSpc(n) \/ OpensRts(n) \/ SendsOnce(n)
                 PROVE  FALSE
    BY DEF Opens
  <2>2. n.sent = NoFrame
    BY <1>2, <2>1 DEF Free, Rests
  <2>3. ~OpensSpc(n)
    BY <1>1, <2>2, OwnFrames DEF OpensSpc, Fails, Arms
  <2>4. ~OpensRts(n)
    BY <1>1, <2>2, OwnFrames DEF OpensRts, Fails, Arms
  <2>5. ASSUME SendsOnce(n) PROVE FALSE
    <3>1. PICK t : /\ Guarded(t, air) /\ t.sent = Data(n, 0)
                   /\ IF n.st = "SECOND" THEN Backs(t, mac', n.p1, NoPacket)
                                         ELSE Backs(t, mac', NoPacket, n.p2)
      BY <2>5 DEF SendsOnce
    <3>2. mac'.sent = Data(n, 0)
      BY <3>1, BacksAwaits
    <3> QED
      BY <1>1, <3>2, OwnFrames
  <2> QED
    BY <2>1, <2>3, <2>4, <2>5
<1>5. ~SendsData(e, p)
  BY <1>1, <1>2, OwnFrames DEF SendsData, Fails, Arms
<1>6. ~Responds(e, p)
  BY <1>1 DEF Responds, Answers
<1>7. ASSUME Hears(e, p) PROVE FALSE
  <2>1. CASE SameExchange(p, mac')
    BY <1>1, <1>2, <2>1 DEF SameExchange
  <2>2. CASE HearsCts(p, e.arg, mac')
    BY <1>1, <1>2, <2>2 DEF HearsCts, SameExchange, Proceeds
  <2>3. CASE HearsCtsSpc(p, e.arg, mac')
    <3>1. PICK n : /\ SameExchange(p, n) /\ Sound(n)
                   /\ \/ Fails(n, mac', "ReceiveCtsSpc")
                      \/ mac' = Counted(n)
                      \/ Proceeds(Counted(n), mac', "SendSpcDataAfterCtsSpc")
      BY <2>3 DEF HearsCtsSpc
    <3>2. n.sent = NoFrame /\ Counted(n).sent = NoFrame
      BY <1>2, <3>1, CountStep DEF SameExchange
    <3> QED
      BY <1>1, <3>1, <3>2 DEF Fails, Proceeds
  <2>4. CASE HearsAck(p, e.arg, mac')
    BY <1>1, <1>2, <2>4, BacksAwaits DEF HearsAck
  <2> QED
    BY <1>7, <2>1, <2>2, <2>3, <2>4 DEF Hears, Takes
<1> QED
  BY <1>3, <1>4, <1>5, <1>6, <1>7 DEF Acts

OncePaired == superposed /\ IsType(mac'.sent, "DATA_SPC") => tied

LEMMA NextOrder ==
  ASSUME OrderInv, [Next]_vars
  PROVE  OrderInv' /\ [OncePaired]_vars
<1>1. WaitInv'
  BY NextWait DEF OrderInv
<1>2. CASE Running /\ (Send \/ Arrive \/ Overheard \/ Busy \/ Tick) /\ Remember
  <2>1. Supplies \/ \E z \in {0, 1} : Passes(z)
    BY <1>2, EnvironmentActs DEF OrderInv
  <2>2. ~tied => Ordered'
    BY <1>2, <2>1, EnvironmentOrdered DEF OrderInv
  <2>3. mac'.sent = NoFrame
    <3>1. CASE Supplies
      <4>1. PICK n : Guarded(n, air) /\ n.sent = NoFrame /\ Backs(n, mac', n.p1, n.p2)
        BY <3>1 DEF Supplies
      <4> QED
        BY <4>1, BacksAwaits
    <3> QED
      BY <2>1, <3>1 DEF Passes
  <2>4. tied => tied'
    BY <1>2 DEF Remember
  <2> QED
    BY <1>1, <2>2, <2>3, <2>4 DEF OrderInv, OncePaired, IsType
<1>3. CASE Running /\ Fire /\ Remember
  <2>1. PICK e, p : Turn(e, p) /\ Acts(e, p)
    BY <1>3, FireActs DEF OrderInv
  <2>2. tied => tied'
    BY <1>3 DEF Remember
  <2>3. ~tied' => Ordered'
    BY <1>3, <2>1, <2>2, ActsOrdered DEF OrderInv
  <2>4. ASSUME superposed, IsType(mac'.sent, "DATA_SPC"), ~tied
        PROVE  FALSE
    <3>1. Ordered
      BY <2>4 DEF OrderInv
    <3>2. SendsPair(e, p)
      BY <2>1, <2>4, PairSent
    <3>3. Awaits(mac) = {"SendSpcDataAfterCtsSpc"}
      BY <2>1, <3>1, <3>2, GrantsAlone DEF Ordered
    <3>4. "SendSpcDataAfterCtsSpc" \notin AckTimers
      BY WaitingKinds
    <3> QED
      BY <2>4, <3>1, <3>3, <3>4, WaitingKinds DEF Ordered, Once
  <2> QED
    BY <1>1, <2>3, <2>4 DEF OrderInv, OncePaired
<1>4. CASE UNCHANGED vars
  <2>1. tied' = tied /\ Ordered' = Ordered
    BY <1>4 DEF vars, Ordered, Alone, Once, Awaits, Awaiting, Watch
  <2> QED
    BY <1>1, <1>4, <2>1 DEF OrderInv
<1> QED
  BY <1>2, <1>3, <1>4 DEF Next, Abort

\* Two packets that went out superposed and were not both acknowledged are sent
\* again one by one: while they are held, the retransmission flag or the wait for
\* both acknowledgements stands against SetState choosing SPC again.  The
\* exception is the tie of a backoff with a timeout, which the property leaves out.
THEOREM PairedOnce == Spec => SuperposedOnce
<1>1. OrderInv /\ [Next]_vars => OrderInv'
  BY NextOrder
<1>2. OrderInv /\ [Next]_vars => [OncePaired]_vars
  BY NextOrder
<1>3. Spec => [][OncePaired]_vars
  BY <1>1, <1>2, InitOrder, PTL DEF Spec
<1> QED
  BY <1>3, PTL DEF SuperposedOnce, OncePaired

-----------------------------------------------------------------------------
(*****************************************************************************)
(* What a station counts on while it waits: the packets it holds are the     *)
(* ones its exchange is about, and an answer that is under way finds the     *)
(* timer that waits for it, in the state it was asked in.                    *)
(*****************************************************************************)

(* The packets a station handles come from the application.                *)

\* The destinations an exchange can be with.
Dst == {w.dst : w \in Workload} \cup {NoAddr}

Supplied(m) ==
  /\ \A i \in DOMAIN m.q : m.q[i] \in Workload
  /\ m.p1 # NoPacket => m.p1 \in Workload /\ m.h1 = m.p1.dst
  /\ m.p2 # NoPacket => m.p2 \in Workload /\ m.h2 = m.p2.dst
  /\ {m.h1, m.h2} \subseteq Dst

LEMMA SuppliedKept ==
  ASSUME NEW m, Supplied(m), NEW s, Kept(m, s)
  PROVE  Supplied(s)
BY DEF Supplied, Kept

\* Packets are only given up, or taken from the head of the queue.
LEMMA SuppliedGoes ==
  ASSUME NEW m, Supplied(m), m.q \in Seq(Packets), NEW s,
         NEW x \in {m.p1, NoPacket}, NEW y \in {m.p2, NoPacket}, Goes(m, s, x, y)
  PROVE  Supplied(s)
<1>1. /\ \A i \in DOMAIN m.q : m.q[i] \in Workload
      /\ {m.h1, m.h2} \subseteq Dst
      /\ \A w \in Workload : w.dst \in Dst
      /\ DOMAIN m.q = 1 .. Len(m.q) /\ Len(m.q) \in Nat
  BY DEF Supplied, Dst
<1>2. CASE s.p1 = x /\ s.p2 = y /\ s.h1 = m.h1 /\ s.h2 = m.h2 /\ s.q = m.q
  BY <1>2 DEF Supplied
<1>3. CASE /\ m.q # <<>> /\ s.p1 = Head(m.q) /\ s.h1 = Head(m.q).dst
           /\ \/ s.p2 = NoPacket /\ s.h2 = m.h2 /\ s.q = Tail(m.q)
              \/ /\ Tail(m.q) # <<>>
                 /\ s.p2 = Head(Tail(m.q)) /\ s.h2 = Head(Tail(m.q)).dst
                 /\ s.q = Tail(Tail(m.q))
  <2>1. /\ Len(m.q) > 0 /\ 1 \in DOMAIN m.q /\ Head(m.q) = m.q[1]
    BY <1>1, <1>3
  <2>2. /\ Tail(m.q) \in Seq(Packets) /\ Len(Tail(m.q)) = Len(m.q) - 1
        /\ \A i \in 1 .. Len(Tail(m.q)) : Tail(m.q)[i] = m.q[i + 1]
    BY <1>1, <1>3, <2>1
  <2>3. \A i \in DOMAIN Tail(m.q) : Tail(m.q)[i] \in Workload
    BY <1>1, <2>1, <2>2
  <2>4. ASSUME Tail(m.q) # <<>>
        PROVE  /\ Head(Tail(m.q)) \in Workload
               /\ \A i \in DOMAIN Tail(Tail(m.q)) : Tail(Tail(m.q))[i] \in Workload
    <3> DEFINE r == Tail(m.q)
    <3>1. r \in Seq(Packets) /\ r # <<>> /\ \A i \in DOMAIN r : r[i] \in Workload
      BY <2>2, <2>3, <2>4
    <3> HIDE DEF r
    <3>2. DOMAIN r = 1 .. Len(r) /\ Len(r) \in Nat /\ Len(r) > 0 /\ Head(r) = r[1]
      BY <3>1
    <3>3. /\ Tail(r) \in Seq(Packets) /\ Len(Tail(r)) = Len(r) - 1
          /\ \A i \in 1 .. Len(Tail(r)) : Tail(r)[i] = r[i + 1]
      BY <3>1, <3>2
    <3>4. Head(r) \in Workload /\ \A i \in DOMAIN Tail(r) : Tail(r)[i] \in Workload
      BY <3>1, <3>2, <3>3
    <3> QED
      BY <3>4 DEF r
  <2> QED
    BY <1>1, <1>3, <2>1, <2>3, <2>4 DEF Supplied
<1> QED
  BY <1>2, <1>3 DEF Goes

\* Aggregation takes packets from the queue and puts none there.
LEMMA AggregationFrom ==
  ASSUME NEW q, NEW p, NEW num, NEW r \in Aggregation(q, p, num)
  PROVE  \A i \in DOMAIN r : \E j \in DOMAIN q : r[i] = q[j]
<1> DEFINE match == {i \in DOMAIN q : q[i].dst = p.dst /\ q[i].port = p.port}
           cut   == {i \in match :
                       num = 0 \/ Cardinality({j \in match : j < i}) < num - 1}
           keep  == DOMAIN q \ cut
           n     == Cardinality(keep)
<1>1. keep \subseteq DOMAIN q
  OBVIOUS
<1>2. r \in {[i \in 1 .. n |-> q[g[i]]] :
               g \in {g \in [1 .. n -> keep] : \A i \in 2 .. n : g[i - 1] < g[i]}}
  BY DEF Aggregation
<1> HIDE DEF keep, n
<1>3. PICK g \in [1 .. n -> keep] : r = [i \in 1 .. n |-> q[g[i]]]
  BY <1>2
<1> QED
  BY <1>1, <1>3

LEMMA QueuesAfterFrom ==
  ASSUME NEW m, NEW n1, NEW n2, NEW r \in QueuesAfter(m, n1, n2)
  PROVE  \A i \in DOMAIN r : \E j \in DOMAIN m.q : r[i] = m.q[j]
<1>1. CASE r = m.q
  BY <1>1
<1>2. CASE \E s \in Aggregation(m.q, m.p1, n1) : r \in Aggregation(s, m.p2, n2)
  <2>1. PICK s \in Aggregation(m.q, m.p1, n1) : r \in Aggregation(s, m.p2, n2)
    BY <1>2
  <2>2. \A i \in DOMAIN r : \E j \in DOMAIN s : r[i] = s[j]
    BY <2>1, AggregationFrom
  <2>3. \A i \in DOMAIN s : \E j \in DOMAIN m.q : s[i] = m.q[j]
    BY AggregationFrom
  <2> QED
    BY <2>2, <2>3
<1> QED
  BY <1>1, <1>2 DEF QueuesAfter

LEMMA SuppliedFree ==
  ASSUME Supplied(mac), NEW e, NEW p, Turn(e, p), NEW n, Free(e, p, n)
  PROVE  Supplied(n) /\ n \in Stations
<1>1. /\ p.p1 = mac.p1 /\ p.p2 = mac.p2 /\ p.h1 = mac.h1 /\ p.h2 = mac.h2
  BY TurnAwaits
<1>2. \A i \in DOMAIN n.q : \E j \in DOMAIN mac.q : n.q[i] = mac.q[j]
  BY QueuesAfterFrom DEF Free
<1> QED
  BY <1>1, <1>2 DEF Free, Supplied

LEMMA SuppliedOpens ==
  ASSUME Supplied(mac), NEW e, NEW p, Turn(e, p), Opens(e, p)
  PROVE  Supplied(mac')
<1>1. PICK n : Free(e, p, n) /\ (OpensSpc(n) \/ OpensRts(n) \/ SendsOnce(n))
  BY DEF Opens
<1>2. Supplied(n) /\ n \in Stations /\ Sound(n)
  BY <1>1, SuppliedFree DEF Free, Guarded
<1>3. n.q \in Seq(Packets)
  BY <1>2 DEF Stations
<1>4. CASE OpensSpc(n)
  <2>1. Kept(n, Recounted(n))
    BY <1>2, RecountStep
  <2>2. Kept(n, mac') \/ Kept(Recounted(n), mac')
    BY <1>4 DEF OpensSpc, Fails, Arms, Still
  <2> QED
    BY <1>2, <2>1, <2>2, SuppliedKept
<1>5. CASE OpensRts(n)
  <2>1. Kept(n, mac')
    BY <1>5 DEF OpensRts, Fails, Arms, Still
  <2> QED
    BY <1>2, <2>1, SuppliedKept
<1>6. CASE SendsOnce(n)
  <2>1. PICK t : /\ Still(n, t)
                 /\ IF n.st = "SECOND" THEN Backs(t, mac', n.p1, NoPacket)
                                       ELSE Backs(t, mac', NoPacket, n.p2)
    BY <1>6 DEF SendsOnce
  <2>2. /\ Supplied(t) /\ t.q \in Seq(Packets) /\ t.p1 = n.p1 /\ t.p2 = n.p2
    BY <1>2, <1>3, <2>1, SuppliedKept DEF Still, Kept
  <2>3. \E x \in {t.p1, NoPacket}, y \in {t.p2, NoPacket} : Goes(t, mac', x, y)
    BY <2>1, <2>2 DEF Backs
  <2> QED
    BY <2>2, <2>3, SuppliedGoes
<1> QED
  BY <1>1, <1>4, <1>5, <1>6

LEMMA SuppliedActs ==
  ASSUME Supplied(mac), NEW e, NEW p, Turn(e, p), Acts(e, p)
  PROVE  Supplied(mac')
<1>1. /\ p.p1 = mac.p1 /\ p.p2 = mac.p2 /\ p.h1 = mac.h1 /\ p.h2 = mac.h2 /\ p.q = mac.q
      /\ p \in Stations
  BY TurnAwaits
<1>2. Supplied(p) /\ p.q \in Seq(Packets)
  BY <1>1 DEF Supplied, Stations
<1>3. ASSUME NEW c, Kept(p, c), NEW x \in {p.p1, NoPacket}, NEW y \in {p.p2, NoPacket},
             Backs(c, mac', x, y)
      PROVE  Supplied(mac')
  <2>1. Supplied(c) /\ c.q \in Seq(Packets) /\ c.p1 = p.p1 /\ c.p2 = p.p2
    BY <1>2, <1>3, SuppliedKept DEF Kept
  <2> QED
    BY <1>3, <2>1, SuppliedGoes DEF Backs
<1>4. Kept(p, p)
  BY DEF Kept
<1>5. CASE Resumes(e, p)
  BY <1>3, <1>4, <1>5 DEF Resumes
<1>6. CASE Opens(e, p)
  BY <1>6, SuppliedOpens
<1>7. CASE MissesCts(e, p) \/ MissesAck(e, p)
  BY <1>3, <1>4, <1>7 DEF MissesCts, MissesAck
<1>8. CASE SendsData(e, p) \/ Responds(e, p)
  BY <1>2, <1>8, SuppliedKept DEF SendsData, Responds, Fails, Arms, Still
<1>9. CASE SendsPair(e, p)
  <2> DEFINE n == [p EXCEPT !.st = "FIRST"]
  <2>1. Kept(p, n)
    BY <1>1 DEF Kept, Stations
  <2>2. Kept(p, mac') \/ Kept(n, mac')
    BY <1>9 DEF SendsPair, Fails, Arms, Still
  <2> HIDE DEF n
  <2> QED
    BY <1>2, <2>1, <2>2, SuppliedKept
<1>10. CASE Hears(e, p)
  <2>1. CASE SameExchange(p, mac')
    BY <1>2, <2>1, SuppliedKept DEF SameExchange, Still
  <2>2. CASE HearsCts(p, e.arg, mac')
    BY <1>2, <2>2, SuppliedKept DEF HearsCts, SameExchange, Proceeds, Still
  <2>3. CASE HearsCtsSpc(p, e.arg, mac')
    <3>1. PICK n : /\ SameExchange(p, n) /\ Sound(n)
                   /\ \/ Fails(n, mac', "ReceiveCtsSpc")
                      \/ mac' = Counted(n)
                      \/ Proceeds(Counted(n), mac', "SendSpcDataAfterCtsSpc")
      BY <2>3 DEF HearsCtsSpc
    <3>2. Kept(p, n) /\ Kept(n, Counted(n))
      BY <3>1, CountStep DEF SameExchange, Still
    <3>3. Kept(n, mac') \/ mac' = Counted(n) \/ Kept(Counted(n), mac')
      BY <3>1 DEF Fails, Proceeds, Still
    <3> QED
      BY <1>2, <3>2, <3>3, SuppliedKept
  <2>4. CASE HearsAck(p, e.arg, mac')
    BY <1>3, <2>4 DEF HearsAck, Still
  <2> QED
    BY <1>10, <2>1, <2>2, <2>3, <2>4 DEF Hears, Takes
<1> QED
  BY <1>5, <1>6, <1>7, <1>8, <1>9, <1>10 DEF Acts

LEMMA SuppliedEnvironment ==
  ASSUME mac \in Stations, Supplied(mac), Supplies \/ \E z \in {0, 1} : Passes(z)
  PROVE  Supplied(mac')
<1>1. CASE Supplies
  <2>1. PICK w \in Workload : \E n :
          /\ n.p1 = mac.p1 /\ n.p2 = mac.p2 /\ n.h1 = mac.h1 /\ n.h2 = mac.h2
          /\ n.q \in {mac.q, Append(mac.q, w)} /\ Backs(n, mac', n.p1, n.p2)
    BY <1>1 DEF Supplies
  <2>2. PICK n :
          /\ n.p1 = mac.p1 /\ n.p2 = mac.p2 /\ n.h1 = mac.h1 /\ n.h2 = mac.h2
          /\ n.q \in {mac.q, Append(mac.q, w)} /\ Backs(n, mac', n.p1, n.p2)
    BY <2>1
  <2>3. mac.q \in Seq(Packets) /\ w \in Packets
    BY NodeAssumption DEF Stations
  <2>4. n.q \in Seq(Packets) /\ \A i \in DOMAIN n.q : n.q[i] \in Workload
    <3>1. CASE n.q = mac.q
      BY <2>3, <3>1 DEF Supplied
    <3>2. CASE n.q = Append(mac.q, w)
      BY <2>3, <3>2 DEF Supplied
    <3> QED
      BY <2>2, <3>1, <3>2
  <2>5. Supplied(n)
    BY <2>2, <2>4 DEF Supplied
  <2> QED
    BY <2>2, <2>4, <2>5, SuppliedGoes DEF Backs
<1>2. ASSUME NEW z \in {0, 1}, Passes(z)
      PROVE  Supplied(mac')
  BY <1>2, SuppliedKept DEF Passes, Still
<1> QED
  BY <1>1, <1>2

-----------------------------------------------------------------------------
(* The answers under way.                                                  *)

\* A CTS_SPC that SendRtsSpc asked for.  The timer says which of the two: the
\* first is owed while none was counted, the second while at most one was.
SpcGap == CtsWait + CtsSendAndSifs
Promised(f) == f.type = "CTS_SPC" /\ f.a1 \in Dst
CtsOwed(m, ar) == \A c \in Coming(m, ar) :
  Promised(c.frame) =>
    /\ m.st = "SPC"
    /\ \E t \in Watch(m) :
         /\ t.k = "CtsTimeout"
         /\ \/ t.due = c.at + SpcGap /\ m.ncts = 0
            \/ t.due = c.at + CtsWait /\ m.ncts <= 1

\* An ACK to this station: the timer of the packet it acknowledges runs.
AckGap(st, n) ==
  IF st = "SPC" /\ n = "FIRST" THEN AckSendAndSifs + 2 * MaxProp ELSE 2 * MaxProp
AckTo(f, a) == f.type = "ACK" /\ f.a1 = a
AckOwed(m, ar) == \A c \in Coming(m, ar) :
  AckTo(c.frame, m.addr) =>
    \E t \in Watch(m) : /\ t.k = AckedTimer(m.st, c.frame.spc)
                        /\ t.due = c.at + AckGap(m.st, c.frame.spc)

LEMMA Gaps ==
  /\ SpcGap \in Nat /\ CtsWait \in Nat /\ CtsSendAndSifs \in Nat
  /\ CtsWait > 0 /\ SpcGap > CtsWait
  /\ \A st, n : /\ AckGap(st, n) \in Nat /\ AckGap(st, n) > 0
                /\ AckedTimer(st, n) \in AckTimers
                /\ st # "SPC" => AckGap(st, n) = 2 * MaxProp
BY Times DEF SpcGap, CtsWait, CtsSendAndSifs, AckSendAndSifs, AckGap, AckedTimer, AckTimers

LEMMA OwedLess ==
  ASSUME NEW m, NEW s, NEW ar, NEW ar2, Coming(s, ar2) \subseteq Coming(m, ar), s.st = m.st
  PROVE  /\ /\ CtsOwed(m, ar) /\ s.ncts = m.ncts
            /\ \A t \in Watch(m) : t.k = "CtsTimeout" => t \in Watch(s)
            => CtsOwed(s, ar2)
         /\ /\ AckOwed(m, ar) /\ s.addr = m.addr
            /\ \A t \in Watch(m) : t.k \in AckTimers => t \in Watch(s)
            => AckOwed(s, ar2)
<1>1. ASSUME CtsOwed(m, ar), s.ncts = m.ncts,
             \A t \in Watch(m) : t.k = "CtsTimeout" => t \in Watch(s)
      PROVE  CtsOwed(s, ar2)
  BY <1>1 DEF CtsOwed
<1>2. ASSUME AckOwed(m, ar), s.addr = m.addr,
             \A t \in Watch(m) : t.k \in AckTimers => t \in Watch(s)
      PROVE  AckOwed(s, ar2)
  <2> SUFFICES ASSUME NEW c \in Coming(s, ar2), AckTo(c.frame, s.addr)
               PROVE  \E t \in Watch(s) : /\ t.k = AckedTimer(s.st, c.frame.spc)
                                          /\ t.due = c.at + AckGap(s.st, c.frame.spc)
    BY DEF AckOwed
  <2>1. PICK t \in Watch(m) : /\ t.k = AckedTimer(m.st, c.frame.spc)
                              /\ t.due = c.at + AckGap(m.st, c.frame.spc)
    BY <1>2 DEF AckOwed
  <2>2. t.k \in AckTimers
    BY <2>1, Gaps
  <2> QED
    BY <1>2, <2>1, <2>2
<1> QED
  BY <1>1, <1>2

\* Nothing is owed when nothing waits, or what waits is due.
LEMMA NoneOwed ==
  ASSUME NEW m, NEW ar, Typed(m), Answering(ar)
  PROVE  /\ /\ CtsOwed(m, ar)
            /\ m.st # "SPC" \/ \A t \in Watch(m) : t.k = "CtsTimeout" => t.due = 0
            => \A c \in Coming(m, ar) : ~Promised(c.frame)
         /\ /\ AckOwed(m, ar)
            /\ \A t \in Watch(m) : t.k \in AckTimers => t.due = 0
            => \A c \in Coming(m, ar) : ~AckTo(c.frame, m.addr)
<1>1. \A c \in Coming(m, ar) : c.at \in Nat
  BY ComingTypes
<1>2. ASSUME CtsOwed(m, ar), NEW c \in Coming(m, ar), Promised(c.frame),
             m.st # "SPC" \/ \A t \in Watch(m) : t.k = "CtsTimeout" => t.due = 0
      PROVE  FALSE
  BY <1>1, <1>2, Gaps DEF CtsOwed
<1>3. ASSUME AckOwed(m, ar), NEW c \in Coming(m, ar), AckTo(c.frame, m.addr),
             \A t \in Watch(m) : t.k \in AckTimers => t.due = 0
      PROVE  FALSE
  <2>1. PICK t \in Watch(m) : /\ t.k = AckedTimer(m.st, c.frame.spc)
                              /\ t.due = c.at + AckGap(m.st, c.frame.spc)
    BY <1>3 DEF AckOwed
  <2>2. /\ t.k \in AckTimers
        /\ AckGap(m.st, c.frame.spc) \in Nat /\ AckGap(m.st, c.frame.spc) > 0
    BY <2>1, Gaps
  <2> QED
    BY <1>1, <1>3, <2>1, <2>2
<1> QED
  BY <1>2, <1>3

LEMMA NoneAwaited ==
  ASSUME NEW m
  PROVE  /\ "CtsTimeout" \notin Awaits(m) => \A t \in Watch(m) : t.k # "CtsTimeout"
         /\ \A k \in AckTimers : k \notin Awaits(m) => \A t \in Watch(m) : t.k # k
BY WaitingKinds DEF Awaits, Awaiting

LEMMA OwedNone ==
  ASSUME NEW m, NEW s, NEW ar, NEW ar2, Coming(s, ar2) \subseteq Coming(m, ar)
  PROVE  /\ (\A c \in Coming(m, ar) : ~Promised(c.frame)) => CtsOwed(s, ar2)
         /\ (\A c \in Coming(m, ar) : ~AckTo(c.frame, m.addr)) /\ s.addr = m.addr
              => AckOwed(s, ar2)
BY DEF CtsOwed, AckOwed

\* Popping an event leaves what is owed: a timer that is due has outlasted it.
LEMMA TurnOwes ==
  ASSUME Guarded(mac, air), mac.addr = Self, NEW e, NEW p, Turn(e, p)
  PROVE  /\ CtsOwed(mac, air) => CtsOwed(p, air)
         /\ CtsOwed(mac, air) /\ e.k = "CtsTimeout" =>
              \A c \in Coming(p, air) : ~Promised(c.frame)
         /\ AckOwed(mac, air) => AckOwed(p, air)
         /\ \A c \in Coming(p, air) : e.k = "EndReceive" => c.at > 0
<1>1. /\ Watch(p) = Without(mac, e.k) /\ Still(mac, p) /\ e.due = 0 /\ p.addr = Self
      /\ e.k \in Watched => View(e) \in Watch(mac)
      /\ Sound(mac) /\ Typed(mac) /\ Answering(air)
  BY DEF Turn, Guarded
<1>2. /\ p.st = mac.st /\ p.ncts = mac.ncts /\ p.addr = mac.addr
  BY <1>1 DEF Still
<1>3. Coming(p, air) \subseteq Coming(mac, air)
  BY <1>1, ComingLess DEF Without
<1>4. ASSUME e.k \in Watched, NEW t \in Watch(mac), t.k = e.k
      PROVE  t.due = 0
  <2>1. View(e) \in Watch(mac) /\ View(e).k = e.k /\ View(e).due = 0
    BY <1>1, <1>4 DEF View
  <2> QED
    BY <1>1, <1>4, <2>1, WatchUnique
<1>5. "CtsTimeout" \in Watched /\ AckTimers \subseteq Watched
  BY WaitingKinds
<1>6. ASSUME CtsOwed(mac, air), e.k = "CtsTimeout"
      PROVE  \A c \in Coming(p, air) : ~Promised(c.frame)
  BY <1>1, <1>3, <1>4, <1>5, <1>6, NoneOwed
<1>7. ASSUME CtsOwed(mac, air)
      PROVE  CtsOwed(p, air)
  <2>1. CASE e.k = "CtsTimeout"
    BY <1>6, <1>7, <2>1 DEF CtsOwed
  <2>2. CASE e.k # "CtsTimeout"
    BY <1>1, <1>2, <1>3, <1>7, <2>2, OwedLess DEF Without
  <2> QED
    BY <2>1, <2>2
<1>8. ASSUME AckOwed(mac, air), NEW c \in Coming(p, air), AckTo(c.frame, p.addr)
      PROVE  \E t \in Watch(p) : /\ t.k = AckedTimer(p.st, c.frame.spc)
                                 /\ t.due = c.at + AckGap(p.st, c.frame.spc)
  <2>1. PICK t \in Watch(mac) : /\ t.k = AckedTimer(p.st, c.frame.spc)
                                /\ t.due = c.at + AckGap(p.st, c.frame.spc)
    BY <1>2, <1>3, <1>8 DEF AckOwed
  <2>2. c.at \in Nat
    BY <1>1, <1>3, ComingTypes
  <2>3. /\ t.k \in AckTimers
        /\ AckGap(p.st, c.frame.spc) \in Nat /\ AckGap(p.st, c.frame.spc) > 0
    BY <2>1, Gaps
  <2>4. t.k # e.k
    BY <1>4, <1>5, <2>1, <2>2, <2>3
  <2> QED
    BY <1>1, <2>1, <2>4 DEF Without
<1>9. ASSUME NEW c \in Coming(p, air), e.k = "EndReceive" PROVE c.at > 0
  <2>1. \A w \in Watch(p) : w.k # "EndReceive"
    BY <1>1, <1>9 DEF Without
  <2>2. PICK r \in air : c = Expected(r)
    BY <2>1, <1>9 DEF Coming
  <2> QED
    BY <1>1, <2>2, ComingTypes
<1> QED
  BY <1>6, <1>7, <1>8, <1>9 DEF AckOwed

\* Backoff changes m_sendState only when nothing is awaited.
LEMMA OwedBacks ==
  ASSUME NEW m, NEW ar, Guarded(m, ar), NEW s, NEW x, NEW y, Backs(m, s, x, y)
  PROVE  /\ CtsOwed(m, ar) => CtsOwed(s, ar)
         /\ AckOwed(m, ar) => AckOwed(s, ar)
<1>1. /\ Watch(s) = Watch(m) /\ s.addr = m.addr /\ s.ncts = m.ncts
      /\ s.st = m.st \/ Awaits(m) = {}
  BY BacksAwaits DEF Backs, Rests
<1>2. Coming(s, ar) \subseteq Coming(m, ar)
  BY <1>1, ComingLess
<1>3. CASE s.st = m.st
  BY <1>1, <1>2, <1>3, OwedLess
<1>4. CASE Awaits(m) = {}
  <2>1. \A t \in Watch(m) : t.k # "CtsTimeout" /\ t.k \notin AckTimers
    BY <1>4, NoneAwaited
  <2> QED
    BY <1>1, <1>2, <2>1, NoneOwed, OwedNone DEF Guarded
<1> QED
  BY <1>1, <1>3, <1>4

-----------------------------------------------------------------------------
(* The assertions hold.                                                    *)

Honours(s, ar) == s.failed = "none" /\ CtsOwed(s, ar)
AsksTwo(s) ==
  s.st = "SPC" /\ s.ncts = 0 /\ Timer("CtsTimeout", RtsSpcWait) \in Watch(s)

\* The two CTS_SPC an RTS_SPC asks for, if they come, come when they are owed.
LEMMA HonoursAnswered ==
  ASSUME NEW m, NEW ar, Honours(m, ar), m.sent \in Frames \cup {NoFrame},
         m.sent # NoFrame /\ m.sent.type = "RTS_SPC" => AsksTwo(m),
         NEW r \in SUBSET RepliesTo(m.sent)
  PROVE  Honours(m, ar \cup r)
<1>1. \A c \in Coming(m, ar \cup r) :
        c \in Coming(m, ar) \/ \E x \in r : c = Expected(x)
  BY DEF Coming
<1>2. ASSUME NEW x \in r, Expected(x).frame.type = "CTS_SPC"
      PROVE  /\ m.st = "SPC"
             /\ \E t \in Watch(m) : /\ t.k = "CtsTimeout" /\ m.ncts = 0
                                    /\ \/ t.due = Expected(x).at + SpcGap
                                       \/ t.due = Expected(x).at + CtsWait
  <2>1. x.frame.type = "CTS_SPC" /\ Expected(x).at = x.due + AirTime(x.frame)
    BY <1>2 DEF Expected
  <2>2. /\ m.sent # NoFrame /\ m.sent.type = "RTS_SPC" /\ AirTime(x.frame) = CtsTime
        /\ x.due = RtsTime + Sifs \/ x.due = RtsTime + Sifs + CtsSendAndSifs
    BY <2>1, RepliesAre
  <2> DEFINE t == Timer("CtsTimeout", RtsSpcWait)
  <2>3. t \in Watch(m) /\ t.k = "CtsTimeout" /\ t.due = RtsSpcWait /\ AsksTwo(m)
    BY <2>2 DEF Timer, AsksTwo
  <2>4. \/ t.due = Expected(x).at + SpcGap
        \/ t.due = Expected(x).at + CtsWait
    BY <2>1, <2>2, <2>3, Times
       DEF SpcGap, CtsWait, RtsSpcWait, RtsSendAndSifs, CtsSendAndSifs
  <2> HIDE DEF t
  <2> QED
    BY <2>3, <2>4 DEF AsksTwo
<1>3. CtsOwed(m, ar \cup r)
  <2> SUFFICES ASSUME NEW c \in Coming(m, ar \cup r), Promised(c.frame)
               PROVE  /\ m.st = "SPC"
                      /\ \E t \in Watch(m) :
                           /\ t.k = "CtsTimeout"
                           /\ \/ t.due = c.at + SpcGap /\ m.ncts = 0
                              \/ t.due = c.at + CtsWait /\ m.ncts <= 1
    BY DEF CtsOwed
  <2>1. CASE c \in Coming(m, ar)
    BY <2>1 DEF Honours, CtsOwed
  <2>2. CASE \E x \in r : c = Expected(x)
    BY <1>2, <2>2 DEF Promised
  <2> QED
    BY <1>1, <2>1, <2>2
<1> QED
  BY <1>3 DEF Honours

LEMMA HonoursOpens ==
  ASSUME Ordered, Remember, ~tied', mac.failed = "none", NEW e, NEW p, Turn(e, p),
         CtsOwed(p, air), Opens(e, p)
  PROVE  /\ Honours(mac', air)
         /\ mac'.sent # NoFrame /\ mac'.sent.type = "RTS_SPC" => AsksTwo(mac')
<1>1. Awaits(mac) = {} /\ \E n : Free(e, p, n) /\ OpensFor(n)
  BY OpensAlone
<1>2. PICK n : Free(e, p, n) /\ OpensFor(n)
  BY <1>1
<1>3. /\ Awaits(p) = {} /\ p.failed = mac.failed /\ Guarded(p, air) /\ p.addr = Self
  BY <1>1, TurnAwaits
<1>4. /\ Guarded(n, air) /\ Watch(n) = Watch(p) /\ n.failed = "none"
  BY <1>2, <1>3 DEF Free, Rests
<1>5. \A c \in Coming(p, air) : ~Promised(c.frame)
  BY <1>3, NoneAwaited, NoneOwed DEF Guarded
<1>6. ASSUME \A w \in Watch(mac') : w.k = "EndReceive" => w \in Watch(n)
      PROVE  CtsOwed(mac', air)
  <2>1. Coming(mac', air) \subseteq Coming(p, air)
    BY <1>4, <1>6, ComingLess
  <2> QED
    BY <1>5, <2>1, OwedNone
<1>7. CASE /\ n.st = "SPC"
           /\ Arms(Recounted(n), mac', {Timer("CtsTimeout", RtsSpcWait)}, "cts", RtsSpcWait,
                   RtsSpc(n))
  <2> DEFINE o == Recounted(n)
  <2>1. /\ Watch(o) = Watch(n) /\ o.st = "SPC" /\ o.ncts = 0 /\ o.failed = "none"
    BY <1>4, <1>7, RecountStep DEF Guarded
  <2> HIDE DEF o
  <2>2. /\ Watch(mac') = Without(o, "EndReceive") \cup {Timer("CtsTimeout", RtsSpcWait)}
        /\ mac'.st = o.st /\ mac'.ncts = o.ncts /\ mac'.failed = o.failed
    BY <1>7 DEF Arms, Still, o
  <2>3. \A w \in Watch(mac') : w.k # "EndReceive"
    BY <2>2 DEF Without, Timer
  <2> QED
    BY <1>6, <2>1, <2>2, <2>3 DEF Honours, AsksTwo
<1>8. CASE /\ n.st # "SPC"
           /\ Arms(n, mac', {Timer("CtsTimeout", RtsWait)}, "cts", RtsWait, Rts(n))
  <2>1. /\ Watch(mac') = Without(n, "EndReceive") \cup {Timer("CtsTimeout", RtsWait)}
        /\ mac'.failed = n.failed /\ mac'.sent.type = "RTS"
    BY <1>8, OwnFrames DEF Arms, Still
  <2>2. \A w \in Watch(mac') : w.k # "EndReceive"
    BY <2>1 DEF Without, Timer
  <2> QED
    BY <1>4, <1>6, <2>1, <2>2 DEF Honours
<1>9. CASE SendsOnce(n)
  <2>1. PICK t : /\ Guarded(t, air) /\ Watch(t) = Without(n, "EndReceive") /\ Still(n, t)
                 /\ t.sent = Data(n, 0)
                 /\ IF n.st = "SECOND" THEN Backs(t, mac', n.p1, NoPacket)
                                       ELSE Backs(t, mac', NoPacket, n.p2)
    BY <1>9 DEF SendsOnce
  <2>2. /\ Watch(mac') = Watch(t) /\ mac'.failed = t.failed /\ mac'.sent = Data(n, 0)
    BY <2>1, BacksAwaits DEF Backs, Rests
  <2>3. \A w \in Watch(mac') : w.k # "EndReceive"
    BY <2>1, <2>2 DEF Without
  <2>4. mac'.failed = "none" /\ mac'.sent.type = "DATA"
    BY <1>4, <2>1, <2>2, OwnFrames DEF Still
  <2> QED
    BY <1>6, <2>3, <2>4 DEF Honours
<1> QED
  BY <1>2, <1>7, <1>8, <1>9 DEF OpensFor

\* A timeout, a frame that answers, data that was granted.
LEMMA HonoursGoesOn ==
  ASSUME Ordered, mac.failed = "none", NEW e, NEW p, Turn(e, p), CtsOwed(p, air),
         e.k = "CtsTimeout" => \A c \in Coming(p, air) : ~Promised(c.frame),
         \/ Resumes(e, p) \/ MissesCts(e, p) \/ MissesAck(e, p)
         \/ SendsData(e, p) \/ SendsPair(e, p) \/ Responds(e, p)
  PROVE  /\ Honours(mac', air)
         /\ mac'.sent # NoFrame => mac'.sent.type # "RTS_SPC"
<1>1. /\ Guarded(p, air) /\ p.failed = "none" /\ p.sent = NoFrame /\ p \in Stations
      /\ Alone(mac)
  BY TurnAwaits DEF Ordered
<1>2. CASE Resumes(e, p) \/ MissesCts(e, p) \/ MissesAck(e, p)
  <2>1. PICK x, y : Backs(p, mac', x, y)
    BY <1>2 DEF Resumes, MissesCts, MissesAck
  <2> QED
    BY <1>1, <2>1, OwedBacks, BacksAwaits DEF Honours
<1>3. ASSUME Awaits(p) = {}, \A w \in Watch(mac') : w.k # "EndReceive"
      PROVE  CtsOwed(mac', air)
  <2>1. \A c \in Coming(p, air) : ~Promised(c.frame)
    BY <1>1, <1>3, NoneAwaited, NoneOwed DEF Guarded
  <2>2. Coming(mac', air) \subseteq Coming(p, air)
    BY <1>3, ComingLess
  <2> QED
    BY <2>1, <2>2, OwedNone
<1>4. CASE SendsData(e, p)
  <2>1. /\ Awaits(p) = {}
        /\ Arms(p, mac', {Timer(OwnTimer(p), AckWait)}, "ack", AckWait,
                Data(p, AckSendAndSifs))
    BY <1>1, <1>4, GrantsAlone
  <2>2. \A w \in Watch(mac') : w.k # "EndReceive"
    BY <2>1 DEF Arms, Without, Timer, OwnTimer
  <2>3. mac'.failed = "none" /\ mac'.sent.type = "DATA"
    BY <1>1, <2>1, OwnFrames DEF Arms, Still
  <2> QED
    BY <1>3, <2>1, <2>2, <2>3 DEF Honours
<1>5. CASE SendsPair(e, p)
  <2> DEFINE n == [p EXCEPT !.st = "FIRST"]
  <2>1. /\ Awaits(p) = {}
        /\ \/ Arms(p, mac', {Timer("AckTimeout1", AckSpcWait),
                             Timer("AckTimeout2", AckSpcWait)},
                   "ack", AckSpcWait, DataSpc(p))
           \/ Arms(n, mac', {Timer("AckTimeout1", AckWait)},
                   "ack", AckWait, Data(n, AckSendAndSifs))
    BY <1>1, <1>5, GrantsAlone
  <2>2. n.failed = "none"
    BY <1>1 DEF Stations
  <2> HIDE DEF n
  <2>3. \A w \in Watch(mac') : w.k # "EndReceive"
    BY <2>1 DEF Arms, Without, Timer
  <2>4. mac'.failed = "none" /\ mac'.sent.type # "RTS_SPC"
    BY <1>1, <2>1, <2>2, OwnFrames DEF Arms, Still
  <2> QED
    BY <1>3, <2>1, <2>3, <2>4 DEF Honours
<1>6. CASE Responds(e, p)
  <2>1. /\ Watch(mac') = Without(p, "EndReceive") /\ Still(p, mac')
        /\ mac'.sent.type \in Answers
    BY <1>6 DEF Responds
  <2>2. Coming(mac', air) \subseteq Coming(p, air)
    BY <2>1, ComingLess DEF Without
  <2>3. CtsOwed(mac', air)
    BY <2>1, <2>2, OwedLess DEF Without, Still
  <2> QED
    BY <1>1, <2>1, <2>3 DEF Honours, Still, Answers
<1> QED
  BY <1>2, <1>4, <1>5, <1>6

\* The reception that ends is what was owed at this instant.
LEMMA HonoursHears ==
  ASSUME Ordered, Guarded(mac, air), Supplied(mac), mac.failed = "none",
         NEW e, NEW p, Turn(e, p), CtsOwed(mac, air), CtsOwed(p, air),
         \A c \in Coming(p, air) : e.k = "EndReceive" => c.at > 0,
         Hears(e, p)
  PROVE  Honours(mac', air) /\ mac'.sent = NoFrame
<1>1. /\ Guarded(p, air) /\ p.failed = "none" /\ p.sent = NoFrame
      /\ p.st = mac.st /\ p.ncts = mac.ncts /\ p.h1 = mac.h1 /\ p.h2 = mac.h2
  BY TurnAwaits
<1>2. CASE SameExchange(p, mac')
  <2>1. Coming(mac', air) \subseteq Coming(p, air)
    BY <1>2, ComingLess DEF SameExchange
  <2> QED
    BY <1>1, <1>2, <2>1, OwedLess DEF SameExchange, Still, Honours
<1>3. CASE HearsCts(p, e.arg, mac')
  <2>1. PICK n : SameExchange(p, n) /\ Proceeds(n, mac', "SendUnicastDataAfterCts")
    BY <1>3 DEF HearsCts
  <2>2. \A c \in Coming(p, air) : ~Promised(c.frame)
    BY <1>1, <1>3, NoneOwed DEF HearsCts, Guarded
  <2>3. /\ Watch(mac') = Without(n, "CtsTimeout") \cup {Timer("SendUnicastDataAfterCts", Sifs)}
        /\ Watch(n) = Watch(p) /\ mac'.sent = NoFrame /\ mac'.failed = "none"
    BY <1>1, <2>1 DEF SameExchange, Proceeds, Still
  <2>4. Coming(mac', air) \subseteq Coming(p, air)
    BY <2>3, ComingLess DEF Without, Timer
  <2> QED
    BY <2>2, <2>3, <2>4, OwedNone DEF Honours
<1>4. CASE HearsCtsSpc(p, e.arg, mac')
  <2>1. PICK n : /\ SameExchange(p, n) /\ Sound(n)
                 /\ \/ Fails(n, mac', "ReceiveCtsSpc") /\ p.st # "SPC"
                    \/ mac' = Counted(n) /\ p.st = "SPC" /\ p.ncts + 1 # 2
                    \/ /\ Proceeds(Counted(n), mac', "SendSpcDataAfterCtsSpc")
                       /\ p.st = "SPC" /\ p.ncts + 1 = 2
    BY <1>4 DEF HearsCtsSpc
  <2>2. Promised(e.arg)
    BY <1>1, <1>4 DEF HearsCtsSpc, Supplied, Promised
  <2>3. /\ Heard(View(e)) \in Coming(mac, air) /\ Heard(View(e)).at = 0
        /\ Heard(View(e)).frame = e.arg /\ Typed(mac) /\ Sound(mac)
    <3>1. View(e) \in Watch(mac) /\ View(e).k = "EndReceive" /\ View(e).due = 0
          /\ View(e).arg = e.arg
      BY DEF Turn, Hears, Watched, View
    <3> QED
      BY <3>1, ComingTypes DEF Guarded
  <2>4. /\ p.st = "SPC"
        /\ \E t \in Watch(mac) : /\ t.k = "CtsTimeout"
                                 /\ \/ t.due = SpcGap /\ p.ncts = 0
                                    \/ t.due = CtsWait /\ p.ncts <= 1
    BY <1>1, <2>2, <2>3, Gaps DEF CtsOwed
  <2>5. PICK t \in Watch(mac) : /\ t.k = "CtsTimeout"
                                /\ \/ t.due = SpcGap /\ p.ncts = 0
                                   \/ t.due = CtsWait /\ p.ncts <= 1
    BY <2>4
  <2>6. \A u \in Watch(p) : u.k = "CtsTimeout" => u = t
    BY <2>3, <2>5, WatchUnique DEF Turn, Without
  <2>7. ASSUME NEW c \in Coming(p, air), Promised(c.frame)
        PROVE  t.due = c.at + CtsWait /\ t.due = SpcGap /\ p.ncts = 0 /\ t \in Watch(p)
    <3>1. c.at \in Nat /\ c.at > 0
      BY <1>1, ComingTypes DEF Hears, Guarded
    <3>2. /\ t \in Watch(p)
          /\ \/ t.due = c.at + SpcGap
             \/ t.due = c.at + CtsWait
      BY <2>6, <2>7 DEF CtsOwed
    <3> QED
      BY <2>5, <3>1, <3>2, Gaps
  <2> DEFINE o == Counted(n)
  <2>8. /\ Watch(n) = Watch(p) /\ n.failed = "none" /\ n.st = p.st /\ n.sent = NoFrame
        /\ Watch(o) = Watch(p) /\ o.failed = "none" /\ o.st = p.st /\ o.sent = NoFrame
        /\ o.ncts = p.ncts + 1
    BY <1>1, <2>1, CountStep DEF SameExchange, Still
  <2> HIDE DEF o
  <2>9. CASE mac' = o
    <3>1. Coming(mac', air) \subseteq Coming(p, air)
      BY <2>8, <2>9, ComingLess
    <3>2. CtsOwed(mac', air)
      BY <2>4, <2>5, <2>7, <2>8, <2>9, <3>1 DEF CtsOwed
    <3> QED
      BY <2>8, <2>9, <3>2 DEF Honours
  <2>10. CASE Proceeds(o, mac', "SendSpcDataAfterCtsSpc") /\ p.ncts + 1 = 2
    <3>1. \A c \in Coming(p, air) : ~Promised(c.frame)
      BY <2>7, <2>10
    <3>2. /\ Watch(mac') = Without(o, "CtsTimeout") \cup {Timer("SendSpcDataAfterCtsSpc", Sifs)}
          /\ mac'.sent = NoFrame /\ mac'.failed = "none"
      BY <2>8, <2>10 DEF Proceeds, Still
    <3>3. Coming(mac', air) \subseteq Coming(p, air)
      BY <2>8, <3>2, ComingLess DEF Without, Timer
    <3> QED
      BY <3>1, <3>2, <3>3, OwedNone DEF Honours
  <2> QED
    BY <2>1, <2>4, <2>9, <2>10 DEF o
<1>5. CASE HearsAck(p, e.arg, mac')
  <2> DEFINE k == AckedTimer(p.st, e.arg.spc)
  <2>1. PICK c : /\ Guarded(c, air) /\ Watch(c) = Without(p, k) /\ Still(p, c)
                 /\ c.sent = p.sent
                 /\ IF k = "AckTimeout1" THEN Backs(c, mac', NoPacket, p.p2)
                                         ELSE Backs(c, mac', p.p1, NoPacket)
    BY <1>5 DEF HearsAck
  <2>2. k # "CtsTimeout"
    BY DEF AckedTimer
  <2> HIDE DEF k
  <2>3. Coming(c, air) \subseteq Coming(p, air)
    BY <2>1, ComingLess DEF Without
  <2>4. CtsOwed(c, air) /\ c.failed = "none" /\ c.sent = NoFrame
    BY <1>1, <2>1, <2>2, <2>3, OwedLess DEF Without, Still
  <2> QED
    BY <2>1, <2>4, OwedBacks, BacksAwaits DEF Honours
<1> QED
  BY <1>2, <1>3, <1>4, <1>5 DEF Hears, Takes

\* No station the application sends to sends a CTS_SPC of its own accord.
NoForeignCtsSpc == \A f \in Foreign : ~Promised(f)

LEMMA HonoursEnvironment ==
  ASSUME NoForeignCtsSpc, Guarded(mac', air'), Honours(mac, air),
         Supplies \/ \E z \in {0, 1} : Passes(z)
  PROVE  Honours(mac', air') /\ mac'.sent = NoFrame
<1>1. CASE Supplies
  <2>1. PICK n :
          /\ Guarded(n, air) /\ Watch(n) = Watch(mac) /\ n.sent = NoFrame
          /\ n.st = mac.st /\ n.ncts = mac.ncts /\ n.failed = mac.failed
          /\ Backs(n, mac', n.p1, n.p2) /\ air' = air
    BY <1>1 DEF Supplies
  <2>2. Coming(n, air) \subseteq Coming(mac, air)
    BY <2>1, ComingLess
  <2>3. CtsOwed(n, air)
    BY <2>1, <2>2, OwedLess DEF Honours
  <2> QED
    BY <2>1, <2>3, OwedBacks, BacksAwaits DEF Honours
<1>2. ASSUME NEW z \in {0, 1}, Passes(z)
      PROVE  Honours(mac', air') /\ mac'.sent = NoFrame
  <2>1. /\ Still(mac, mac') /\ mac'.sent = NoFrame
        /\ \A w \in Watch(mac) : w.k \in Waiting =>
             \E x \in Watch(mac') : x.k = w.k /\ x.due = w.due - z
        /\ \A c \in Coming(mac', air') :
             \/ c.frame \in Foreign
             \/ \E b \in Coming(mac, air) : b.frame = c.frame /\ b.at = c.at + z
    BY <1>2 DEF Passes
  <2>2. mac'.st = mac.st /\ mac'.ncts = mac.ncts /\ mac'.failed = mac.failed
    BY <2>1 DEF Still
  <2>3. ASSUME NEW c \in Coming(mac', air'), Promised(c.frame)
        PROVE  /\ mac'.st = "SPC"
               /\ \E t \in Watch(mac') :
                    /\ t.k = "CtsTimeout"
                    /\ \/ t.due = c.at + SpcGap /\ mac'.ncts = 0
                       \/ t.due = c.at + CtsWait /\ mac'.ncts <= 1
    <3>1. PICK b \in Coming(mac, air) : b.frame = c.frame /\ b.at = c.at + z
      BY <2>1, <2>3 DEF NoForeignCtsSpc
    <3>2. mac.st = "SPC" /\ CtsOwed(mac, air)
      BY <2>3, <3>1 DEF Honours, CtsOwed
    <3>3. PICK t \in Watch(mac) : /\ t.k = "CtsTimeout"
                                  /\ \/ t.due = b.at + SpcGap /\ mac.ncts = 0
                                     \/ t.due = b.at + CtsWait /\ mac.ncts <= 1
      BY <2>3, <3>1, <3>2 DEF CtsOwed
    <3>4. PICK x \in Watch(mac') : x.k = "CtsTimeout" /\ x.due = t.due - z
      BY <2>1, <3>3, WaitingKinds
    <3>5. c.at \in Nat
      BY ComingTypes DEF Guarded
    <3> QED
      BY <2>2, <3>1, <3>2, <3>3, <3>4, <3>5, Gaps
  <2>4. CtsOwed(mac', air')
    BY <2>3 DEF CtsOwed
  <2> QED
    BY <2>1, <2>2, <2>4 DEF Honours
<1> QED
  BY <1>1, <1>2

AssertInv == OrderInv /\ Supplied(mac) /\ (~tied => Honours(mac, air))

LEMMA InitAssert == Init => AssertInv
<1> SUFFICES ASSUME Init PROVE Supplied(mac) /\ Honours(mac, air)
  BY InitOrder DEF AssertInv
<1>1. /\ mac.ev = {} /\ air = {} /\ mac.q = <<>> /\ mac.failed = "none"
      /\ mac.p1 = NoPacket /\ mac.p2 = NoPacket /\ mac.h1 = NoAddr /\ mac.h2 = NoAddr
  BY DEF Init, SpcMacInit
<1>2. Coming(mac, air) = {}
  BY <1>1 DEF Coming, Watch
<1> QED
  BY <1>1, <1>2 DEF Supplied, Dst, Honours, CtsOwed

\* The station's own events: the answers to what it sends are owed, too.
LEMMA HonoursFire ==
  ASSUME AssertInv, ~tied, OrderInv', Remember, ~tied', Fire
  PROVE  Honours(mac', air')
<1>1. Ordered /\ Honours(mac, air) /\ Supplied(mac) /\ WaitInv
  BY DEF AssertInv, OrderInv
<1>2. /\ Guarded(mac, air) /\ mac.addr = Self /\ mac.failed = "none" /\ CtsOwed(mac, air)
  BY <1>1 DEF WaitInv, ReplyInv, Inv, Honours
<1>3. mac' \in Stations
  BY DEF OrderInv, WaitInv, ReplyInv, Inv, TypeOK
<1>4. PICK e, p : Turn(e, p) /\ Acts(e, p)
  BY <1>1, FireActs
<1>5. /\ CtsOwed(p, air)
      /\ e.k = "CtsTimeout" => \A c \in Coming(p, air) : ~Promised(c.frame)
      /\ \A c \in Coming(p, air) : e.k = "EndReceive" => c.at > 0
  BY <1>2, <1>4, TurnOwes
<1>6. /\ Honours(mac', air)
      /\ mac'.sent # NoFrame /\ mac'.sent.type = "RTS_SPC" => AsksTwo(mac')
  <2>1. CASE Opens(e, p)
    BY <1>1, <1>2, <1>4, <1>5, <2>1, HonoursOpens
  <2>2. CASE Hears(e, p)
    BY <1>1, <1>2, <1>4, <1>5, <2>2, HonoursHears
  <2>3. CASE \/ Resumes(e, p) \/ MissesCts(e, p) \/ MissesAck(e, p)
             \/ SendsData(e, p) \/ SendsPair(e, p) \/ Responds(e, p)
    BY <1>1, <1>2, <1>4, <1>5, <2>3, HonoursGoesOn
  <2> QED
    BY <1>4, <2>1, <2>2, <2>3 DEF Acts
<1>7. PICK r \in SUBSET RepliesTo(mac'.sent) : air' = air \cup r
  BY <1>1, FireActs DEF Answered
<1>8. mac'.sent \in Frames \cup {NoFrame}
  BY <1>3 DEF Stations
<1> QED
  BY <1>6, <1>7, <1>8, HonoursAnswered

LEMMA NextAssert ==
  ASSUME NoForeignCtsSpc, AssertInv, [Next]_vars
  PROVE  AssertInv'
<1>1. OrderInv'
  BY NextOrder DEF AssertInv
<1>2. Guarded(mac', air') /\ mac \in Stations
  BY <1>1 DEF AssertInv, OrderInv, WaitInv, ReplyInv, Inv, TypeOK
<1>3. CASE Running /\ (Send \/ Arrive \/ Overheard \/ Busy \/ Tick) /\ Remember
  <2>1. Supplies \/ \E z \in {0, 1} : Passes(z)
    BY <1>3, EnvironmentActs DEF AssertInv, OrderInv
  <2>2. Supplied(mac')
    BY <1>2, <2>1, SuppliedEnvironment DEF AssertInv
  <2>3. ~tied' => Honours(mac', air')
    BY <1>2, <1>3, <2>1, HonoursEnvironment DEF AssertInv, Remember
  <2> QED
    BY <1>1, <2>2, <2>3 DEF AssertInv
<1>4. CASE Running /\ Fire /\ Remember
  <2>1. PICK e, p : Turn(e, p) /\ Acts(e, p)
    BY <1>4, FireActs DEF AssertInv, OrderInv
  <2>2. Supplied(mac')
    BY <2>1, SuppliedActs DEF AssertInv
  <2>3. ~tied' => Honours(mac', air')
    BY <1>1, <1>4, HonoursFire DEF Remember
  <2> QED
    BY <1>1, <2>2, <2>3 DEF AssertInv
<1>5. CASE UNCHANGED vars
  <2>1. Supplied(mac') /\ (~tied' => Honours(mac', air'))
    BY <1>5 DEF vars, AssertInv
  <2> QED
    BY <1>1, <2>1 DEF AssertInv
<1> QED
  BY <1>3, <1>4, <1>5 DEF Next, Abort

\* The assertions of SendRts, SendRtsSpc, ReceiveCts, ReceiveCtsSpc and of the two
\* functions that send data hold as long as no backoff has ended in the instant a
\* wait does.  The hypothesis leaves out the other way the code can fail one of
\* them: a CTS_SPC this station did not ask for, from a station it sends to.
THEOREM AssertionsAreMet ==
  ASSUME NoForeignCtsSpc PROVE Spec => []AssertionsHold
<1>1. AssertInv /\ [Next]_vars => AssertInv'
  BY NextAssert
<1>2. AssertInv => AssertionsHold
  BY DEF AssertInv, Honours, AssertionsHold
<1> QED
  BY <1>1, <1>2, InitAssert, PTL DEF Spec

-----------------------------------------------------------------------------
(* An exchange matches its packets.                                        *)

\* What is awaited is about a packet that is held.
Fitting(m) ==
  /\ \A k \in {"CtsTimeout"} \cup Granted : k \in Awaits(m) =>
       IF m.st = "SPC" THEN m.p1 # NoPacket /\ m.p2 # NoPacket
                       ELSE CurrentPacket(m) # NoPacket
  /\ "AckTimeout1" \in Awaits(m) => m.p1 # NoPacket
  /\ "AckTimeout2" \in Awaits(m) => m.p2 # NoPacket

Matched(s, ar) == Fitting(s) /\ AckOwed(s, ar)

\* Data that will be acknowledged has the timers for it running.
AsksAck(s) ==
  /\ s.sent.type = "DATA" /\ s.sent.a1 # Group =>
       s.st # "SPC" /\ Timer(OwnTimer(s), AckWait) \in Watch(s)
  /\ s.sent.type = "DATA_SPC" =>
       /\ s.st = "SPC"
       /\ {Timer("AckTimeout1", AckSpcWait), Timer("AckTimeout2", AckSpcWait)}
            \subseteq Watch(s)

LEMMA FittingNone ==
  ASSUME NEW m, Awaits(m) = {} PROVE Fitting(m)
BY DEF Fitting

LEMMA FittingSame ==
  ASSUME NEW m, Fitting(m), NEW s, Awaits(s) \subseteq Awaits(m),
         s.st = m.st, s.p1 = m.p1, s.p2 = m.p2
  PROVE  Fitting(s)
BY DEF Fitting, CurrentPacket

LEMMA FittingBacks ==
  ASSUME NEW m, NEW ar, Guarded(m, ar), Fitting(m), NEW s, Backs(m, s, m.p1, m.p2)
  PROVE  Fitting(s)
<1>1. Awaits(s) = Awaits(m) /\ (s.st = m.st \/ Awaits(m) = {})
  BY BacksAwaits
<1>2. CASE Awaits(m) = {}
  BY <1>1, <1>2, FittingNone
<1>3. CASE Awaits(m) # {}
  <2>1. Awaits(m) \subseteq {"CtsTimeout", "AckTimeout1", "AckTimeout2"} \cup Granted
    BY WaitingKinds DEF Awaits
  <2>2. m.p1 # NoPacket \/ m.p2 # NoPacket
    BY <1>3, <2>1 DEF Fitting, CurrentPacket
  <2>3. s.p1 = m.p1 /\ s.p2 = m.p2
    BY <2>2 DEF Backs, Goes
  <2> QED
    BY <1>1, <1>3, <2>3, FittingSame
<1> QED
  BY <1>2, <1>3

LEMMA MatchedBacks ==
  ASSUME NEW m, NEW ar, Guarded(m, ar), Matched(m, ar), NEW s, Backs(m, s, m.p1, m.p2)
  PROVE  Matched(s, ar)
BY FittingBacks, OwedBacks DEF Matched

LEMMA MatchedAnswered ==
  ASSUME NEW m, NEW ar, Matched(m, ar), m.sent \in Frames \cup {NoFrame},
         m.sent # NoFrame => AsksAck(m), NEW r \in SUBSET RepliesTo(m.sent)
  PROVE  Matched(m, ar \cup r)
<1>1. \A c \in Coming(m, ar \cup r) :
        c \in Coming(m, ar) \/ \E x \in r : c = Expected(x)
  BY DEF Coming
<1>2. ASSUME NEW x \in r, Expected(x).frame.type = "ACK"
      PROVE  \E t \in Watch(m) :
               /\ t.k = AckedTimer(m.st, Expected(x).frame.spc)
               /\ t.due = Expected(x).at + AckGap(m.st, Expected(x).frame.spc)
  <2>1. /\ x.frame.type = "ACK" /\ Expected(x).at = x.due + AirTime(x.frame)
        /\ Expected(x).frame = x.frame
    BY <1>2 DEF Expected
  <2>2. /\ m.sent # NoFrame /\ AirTime(x.frame) = AckTime
        /\ \/ /\ m.sent.type = "DATA" /\ m.sent.a1 # Group
              /\ x.due = DataTime + Sifs /\ x.frame.spc = "FIRST"
           \/ /\ m.sent.type = "DATA_SPC"
              /\ \/ x.due = DataTime + Sifs /\ x.frame.spc = "FIRST"
                 \/ x.due = DataTime + Sifs + AckSendAndSifs /\ x.frame.spc = "SECOND"
    BY <2>1, RepliesAre
  <2>3. AsksAck(m)
    BY <2>2
  <2>4. \A k, d : Timer(k, d).k = k /\ Timer(k, d).due = d
    BY DEF Timer
  <2>5. CASE /\ m.sent.type = "DATA" /\ m.sent.a1 # Group
             /\ x.due = DataTime + Sifs /\ x.frame.spc = "FIRST"
    <3>1. /\ m.st # "SPC" /\ Timer(OwnTimer(m), AckWait) \in Watch(m)
      BY <2>3, <2>5 DEF AsksAck
    <3>2. /\ AckedTimer(m.st, x.frame.spc) = OwnTimer(m)
          /\ AckGap(m.st, x.frame.spc) = 2 * MaxProp
      BY <3>1 DEF AckedTimer, OwnTimer, AckGap
    <3>3. AckWait = Expected(x).at + 2 * MaxProp
      BY <2>1, <2>2, <2>5, Times DEF AckWait, AckSendAndSifs
    <3> QED
      BY <2>1, <2>4, <3>1, <3>2, <3>3
  <2>6. CASE m.sent.type = "DATA_SPC" /\ x.due = DataTime + Sifs /\ x.frame.spc = "FIRST"
    <3>1. m.st = "SPC" /\ Timer("AckTimeout1", AckSpcWait) \in Watch(m)
      BY <2>3, <2>6 DEF AsksAck
    <3>2. /\ AckedTimer(m.st, x.frame.spc) = "AckTimeout1"
          /\ AckGap(m.st, x.frame.spc) = AckSendAndSifs + 2 * MaxProp
      BY <2>6, <3>1 DEF AckedTimer, AckGap
    <3>3. AckSpcWait = Expected(x).at + (AckSendAndSifs + 2 * MaxProp)
      BY <2>1, <2>2, <2>6, Times DEF AckSpcWait, AckSendAndSifs
    <3> QED
      BY <2>1, <2>4, <3>1, <3>2, <3>3
  <2>7. CASE /\ m.sent.type = "DATA_SPC" /\ x.frame.spc = "SECOND"
             /\ x.due = DataTime + Sifs + AckSendAndSifs
    <3>1. m.st = "SPC" /\ Timer("AckTimeout2", AckSpcWait) \in Watch(m)
      BY <2>3, <2>7 DEF AsksAck
    <3>2. /\ AckedTimer(m.st, x.frame.spc) = "AckTimeout2"
          /\ AckGap(m.st, x.frame.spc) = 2 * MaxProp
      BY <2>7, <3>1 DEF AckedTimer, AckGap
    <3>3. AckSpcWait = Expected(x).at + 2 * MaxProp
      BY <2>1, <2>2, <2>7, Times DEF AckSpcWait, AckSendAndSifs
    <3> QED
      BY <2>1, <2>4, <3>1, <3>2, <3>3
  <2> QED
    BY <2>2, <2>5, <2>6, <2>7
<1>3. AckOwed(m, ar \cup r)
  <2> SUFFICES ASSUME NEW c \in Coming(m, ar \cup r), AckTo(c.frame, m.addr)
               PROVE  \E t \in Watch(m) :
                        /\ t.k = AckedTimer(m.st, c.frame.spc)
                        /\ t.due = c.at + AckGap(m.st, c.frame.spc)
    BY DEF AckOwed
  <2>1. CASE c \in Coming(m, ar)
    BY <2>1 DEF Matched, AckOwed
  <2>2. CASE \E x \in r : c = Expected(x)
    BY <1>2, <2>2 DEF AckTo
  <2> QED
    BY <1>1, <2>1, <2>2
<1> QED
  BY <1>3 DEF Matched

\* Every packet the application sends is acknowledged or goes to the group.
OnlyLarge == \A w \in Workload : w.large \/ w.dst = Group

LEMMA MatchedOpens ==
  ASSUME OnlyLarge, Supplied(mac), mac.addr = Self, Remember, ~tied',
         NEW e, NEW p, Turn(e, p), AckOwed(p, air), Opens(e, p)
  PROVE  Matched(mac', air) /\ (mac'.sent # NoFrame => AsksAck(mac'))
<1>1. Awaits(mac) = {} /\ \E n : Free(e, p, n) /\ OpensFor(n)
  BY OpensAlone
<1>2. PICK n : Free(e, p, n) /\ OpensFor(n)
  BY <1>1
<1>3. /\ Awaits(p) = {} /\ Guarded(p, air) /\ p.addr = Self /\ p \in Stations
  BY <1>1, TurnAwaits
<1>4. /\ Guarded(n, air) /\ Watch(n) = Watch(p) /\ n.addr = Self /\ n \in Stations
      /\ n.p1 = p.p1 /\ n.p2 = p.p2 /\ Held(p) /\ n.st = SetState(p).st
      /\ Supplied(n) /\ Awaits(n) = {}
  BY <1>2, <1>3, SuppliedFree DEF Free, Rests, OpensFor
<1>5. \A c \in Coming(p, air) : ~AckTo(c.frame, Self)
  BY <1>3, NoneAwaited, NoneOwed DEF Guarded
<1>6. ASSUME \A w \in Watch(mac') : w.k # "EndReceive", mac'.addr = Self
      PROVE  AckOwed(mac', air)
  <2>1. Coming(mac', air) \subseteq Coming(p, air)
    BY <1>6, ComingLess
  <2> QED
    BY <1>3, <1>5, <1>6, <2>1, OwedNone
<1>7. /\ n.st = "SPC" => n.p1 # NoPacket /\ n.p2 # NoPacket
      /\ n.st # "SPC" => CurrentPacket(n) # NoPacket
  <2>1. n.st \in SendStates
    BY <1>4 DEF Stations
  <2> QED
    BY <1>3, <1>4, <2>1, UnicastState DEF CurrentPacket, SendStates
<1>8. CASE /\ n.st = "SPC"
           /\ Arms(Recounted(n), mac', {Timer("CtsTimeout", RtsSpcWait)}, "cts", RtsSpcWait,
                   RtsSpc(n))
  <2> DEFINE o == Recounted(n)
  <2>1. /\ Watch(o) = Watch(n) /\ o.st = "SPC" /\ o.p1 = n.p1 /\ o.p2 = n.p2 /\ o.addr = Self
        /\ Awaits(o) = {}
    BY <1>4, <1>8, RecountStep, AwaitsOf DEF Guarded, Kept
  <2> HIDE DEF o
  <2>2. /\ Watch(mac') = Without(o, "EndReceive") \cup {Timer("CtsTimeout", RtsSpcWait)}
        /\ mac'.st = o.st /\ mac'.p1 = o.p1 /\ mac'.p2 = o.p2 /\ mac'.addr = Self
        /\ mac'.sent.type = "RTS_SPC"
    BY <1>8, <2>1, OwnFrames DEF Arms, Still, Kept, o
  <2>3. \A w \in Watch(mac') : w.k # "EndReceive"
    BY <2>2 DEF Without, Timer
  <2>4. Awaits(mac') = {"CtsTimeout"}
    BY <2>1, <2>2, AwaitsOf, WaitingKinds
  <2>5. Fitting(mac')
    BY <1>7, <1>8, <2>1, <2>2, <2>4, WaitingKinds DEF Fitting
  <2> QED
    BY <1>6, <2>2, <2>3, <2>5 DEF Matched, AsksAck
<1>9. CASE /\ n.st # "SPC"
           /\ Arms(n, mac', {Timer("CtsTimeout", RtsWait)}, "cts", RtsWait, Rts(n))
  <2>1. /\ Watch(mac') = Without(n, "EndReceive") \cup {Timer("CtsTimeout", RtsWait)}
        /\ mac'.st = n.st /\ mac'.p1 = n.p1 /\ mac'.p2 = n.p2 /\ mac'.addr = Self
        /\ mac'.sent.type = "RTS"
    BY <1>4, <1>9, OwnFrames DEF Arms, Still, Kept
  <2>2. \A w \in Watch(mac') : w.k # "EndReceive"
    BY <2>1 DEF Without, Timer
  <2>3. Awaits(mac') = {"CtsTimeout"}
    BY <1>4, <2>1, AwaitsOf, WaitingKinds
  <2>4. CurrentPacket(mac') # NoPacket
    BY <1>7, <1>9, <2>1 DEF CurrentPacket
  <2>5. Fitting(mac')
    BY <1>9, <2>1, <2>3, <2>4, WaitingKinds DEF Fitting
  <2> QED
    BY <1>6, <2>1, <2>2, <2>5 DEF Matched, AsksAck
<1>10. CASE SendsOnce(n)
  <2>1. PICK t : /\ Guarded(t, air) /\ Watch(t) = Without(n, "EndReceive") /\ Still(n, t)
                 /\ t.sent = Data(n, 0)
                 /\ IF n.st = "SECOND" THEN Backs(t, mac', n.p1, NoPacket)
                                       ELSE Backs(t, mac', NoPacket, n.p2)
    BY <1>10 DEF SendsOnce
  <2>2. /\ Watch(mac') = Watch(t) /\ mac'.addr = t.addr /\ mac'.sent = Data(n, 0)
    BY <2>1, BacksAwaits DEF Backs, Rests
  <2>3. \A w \in Watch(mac') : w.k # "EndReceive"
    BY <2>1, <2>2 DEF Without
  <2>4. mac'.addr = Self
    BY <1>4, <2>1, <2>2 DEF Still
  <2>5. Awaits(mac') = {}
    BY <1>4, <2>1, <2>2, AwaitsOf
  <2>6. CurrentAddr(n) = Group
    <3>1. /\ n.st # "SPC" /\ ~(CurrentAddr(n) # Group /\ CurrentPacket(n).large)
      BY <1>10 DEF SendsOnce
    <3>2. CurrentPacket(n) \in Workload /\ CurrentAddr(n) = CurrentPacket(n).dst
      BY <1>4, <1>7, <3>1 DEF Supplied, CurrentPacket, CurrentAddr
    <3> QED
      BY <3>1, <3>2 DEF OnlyLarge
  <2>7. mac'.sent.type = "DATA" /\ mac'.sent.a1 = Group
    BY <2>2, <2>6 DEF Data, Frame
  <2> QED
    BY <1>6, <2>3, <2>4, <2>5, <2>7, FittingNone DEF Matched, AsksAck
<1> QED
  BY <1>2, <1>8, <1>9, <1>10 DEF OpensFor

\* One of two packets is released; the wait for the other goes on.
LEMMA FittingReleases ==
  ASSUME NEW c, NEW ar, Guarded(c, ar), Fitting(c), Awaits(c) \subseteq AckTimers,
         NEW k \in AckTimers, k \notin Awaits(c), NEW s,
         IF k = "AckTimeout1" THEN Backs(c, s, NoPacket, c.p2) ELSE Backs(c, s, c.p1, NoPacket)
  PROVE  Fitting(s)
<1>1. Awaits(s) = Awaits(c)
  BY BacksAwaits
<1>2. CASE k = "AckTimeout1"
  <2>1. Awaits(c) \subseteq {"AckTimeout2"}
    BY <1>2, WaitingKinds
  <2>2. "AckTimeout2" \in Awaits(c) => c.p2 # NoPacket /\ s.p2 = c.p2
    BY <1>2 DEF Fitting, Backs, Goes
  <2> QED
    BY <1>1, <2>1, <2>2, WaitingKinds DEF Fitting
<1>3. CASE k = "AckTimeout2"
  <2>1. Awaits(c) \subseteq {"AckTimeout1"}
    BY <1>3, WaitingKinds
  <2>2. "AckTimeout1" \in Awaits(c) => c.p1 # NoPacket /\ s.p1 = c.p1
    BY <1>3 DEF Fitting, Backs, Goes
  <2> QED
    BY <1>1, <2>1, <2>2, WaitingKinds DEF Fitting
<1> QED
  BY <1>2, <1>3, WaitingKinds

LEMMA MatchedMisses ==
  ASSUME Alone(mac), NEW e, NEW p, Turn(e, p), Matched(p, air),
         Resumes(e, p) \/ MissesCts(e, p) \/ MissesAck(e, p)
  PROVE  Matched(mac', air) /\ mac'.sent = NoFrame
<1>1. /\ Guarded(p, air) /\ p.sent = NoFrame
      /\ Awaits(p) = Awaits(mac) \ {e.k} /\ (e.k \in Waiting => e.k \in Awaits(mac))
  BY TurnAwaits
<1>2. \E x, y : Backs(p, mac', x, y)
  BY DEF Resumes, MissesCts, MissesAck
<1>3. mac'.sent = NoFrame /\ Awaits(mac') = Awaits(p) /\ AckOwed(mac', air)
  BY <1>1, <1>2, BacksAwaits, OwedBacks DEF Matched
<1>4. CASE Backs(p, mac', p.p1, p.p2)
  BY <1>1, <1>3, <1>4, MatchedBacks
<1>5. CASE MissesCts(e, p)
  <2>1. Awaits(mac) = {"CtsTimeout"} /\ e.k = "CtsTimeout"
    BY <1>1, <1>5, WaitingKinds DEF MissesCts, Alone
  <2> QED
    BY <1>1, <1>3, <2>1, FittingNone DEF Matched
<1>6. CASE MissesAck(e, p) /\ ~Backs(p, mac', p.p1, p.p2)
  <2>1. /\ e.k \in AckTimers
        /\ IF e.k = "AckTimeout1" THEN Backs(p, mac', NoPacket, p.p2)
                                  ELSE Backs(p, mac', p.p1, NoPacket)
    BY <1>6 DEF MissesAck
  <2>2. Awaits(mac) \subseteq AckTimers
    BY <1>1, <2>1, WaitingKinds DEF Alone
  <2>3. Awaits(p) \subseteq AckTimers /\ e.k \notin Awaits(p)
    BY <1>1, <2>2
  <2> QED
    BY <1>1, <1>3, <2>1, <2>3, FittingReleases DEF Matched
<1> QED
  BY <1>4, <1>5, <1>6 DEF Resumes

LEMMA MatchedSends ==
  ASSUME Alone(mac), Fitting(mac), NEW e, NEW p, Turn(e, p), Matched(p, air),
         SendsData(e, p) \/ SendsPair(e, p) \/ Responds(e, p)
  PROVE  Matched(mac', air) /\ AsksAck(mac')
<1>1. /\ Guarded(p, air) /\ p.addr = Self /\ p \in Stations /\ p.st \in SendStates
      /\ p.p1 = mac.p1 /\ p.p2 = mac.p2 /\ p.st = mac.st
  BY TurnAwaits
<1>2. ASSUME Awaits(p) = {}, \A w \in Watch(mac') : w.k # "EndReceive", mac'.addr = Self
      PROVE  AckOwed(mac', air)
  <2>1. \A c \in Coming(p, air) : ~AckTo(c.frame, Self)
    BY <1>1, <1>2, NoneAwaited, NoneOwed DEF Guarded, Matched
  <2>2. Coming(mac', air) \subseteq Coming(p, air)
    BY <1>2, ComingLess
  <2> QED
    BY <1>1, <1>2, <2>1, <2>2, OwedNone
<1>3. CASE SendsData(e, p)
  <2>1. /\ Awaits(mac) = {"SendUnicastDataAfterCts"} /\ Awaits(p) = {} /\ p.st # "SPC"
        /\ Arms(p, mac', {Timer(OwnTimer(p), AckWait)}, "ack", AckWait,
                Data(p, AckSendAndSifs))
    BY <1>3, GrantsAlone
  <2>2. /\ Watch(mac') = Without(p, "EndReceive") \cup {Timer(OwnTimer(p), AckWait)}
        /\ mac'.st = p.st /\ mac'.p1 = p.p1 /\ mac'.p2 = p.p2 /\ mac'.addr = Self
        /\ mac'.sent.type = "DATA" /\ OwnTimer(p) \in AckTimers
    BY <1>1, <2>1, OwnFrames DEF Arms, Still, Kept, OwnTimer, AckTimers
  <2>3. \A w \in Watch(mac') : w.k # "EndReceive"
    BY <2>2, WaitingKinds DEF Without, Timer
  <2>4. Awaits(mac') = {OwnTimer(p)}
    BY <2>1, <2>2, AwaitsOf, WaitingKinds
  <2>5. CurrentPacket(p) # NoPacket
    BY <1>1, <2>1, WaitingKinds DEF Fitting, CurrentPacket
  <2>6. Fitting(mac')
    BY <2>2, <2>4, <2>5, WaitingKinds DEF Fitting, CurrentPacket, OwnTimer
  <2>7. AsksAck(mac')
    BY <2>1, <2>2 DEF AsksAck, OwnTimer
  <2> QED
    BY <1>2, <2>1, <2>2, <2>3, <2>6, <2>7 DEF Matched
<1>4. CASE SendsPair(e, p)
  <2> DEFINE n == [p EXCEPT !.st = "FIRST"]
  <2>1. /\ Awaits(mac) = {"SendSpcDataAfterCtsSpc"} /\ Awaits(p) = {} /\ p.st = "SPC"
        /\ \/ Arms(p, mac', {Timer("AckTimeout1", AckSpcWait),
                             Timer("AckTimeout2", AckSpcWait)},
                   "ack", AckSpcWait, DataSpc(p))
           \/ Arms(n, mac', {Timer("AckTimeout1", AckWait)},
                   "ack", AckWait, Data(n, AckSendAndSifs))
    BY <1>4, GrantsAlone
  <2>2. p.p1 # NoPacket /\ p.p2 # NoPacket
    BY <1>1, <2>1, WaitingKinds DEF Fitting
  <2>3. n.ev = p.ev /\ n.p1 = p.p1 /\ n.p2 = p.p2 /\ n.addr = p.addr /\ n.st = "FIRST"
    BY <1>1 DEF Stations
  <2> HIDE DEF n
  <2>4. CASE Arms(p, mac', {Timer("AckTimeout1", AckSpcWait),
                            Timer("AckTimeout2", AckSpcWait)},
                  "ack", AckSpcWait, DataSpc(p))
    <3>1. /\ Watch(mac') = Without(p, "EndReceive")
                             \cup {Timer("AckTimeout1", AckSpcWait),
                                   Timer("AckTimeout2", AckSpcWait)}
          /\ mac'.st = "SPC" /\ mac'.p1 = p.p1 /\ mac'.p2 = p.p2 /\ mac'.addr = Self
          /\ mac'.sent.type = "DATA_SPC"
      BY <1>1, <2>1, <2>4, OwnFrames DEF Arms, Still, Kept
    <3>2. \A w \in Watch(mac') : w.k # "EndReceive"
      BY <3>1 DEF Without, Timer
    <3>3. Awaits(mac') = AckTimers
      BY <2>1, <3>1, AwaitsOf, WaitingKinds
    <3>4. Fitting(mac')
      BY <2>2, <3>1, <3>3, WaitingKinds DEF Fitting
    <3> QED
      BY <1>2, <2>1, <3>1, <3>2, <3>4 DEF Matched, AsksAck
  <2>5. CASE Arms(n, mac', {Timer("AckTimeout1", AckWait)},
                  "ack", AckWait, Data(n, AckSendAndSifs))
    <3>1. /\ Watch(mac') = Without(n, "EndReceive") \cup {Timer("AckTimeout1", AckWait)}
          /\ mac'.st = "FIRST" /\ mac'.p1 = p.p1 /\ mac'.p2 = p.p2 /\ mac'.addr = Self
          /\ mac'.sent.type = "DATA"
      BY <1>1, <2>3, <2>5, OwnFrames DEF Arms, Still, Kept
    <3>2. \A w \in Watch(mac') : w.k # "EndReceive"
      BY <3>1 DEF Without, Timer
    <3>3. Awaits(n) = {}
      BY <2>1, <2>3, SameWatch, AwaitsOf
    <3>4. Awaits(mac') = {"AckTimeout1"}
      BY <3>1, <3>3, AwaitsOf, WaitingKinds
    <3>5. Fitting(mac')
      BY <2>2, <3>1, <3>4, WaitingKinds DEF Fitting
    <3> QED
      BY <1>2, <2>1, <3>1, <3>2, <3>5 DEF Matched, AsksAck, OwnTimer
  <2> QED
    BY <2>1, <2>4, <2>5
<1>5. CASE Responds(e, p)
  <2>1. /\ Watch(mac') = Without(p, "EndReceive") /\ Still(p, mac')
        /\ mac'.sent.type \in Answers
    BY <1>5 DEF Responds
  <2>2. Coming(mac', air) \subseteq Coming(p, air)
    BY <2>1, ComingLess DEF Without
  <2>3. AckOwed(mac', air)
    BY <2>1, <2>2, OwedLess, WaitingKinds DEF Without, Still, Matched
  <2>4. Awaits(mac') \subseteq Awaits(p)
    BY <2>1, AwaitsOf
  <2>5. Fitting(mac')
    BY <2>1, <2>4, FittingSame DEF Still, Kept, Matched
  <2> QED
    BY <2>1, <2>3, <2>5 DEF Matched, AsksAck, Answers
<1> QED
  BY <1>3, <1>4, <1>5

LEMMA MatchedHears ==
  ASSUME Alone(mac), Guarded(mac, air), mac.addr = Self, Fitting(mac), AckOwed(mac, air),
         NEW e, NEW p, Turn(e, p), Matched(p, air),
         \A c \in Coming(p, air) : e.k = "EndReceive" => c.at > 0,
         Hears(e, p)
  PROVE  Matched(mac', air) /\ mac'.sent = NoFrame
<1>1. /\ Guarded(p, air) /\ p.sent = NoFrame /\ p.addr = Self
      /\ p.p1 = mac.p1 /\ p.p2 = mac.p2 /\ p.st = mac.st
  BY TurnAwaits
<1>2. /\ Awaits(p) = Awaits(mac)
      /\ HearsCts(p, e.arg, mac') \/ HearsCtsSpc(p, e.arg, mac') =>
           Awaits(mac) = {"CtsTimeout"}
  BY HeardAlone
<1>3. ASSUME NEW s, SameExchange(p, s)
      PROVE  /\ Matched(s, air) /\ s.sent = NoFrame /\ Awaits(s) = Awaits(p)
             /\ s.addr = Self /\ s.st = p.st /\ s.p1 = p.p1 /\ s.p2 = p.p2
             /\ Watch(s) = Watch(p)
  <2>1. /\ Watch(s) = Watch(p) /\ s.st = p.st /\ s.p1 = p.p1 /\ s.p2 = p.p2
        /\ s.addr = p.addr /\ s.sent = p.sent
    BY <1>3 DEF SameExchange, Still, Kept
  <2>2. Awaits(s) = Awaits(p)
    BY <2>1, AwaitsOf
  <2>3. Coming(s, air) \subseteq Coming(p, air)
    BY <2>1, ComingLess
  <2>4. AckOwed(s, air)
    BY <2>1, <2>3, OwedLess DEF Matched
  <2>5. Fitting(s)
    BY <2>1, <2>2, FittingSame DEF Matched
  <2> QED
    BY <1>1, <2>1, <2>2, <2>4, <2>5 DEF Matched
<1>4. CASE SameExchange(p, mac')
  BY <1>3, <1>4
<1>5. ASSUME Awaits(p) = {"CtsTimeout"}, NEW n, Watch(n) = Watch(p), n.addr = Self,
             n.st = p.st, n.p1 = p.p1, n.p2 = p.p2, n.sent = NoFrame,
             NEW k \in Granted, Proceeds(n, mac', k)
      PROVE  Matched(mac', air) /\ mac'.sent = NoFrame
  <2>1. /\ Watch(mac') = Without(n, "CtsTimeout") \cup {Timer(k, Sifs)}
        /\ mac'.st = p.st /\ mac'.p1 = p.p1 /\ mac'.p2 = p.p2 /\ mac'.addr = Self
        /\ mac'.sent = NoFrame
    BY <1>5 DEF Proceeds, Still, Kept
  <2>2. Awaits(n) = {"CtsTimeout"}
    BY <1>5, AwaitsOf
  <2>3. Awaits(mac') = {k} /\ k # "CtsTimeout" /\ k \notin AckTimers
    BY <2>1, <2>2, AwaitsOf, WaitingKinds
  <2>4. Fitting(mac')
    BY <1>5, <2>1, <2>3, WaitingKinds DEF Matched, Fitting, CurrentPacket
  <2>5. \A c \in Coming(p, air) : ~AckTo(c.frame, Self)
    <3>1. \A t \in Watch(p) : t.k \notin AckTimers
      BY <1>5, NoneAwaited, WaitingKinds
    <3> QED
      BY <1>1, <3>1, NoneOwed DEF Guarded, Matched
  <2>6. \A w \in Watch(mac') : w.k = "EndReceive" => w \in Watch(p)
    BY <1>5, <2>1, WaitingKinds DEF Without, Timer
  <2>7. Coming(mac', air) \subseteq Coming(p, air)
    BY <2>6, ComingLess
  <2>8. AckOwed(mac', air)
    BY <1>1, <2>1, <2>5, <2>7, OwedNone
  <2> QED
    BY <2>1, <2>4, <2>8 DEF Matched
<1>6. CASE HearsCts(p, e.arg, mac')
  <2>1. PICK n : SameExchange(p, n) /\ Proceeds(n, mac', "SendUnicastDataAfterCts")
    BY <1>6 DEF HearsCts
  <2> QED
    BY <1>2, <1>3, <1>5, <1>6, <2>1, WaitingKinds
<1>7. CASE HearsCtsSpc(p, e.arg, mac')
  <2>1. PICK n : /\ SameExchange(p, n) /\ Sound(n)
                 /\ \/ Fails(n, mac', "ReceiveCtsSpc")
                    \/ mac' = Counted(n)
                    \/ Proceeds(Counted(n), mac', "SendSpcDataAfterCtsSpc")
    BY <1>7 DEF HearsCtsSpc
  <2> DEFINE o == Counted(n)
  <2>2. /\ Watch(o) = Watch(n) /\ o.st = n.st /\ o.p1 = n.p1 /\ o.p2 = n.p2
        /\ o.addr = n.addr /\ o.sent = n.sent
    BY <2>1, CountStep DEF Kept
  <2> HIDE DEF o
  <2>3. /\ Watch(n) = Watch(p) /\ n.addr = Self /\ n.st = p.st /\ n.p1 = p.p1 /\ n.p2 = p.p2
        /\ n.sent = NoFrame /\ Matched(n, air)
    BY <1>3, <2>1
  <2>4. CASE Fails(n, mac', "ReceiveCtsSpc") \/ mac' = o
    <3>1. /\ Watch(mac') = Watch(n) /\ mac'.st = n.st /\ mac'.p1 = n.p1 /\ mac'.p2 = n.p2
          /\ mac'.addr = n.addr /\ mac'.sent = NoFrame
      BY <2>2, <2>3, <2>4 DEF Fails, Kept
    <3>2. Awaits(mac') = Awaits(n) /\ Coming(mac', air) \subseteq Coming(n, air)
      BY <3>1, AwaitsOf, ComingLess
    <3>3. AckOwed(mac', air)
      BY <2>3, <3>1, <3>2, OwedLess DEF Matched
    <3>4. Fitting(mac')
      BY <2>3, <3>1, <3>2, FittingSame DEF Matched
    <3> QED
      BY <3>1, <3>3, <3>4 DEF Matched
  <2>5. CASE Proceeds(o, mac', "SendSpcDataAfterCtsSpc")
    BY <1>2, <1>5, <1>7, <2>2, <2>3, <2>5, WaitingKinds
  <2> QED
    BY <2>1, <2>4, <2>5 DEF o
<1>8. CASE HearsAck(p, e.arg, mac')
  <2> DEFINE k == AckedTimer(p.st, e.arg.spc)
  <2>1. PICK c : /\ Guarded(c, air) /\ Watch(c) = Without(p, k) /\ Still(p, c)
                 /\ c.sent = p.sent
                 /\ IF k = "AckTimeout1" THEN Backs(c, mac', NoPacket, p.p2)
                                         ELSE Backs(c, mac', p.p1, NoPacket)
    BY <1>8 DEF HearsAck
  <2>2. k \in AckTimers
    BY Gaps
  <2>3. AckTo(e.arg, mac.addr)
    BY <1>1, <1>8 DEF HearsAck, AckTo
  <2>4. /\ Heard(View(e)) \in Coming(mac, air) /\ Heard(View(e)).at = 0
        /\ Heard(View(e)).frame = e.arg /\ Typed(mac) /\ Sound(mac)
    <3>1. View(e) \in Watch(mac) /\ View(e).k = "EndReceive" /\ View(e).due = 0
          /\ View(e).arg = e.arg
      BY DEF Turn, Hears, Watched, View
    <3> QED
      BY <3>1, ComingTypes DEF Guarded
  <2>5. \E t \in Watch(mac) : t.k = k /\ t.due = AckGap(p.st, e.arg.spc)
    BY <1>1, <2>3, <2>4, Gaps DEF AckOwed
  <2>6. PICK t \in Watch(mac) : t.k = k /\ t.due = AckGap(p.st, e.arg.spc)
    BY <2>5
  <2>7. k \in Awaits(mac)
    BY <2>2, <2>6, WaitingKinds DEF Awaits, Awaiting
  <2>8. Awaits(mac) \subseteq AckTimers
    BY <2>2, <2>7, WaitingKinds DEF Alone
  \* another acknowledgement that comes later is of the other packet
  <2>9. ASSUME NEW b \in Coming(p, air), AckTo(b.frame, Self),
               AckedTimer(p.st, b.frame.spc) = k
        PROVE  FALSE
    <3>1. b.at \in Nat /\ b.at > 0 /\ b.frame \in Frames
      BY <1>1, ComingTypes DEF Hears, Guarded
    <3>2. PICK u \in Watch(p) : /\ u.k = k /\ u.due = b.at + AckGap(p.st, b.frame.spc)
      BY <1>1, <2>9 DEF Matched, AckOwed
    <3>3. u = t
      BY <2>4, <2>6, <3>2, WatchUnique DEF Turn, Without
    <3>4. AckGap(p.st, b.frame.spc) = AckGap(p.st, e.arg.spc)
      <4>1. {b.frame.spc, e.arg.spc} \subseteq {"FIRST", "SECOND"}
        BY <3>1 DEF Hears, Frames, SpcNums
      <4> QED
        BY <2>9, <4>1 DEF AckedTimer, AckGap, k
    <3>5. AckGap(p.st, e.arg.spc) \in Nat
      BY Gaps
    <3> QED
      BY <2>6, <3>1, <3>2, <3>3, <3>4, <3>5
  <2> HIDE DEF k
  <2>10. /\ c.st = p.st /\ c.p1 = p.p1 /\ c.p2 = p.p2 /\ c.addr = Self /\ c.sent = NoFrame
    BY <1>1, <2>1 DEF Still, Kept
  <2>11. Awaits(c) = Awaits(p) \ {k}
    BY <2>1, AwaitsOf
  <2>12. Fitting(c)
    BY <2>10, <2>11, FittingSame DEF Matched
  <2>13. AckOwed(c, air)
    <3> SUFFICES ASSUME NEW b \in Coming(c, air), AckTo(b.frame, c.addr)
                 PROVE  \E u \in Watch(c) : /\ u.k = AckedTimer(c.st, b.frame.spc)
                                            /\ u.due = b.at + AckGap(c.st, b.frame.spc)
      BY DEF AckOwed
    <3>1. b \in Coming(p, air)
      BY <2>1, ComingLess DEF Without
    <3>2. PICK u \in Watch(p) : /\ u.k = AckedTimer(p.st, b.frame.spc)
                                /\ u.due = b.at + AckGap(p.st, b.frame.spc)
      BY <1>1, <2>10, <3>1 DEF Matched, AckOwed
    <3>3. u.k # k
      BY <2>9, <2>10, <3>1, <3>2
    <3> QED
      BY <2>1, <2>10, <3>2, <3>3 DEF Without
  <2>14. Fitting(mac')
    BY <1>2, <2>1, <2>2, <2>8, <2>10, <2>11, <2>12, FittingReleases
  <2> QED
    BY <2>1, <2>10, <2>13, <2>14, OwedBacks, BacksAwaits DEF Matched
<1> QED
  BY <1>4, <1>6, <1>7, <1>8 DEF Hears, Takes

\* Nobody acknowledges what this station did not send.
NoForeignAck == \A f \in Foreign : ~AckTo(f, Self)

LEMMA MatchedEnvironment ==
  ASSUME NoForeignAck, Guarded(mac', air'), mac.addr = Self, Matched(mac, air),
         Supplies \/ \E z \in {0, 1} : Passes(z)
  PROVE  Matched(mac', air')
<1>1. CASE Supplies
  <2>1. PICK n :
          /\ Guarded(n, air) /\ Watch(n) = Watch(mac)
          /\ n.p1 = mac.p1 /\ n.p2 = mac.p2 /\ n.st = mac.st /\ n.addr = mac.addr
          /\ Backs(n, mac', n.p1, n.p2) /\ air' = air
    BY <1>1 DEF Supplies
  <2>2. Coming(n, air) \subseteq Coming(mac, air) /\ Awaits(n) = Awaits(mac)
    BY <2>1, ComingLess, AwaitsOf
  <2>3. AckOwed(n, air)
    BY <2>1, <2>2, OwedLess DEF Matched
  <2>4. Fitting(n)
    BY <2>1, <2>2, FittingSame DEF Matched
  <2> QED
    BY <2>1, <2>3, <2>4, MatchedBacks DEF Matched
<1>2. ASSUME NEW z \in {0, 1}, Passes(z)
      PROVE  Matched(mac', air')
  <2>1. /\ Still(mac, mac')
        /\ \A w \in Watch(mac) : w.k \in Waiting =>
             \E x \in Watch(mac') : x.k = w.k /\ x.due = w.due - z
        /\ \A x \in Watch(mac') : x.k \in Waiting =>
             \E w \in Watch(mac) : x.k = w.k /\ x.due = w.due - z
        /\ \A c \in Coming(mac', air') :
             \/ c.frame \in Foreign
             \/ \E b \in Coming(mac, air) : b.frame = c.frame /\ b.at = c.at + z
    BY <1>2 DEF Passes
  <2>2. mac'.st = mac.st /\ mac'.p1 = mac.p1 /\ mac'.p2 = mac.p2 /\ mac'.addr = Self
    BY <2>1 DEF Still, Kept
  <2>3. Awaits(mac') \subseteq Awaits(mac)
    BY <2>1 DEF Awaits, Awaiting
  <2>4. Fitting(mac')
    BY <2>2, <2>3, FittingSame DEF Matched
  <2>5. ASSUME NEW c \in Coming(mac', air'), AckTo(c.frame, Self)
        PROVE  \E t \in Watch(mac') : /\ t.k = AckedTimer(mac'.st, c.frame.spc)
                                      /\ t.due = c.at + AckGap(mac'.st, c.frame.spc)
    <3>1. PICK b \in Coming(mac, air) : b.frame = c.frame /\ b.at = c.at + z
      BY <2>1, <2>5 DEF NoForeignAck
    <3>2. PICK t \in Watch(mac) : /\ t.k = AckedTimer(mac.st, c.frame.spc)
                                  /\ t.due = b.at + AckGap(mac.st, c.frame.spc)
      BY <2>5, <3>1 DEF Matched, AckOwed
    <3>3. /\ t.k \in Waiting /\ AckGap(mac.st, c.frame.spc) \in Nat
      BY <3>2, Gaps, WaitingKinds
    <3>4. PICK x \in Watch(mac') : x.k = t.k /\ x.due = t.due - z
      BY <2>1, <3>3
    <3>5. c.at \in Nat
      BY ComingTypes DEF Guarded
    <3>6. x.due = c.at + AckGap(mac.st, c.frame.spc)
      BY <3>1, <3>2, <3>3, <3>4, <3>5
    <3> QED
      BY <2>2, <3>2, <3>4, <3>6
  <2>6. AckOwed(mac', air')
    BY <2>2, <2>5 DEF AckOwed
  <2> QED
    BY <2>4, <2>6 DEF Matched
<1> QED
  BY <1>1, <1>2

MatchInv == OrderInv /\ Supplied(mac) /\ (~tied => Matched(mac, air))

LEMMA InitMatch == Init => MatchInv
<1> SUFFICES ASSUME Init PROVE Matched(mac, air)
  BY InitAssert DEF MatchInv, AssertInv
<1>1. mac.ev = {} /\ air = {}
  BY DEF Init, SpcMacInit
<1>2. Coming(mac, air) = {} /\ Awaits(mac) = {}
  BY <1>1 DEF Coming, Watch, Awaits, Awaiting
<1> QED
  BY <1>2, FittingNone DEF Matched, AckOwed

LEMMA MatchedFire ==
  ASSUME OnlyLarge, MatchInv, ~tied, OrderInv', Remember, ~tied', Fire
  PROVE  Matched(mac', air')
<1>1. Ordered /\ Matched(mac, air) /\ Supplied(mac) /\ WaitInv
  BY DEF MatchInv, OrderInv
<1>2. /\ Guarded(mac, air) /\ mac.addr = Self /\ Alone(mac)
      /\ Fitting(mac) /\ AckOwed(mac, air)
  BY <1>1 DEF WaitInv, ReplyInv, Inv, Ordered, Matched
<1>3. mac' \in Stations
  BY DEF OrderInv, WaitInv, ReplyInv, Inv, TypeOK
<1>4. PICK e, p : Turn(e, p) /\ Acts(e, p)
  BY <1>1, FireActs
<1>5. AckOwed(p, air) /\ \A c \in Coming(p, air) : e.k = "EndReceive" => c.at > 0
  BY <1>2, <1>4, TurnOwes
<1>6. Matched(p, air)
  <2>1. Awaits(p) \subseteq Awaits(mac) /\ p.st = mac.st /\ p.p1 = mac.p1 /\ p.p2 = mac.p2
    BY <1>4, TurnAwaits
  <2> QED
    BY <1>2, <1>5, <2>1, FittingSame DEF Matched
<1>7. Matched(mac', air) /\ (mac'.sent # NoFrame => AsksAck(mac'))
  <2>1. CASE Opens(e, p)
    BY <1>1, <1>2, <1>4, <1>5, <2>1, MatchedOpens
  <2>2. CASE Hears(e, p)
    BY <1>2, <1>4, <1>5, <1>6, <2>2, MatchedHears
  <2>3. CASE Resumes(e, p) \/ MissesCts(e, p) \/ MissesAck(e, p)
    BY <1>2, <1>4, <1>6, <2>3, MatchedMisses
  <2>4. CASE SendsData(e, p) \/ SendsPair(e, p) \/ Responds(e, p)
    BY <1>2, <1>4, <1>6, <2>4, MatchedSends
  <2> QED
    BY <1>4, <2>1, <2>2, <2>3, <2>4 DEF Acts
<1>8. PICK r \in SUBSET RepliesTo(mac'.sent) : air' = air \cup r
  BY <1>1, FireActs DEF Answered
<1>9. mac'.sent \in Frames \cup {NoFrame}
  BY <1>3 DEF Stations
<1> QED
  BY <1>7, <1>8, <1>9, MatchedAnswered

LEMMA NextMatch ==
  ASSUME NoForeignAck, OnlyLarge, MatchInv, [Next]_vars
  PROVE  MatchInv'
<1>1. OrderInv'
  BY NextOrder DEF MatchInv
<1>2. Guarded(mac', air') /\ mac \in Stations /\ mac.addr = Self
  BY <1>1 DEF MatchInv, OrderInv, WaitInv, ReplyInv, Inv, TypeOK
<1>3. CASE Running /\ (Send \/ Arrive \/ Overheard \/ Busy \/ Tick) /\ Remember
  <2>1. Supplies \/ \E z \in {0, 1} : Passes(z)
    BY <1>3, EnvironmentActs DEF MatchInv, OrderInv
  <2>2. Supplied(mac')
    BY <1>2, <2>1, SuppliedEnvironment DEF MatchInv
  <2>3. ~tied' => Matched(mac', air')
    BY <1>2, <1>3, <2>1, MatchedEnvironment DEF MatchInv, Remember
  <2> QED
    BY <1>1, <2>2, <2>3 DEF MatchInv
<1>4. CASE Running /\ Fire /\ Remember
  <2>1. PICK e, p : Turn(e, p) /\ Acts(e, p)
    BY <1>4, FireActs DEF MatchInv, OrderInv
  <2>2. Supplied(mac')
    BY <2>1, SuppliedActs DEF MatchInv
  <2>3. ~tied' => Matched(mac', air')
    BY <1>1, <1>4, MatchedFire DEF Remember
  <2> QED
    BY <1>1, <2>2, <2>3 DEF MatchInv
<1>5. CASE UNCHANGED vars
  <2>1. Supplied(mac') /\ (~tied' => Matched(mac', air'))
    BY <1>5 DEF vars, MatchInv
  <2> QED
    BY <1>1, <2>1 DEF MatchInv
<1> QED
  BY <1>3, <1>4, <1>5 DEF Next, Abort

LEMMA MatchedExchange == MatchInv => ExchangeMatchesPackets
<1> SUFFICES ASSUME MatchInv, ~tied
             PROVE  /\ Scheduled("SendUnicastDataAfterCts") =>
                         mac.st # "SPC" /\ CurrentPacket(mac) # NoPacket
                    /\ Scheduled("SendSpcDataAfterCtsSpc") =>
                         mac.st = "SPC" /\ mac.p1 # NoPacket /\ mac.p2 # NoPacket
                    /\ Scheduled("CtsTimeout") => Held(mac)
                    /\ Scheduled("AckTimeout1") => mac.p1 # NoPacket
                    /\ Scheduled("AckTimeout2") => mac.p2 # NoPacket
  BY DEF ExchangeMatchesPackets
<1>1. Alone(mac) /\ Fitting(mac)
  BY DEF MatchInv, OrderInv, Ordered, Matched
<1>2. \A k \in Waiting : Scheduled(k) => k \in Awaits(mac)
  BY WatchMembers, WaitingKinds DEF Scheduled, Awaits
<1>3. CurrentPacket(mac) # NoPacket => Held(mac)
  BY DEF CurrentPacket, Held
<1> QED
  BY <1>1, <1>2, <1>3, WaitingKinds DEF Alone, Fitting, Held

\* While no backoff has ended in the instant a wait does, what an exchange does
\* next is about a packet that is held, in the state it was opened in: however
\* many chains of backoff run, none of them touches m_sendState or the packets of
\* an exchange that waits.  The first hypothesis leaves out acknowledgements of
\* what was never sent, the second packets sent without RTS, whose unexpected
\* acknowledgement releases the next packet.
THEOREM ExchangesMatch ==
  ASSUME NoForeignAck, OnlyLarge PROVE Spec => []ExchangeMatchesPackets
<1>1. MatchInv /\ [Next]_vars => MatchInv'
  BY NextMatch
<1> QED
  BY <1>1, MatchedExchange, InitMatch, PTL DEF Spec

=============================================================================
