--------------------------- MODULE SpcMac_proofs ----------------------------
(***************************************************************************)
(* TLAPS proofs about the handlers of SpcMac: that each of them leads from *)
(* a Good station to a Good one, and leaves an event scheduled for every   *)
(* packet it leaves in a slot. They hold of a station in any environment;  *)
(* SpcMacNode_proofs and SpcNetwork_proofs use them.                       *)
(***************************************************************************)
EXTENDS SpcMac, FiniteSetTheorems, TLAPS

(* An event that transmits or delivers a frame carries one.  An event of   *)
(* kind k that sends an answer f of station a sends the one that it is for. *)
Answers == {"CTS", "CTS_SPC", "ACK"}
Replies(k, f, a) ==
  \/ k = "SendCtsAfterRts" /\ f.type = "CTS"
  \/ k = "SendCtsSpcAfterRtsSpc" /\ f.type = "CTS_SPC" /\ f.a1 = a
  \/ k = "SendAckAfterData" /\ f.type = "ACK"
ArgsOK(m) == \A e \in m.ev :
  /\ e.k \in ReplyKinds => e.arg \in Frames /\ Replies(e.k, e.arg, m.addr)
  /\ e.k = "EndReceive" => e.arg \in Frames

(* No exchange goes on, and no answer to one is being received.            *)
CtsTo(f, a) == f.type = "CTS" /\ f.a1 = a
Quiet(m) ==
  /\ m.sent = NoFrame \/ m.sent.type \in Answers
  /\ \A e \in m.ev :
       /\ e.k \notin SenderKinds
       /\ e.k = "EndReceive" => ~CtsTo(e.arg, m.addr)

(* Why m_unicast is assigned in time: until then only the first packet slot *)
(* can be filled, and while it is empty nothing happens.                    *)
Idle(m)  == ~m.uniSet /\ m.p1 = NoPacket
Fresh(m) == /\ ArgsOK(m)
            /\ ~m.uniSet => m.p2 = NoPacket
            /\ Idle(m) => Quiet(m)
Good(m)  == Fresh(m) /\ (Idle(m) => m.q = <<>>)

(* A handler leads from m to s.                                            *)
Leads(m, s) == /\ s \in Stations
               /\ Good(s)
               /\ s.addr = m.addr
               /\ Idle(s) => Idle(m)

-----------------------------------------------------------------------------
(* The clock and the event list.                                           *)

\* Among the seven instants of a station there is a last one.
LEMMA LatestExists ==
  ASSUME NEW end \in [Causes -> Int]
  PROVE  \E t \in {end[c] : c \in Causes} : \A c \in Causes : end[c] <= t
<1> DEFINE S == {end[c] : c \in Causes}
<1>1. ASSUME NEW t \in S, NEW c \in Causes
      PROVE  \E u \in S : t <= u /\ end[c] <= u
  <2>1. t \in Int /\ end[c] \in Int /\ end[c] \in S
    OBVIOUS
  <2>2. t <= end[c] \/ end[c] <= t
    BY <2>1
  <2> QED
    BY <2>1, <2>2
<1>2. S \subseteq Int
  OBVIOUS
<1>3. {"rx", "tx", "busy", "nav", "ack", "cts", "wait"} = Causes
  BY DEF Causes
<1>4. end["rx"] \in S
  BY <1>3
<1> HIDE DEF S
<1>5. PICK t1 \in S : end["rx"] <= t1 /\ end["tx"] <= t1
  BY <1>1, <1>3, <1>4
<1>6. PICK t2 \in S : t1 <= t2 /\ end["busy"] <= t2
  BY <1>1, <1>3
<1>7. PICK t3 \in S : t2 <= t3 /\ end["nav"] <= t3
  BY <1>1, <1>3
<1>8. PICK t4 \in S : t3 <= t4 /\ end["ack"] <= t4
  BY <1>1, <1>3
<1>9. PICK t5 \in S : t4 <= t5 /\ end["cts"] <= t5
  BY <1>1, <1>3
<1>10. PICK t6 \in S : t5 <= t6 /\ end["wait"] <= t6
  BY <1>1, <1>3
<1>11. /\ t1 \in Int /\ t2 \in Int /\ t3 \in Int
       /\ t4 \in Int /\ t5 \in Int /\ t6 \in Int
  BY <1>2
<1>12. t1 <= t6 /\ t2 <= t6 /\ t3 <= t6 /\ t4 <= t6 /\ t5 <= t6
  BY <1>6, <1>7, <1>8, <1>9, <1>10, <1>11
<1>13. ASSUME NEW c \in Causes PROVE end[c] <= t6
  <2>1. end[c] \in Int
    OBVIOUS
  <2>2. \E u \in {t1, t2, t3, t4, t5, t6} : end[c] <= u
    BY <1>5, <1>6, <1>7, <1>8, <1>9, <1>10 DEF Causes
  <2> QED
    BY <1>11, <1>12, <2>1, <2>2
<1> QED
  BY <1>13 DEF S

\* Latest is one of these instants, and none is later.
LEMMA LatestType ==
  ASSUME NEW m \in Stations
  PROVE  /\ Latest(m) \in Int
         /\ \A c \in Causes : m.end[c] <= Latest(m)
<1>1. m.end \in [Causes -> Int]
  BY DEF Stations
<1>2. \E t \in {m.end[c] : c \in Causes} : \A c \in Causes : m.end[c] <= t
  BY <1>1, LatestExists
<1>3. /\ Latest(m) \in {m.end[c] : c \in Causes}
      /\ \A c \in Causes : m.end[c] <= Latest(m)
  BY <1>2 DEF Latest
<1> QED
  BY <1>1, <1>3

\* What Schedule changes is the event list; what it adds is the new event.
LEMMA ScheduleLemma ==
  ASSUME NEW m \in Stations, ArgsOK(m),
         NEW k \in Kinds, NEW d \in Nat, NEW f \in Frames \cup {NoFrame},
         k = "EndReceive" => f \in Frames,
         k \in ReplyKinds => f \in Frames /\ Replies(k, f, m.addr)
  PROVE  LET s == Schedule(m, k, d, f)
         IN /\ s \in Stations /\ ArgsOK(s)
            /\ s = [m EXCEPT !.ev = s.ev]
            /\ Quiet(m) /\ k \notin SenderKinds
               /\ (k = "EndReceive" => ~CtsTo(f, m.addr)) => Quiet(s)
<1> DEFINE new  == [k |-> k, due |-> d, after |-> 0, cur |-> k \in Tracked, arg |-> f]
           F(e) == [e EXCEPT !.after = IF e.due = d THEN @ + 1 ELSE @,
                             !.cur   = @ /\ e.k # k]
           ev   == {F(e) : e \in m.ev} \cup {new}
           s    == Schedule(m, k, d, f)
<1>1. m.ev \subseteq Events
  BY DEF Stations
<1>2. new \in Events /\ new.k = k /\ new.arg = f
  BY DEF Events
<1>3. ASSUME NEW e \in m.ev
      PROVE  F(e) \in Events /\ F(e).k = e.k /\ F(e).arg = e.arg
  <2>1. e \in Events
    BY <1>1
  <2>2. (e.cur /\ e.k # k) \in BOOLEAN
    OBVIOUS
  <2>3. (IF e.due = d THEN e.after + 1 ELSE e.after) \in Nat
    BY <2>1 DEF Events
  <2> DEFINE c == e.cur /\ e.k # k
             a == IF e.due = d THEN e.after + 1 ELSE e.after
  <2> HIDE DEF c, a
  <2>4. c \in BOOLEAN /\ a \in Nat => [e EXCEPT !.after = a, !.cur = c] \in Events
    BY <2>1 DEF Events
  <2> QED
    BY <2>1, <2>2, <2>3, <2>4 DEF Events, c, a
<1>4. s = [m EXCEPT !.ev = ev]
  BY DEF Schedule
<1> HIDE DEF F, new
<1>5. ev \subseteq Events
  BY <1>2, <1>3
<1>6. \A x \in ev : x = new \/ \E e \in m.ev : x.k = e.k /\ x.arg = e.arg
  BY <1>3
<1> HIDE DEF ev
<1>7. s \in Stations /\ s.ev = ev /\ s = [m EXCEPT !.ev = s.ev]
      /\ s.addr = m.addr /\ s.sent = m.sent
  <2>1. s \in Stations
    BY <1>4, <1>5 DEF Stations
  <2>2. s.ev = ev /\ s.addr = m.addr /\ s.sent = m.sent
    BY <1>4 DEF Stations
  <2> QED
    BY <1>4, <2>1, <2>2
<1> HIDE DEF s
<1>8. ArgsOK(s)
  BY <1>2, <1>6, <1>7 DEF ArgsOK
<1>9. ASSUME Quiet(m), k \notin SenderKinds, k = "EndReceive" => ~CtsTo(f, m.addr)
      PROVE  Quiet(s)
  BY <1>2, <1>6, <1>7, <1>9 DEF Quiet
<1> QED
  BY <1>7, <1>8, <1>9 DEF s

\* Changes to what the invariant does not speak of.
LEMMA SameLemma ==
  ASSUME NEW m \in Stations, Good(m), NEW s \in Stations,
         s.addr = m.addr, s.p1 = m.p1, s.p2 = m.p2, s.uniSet = m.uniSet,
         s.q = m.q, s.ev \subseteq m.ev,
         Idle(m) => s.sent = m.sent \/ s.sent = NoFrame \/ s.sent.type \in Answers
  PROVE  Leads(m, s)
<1>1. ArgsOK(s)
  BY DEF Good, Fresh, ArgsOK
<1>2. Idle(s) = Idle(m)
  BY DEF Idle
<1>3. Idle(m) => Quiet(s)
  BY DEF Good, Fresh, Quiet
<1> QED
  BY <1>1, <1>2, <1>3 DEF Leads, Good, Fresh

\* Once m_unicast is assigned, types are all that is left to show.
LEMMA SetLemma ==
  ASSUME NEW m \in Stations, ArgsOK(m), NEW s \in Stations, s.addr = m.addr,
         s.uniSet, s.ev \subseteq m.ev
  PROVE  Leads(m, s)
BY DEF Leads, Good, Fresh, Idle, ArgsOK

LEMMA LeadsTransitive ==
  ASSUME NEW m, NEW n, NEW s, Leads(m, n), Leads(n, s)
  PROVE  Leads(m, s)
BY DEF Leads

LEMMA ScheduleLeads ==
  ASSUME NEW m \in Stations, Good(m),
         NEW k \in Kinds, NEW d \in Nat, NEW f \in Frames \cup {NoFrame},
         k = "EndReceive" => f \in Frames,
         k \in ReplyKinds => f \in Frames /\ Replies(k, f, m.addr),
         Idle(m) => /\ k \notin SenderKinds
                    /\ k = "EndReceive" => ~CtsTo(f, m.addr)
  PROVE  Leads(m, Schedule(m, k, d, f))
<1> DEFINE s == Schedule(m, k, d, f)
<1>1. /\ s \in Stations /\ ArgsOK(s) /\ s = [m EXCEPT !.ev = s.ev]
      /\ Idle(m) => Quiet(s)
  BY ScheduleLemma DEF Good, Fresh
<1> HIDE DEF s
<1>2. /\ s.addr = m.addr /\ s.p1 = m.p1 /\ s.p2 = m.p2
      /\ s.uniSet = m.uniSet /\ s.q = m.q
  BY <1>1 DEF Stations
<1> QED
  BY <1>1, <1>2 DEF Leads, Good, Fresh, Idle, s

-----------------------------------------------------------------------------
(* The medium and backoff.                                                 *)

LEMMA DurationTypes ==
  /\ {Sifs, Difs, MaxProp, RtsSendAndSifs, CtsSendAndSifs, AckSendAndSifs,
      DataTime, RtsTime, CtsTime, AckTime} \subseteq Nat
  /\ \A f \in Frames : AirTime(f) \in Nat
BY TimeAssumption
   DEF RtsSendAndSifs, CtsSendAndSifs, AckSendAndSifs, AirTime, Frames, FrameTypes

LEMMA StartSendLeads ==
  ASSUME NEW m \in Stations, Good(m), NEW f \in Frames,
         Idle(m) => f.type \in Answers
  PROVE  LET s == StartSend(m, f)
         IN Leads(m, s) /\ s.p1 = m.p1 /\ s.p2 = m.p2 /\ s.uniSet = m.uniSet
<1> DEFINE ev  == IF IsStateRx(m) THEN {e \in m.ev : e.k # "EndReceive"} ELSE m.ev
           end == [c \in Causes |-> CASE c = "tx"           -> AirTime(f)
                                      [] c = "rx" /\ m.rxing -> 0
                                      [] OTHER              -> m.end[c]]
           s == StartSend(m, f)
<1>1. ev \subseteq m.ev /\ m.ev \subseteq Events
  BY DEF Stations
<1>2. end \in [Causes -> Int]
  BY DurationTypes DEF Stations
<1>3. s = [m EXCEPT !.ev = ev, !.end = end, !.rxing = FALSE, !.sent = f]
  BY DEF StartSend
<1> HIDE DEF ev, end
<1>4. s \in Stations
  BY <1>1, <1>2, <1>3, ZenonT(60) DEF Stations
<1>5. /\ s.addr = m.addr /\ s.p1 = m.p1 /\ s.p2 = m.p2
      /\ s.uniSet = m.uniSet /\ s.q = m.q /\ s.ev = ev /\ s.sent = f
  BY <1>3 DEF Stations
<1> QED
  BY <1>1, <1>4, <1>5, SameLemma DEF s

LEMMA SetStateLeads ==
  ASSUME NEW m \in Stations, Good(m)
  PROVE  LET s == SetState(m) IN Leads(m, s) /\ s.p1 = m.p1 /\ s.p2 = m.p2
                                 /\ s.uniSet = m.uniSet /\ s.q = m.q
<1> DEFINE s == SetState(m)
<1>1. PICK t \in SendStates : s = [m EXCEPT !.st = t]
  BY DEF SetState, SendStates
<1>2. s \in Stations
  BY <1>1 DEF Stations
<1>3. /\ s.addr = m.addr /\ s.p1 = m.p1 /\ s.p2 = m.p2
      /\ s.uniSet = m.uniSet /\ s.q = m.q /\ s.ev = m.ev /\ s.sent = m.sent
  BY <1>1 DEF Stations
<1> QED
  BY <1>2, <1>3, SameLemma

LEMMA StartBackoffLeads ==
  ASSUME NEW m \in Stations, Good(m), ~Idle(m), NEW draw \in Nat
  PROVE  Leads(m, StartBackoff(m, draw))
<1> DEFINE n == SetState(m)
<1>1. n \in Stations /\ Good(n) /\ Leads(m, n) /\ ~Idle(n)
  BY SetStateLeads DEF Leads, Idle
<1>2. m.cw + 1 \in Nat \ {0}
  BY TimeAssumption DEF Stations
<1>3. draw % (m.cw + 1) \in Nat
  BY <1>2
<1>4. "BackoffTimeout" \in Kinds /\ "BackoffTimeout" \notin ReplyKinds
  BY DEF Kinds, SenderKinds, ReplyKinds
<1> HIDE DEF n
<1>5. Leads(n, Schedule(n, "BackoffTimeout", draw % (m.cw + 1), NoFrame))
  BY <1>1, <1>3, <1>4, ScheduleLeads
<1> QED
  BY <1>1, <1>5, LeadsTransitive DEF StartBackoff, n

LEMMA BackoffGrantStartLeads ==
  ASSUME NEW m \in Stations, Good(m), ~Idle(m), NEW draw \in Nat
  PROVE  Leads(m, BackoffGrantStart(m, draw))
<1>1. GetBackoffGrantStart(m) \in Int
  BY LatestType, DurationTypes DEF GetBackoffGrantStart
<1>2. CASE GetBackoffGrantStart(m) <= 0
  BY <1>2, StartBackoffLeads DEF BackoffGrantStart
<1>3. CASE ~(GetBackoffGrantStart(m) <= 0)
  <2>1. GetBackoffGrantStart(m) \in Nat
    BY <1>1, <1>3
  <2>2. "BackoffGrantStart" \in Kinds /\ "BackoffGrantStart" \notin ReplyKinds
    BY DEF Kinds, SenderKinds, ReplyKinds
  <2>3. Leads(m, Schedule(m, "BackoffGrantStart", GetBackoffGrantStart(m), NoFrame))
    BY <2>1, <2>2, ScheduleLeads
  <2> QED
    BY <1>3, <2>3 DEF BackoffGrantStart
<1> QED
  BY <1>2, <1>3

LEMMA TakePacketsLeads ==
  ASSUME NEW m \in Stations, Fresh(m), ~Held(m), m.q # <<>>,
         Idle(m) => Len(m.q) <= 1
  PROVE  Leads(m, TakePackets(m)) /\ ~Idle(TakePackets(m))
<1> DEFINE rest == Tail(m.q)
           one  == [m EXCEPT !.p1 = Head(m.q), !.h1 = Head(m.q).dst, !.q = rest]
           s    == TakePackets(m)
<1>1. m.q \in Seq(Packets) /\ Head(m.q) \in Packets /\ rest \in Seq(Packets)
  BY DEF Stations
<1>2. \A p \in Packets : p.dst \in Address /\ p # NoPacket
  BY NoPacketAssumption DEF Packets, Dests, Address
<1>3. rest # <<>> => Len(m.q) > 1 /\ Head(rest) \in Packets /\ Tail(rest) \in Seq(Packets)
  BY <1>1
<1> HIDE DEF rest
<1>4. one \in Stations
  BY <1>1, <1>2 DEF Stations
<1>5. /\ one.addr = m.addr /\ one.p1 # NoPacket /\ one.p2 = m.p2
      /\ one.uniSet = m.uniSet /\ one.q = rest /\ one.ev = m.ev
  BY <1>1, <1>2 DEF Stations
<1> HIDE DEF one
<1>6. CASE rest = <<>>
  <2>1. s = one
    BY <1>6 DEF TakePackets, one, rest
  <2>2. ~Idle(s) /\ ArgsOK(s) /\ (~s.uniSet => s.p2 = NoPacket)
    BY <2>1, <1>5 DEF Idle, Fresh, ArgsOK
  <2> QED
    BY <2>1, <2>2, <1>4, <1>5 DEF Leads, Good, Fresh
<1>7. CASE rest # <<>>
  <2>1. \A k \in Stations : k = one =>
          LET t == [k EXCEPT !.p2 = Head(rest), !.h2 = Head(rest).dst, !.q = Tail(rest)]
          IN /\ t \in Stations /\ t.addr = k.addr /\ t.uniSet = k.uniSet
             /\ t.ev = k.ev
    BY <1>2, <1>3, <1>7, ZenonT(60) DEF Stations
  <2>2. s = [one EXCEPT !.p2 = Head(rest), !.h2 = Head(rest).dst, !.q = Tail(rest)]
    BY <1>7 DEF TakePackets, one, rest
  <2>3. m.uniSet
    <3>1. ~Idle(m)
      BY <1>1, <1>3, <1>7
    <3> QED
      BY <3>1 DEF Idle, Held
  <2>4. s \in Stations /\ s.addr = m.addr /\ s.uniSet /\ s.ev = m.ev
    BY <1>4, <1>5, <2>1, <2>2, <2>3
  <2> QED
    BY <2>3, <2>4, SetLemma DEF Fresh, Idle
<1> QED
  BY <1>6, <1>7

LEMMA StartBackoffIfNeededLeads ==
  ASSUME NEW m \in Stations, Fresh(m), Idle(m) => Len(m.q) <= 1, NEW draw \in Nat
  PROVE  Leads(m, StartBackoffIfNeeded(m, draw))
<1> DEFINE s == StartBackoffIfNeeded(m, draw)
<1>1. CASE ~IsExpired(m, "BackoffGrantStart")
  <2>1. ASSUME Idle(m) PROVE \A e \in m.ev : e.k # "BackoffGrantStart"
    BY <2>1 DEF Fresh, Quiet, SenderKinds
  <2>2. ~Idle(m)
    BY <1>1, <2>1, Zenon DEF IsExpired
  <2> QED
    BY <1>1, <2>2 DEF StartBackoffIfNeeded, Leads, Good
<1>2. CASE IsExpired(m, "BackoffGrantStart") /\ Held(m)
  <2>1. ~Idle(m)
    BY <1>2 DEF Fresh, Held, Idle
  <2> QED
    BY <1>2, <2>1, BackoffGrantStartLeads DEF StartBackoffIfNeeded, Good
<1>3. CASE IsExpired(m, "BackoffGrantStart") /\ ~Held(m) /\ m.q # <<>>
  <2> DEFINE n == TakePackets(m)
  <2>1. Leads(m, n) /\ ~Idle(n)
    BY <1>3, TakePacketsLeads
  <2> HIDE DEF n
  <2>2. Leads(n, BackoffGrantStart(n, draw))
    BY <2>1, BackoffGrantStartLeads DEF Leads
  <2> QED
    BY <1>3, <2>1, <2>2, LeadsTransitive DEF StartBackoffIfNeeded, n
<1>4. CASE IsExpired(m, "BackoffGrantStart") /\ ~Held(m) /\ m.q = <<>>
  BY <1>4 DEF StartBackoffIfNeeded, Leads, Good
<1> QED
  BY <1>1, <1>2, <1>3, <1>4

\* InitSend assigns m_unicast: whatever it leads to is fresh enough.
LEMMA InitSendType ==
  ASSUME NEW m \in Stations, ArgsOK(m)
  PROVE  LET s == InitSend(m)
         IN /\ s \in Stations /\ ArgsOK(s) /\ s.uniSet /\ s.addr = m.addr
            /\ s.ev = m.ev /\ s.q = m.q
<1> DEFINE s == InitSend(m)
<1> DEFINE n == [m EXCEPT !.rrts = 0, !.rdata = 0, !.cw = CwMin]
<1>1. s = [m EXCEPT !.rrts = 0, !.rdata = 0, !.cw = CwMin, !.uni = FALSE,
                    !.uniSet = TRUE]
  BY DEF InitSend
<1>2. s \in Stations
  <2>1. /\ CwMin \in CwMin .. CwMax
        /\ 0 \in 0 .. ResendRtsMax
        /\ 0 \in 0 .. ResendDataMax
    BY TimeAssumption
  <2>2. n \in Stations
    BY <2>1 DEF Stations
  <2>3. s = [n EXCEPT !.uni = FALSE, !.uniSet = TRUE]
    BY <1>1 DEF Stations
  <2>4. \A k \in Stations : [k EXCEPT !.uni = FALSE, !.uniSet = TRUE] \in Stations
    BY DEF Stations
  <2> QED
    BY <2>2, <2>3, <2>4
<1>3. s.uniSet /\ s.addr = m.addr /\ s.ev = m.ev /\ s.q = m.q
  BY <1>1 DEF Stations
<1> HIDE DEF s
<1> QED
  BY <1>2, <1>3 DEF ArgsOK, s

\* A packet slot is emptied only after InitSend.
LEMMA ReleaseLeads ==
  ASSUME NEW m \in Stations, ArgsOK(m), m.uniSet, NEW draw \in Nat,
         NEW p \in {m.p1, NoPacket}, NEW q \in {m.p2, NoPacket}
  PROVE  Leads(m, StartBackoffIfNeeded([m EXCEPT !.p1 = p, !.p2 = q], draw))
<1> DEFINE n == [m EXCEPT !.p1 = p, !.p2 = q]
<1>1. n \in Stations /\ n.uniSet /\ n.addr = m.addr /\ n.ev = m.ev
  BY DEF Stations
<1> HIDE DEF n
<1>2. Leads(m, n)
  BY <1>1, SetLemma
<1>3. Leads(n, StartBackoffIfNeeded(n, draw))
  BY <1>1, <1>2, StartBackoffIfNeededLeads DEF Leads, Good, Idle
<1> QED
  BY <1>2, <1>3, LeadsTransitive DEF n

LEMMA UpdateCwLeads ==
  ASSUME NEW m \in Stations, Good(m)
  PROVE  Leads(m, UpdateCw(m)) /\ UpdateCw(m).p1 = m.p1
         /\ UpdateCw(m).uniSet = m.uniSet
<1> DEFINE s == UpdateCw(m)
           w == IF 2 * (m.cw + 1) - 1 <= CwMax THEN 2 * (m.cw + 1) - 1 ELSE CwMax
<1>0. w \in CwMin .. CwMax
  <2>1. CwMax \in Nat /\ CwMin \in Nat /\ CwMin <= CwMax /\ m.cw \in CwMin .. CwMax
    BY TimeAssumption DEF Stations
  <2> QED
    BY <2>1
<1>1. s = [m EXCEPT !.cw = w]
  BY DEF UpdateCw
<1> HIDE DEF w
<1>2. s \in Stations
  BY <1>0, <1>1 DEF Stations
<1>3. /\ s.addr = m.addr /\ s.p1 = m.p1 /\ s.p2 = m.p2
      /\ s.uniSet = m.uniSet /\ s.q = m.q /\ s.ev = m.ev /\ s.sent = m.sent
  BY <1>1 DEF Stations
<1> QED
  BY <1>2, <1>3, SameLemma

LEMMA EnqueueLeads ==
  ASSUME NEW m \in Stations, Good(m), NEW p \in Packets, NEW draw \in Nat
  PROVE  Leads(m, Enqueue(m, p, draw))
<1> DEFINE q == IF Len(m.q) = QueueMax THEN m.q ELSE Append(m.q, p)
           n == [m EXCEPT !.q = IF Len(@) = QueueMax THEN @ ELSE Append(@, p),
                          !.sent = NoFrame]
<1>1. q \in Seq(Packets) /\ (m.q = <<>> => Len(q) <= 1)
  BY DEF Stations
<1>2. n = [m EXCEPT !.q = q, !.sent = NoFrame]
  OBVIOUS
<1> HIDE DEF q, n
<1>3. n \in Stations
  BY <1>1, <1>2 DEF Stations
<1>4. /\ n.addr = m.addr /\ n.p1 = m.p1 /\ n.p2 = m.p2
      /\ n.uniSet = m.uniSet /\ n.q = q /\ n.ev = m.ev /\ n.sent = NoFrame
  BY <1>1, <1>2 DEF Stations
<1>5. Fresh(n) /\ (Idle(n) => Len(n.q) <= 1) /\ (Idle(n) = Idle(m))
  BY <1>1, <1>4 DEF Good, Fresh, Idle, Quiet, ArgsOK
<1>6. Leads(n, StartBackoffIfNeeded(n, draw))
  BY <1>3, <1>5, StartBackoffIfNeededLeads
<1> QED
  BY <1>4, <1>5, <1>6 DEF Enqueue, Leads, n

-----------------------------------------------------------------------------
(* Sending.                                                                *)

LEMMA FailLeads ==
  ASSUME NEW m \in Stations, Good(m), NEW a \in Asserting, NEW ok, NEW s,
         ok => Leads(m, s)
  PROVE  Leads(m, NsAssert(m, a, ok, s))
<1> DEFINE n == [m EXCEPT !.failed = a]
<1>1. n \in Stations
  BY DEF Stations
<1>2. /\ n.addr = m.addr /\ n.p1 = m.p1 /\ n.p2 = m.p2
      /\ n.uniSet = m.uniSet /\ n.q = m.q /\ n.ev = m.ev /\ n.sent = m.sent
  BY DEF Stations
<1>3. Leads(m, n)
  BY <1>1, <1>2, SameLemma
<1> QED
  BY <1>3 DEF NsAssert

LEMMA CurrentAddrType ==
  ASSUME NEW m \in Stations PROVE CurrentAddr(m) \in Address
BY DEF CurrentAddr, Stations

LEMMA FrameType ==
  ASSUME NEW t \in FrameTypes, NEW x \in Address, NEW y \in Address,
         NEW z \in Address, NEW n \in SpcNums, NEW d \in Nat
  PROVE  Frame(t, x, y, z, n, d) \in Frames /\ Frame(t, x, y, z, n, d).type = t
BY DEF Frame, Frames

\* Arming a timer and sending: an exchange under way.
LEMMA ArmLeads ==
  ASSUME NEW m \in Stations, Good(m), ~Idle(m),
         NEW k \in SenderKinds, NEW d \in Nat
  PROVE  LET s == Schedule(m, k, d, NoFrame) IN Leads(m, s) /\ ~Idle(s)
<1>1. k \in Kinds /\ k \notin ReplyKinds /\ k # "EndReceive"
  BY DEF Kinds, SenderKinds, ReplyKinds
<1>2. Leads(m, Schedule(m, k, d, NoFrame))
  BY <1>1, ScheduleLeads
<1> QED
  BY <1>2 DEF Leads

LEMMA EndLeads ==
  ASSUME NEW m \in Stations, Good(m), NEW c \in Causes, NEW d \in Int
  PROVE  LET s == [m EXCEPT !.end[c] = d]
         IN /\ Leads(m, s) /\ s.p1 = m.p1 /\ s.uniSet = m.uniSet
            /\ s.ev = m.ev
<1> DEFINE s == [m EXCEPT !.end[c] = d]
<1>1. s = [m EXCEPT !.end = [m.end EXCEPT ![c] = d]]
  OBVIOUS
<1>2. [m.end EXCEPT ![c] = d] \in [Causes -> Int]
  BY DEF Stations
<1>3. s \in Stations
  BY <1>1, <1>2 DEF Stations
<1>4. /\ s.addr = m.addr /\ s.p1 = m.p1 /\ s.p2 = m.p2
      /\ s.uniSet = m.uniSet /\ s.q = m.q /\ s.ev = m.ev /\ s.sent = m.sent
  BY <1>1 DEF Stations
<1> QED
  BY <1>3, <1>4, SameLemma

\* What InitSend leads to, with packets released, and StartBackoffIfNeeded.
LEMMA FinishLeads ==
  ASSUME NEW m \in Stations, Good(m), NEW draw \in Nat,
         NEW p \in {m.p1, NoPacket}, NEW q \in {m.p2, NoPacket}
  PROVE  Leads(m, StartBackoffIfNeeded([InitSend(m) EXCEPT !.p1 = p, !.p2 = q], draw))
<1> DEFINE n == InitSend(m)
<1>1. n \in Stations /\ ArgsOK(n) /\ n.uniSet /\ n.addr = m.addr /\ n.ev = m.ev
  BY InitSendType DEF Good, Fresh
<1>2. n.p1 = m.p1 /\ n.p2 = m.p2
  BY DEF InitSend, Stations
<1>3. ArgsOK(m)
  BY DEF Good, Fresh
<1> HIDE DEF n
<1>4. Leads(m, n)
  BY <1>1, <1>3, SetLemma
<1>5. Leads(n, StartBackoffIfNeeded([n EXCEPT !.p1 = p, !.p2 = q], draw))
  BY <1>1, <1>2, ReleaseLeads
<1> QED
  BY <1>4, <1>5, LeadsTransitive DEF n

\* The three ways a handler releases packets.
LEMMA ReleasedLeads ==
  ASSUME NEW m \in Stations, Good(m), NEW draw \in Nat
  PROVE  /\ Leads(m, StartBackoffIfNeeded([InitSend(m) EXCEPT !.p1 = NoPacket], draw))
         /\ Leads(m, StartBackoffIfNeeded([InitSend(m) EXCEPT !.p2 = NoPacket], draw))
         /\ Leads(m, StartBackoffIfNeeded(InitSend(m), draw))
         /\ Leads(m, StartBackoffIfNeeded(
                       [InitSend(m) EXCEPT !.p1 = NoPacket, !.p2 = NoPacket], draw))
<1> DEFINE n == InitSend(m)
<1>1. n \in Stations
  BY InitSendType DEF Good, Fresh
<1>2. n.p1 = m.p1 /\ n.p2 = m.p2
  BY DEF InitSend, Stations
<1> HIDE DEF n
<1>3. \A k \in Stations : /\ [k EXCEPT !.p1 = NoPacket] = [k EXCEPT !.p1 = NoPacket, !.p2 = k.p2]
                          /\ [k EXCEPT !.p2 = NoPacket] = [k EXCEPT !.p1 = k.p1, !.p2 = NoPacket]
                          /\ k = [k EXCEPT !.p1 = k.p1, !.p2 = k.p2]
  BY ZenonT(60) DEF Stations
<1>4. /\ [n EXCEPT !.p1 = NoPacket] = [n EXCEPT !.p1 = NoPacket, !.p2 = m.p2]
      /\ [n EXCEPT !.p2 = NoPacket] = [n EXCEPT !.p1 = m.p1, !.p2 = NoPacket]
      /\ n = [n EXCEPT !.p1 = m.p1, !.p2 = m.p2]
  BY <1>1, <1>2, <1>3
<1>5. \A p \in {m.p1, NoPacket}, q \in {m.p2, NoPacket} :
        Leads(m, StartBackoffIfNeeded([n EXCEPT !.p1 = p, !.p2 = q], draw))
  BY FinishLeads DEF n
<1> QED
  BY <1>4, <1>5 DEF n

\* An exchange opens or goes on: a timer is armed, the frame sent.
LEMMA ArmAndSendLeads ==
  ASSUME NEW m \in Stations, Good(m), ~Idle(m), NEW k \in SenderKinds,
         NEW d \in Nat, NEW c \in Causes, NEW f \in Frames
  PROVE  /\ Leads(m, StartSend([Schedule(m, k, d, NoFrame) EXCEPT !.end[c] = d], f))
         /\ Leads(m, StartSend(Schedule([m EXCEPT !.end[c] = d], k, d, NoFrame), f))
<1> DEFINE n1 == Schedule(m, k, d, NoFrame)
           s1 == [n1 EXCEPT !.end[c] = d]
           n2 == [m EXCEPT !.end[c] = d]
           s2 == Schedule(n2, k, d, NoFrame)
<1>1. Leads(m, n1) /\ ~Idle(n1)
  BY ArmLeads
<1>2. Leads(m, n2) /\ ~Idle(n2)
  BY EndLeads DEF Idle
<1> HIDE DEF n1, n2
<1>3. Leads(n1, s1) /\ ~Idle(s1)
  BY <1>1, EndLeads DEF Leads, Idle
<1>4. Leads(n2, s2) /\ ~Idle(s2)
  BY <1>2, ArmLeads DEF Leads
<1> HIDE DEF s1, s2
<1>5. Leads(s1, StartSend(s1, f)) /\ Leads(s2, StartSend(s2, f))
  BY <1>3, <1>4, StartSendLeads DEF Leads
<1>6. Leads(m, StartSend(s1, f)) /\ Leads(m, StartSend(s2, f))
  BY <1>1, <1>2, <1>3, <1>4, <1>5, LeadsTransitive
<1> QED
  BY <1>6 DEF s1, s2, n1, n2

LEMMA SenderKindsTypes ==
  /\ SenderKinds \subseteq Kinds
  /\ {"BackoffGrantStart", "BackoffTimeout", "CtsTimeout", "AckTimeout1", "AckTimeout2",
      "SendUnicastDataAfterCts", "SendSpcDataAfterCtsSpc"} \subseteq SenderKinds
  /\ ReplyKinds \subseteq Kinds /\ "EndReceive" \in Kinds
  /\ {"SendCtsAfterRts", "SendCtsSpcAfterRtsSpc", "SendAckAfterData"} \subseteq ReplyKinds
  /\ {"cts", "ack", "nav", "wait", "busy", "rx", "tx"} \subseteq Causes
  /\ \A k \in SenderKinds : k \notin ReplyKinds /\ k # "EndReceive"
  /\ \A k \in ReplyKinds : k \notin SenderKinds /\ k # "EndReceive"
  /\ "EndReceive" \notin SenderKinds
BY DEF Kinds, SenderKinds, ReplyKinds, Causes

LEMMA Sums ==
  ASSUME NEW x \in Nat, NEW y \in Nat
  PROVE  x + y \in Nat /\ 2 * x \in Nat
OBVIOUS

LEMMA StationAddresses ==
  ASSUME NEW m \in Stations
  PROVE  {m.addr, m.h1, m.h2, CurrentAddr(m), NoAddr} \subseteq Address
BY CurrentAddrType DEF Stations, Address, Dests

LEMMA SendRtsLeads ==
  ASSUME NEW m \in Stations, Good(m), ~Idle(m)
  PROVE  Leads(m, SendRts(m))
<1> DEFINE d == RtsSendAndSifs + CtsSendAndSifs
           f == Frame("RTS", CurrentAddr(m), m.addr, NoAddr, "FIRST", CtsSendAndSifs)
           s == StartSend([Schedule(m, "CtsTimeout", d, NoFrame) EXCEPT !.end["cts"] = d], f)
<1>1. d \in Nat /\ CtsSendAndSifs \in Nat
  BY DurationTypes, Sums
<1>2. f \in Frames
  BY <1>1, StationAddresses, FrameType DEF FrameTypes, SpcNums
<1> HIDE DEF d, f
<1>3. Leads(m, s)
  BY <1>1, <1>2, ArmAndSendLeads, SenderKindsTypes
<1> HIDE DEF s
<1>4. SendRts(m) = NsAssert(m, "SendRts", m.st # "SPC" /\ IsExpired(m, "CtsTimeout"), s)
  BY DEF SendRts, s, d, f
<1> QED
  BY <1>3, <1>4, FailLeads DEF Asserting

LEMMA SendRtsSpcLeads ==
  ASSUME NEW m \in Stations, Good(m), ~Idle(m)
  PROVE  Leads(m, SendRtsSpc(m))
<1> DEFINE d == RtsSendAndSifs + 2 * CtsSendAndSifs
           f == Frame("RTS_SPC", m.h1, m.h2, NoAddr, "FIRST", 2 * CtsSendAndSifs)
           n == [m EXCEPT !.ncts = 0]
           s == StartSend([Schedule(n, "CtsTimeout", d, NoFrame) EXCEPT !.end["cts"] = d], f)
<1>1. d \in Nat /\ 2 * CtsSendAndSifs \in Nat
  BY DurationTypes, Sums
<1>2. f \in Frames
  BY <1>1, StationAddresses, FrameType, ZenonT(60) DEF FrameTypes, SpcNums
<1>3. n \in Stations
  BY DEF Stations
<1>4. /\ n.addr = m.addr /\ n.p1 = m.p1 /\ n.p2 = m.p2
      /\ n.uniSet = m.uniSet /\ n.q = m.q /\ n.ev = m.ev /\ n.sent = m.sent
  BY DEF Stations
<1> HIDE DEF d, f, n
<1>5. Leads(m, n) /\ ~Idle(n)
  BY <1>3, <1>4, SameLemma DEF Idle
<1>6. Leads(n, s)
  BY <1>1, <1>2, <1>3, <1>5, ArmAndSendLeads, SenderKindsTypes DEF Leads
<1>7. Leads(m, s)
  BY <1>5, <1>6, LeadsTransitive
<1> HIDE DEF s
<1>8. SendRtsSpc(m) = NsAssert(m, "SendRtsSpc",
                               m.st = "SPC" /\ IsExpired(m, "CtsTimeout"), s)
  BY DEF SendRtsSpc, s, d, f, n
<1> QED
  BY <1>7, <1>8, FailLeads DEF Asserting

LEMMA SendUnicastDataNoAckLeads ==
  ASSUME NEW m \in Stations, Good(m), ~Idle(m), NEW draw \in Nat
  PROVE  Leads(m, SendUnicastDataNoAck(m, draw))
<1> DEFINE f == Frame("DATA", CurrentAddr(m), m.addr, NoAddr, "FIRST", 0)
           n == StartSend(m, f)
           s == SendUnicastDataNoAck(m, draw)
<1>1. f \in Frames
  BY StationAddresses, FrameType DEF FrameTypes, SpcNums
<1> HIDE DEF f
<1>2. Leads(m, n)
  BY <1>1, StartSendLeads
<1> HIDE DEF n
<1>3. /\ Leads(n, StartBackoffIfNeeded([InitSend(n) EXCEPT !.p1 = NoPacket], draw))
      /\ Leads(n, StartBackoffIfNeeded([InitSend(n) EXCEPT !.p2 = NoPacket], draw))
  BY <1>2, ReleasedLeads DEF Leads
<1>4. \/ s = StartBackoffIfNeeded([InitSend(n) EXCEPT !.p1 = NoPacket], draw)
      \/ s = StartBackoffIfNeeded([InitSend(n) EXCEPT !.p2 = NoPacket], draw)
  BY DEF SendUnicastDataNoAck, n, f
<1> HIDE DEF s
<1>5. Leads(n, s)
  BY <1>3, <1>4
<1>6. Leads(m, s)
  BY <1>2, <1>5, LeadsTransitive
<1> QED
  BY <1>6 DEF s

LEMMA SendUnicastDataAfterCtsLeads ==
  ASSUME NEW m \in Stations, Good(m), ~Idle(m)
  PROVE  Leads(m, SendUnicastDataAfterCts(m))
<1> DEFINE d == DataTime + MaxProp + AckSendAndSifs
           k == IF m.st = "SECOND" THEN "AckTimeout2" ELSE "AckTimeout1"
           f == Frame("DATA", CurrentAddr(m), m.addr, NoAddr, "FIRST", AckSendAndSifs)
           s == StartSend(Schedule([m EXCEPT !.end["ack"] = d], k, d, NoFrame), f)
<1>1. d \in Nat /\ AckSendAndSifs \in Nat
  BY DurationTypes, Sums
<1>2. f \in Frames
  BY <1>1, StationAddresses, FrameType DEF FrameTypes, SpcNums
<1>3. k \in SenderKinds /\ "ack" \in Causes
  BY SenderKindsTypes
<1> HIDE DEF d, f, k
<1>4. Leads(m, s)
  BY <1>1, <1>2, <1>3, ArmAndSendLeads
<1> HIDE DEF s
<1>5. SendUnicastDataAfterCts(m) =
        NsAssert(m, "SendUnicastDataAfterCts", m.st # "SPC" /\ IsExpired(m, k), s)
  BY DEF SendUnicastDataAfterCts, s, d, f, k
<1> QED
  BY <1>4, <1>5, FailLeads DEF Asserting

LEMMA SendSpcDataAfterCtsSpcLeads ==
  ASSUME NEW m \in Stations, Good(m), ~Idle(m), NEW spc \in BOOLEAN
  PROVE  Leads(m, SendSpcDataAfterCtsSpc(m, spc))
<1> DEFINE d  == DataTime + MaxProp + 2 * AckSendAndSifs
           f  == Frame("DATA_SPC", m.h1, m.h2, m.addr, "FIRST", 2 * AckSendAndSifs)
           n  == [m EXCEPT !.end["ack"] = d]
           t1 == Schedule(n, "AckTimeout1", d, NoFrame)
           t2 == Schedule(t1, "AckTimeout2", d, NoFrame)
           u  == [m EXCEPT !.st = "FIRST"]
           r  == SendUnicastDataAfterCts(u)
           s  == StartSend(t2, f)
<1>1. d \in Nat /\ 2 * AckSendAndSifs \in Nat
  BY DurationTypes, Sums
<1>2. f \in Frames
  BY <1>1, StationAddresses, FrameType, ZenonT(60) DEF FrameTypes, SpcNums
<1> HIDE DEF d, f
<1>3. Leads(m, n) /\ ~Idle(n)
  BY <1>1, SenderKindsTypes, EndLeads DEF Idle
<1> HIDE DEF n
<1>4. Leads(n, t1) /\ ~Idle(t1)
  BY <1>1, <1>3, SenderKindsTypes, ArmLeads DEF Leads
<1> HIDE DEF t1
<1>5. Leads(t1, t2) /\ ~Idle(t2)
  BY <1>1, <1>4, SenderKindsTypes, ArmLeads DEF Leads
<1> HIDE DEF t2
<1>6. Leads(t2, s)
  BY <1>2, <1>5, StartSendLeads DEF Leads
<1>7. Leads(m, s)
  BY <1>3, <1>4, <1>5, <1>6, LeadsTransitive
<1>8. u \in Stations
  BY DEF Stations, SendStates
<1>9. /\ u.addr = m.addr /\ u.p1 = m.p1 /\ u.p2 = m.p2
      /\ u.uniSet = m.uniSet /\ u.q = m.q /\ u.ev = m.ev /\ u.sent = m.sent
  BY DEF Stations
<1> HIDE DEF u
<1>10. Leads(m, u) /\ ~Idle(u)
  BY <1>8, <1>9, SameLemma DEF Idle
<1>11. Leads(u, r)
  BY <1>8, <1>10, SendUnicastDataAfterCtsLeads DEF Leads
<1>12. Leads(m, r)
  BY <1>10, <1>11, LeadsTransitive
<1> HIDE DEF r, s
<1>13. Leads(m, IF spc THEN s ELSE r)
  BY <1>7, <1>12
<1>14. SendSpcDataAfterCtsSpc(m, spc) =
         NsAssert(m, "SendSpcDataAfterCtsSpc",
                  m.st = "SPC" /\ IsExpired(m, "AckTimeout1") /\ IsExpired(m, "AckTimeout2"),
                  IF spc THEN s ELSE r)
  BY DEF SendSpcDataAfterCtsSpc, r, s, u, t2, t1, n, d, f
<1> QED
  BY <1>13, <1>14, FailLeads DEF Asserting

-----------------------------------------------------------------------------
(* Timers.                                                                 *)

LEMMA GrantAgainLeads ==
  ASSUME NEW m \in Stations, Good(m), ~Idle(m), GetSendGrantStart(m) > 0
  PROVE  Leads(m, Schedule(m, "BackoffGrantStart", GetBackoffGrantStart(m), NoFrame))
<1>1. GetBackoffGrantStart(m) \in Nat
  BY LatestType, DurationTypes DEF GetSendGrantStart, GetBackoffGrantStart
<1> QED
  BY <1>1, ArmLeads, SenderKindsTypes

LEMMA BackoffTimeoutLeads ==
  ASSUME NEW m \in Stations, Good(m), ~Idle(m), NEW queue \in Seq(Packets),
         NEW draw \in Nat
  PROVE  Leads(m, BackoffTimeout(m, queue, draw))
<1> DEFINE t == SetState(m)
           n == [t EXCEPT !.q = queue]
           s == BackoffTimeout(m, queue, draw)
<1>1. Leads(m, t) /\ ~Idle(t)
  BY SetStateLeads DEF Idle
<1>2. t \in Stations /\ Good(t)
  BY <1>1 DEF Leads
<1> HIDE DEF t
<1>3. n \in Stations
  BY <1>2 DEF Stations
<1>4. /\ n.addr = t.addr /\ n.p1 = t.p1 /\ n.p2 = t.p2
      /\ n.uniSet = t.uniSet /\ n.ev = t.ev /\ n.sent = t.sent
  BY <1>2 DEF Stations
<1> HIDE DEF n
<1>5. Leads(t, n) /\ ~Idle(n)
  BY <1>1, <1>2, <1>3, <1>4 DEF Leads, Good, Fresh, Idle, ArgsOK
<1>6. Leads(m, n)
  BY <1>1, <1>5, LeadsTransitive
<1>7. Leads(n, SendRtsSpc(n)) /\ Leads(n, SendRts(n))
      /\ Leads(n, SendUnicastDataNoAck(n, draw))
  BY <1>3, <1>5, SendRtsLeads, SendRtsSpcLeads, SendUnicastDataNoAckLeads DEF Leads
<1>8. Leads(m, SendRtsSpc(n)) /\ Leads(m, SendRts(n))
      /\ Leads(m, SendUnicastDataNoAck(n, draw))
  BY <1>6, <1>7, LeadsTransitive
<1>9. Leads(m, InitSend(m))
  BY InitSendType, SetLemma DEF Good, Fresh
<1>10. \/ s = InitSend(m)
       \/ GetSendGrantStart(m) > 0
          /\ s = Schedule(m, "BackoffGrantStart", GetBackoffGrantStart(m), NoFrame)
       \/ s = SendRtsSpc(n)
       \/ s = SendRts(n)
       \/ s = SendUnicastDataNoAck(n, draw)
  BY DEF BackoffTimeout, n, t
<1> HIDE DEF s
<1> QED
  BY <1>8, <1>9, <1>10, GrantAgainLeads DEF s

\* One more failure: a counter and the contention window, then the backoff.
LEMMA RetryLeads ==
  ASSUME NEW m \in Stations, Good(m), ~Idle(m), NEW draw \in Nat,
         NEW n \in Stations, Leads(m, n), n.p1 = m.p1, n.uniSet = m.uniSet
  PROVE  Leads(m, BackoffGrantStart(UpdateCw(n), draw))
<1> DEFINE w == UpdateCw(n)
<1>1. Leads(n, w) /\ w.p1 = n.p1 /\ w.uniSet = n.uniSet
  BY UpdateCwLeads DEF Leads
<1> HIDE DEF w
<1>2. Leads(w, BackoffGrantStart(w, draw))
  BY <1>1, BackoffGrantStartLeads DEF Leads, Idle
<1> QED
  BY <1>1, <1>2, LeadsTransitive DEF w

LEMMA CtsTimeoutLeads ==
  ASSUME NEW m \in Stations, Good(m), ~Idle(m), NEW draw \in Nat
  PROVE  Leads(m, CtsTimeout(m, draw))
<1> DEFINE i == m.rrts + 1
           n == [m EXCEPT !.rrts = @ + 1]
<1> SUFFICES ASSUME m.rrts < ResendRtsMax
             PROVE  Leads(m, BackoffGrantStart(UpdateCw(n), draw))
  BY ReleasedLeads DEF CtsTimeout
<1>0. i \in 0 .. ResendRtsMax /\ n = [m EXCEPT !.rrts = i]
  <2>1. m.rrts \in 0 .. ResendRtsMax
    BY DEF Stations
  <2>2. ResendRtsMax \in Nat
    BY TimeAssumption
  <2> QED
    BY <2>1, <2>2
<1> HIDE DEF i, n
<1>1. n \in Stations
  BY <1>0 DEF Stations
<1>2. /\ n.addr = m.addr /\ n.p1 = m.p1 /\ n.p2 = m.p2
      /\ n.uniSet = m.uniSet /\ n.q = m.q /\ n.ev = m.ev /\ n.sent = m.sent
  BY <1>0 DEF Stations
<1>3. Leads(m, n)
  BY <1>1, <1>2, SameLemma
<1> QED
  BY <1>1, <1>2, <1>3, RetryLeads

LEMMA RetryDataLeads ==
  ASSUME NEW m \in Stations, Good(m), ~Idle(m), NEW draw \in Nat,
         m.rdata < ResendDataMax
  PROVE  Leads(m, RetryData(m, draw))
<1> DEFINE i == m.rdata + 1
           n == [m EXCEPT !.rdata = @ + 1]
<1>0. i \in 0 .. ResendDataMax /\ n = [m EXCEPT !.rdata = i]
  <2>1. m.rdata \in 0 .. ResendDataMax
    BY DEF Stations
  <2>2. ResendDataMax \in Nat
    BY TimeAssumption
  <2> QED
    BY <2>1, <2>2
<1> HIDE DEF i, n
<1>1. n \in Stations
  BY <1>0 DEF Stations
<1>2. /\ n.addr = m.addr /\ n.p1 = m.p1 /\ n.p2 = m.p2
      /\ n.uniSet = m.uniSet /\ n.q = m.q /\ n.ev = m.ev /\ n.sent = m.sent
  BY <1>0 DEF Stations
<1>3. Leads(m, n)
  BY <1>1, <1>2, SameLemma
<1>4. Leads(m, BackoffGrantStart(UpdateCw(n), draw))
  BY <1>1, <1>2, <1>3, RetryLeads
<1> QED
  BY <1>4 DEF RetryData, n

LEMMA RetryUnicastLeads ==
  ASSUME NEW m \in Stations, Good(m), NEW draw \in Nat
  PROVE  Leads(m, RetryUnicast(m, draw))
<1> DEFINE n == InitSend(m)
           u == [n EXCEPT !.uni = TRUE]
<1>1. /\ n \in Stations /\ ArgsOK(n) /\ n.uniSet /\ n.addr = m.addr
      /\ n.ev = m.ev
  BY InitSendType DEF Good, Fresh
<1> HIDE DEF n
<1>2. u \in Stations
  BY <1>1 DEF Stations
<1>3. u.uniSet /\ u.addr = m.addr /\ u.ev = m.ev
  BY <1>1 DEF Stations
<1> HIDE DEF u
<1>4. Leads(m, u)
  BY <1>2, <1>3, SetLemma DEF Good, Fresh
<1>5. Leads(u, BackoffGrantStart(u, draw))
  BY <1>3, <1>4, BackoffGrantStartLeads DEF Leads, Idle
<1> QED
  BY <1>4, <1>5, LeadsTransitive DEF RetryUnicast, u, n

LEMMA AckTimeoutsLead ==
  ASSUME NEW m \in Stations, Good(m), ~Idle(m), NEW draw \in Nat
  PROVE  Leads(m, AckTimeout1(m, draw)) /\ Leads(m, AckTimeout2(m, draw))
BY RetryUnicastLeads, RetryDataLeads, ReleasedLeads DEF AckTimeout1, AckTimeout2

-----------------------------------------------------------------------------
(* Receiving.                                                              *)

LEMMA CancelLeads ==
  ASSUME NEW m \in Stations, Good(m), NEW k \in Kinds
  PROVE  LET s == Cancel(m, k)
         IN Leads(m, s) /\ s.p1 = m.p1 /\ s.p2 = m.p2 /\ s.uniSet = m.uniSet
<1> DEFINE ev == {e \in m.ev : ~(e.k = k /\ e.cur)}
           s  == Cancel(m, k)
<1>1. ev \subseteq m.ev
  OBVIOUS
<1>2. s = [m EXCEPT !.ev = ev]
  BY DEF Cancel
<1> HIDE DEF ev
<1>3. s \in Stations
  BY <1>1, <1>2 DEF Stations
<1>4. /\ s.addr = m.addr /\ s.p1 = m.p1 /\ s.p2 = m.p2
      /\ s.uniSet = m.uniSet /\ s.q = m.q /\ s.ev = ev /\ s.sent = m.sent
  BY <1>2 DEF Stations
<1> QED
  BY <1>1, <1>3, <1>4, SameLemma DEF s

LEMMA RxingLeads ==
  ASSUME NEW m \in Stations, Good(m), NEW r \in BOOLEAN
  PROVE  LET s == [m EXCEPT !.rxing = r] IN Leads(m, s) /\ s.addr = m.addr
<1> DEFINE s == [m EXCEPT !.rxing = r]
<1>1. s \in Stations
  BY DEF Stations
<1>2. /\ s.addr = m.addr /\ s.p1 = m.p1 /\ s.p2 = m.p2
      /\ s.uniSet = m.uniSet /\ s.q = m.q /\ s.ev = m.ev /\ s.sent = m.sent
  BY DEF Stations
<1> QED
  BY <1>1, <1>2, SameLemma

LEMMA LeadsRefl ==
  ASSUME NEW m \in Stations, Good(m) PROVE Leads(m, m)
BY DEF Leads

LEMMA OverhearLeads ==
  ASSUME NEW m \in Stations, Good(m), NEW f \in Frames
  PROVE  Leads(m, Overhear(m, f))
<1>1. f.dur \in Int /\ "nav" \in Causes
  BY DEF Frames, Causes
<1>2. Leads(m, SetNav(m, f.dur))
  BY <1>1, EndLeads DEF SetNav
<1>3. Overhear(m, f) = m \/ Overhear(m, f) = SetNav(m, f.dur)
  BY DEF Overhear
<1> QED
  BY <1>2, <1>3, LeadsRefl

\* An answer is promised: m_waitTime, perhaps, and the event that sends it.
LEMMA AnswerLeads ==
  ASSUME NEW m \in Stations, Good(m), NEW w \in Nat, NEW d \in Nat,
         NEW k \in ReplyKinds, NEW f \in Frames, Replies(k, f, m.addr)
  PROVE  /\ Leads(m, Schedule(WaitUntil(m, w), k, d, f))
         /\ Leads(m, Schedule(m, k, d, f))
<1> DEFINE n == WaitUntil(m, w)
           e == IF m.end["wait"] >= w THEN m.end["wait"] ELSE w
<1>1. n = [m EXCEPT !.end["wait"] = e]
  BY DEF WaitUntil
<1>2. e \in Int /\ "wait" \in Causes
  BY DEF Stations, Causes
<1> HIDE DEF e
<1>3. Leads(m, n)
  BY <1>1, <1>2, EndLeads
<1> HIDE DEF n
<1>4. k \in Kinds /\ k \notin SenderKinds /\ k # "EndReceive"
  BY SenderKindsTypes
<1>5. Leads(n, Schedule(n, k, d, f))
  BY <1>3, <1>4, ScheduleLeads DEF Leads
<1>6. Leads(m, Schedule(m, k, d, f))
  BY <1>4, ScheduleLeads
<1> QED
  BY <1>3, <1>5, <1>6, LeadsTransitive DEF n

LEMMA FrameFields ==
  ASSUME NEW f \in Frames
  PROVE  /\ f.type \in FrameTypes /\ f.a1 \in Address /\ f.a2 \in Address
         /\ f.a3 \in Address /\ f.spc \in SpcNums /\ f.dur \in Nat
BY DEF Frames

LEMMA AnswerFrame ==
  ASSUME NEW t \in Answers, NEW x \in Address, NEW n \in SpcNums, NEW d \in Nat
  PROVE  /\ Frame(t, x, NoAddr, NoAddr, n, d) \in Frames
         /\ Frame(t, x, NoAddr, NoAddr, n, d).type = t
         /\ Frame(t, x, NoAddr, NoAddr, n, d).a1 = x
<1>1. t \in FrameTypes /\ NoAddr \in Address
  BY DEF Answers, FrameTypes, Address
<1> QED
  BY <1>1, FrameType DEF Frame

LEMMA ReceiveRtsLeads ==
  ASSUME NEW m \in Stations, Good(m), NEW f \in Frames
  PROVE  Leads(m, ReceiveRts(m, f))
<1> DEFINE g == Frame("CTS", f.a2, NoAddr, NoAddr, "FIRST", Sifs + MaxProp)
           w == Sifs + CtsSendAndSifs
<1>1. w \in Nat /\ Sifs \in Nat /\ Sifs + MaxProp \in Nat
  BY DurationTypes, Sums
<1>2. g \in Frames /\ Replies("SendCtsAfterRts", g, m.addr)
  BY <1>1, FrameFields, AnswerFrame DEF Answers, SpcNums, Replies
<1> HIDE DEF g, w
<1>3. Leads(m, Schedule(WaitUntil(m, w), "SendCtsAfterRts", Sifs, g))
  BY <1>1, <1>2, AnswerLeads, SenderKindsTypes
<1> QED
  BY <1>3, LeadsRefl DEF ReceiveRts, g, w

LEMMA ReceiveRtsSpcLeads ==
  ASSUME NEW m \in Stations, Good(m), NEW f \in Frames
  PROVE  Leads(m, ReceiveRtsSpc(m, f))
<1> DEFINE g == Frame("CTS_SPC", m.addr, NoAddr, NoAddr, "FIRST", MaxProp + Sifs)
           w == Sifs + 2 * CtsSendAndSifs
           d == Sifs + CtsSendAndSifs
<1>1. w \in Nat /\ d \in Nat /\ Sifs \in Nat /\ MaxProp + Sifs \in Nat
  BY DurationTypes, Sums
<1>2. g \in Frames /\ Replies("SendCtsSpcAfterRtsSpc", g, m.addr)
  BY <1>1, StationAddresses, AnswerFrame DEF Answers, SpcNums, Replies
<1> HIDE DEF g, w, d
<1>3. /\ Leads(m, Schedule(WaitUntil(m, w), "SendCtsSpcAfterRtsSpc", Sifs, g))
      /\ Leads(m, Schedule(WaitUntil(m, w), "SendCtsSpcAfterRtsSpc", d, g))
  BY <1>1, <1>2, AnswerLeads, SenderKindsTypes
<1> QED
  BY <1>3, LeadsRefl DEF ReceiveRtsSpc, g, w, d

LEMMA ReceiveDataLeads ==
  ASSUME NEW m \in Stations, Good(m), NEW f \in Frames
  PROVE  Leads(m, ReceiveData(m, f))
<1>1. /\ Ack(f.a2, "FIRST") \in Frames
      /\ Replies("SendAckAfterData", Ack(f.a2, "FIRST"), m.addr)
  BY FrameFields, AnswerFrame DEF Answers, SpcNums, Ack, Replies
<1>2. Sifs \in Nat
  BY DurationTypes
<1>3. Leads(m, Schedule(m, "SendAckAfterData", Sifs, Ack(f.a2, "FIRST")))
  BY <1>1, <1>2, AnswerLeads, SenderKindsTypes
<1> QED
  BY <1>3, LeadsRefl DEF ReceiveData

LEMMA ReceiveDataSpcLeads ==
  ASSUME NEW m \in Stations, Good(m), NEW f \in Frames, NEW num \in SpcNums
  PROVE  Leads(m, ReceiveDataSpc(m, f, num))
<1> DEFINE g == Ack(f.a3, "FIRST")
           h == Ack(f.a3, "SECOND")
           w == 2 * AckSendAndSifs + Sifs
           d == AckSendAndSifs + Sifs
<1>1. w \in Nat /\ d \in Nat /\ Sifs \in Nat
  BY DurationTypes, Sums
<1>2. /\ g \in Frames /\ Replies("SendAckAfterData", g, m.addr)
      /\ h \in Frames /\ Replies("SendAckAfterData", h, m.addr)
  BY FrameFields, AnswerFrame DEF Answers, SpcNums, Ack, Replies
<1> HIDE DEF g, h, w, d
<1>3. /\ Leads(m, Schedule(WaitUntil(m, w), "SendAckAfterData", Sifs, g))
      /\ Leads(m, Schedule(WaitUntil(m, w), "SendAckAfterData", d, h))
  BY <1>1, <1>2, AnswerLeads, SenderKindsTypes
<1> QED
  BY <1>3, LeadsRefl DEF ReceiveDataSpc, g, h, w, d

\* An answer has come: its timer is cancelled, the data follows.
LEMMA ProceedLeads ==
  ASSUME NEW m \in Stations, Good(m), ~Idle(m), NEW k \in SenderKinds
  PROVE  Leads(m, Schedule([Cancel(m, "CtsTimeout") EXCEPT !.end["cts"] = Sifs],
                           k, Sifs, NoFrame))
<1> DEFINE n == Cancel(m, "CtsTimeout")
           s == [n EXCEPT !.end["cts"] = Sifs]
<1>1. Leads(m, n) /\ ~Idle(n)
  BY CancelLeads, SenderKindsTypes DEF Idle
<1>2. Sifs \in Nat /\ "cts" \in Causes
  BY DurationTypes, SenderKindsTypes
<1> HIDE DEF n
<1>3. Leads(n, s) /\ ~Idle(s)
  BY <1>1, <1>2, EndLeads DEF Leads, Idle
<1> HIDE DEF s
<1>4. Leads(s, Schedule(s, k, Sifs, NoFrame))
  BY <1>2, <1>3, ArmLeads DEF Leads
<1> QED
  BY <1>1, <1>3, <1>4, LeadsTransitive DEF s, n

LEMMA ReceiveCtsLeads ==
  ASSUME NEW m \in Stations, Good(m), NEW f \in Frames, f.type = "CTS",
         Idle(m) => ~CtsTo(f, m.addr)
  PROVE  Leads(m, ReceiveCts(m, f))
<1>1. CASE f.a1 # m.addr
  BY <1>1, LeadsRefl DEF ReceiveCts
<1>2. CASE f.a1 = m.addr
  <2>1. ~Idle(m)
    BY <1>2 DEF CtsTo
  <2> DEFINE s == Schedule([Cancel(m, "CtsTimeout") EXCEPT !.end["cts"] = Sifs],
                           "SendUnicastDataAfterCts", Sifs, NoFrame)
  <2>2. Leads(m, s)
    BY <2>1, ProceedLeads, SenderKindsTypes
  <2> HIDE DEF s
  <2>3. ReceiveCts(m, f) = NsAssert(m, "ReceiveCts", m.st # "SPC", s)
    BY <1>2 DEF ReceiveCts, s
  <2> QED
    BY <2>2, <2>3, FailLeads DEF Asserting
<1> QED
  BY <1>1, <1>2

LEMMA ReceiveCtsSpcLeads ==
  ASSUME NEW m \in Stations, Good(m), NEW f \in Frames
  PROVE  Leads(m, ReceiveCtsSpc(m, f))
<1> DEFINE i == m.ncts + 1
           n == [m EXCEPT !.ncts = @ + 1]
           s == Schedule([Cancel(n, "CtsTimeout") EXCEPT !.end["cts"] = Sifs],
                         "SendSpcDataAfterCtsSpc", Sifs, NoFrame)
           r == IF n.ncts = 2 THEN s ELSE n
<1>1. CASE IsExpired(m, "CtsTimeout") \/ f.a1 \notin {m.h1, m.h2}
  BY <1>1, LeadsRefl DEF ReceiveCtsSpc
<1>2. CASE ~(IsExpired(m, "CtsTimeout") \/ f.a1 \notin {m.h1, m.h2})
  <2>1. ~Idle(m)
    BY <1>2, SenderKindsTypes DEF IsExpired, Good, Fresh, Quiet
  <2>2. i \in Nat /\ n = [m EXCEPT !.ncts = i]
    BY DEF Stations
  <2> HIDE DEF i, n
  <2>3. n \in Stations
    BY <2>2 DEF Stations
  <2>4. /\ n.addr = m.addr /\ n.p1 = m.p1 /\ n.p2 = m.p2
        /\ n.uniSet = m.uniSet /\ n.q = m.q /\ n.ev = m.ev /\ n.sent = m.sent
    BY <2>2 DEF Stations
  <2>5. Leads(m, n) /\ ~Idle(n)
    BY <2>1, <2>3, <2>4, SameLemma DEF Idle
  <2>6. Leads(n, s)
    BY <2>5, ProceedLeads, SenderKindsTypes DEF Leads
  <2> HIDE DEF s
  <2>7. Leads(m, r)
    BY <2>5, <2>6, LeadsTransitive
  <2>8. ReceiveCtsSpc(m, f) = NsAssert(m, "ReceiveCtsSpc", m.st = "SPC", r)
    BY <1>2 DEF ReceiveCtsSpc, s, n
  <2> HIDE DEF r
  <2> QED
    BY <2>7, <2>8, FailLeads DEF Asserting
<1> QED
  BY <1>1, <1>2

LEMMA ReceiveAckLeads ==
  ASSUME NEW m \in Stations, Good(m), NEW f \in Frames, NEW draw \in Nat
  PROVE  Leads(m, ReceiveAck(m, f, draw))
<1> DEFINE c1 == Cancel(m, "AckTimeout1")
           c2 == Cancel(m, "AckTimeout2")
           n1 == [c1 EXCEPT !.p1 = NoPacket]
           n2 == [c2 EXCEPT !.p2 = NoPacket]
<1>1. c1 \in Stations /\ c2 \in Stations /\ ArgsOK(c1) /\ ArgsOK(c2)
      /\ c1.addr = m.addr /\ c2.addr = m.addr
  BY CancelLeads, SenderKindsTypes DEF Leads, Good, Fresh
<1>2. c1.ev \subseteq m.ev /\ c2.ev \subseteq m.ev
  BY DEF Cancel, Stations
<1> HIDE DEF c1, c2
<1>3. n1 \in Stations /\ n2 \in Stations
  <2>1. \A k \in Stations : /\ [k EXCEPT !.p1 = NoPacket] \in Stations
                            /\ [k EXCEPT !.p2 = NoPacket] \in Stations
    BY ZenonT(60) DEF Stations
  <2> QED
    BY <1>1, <2>1
<1>4. n1.addr = m.addr /\ n2.addr = m.addr /\ n1.ev = c1.ev /\ n2.ev = c2.ev
  BY <1>1 DEF Stations
<1> HIDE DEF n1, n2
<1>5. ArgsOK(n1) /\ ArgsOK(n2)
  BY <1>1, <1>4 DEF ArgsOK
<1>6. ASSUME NEW n \in {n1, n2}
      PROVE  Leads(m, StartBackoffIfNeeded(InitSend(n), draw))
  <2> DEFINE s == InitSend(n)
  <2>1. /\ s \in Stations /\ ArgsOK(s) /\ s.uniSet /\ s.addr = m.addr
        /\ s.ev \subseteq m.ev
    BY <1>2, <1>3, <1>4, <1>5, InitSendType
  <2> HIDE DEF s
  <2>2. Leads(m, s)
    BY <2>1, SetLemma DEF Good, Fresh
  <2>3. Leads(s, StartBackoffIfNeeded(s, draw))
    BY <2>1, <2>2, StartBackoffIfNeededLeads DEF Leads, Good, Idle
  <2> QED
    BY <2>2, <2>3, LeadsTransitive DEF s
<1>7. m.st \in SendStates /\ f.spc \in SpcNums
  BY FrameFields DEF Stations
<1>8. \/ ReceiveAck(m, f, draw) = m
      \/ ReceiveAck(m, f, draw) = StartBackoffIfNeeded(InitSend(n1), draw)
      \/ ReceiveAck(m, f, draw) = StartBackoffIfNeeded(InitSend(n2), draw)
  <2> DEFINE first  == m.st = "FIRST"  \/ (m.st = "SPC" /\ f.spc = "FIRST")
             second == m.st = "SECOND" \/ (m.st = "SPC" /\ f.spc = "SECOND")
             n == CASE first  -> n1
                    [] second -> n2
  <2>1. ~(first /\ second) /\ (first \/ second)
    BY <1>7 DEF SendStates, SpcNums
  <2> HIDE DEF first, second
  <2>2. n = n1 \/ n = n2
    BY <2>1
  <2>3. ReceiveAck(m, f, draw)
          = IF f.a1 = m.addr THEN StartBackoffIfNeeded(InitSend(n), draw) ELSE m
    BY DEF ReceiveAck, n1, n2, c1, c2, first, second
  <2> HIDE DEF n
  <2> QED
    BY <2>2, <2>3
<1> QED
  BY <1>6, <1>8, LeadsRefl

LEMMA ReceiveOkLeads ==
  ASSUME NEW m \in Stations, Good(m), NEW f \in Frames, NEW num \in SpcNums,
         NEW draw \in Nat, Idle(m) => ~CtsTo(f, m.addr)
  PROVE  Leads(m, ReceiveOk(m, f, num, draw))
<1> DEFINE r == [m EXCEPT !.rxing = FALSE]
           n == Overhear(r, f)
           s == ReceiveOk(m, f, num, draw)
<1>1. Leads(m, r) /\ r.addr = m.addr
  BY RxingLeads
<1> HIDE DEF r
<1>2. Leads(r, n)
  BY <1>1, OverhearLeads DEF Leads
<1> HIDE DEF n
<1>3. n \in Stations /\ Good(n) /\ n.addr = m.addr /\ (Idle(n) => Idle(m))
  BY <1>1, <1>2 DEF Leads
<1>4. s = CASE f.type = "RTS"      -> ReceiveRts(n, f)
            [] f.type = "CTS"      -> ReceiveCts(n, f)
            [] f.type = "DATA"     -> ReceiveData(n, f)
            [] f.type = "RTS_SPC"  -> ReceiveRtsSpc(n, f)
            [] f.type = "CTS_SPC"  -> ReceiveCtsSpc(n, f)
            [] f.type = "DATA_SPC" -> ReceiveDataSpc(n, f, num)
            [] f.type = "ACK"      -> ReceiveAck(n, f, draw)
  BY DEF ReceiveOk, n, r
<1> HIDE DEF s
<1>5. Leads(n, s)
  <2>1. CASE f.type = "RTS"
    BY <1>3, <1>4, <2>1, ReceiveRtsLeads
  <2>2. CASE f.type = "CTS"
    BY <1>3, <1>4, <2>2, ReceiveCtsLeads
  <2>3. CASE f.type = "DATA"
    BY <1>3, <1>4, <2>3, ReceiveDataLeads
  <2>4. CASE f.type = "RTS_SPC"
    BY <1>3, <1>4, <2>4, ReceiveRtsSpcLeads
  <2>5. CASE f.type = "CTS_SPC"
    BY <1>3, <1>4, <2>5, ReceiveCtsSpcLeads
  <2>6. CASE f.type = "DATA_SPC"
    BY <1>3, <1>4, <2>6, ReceiveDataSpcLeads
  <2>7. CASE f.type = "ACK"
    BY <1>3, <1>4, <2>7, ReceiveAckLeads
  <2> QED
    BY FrameFields, <2>1, <2>2, <2>3, <2>4, <2>5, <2>6, <2>7 DEF FrameTypes
<1> QED
  BY <1>1, <1>2, <1>5, LeadsTransitive DEF s

LEMMA EndReceiveLeads ==
  ASSUME NEW m \in Stations, Good(m), NEW f \in Frames, NEW ok1 \in BOOLEAN,
         NEW ok2 \in BOOLEAN, NEW draw \in Nat, Idle(m) => ~CtsTo(f, m.addr)
  PROVE  Leads(m, EndReceive(m, f, ok1, ok2, draw))
<1> DEFINE n == IF ok1 THEN ReceiveOk(m, f, "FIRST", draw) ELSE ReceiveError(m)
           s == IF ok2 THEN ReceiveOk(n, f, "SECOND", draw) ELSE ReceiveError(n)
<1>1. \A k \in Stations : Good(k) => Leads(k, ReceiveError(k))
  BY RxingLeads DEF ReceiveError
<1>2. Leads(m, n)
  BY <1>1, ReceiveOkLeads DEF SpcNums
<1> HIDE DEF n
<1>3. CASE f.type # "DATA_SPC"
  BY <1>2, <1>3 DEF EndReceive, n
<1>4. CASE f.type = "DATA_SPC"
  <2>1. Leads(n, s)
    BY <1>1, <1>2, <1>4, ReceiveOkLeads DEF SpcNums, Leads, CtsTo
  <2> HIDE DEF s
  <2>2. Leads(m, s)
    BY <1>2, <2>1, LeadsTransitive
  <2> QED
    BY <1>4, <2>2 DEF EndReceive, n, s
<1> QED
  BY <1>3, <1>4

LEMMA StartReceiveLeads ==
  ASSUME NEW m \in Stations, Good(m), NEW f \in Frames,
         Idle(m) => ~CtsTo(f, m.addr)
  PROVE  Leads(m, StartReceive(m, f))
<1> DEFINE n == Schedule(m, "EndReceive", AirTime(f), f)
           t == [n EXCEPT !.end["rx"] = AirTime(f)]
           s == StartReceive(m, f)
<1>1. AirTime(f) \in Nat
  BY DurationTypes
<1>2. Leads(m, n)
  BY <1>1, ScheduleLeads, SenderKindsTypes
<1> HIDE DEF n
<1>3. Leads(n, t)
  BY <1>1, <1>2, EndLeads, SenderKindsTypes DEF Leads
<1> HIDE DEF t
<1>4. t \in Stations /\ Good(t)
  BY <1>3 DEF Leads
<1>5. \A k \in Stations : /\ [k EXCEPT !.sent = NoFrame] \in Stations
                          /\ [k EXCEPT !.rxing = TRUE] \in Stations
  BY DEF Stations
<1> DEFINE u == [t EXCEPT !.sent = NoFrame]
           v == [u EXCEPT !.rxing = TRUE]
<1>6. u \in Stations
  BY <1>4, <1>5
<1>7. /\ u.addr = t.addr /\ u.p1 = t.p1 /\ u.p2 = t.p2 /\ u.uniSet = t.uniSet
      /\ u.q = t.q /\ u.ev = t.ev /\ u.sent = NoFrame
  BY <1>4 DEF Stations
<1> HIDE DEF u
<1>8. Leads(t, u)
  BY <1>4, <1>6, <1>7, SameLemma
<1>9. Leads(u, v)
  BY <1>8, RxingLeads DEF Leads
<1> HIDE DEF v
<1>10. Leads(m, v)
  BY <1>2, <1>3, <1>8, <1>9, LeadsTransitive
<1>11. s = v
  <2>1. n \in Stations
    BY <1>2 DEF Leads
  <2>2. \A k \in Stations :
          [k EXCEPT !.end["rx"] = AirTime(f), !.rxing = TRUE, !.sent = NoFrame]
            = [[[k EXCEPT !.end["rx"] = AirTime(f)] EXCEPT !.sent = NoFrame]
                 EXCEPT !.rxing = TRUE]
    BY ZenonT(60) DEF Stations
  <2> QED
    BY <2>1, <2>2 DEF StartReceive, v, u, t, n
<1> QED
  BY <1>10, <1>11

LEMMA BusyLeads ==
  ASSUME NEW m \in Stations, Good(m), NEW d \in Nat
  PROVE  Leads(m, NotifyMaybeCcaBusyStartNow(m, d))
<1> DEFINE g == GetEnergyDuration(m, d)
           e == IF g = 0 THEN m.end["busy"] ELSE g
           t == [m EXCEPT !.end["busy"] = e]
           u == [t EXCEPT !.sent = NoFrame]
<1>1. e \in Int
  <2> DEFINE ends == {d, m.end["busy"]} \cup (IF m.rxing THEN {m.end["rx"]} ELSE {})
  <2>1. m.end["busy"] \in Int /\ m.end["rx"] \in Int
    BY DEF Stations, Causes
  <2>2. \E x \in ends : \A y \in ends : y <= x
    BY <2>1
  <2>3. g \in ends \cup {0}
    BY <2>2 DEF GetEnergyDuration
  <2> QED
    BY <2>1, <2>3
<1>2. NotifyMaybeCcaBusyStartNow(m, d) = u
  BY DEF NotifyMaybeCcaBusyStartNow, Stations
<1> HIDE DEF e
<1>3. Leads(m, t)
  BY <1>1, EndLeads, SenderKindsTypes
<1>4. t \in Stations /\ Good(t)
  BY <1>3 DEF Leads
<1> HIDE DEF t
<1>5. u \in Stations
  BY <1>4 DEF Stations
<1>6. /\ u.addr = t.addr /\ u.p1 = t.p1 /\ u.p2 = t.p2 /\ u.uniSet = t.uniSet
      /\ u.q = t.q /\ u.ev = t.ev /\ u.sent = NoFrame
  BY <1>4 DEF Stations
<1> HIDE DEF u
<1>7. Leads(t, u)
  BY <1>4, <1>5, <1>6, SameLemma
<1> QED
  BY <1>2, <1>3, <1>7, LeadsTransitive

-----------------------------------------------------------------------------
(* The simulator.                                                          *)

LEMMA PopLeads ==
  ASSUME NEW m \in Stations, Good(m), NEW e \in m.ev
  PROVE  /\ Leads(m, Pop(m, e))
         /\ Idle(Pop(m, e)) = Idle(m)
         /\ Pop(m, e).addr = m.addr
<1> DEFINE ev == m.ev \ {e}
           s  == Pop(m, e)
<1>1. s = [m EXCEPT !.ev = ev, !.sent = NoFrame]
  BY DEF Pop
<1>2. ev \subseteq m.ev
  OBVIOUS
<1> HIDE DEF ev, s
<1>3. s \in Stations
  BY <1>1, <1>2 DEF Stations
<1>4. /\ s.addr = m.addr /\ s.p1 = m.p1 /\ s.p2 = m.p2 /\ s.uniSet = m.uniSet
      /\ s.q = m.q /\ s.ev = ev /\ s.sent = NoFrame
  BY <1>1 DEF Stations
<1>5. Leads(m, s)
  BY <1>2, <1>3, <1>4, SameLemma
<1>6. Idle(s) = Idle(m)
  BY <1>4 DEF Idle
<1> QED
  BY <1>4, <1>5, <1>6 DEF s

LEMMA ElapseLeads ==
  ASSUME NEW m \in Stations, Good(m), \A e \in m.ev : e.due > 0
  PROVE  Leads(m, Elapse(m))
<1> DEFINE end  == [c \in Causes |-> Saturate(m.end[c] - 1)]
           D(e) == [e EXCEPT !.due = @ - 1]
           ev   == {D(e) : e \in m.ev}
           s    == Elapse(m)
<1>1. end \in [Causes -> Int]
  <2>1. m.end \in [Causes -> Int]
    BY DEF Stations
  <2>2. \A t \in Int : Saturate(t - 1) \in Int
    BY TimeAssumption DEF Saturate
  <2>3. \A c \in Causes : Saturate(m.end[c] - 1) \in Int
    BY <2>1, <2>2
  <2> QED
    BY <2>3
<1>2. ASSUME NEW e \in m.ev
      PROVE  D(e) \in Events /\ D(e).k = e.k /\ D(e).arg = e.arg
  <2>1. e \in Events
    BY DEF Stations
  <2>2. e.due > 0 /\ e.due \in Nat
    BY <2>1 DEF Events
  <2>3. e.due - 1 \in Nat
    BY <2>2
  <2> DEFINE d == e.due - 1
  <2> HIDE DEF d
  <2>4. d \in Nat => [e EXCEPT !.due = d] \in Events
    BY <2>1 DEF Events
  <2> QED
    BY <2>1, <2>3, <2>4 DEF Events, d
<1>3. s = [m EXCEPT !.end = end, !.ev = ev, !.sent = NoFrame]
  BY DEF Elapse
<1> HIDE DEF D
<1>4. ev \subseteq Events
  BY <1>2
<1>5. \A x \in ev : \E e \in m.ev : x.k = e.k /\ x.arg = e.arg
  BY <1>2
<1> HIDE DEF end, ev, s
<1>6. s \in Stations
  BY <1>1, <1>3, <1>4 DEF Stations
<1>7. /\ s.addr = m.addr /\ s.p1 = m.p1 /\ s.p2 = m.p2 /\ s.uniSet = m.uniSet
      /\ s.q = m.q /\ s.ev = ev /\ s.sent = NoFrame
  BY <1>3 DEF Stations
<1>8. ArgsOK(s)
  BY <1>5, <1>7 DEF ArgsOK, Good, Fresh
<1>9. Idle(m) => Quiet(s)
  BY <1>5, <1>7 DEF Quiet, Good, Fresh
<1> QED
  BY <1>6, <1>7, <1>8, <1>9 DEF Leads, Good, Fresh, Idle, s

LEMMA AggregationType ==
  ASSUME NEW q \in Seq(Packets), NEW p, NEW num
  PROVE  Aggregation(q, p, num) \subseteq Seq(Packets)
<1> DEFINE match == {i \in DOMAIN q : q[i].dst = p.dst /\ q[i].port = p.port}
           cut   == {i \in match :
                       num = 0 \/ Cardinality({j \in match : j < i}) < num - 1}
           keep  == DOMAIN q \ cut
           n     == Cardinality(keep)
           G     == {g \in [1..n -> keep] : \A i \in 2..n : g[i - 1] < g[i]}
<1>1. DOMAIN q = 1 .. Len(q) /\ Len(q) \in Nat /\ \A i \in DOMAIN q : q[i] \in Packets
  OBVIOUS
<1>2. keep \subseteq DOMAIN q
  OBVIOUS
<1> HIDE DEF cut, keep
<1>3. IsFiniteSet(keep)
  <2>1. 1 \in Int /\ Len(q) \in Int
    BY <1>1
  <2>2. IsFiniteSet(1 .. Len(q))
    BY ONLY <2>1, FS_Interval
  <2>3. keep \in SUBSET (1 .. Len(q))
    BY <1>1, <1>2
  <2> QED
    BY ONLY <2>2, <2>3, FS_Subset
<1>4. n \in Nat
  BY <1>3, FS_CardinalityType
<1> HIDE DEF n
<1>5. ASSUME NEW g \in G
      PROVE  [i \in 1..n |-> q[g[i]]] \in Seq(Packets)
  <2>1. \A i \in 1..n : q[g[i]] \in Packets
    BY <1>1, <1>2
  <2> QED
    BY <1>4, <2>1
<1>6. Aggregation(q, p, num) = {[i \in 1..n |-> q[g[i]]] : g \in G}
  BY DEF Aggregation, n, keep, cut
<1> HIDE DEF G
<1> QED
  BY <1>5, <1>6

LEMMA QueuesAfterType ==
  ASSUME NEW m \in Stations, NEW n1, NEW n2
  PROVE  QueuesAfter(m, n1, n2) \subseteq Seq(Packets)
<1>1. m.q \in Seq(Packets)
  BY DEF Stations
<1>2. Aggregation(m.q, m.p1, n1) \subseteq Seq(Packets)
  BY <1>1, AggregationType
<1>3. \A r \in Aggregation(m.q, m.p1, n1) : Aggregation(r, m.p2, n2) \subseteq Seq(Packets)
  BY <1>2, AggregationType
<1> QED
  BY <1>1, <1>3 DEF QueuesAfter

-----------------------------------------------------------------------------
(*****************************************************************************)
(* No packet taken from the queue is forgotten.  Each handler either ends    *)
(* with a sender's event scheduled or with both packet slots empty; no other *)
(* event is ever taken away from it.                                         *)
(*****************************************************************************)

Covered(m) == \E e \in m.ev : e.k \in SenderKinds
Alive(m)   == m.failed = "none" /\ Held(m) => Covered(m)

\* The fields this proof is about; types do not matter to it.
Shape(m) == {"ev", "p1", "p2", "failed", "sent"} \subseteq DOMAIN m

LEMMA StationShape ==
  ASSUME NEW m \in Stations PROVE Shape(m)
BY DEF Stations, Shape

LEMMA ScheduleCovers ==
  ASSUME NEW m, Shape(m), NEW k \in SenderKinds, NEW d, NEW f
  PROVE  LET s == Schedule(m, k, d, f) IN Covered(s) /\ Shape(s)
<1> DEFINE new == [k |-> k, due |-> d, after |-> 0, cur |-> k \in Tracked, arg |-> f]
           old == {[e EXCEPT !.after = IF e.due = d THEN @ + 1 ELSE @,
                             !.cur   = @ /\ e.k # k] : e \in m.ev}
           s   == Schedule(m, k, d, f)
<1>1. new.k \in SenderKinds
  OBVIOUS
<1> HIDE DEF old, new
<1>2. s = [m EXCEPT !.ev = old \cup {new}]
  BY DEF Schedule, old, new
<1>3. s.ev = old \cup {new} /\ Shape(s)
  BY <1>2 DEF Shape
<1> QED
  BY <1>1, <1>3 DEF Covered

LEMMA BackoffCovers ==
  ASSUME NEW m, Shape(m), NEW draw
  PROVE  Covered(BackoffGrantStart(m, draw))
<1>1. Shape(SetState(m))
  BY DEF SetState, Shape
<1>2. Covered(StartBackoff(m, draw))
  BY <1>1, ScheduleCovers, SenderKindsTypes DEF StartBackoff
<1>3. Covered(Schedule(m, "BackoffGrantStart", GetBackoffGrantStart(m), NoFrame))
  BY ScheduleCovers, SenderKindsTypes
<1> QED
  BY <1>2, <1>3 DEF BackoffGrantStart

\* StartBackoffIfNeeded leaves a backoff under way, or nothing to send.
LEMMA RestartAlive ==
  ASSUME NEW m, Shape(m), NEW draw
  PROVE  Alive(StartBackoffIfNeeded(m, draw))
<1>1. CASE ~IsExpired(m, "BackoffGrantStart")
  <2>1. Covered(m)
    BY <1>1, SenderKindsTypes DEF IsExpired, Covered
  <2> QED
    BY <1>1, <2>1 DEF StartBackoffIfNeeded, Alive
<1>2. CASE IsExpired(m, "BackoffGrantStart") /\ Held(m)
  BY <1>2, BackoffCovers DEF StartBackoffIfNeeded, Alive
<1>3. CASE IsExpired(m, "BackoffGrantStart") /\ ~Held(m) /\ m.q # <<>>
  <2>1. Shape(TakePackets(m))
    BY DEF TakePackets, Shape
  <2> QED
    BY <1>3, <2>1, BackoffCovers DEF StartBackoffIfNeeded, Alive
<1>4. CASE IsExpired(m, "BackoffGrantStart") /\ ~Held(m) /\ m.q = <<>>
  BY <1>4 DEF StartBackoffIfNeeded, Alive
<1> QED
  BY <1>1, <1>2, <1>3, <1>4

LEMMA StartSendCovered ==
  ASSUME NEW m, Shape(m), Covered(m), NEW f
  PROVE  Covered(StartSend(m, f)) /\ Shape(StartSend(m, f))
<1> DEFINE ev == IF IsStateRx(m) THEN {e \in m.ev : e.k # "EndReceive"} ELSE m.ev
           s  == StartSend(m, f)
<1>1. \A e \in m.ev : e.k \in SenderKinds => e \in ev
  BY SenderKindsTypes
<1> HIDE DEF ev
<1>2. s.ev = ev /\ Shape(s)
  BY DEF StartSend, Shape, ev
<1> QED
  BY <1>1, <1>2 DEF Covered

LEMMA AssertAlive ==
  ASSUME NEW m, Shape(m), NEW a \in Asserting, NEW ok, NEW s, ok => Alive(s)
  PROVE  Alive(NsAssert(m, a, ok, s))
<1>1. [m EXCEPT !.failed = a].failed = a
  BY DEF Shape
<1>2. a # "none"
  BY DEF Asserting
<1> QED
  BY <1>1, <1>2 DEF NsAssert, Alive

-----------------------------------------------------------------------------
(* The handlers of the sender's own events.                                *)

\* A timer is armed, the frame sent.
LEMMA ArmAndSendCovers ==
  ASSUME NEW m, Shape(m), NEW k \in SenderKinds, NEW d, NEW c, NEW f
  PROVE  /\ Covered(StartSend([Schedule(m, k, d, NoFrame) EXCEPT !.end[c] = d], f))
         /\ Covered(StartSend(Schedule([m EXCEPT !.end[c] = d], k, d, NoFrame), f))
<1> DEFINE n1 == Schedule(m, k, d, NoFrame)
           s1 == [n1 EXCEPT !.end[c] = d]
           n2 == [m EXCEPT !.end[c] = d]
           s2 == Schedule(n2, k, d, NoFrame)
<1>1. Covered(n1) /\ Shape(n1)
  BY ScheduleCovers
<1>2. Shape(n2)
  BY DEF Shape
<1> HIDE DEF n1, n2
<1>3. Covered(s1) /\ Shape(s1)
  BY <1>1 DEF Covered, Shape
<1>4. Covered(s2) /\ Shape(s2)
  BY <1>2, ScheduleCovers
<1> HIDE DEF s1, s2
<1>5. Covered(StartSend(s1, f)) /\ Covered(StartSend(s2, f))
  BY <1>3, <1>4, StartSendCovered
<1> QED
  BY <1>5 DEF s1, s2, n1, n2

LEMMA SendRtsAlive ==
  ASSUME NEW m, Shape(m) PROVE Alive(SendRts(m)) /\ Alive(SendRtsSpc(m))
<1> DEFINE d == RtsSendAndSifs + CtsSendAndSifs
           f == Frame("RTS", CurrentAddr(m), m.addr, NoAddr, "FIRST", CtsSendAndSifs)
           s == StartSend([Schedule(m, "CtsTimeout", d, NoFrame) EXCEPT !.end["cts"] = d], f)
           c == RtsSendAndSifs + 2 * CtsSendAndSifs
           g == Frame("RTS_SPC", m.h1, m.h2, NoAddr, "FIRST", 2 * CtsSendAndSifs)
           n == [m EXCEPT !.ncts = 0]
           r == StartSend([Schedule(n, "CtsTimeout", c, NoFrame) EXCEPT !.end["cts"] = c], g)
<1>1. Shape(n)
  BY DEF Shape
<1> HIDE DEF d, f, c, g, n
<1>2. Covered(s) /\ Covered(r)
  BY <1>1, ArmAndSendCovers, SenderKindsTypes
<1> HIDE DEF s, r
<1>3. Alive(s) /\ Alive(r)
  BY <1>2 DEF Alive
<1>4. /\ SendRts(m) = NsAssert(m, "SendRts", m.st # "SPC" /\ IsExpired(m, "CtsTimeout"), s)
      /\ SendRtsSpc(m) = NsAssert(m, "SendRtsSpc",
                                  m.st = "SPC" /\ IsExpired(m, "CtsTimeout"), r)
  BY DEF SendRts, SendRtsSpc, s, d, f, r, c, g, n
<1> QED
  BY <1>3, <1>4, AssertAlive DEF Asserting

LEMMA SendUnicastDataNoAckAlive ==
  ASSUME NEW m, Shape(m), NEW draw PROVE Alive(SendUnicastDataNoAck(m, draw))
<1> DEFINE f == Frame("DATA", CurrentAddr(m), m.addr, NoAddr, "FIRST", 0)
           t == StartSend(m, f)
           n == InitSend(t)
<1>1. Shape(t)
  BY DEF StartSend, Shape
<1> HIDE DEF t
<1>2. Shape(n)
  BY <1>1 DEF InitSend, Shape
<1> HIDE DEF n
<1>3. Shape([n EXCEPT !.p2 = NoPacket]) /\ Shape([n EXCEPT !.p1 = NoPacket])
  BY <1>2 DEF Shape
<1>4. SendUnicastDataNoAck(m, draw) =
        StartBackoffIfNeeded(IF m.st = "SECOND" THEN [n EXCEPT !.p2 = NoPacket]
                             ELSE [n EXCEPT !.p1 = NoPacket], draw)
  BY DEF SendUnicastDataNoAck, n, t
<1> QED
  BY <1>3, <1>4, RestartAlive

LEMMA SendUnicastDataAfterCtsAlive ==
  ASSUME NEW m, Shape(m) PROVE Alive(SendUnicastDataAfterCts(m))
<1> DEFINE d == DataTime + MaxProp + AckSendAndSifs
           k == IF m.st = "SECOND" THEN "AckTimeout2" ELSE "AckTimeout1"
           f == Frame("DATA", CurrentAddr(m), m.addr, NoAddr, "FIRST", AckSendAndSifs)
           s == StartSend(Schedule([m EXCEPT !.end["ack"] = d], k, d, NoFrame), f)
<1>1. k \in SenderKinds
  BY SenderKindsTypes
<1> HIDE DEF d, k, f
<1>2. Covered(s)
  BY <1>1, ArmAndSendCovers
<1> HIDE DEF s
<1>3. Alive(s)
  BY <1>2 DEF Alive
<1>4. SendUnicastDataAfterCts(m) =
        NsAssert(m, "SendUnicastDataAfterCts", m.st # "SPC" /\ IsExpired(m, k), s)
  BY DEF SendUnicastDataAfterCts, s, d, f, k
<1> QED
  BY <1>3, <1>4, AssertAlive DEF Asserting

LEMMA SendSpcDataAfterCtsSpcAlive ==
  ASSUME NEW m, Shape(m), NEW spc PROVE Alive(SendSpcDataAfterCtsSpc(m, spc))
<1> DEFINE d  == DataTime + MaxProp + 2 * AckSendAndSifs
           f  == Frame("DATA_SPC", m.h1, m.h2, m.addr, "FIRST", 2 * AckSendAndSifs)
           n  == [m EXCEPT !.end["ack"] = d]
           t1 == Schedule(n, "AckTimeout1", d, NoFrame)
           t2 == Schedule(t1, "AckTimeout2", d, NoFrame)
           u  == [m EXCEPT !.st = "FIRST"]
           r  == IF spc THEN StartSend(t2, f) ELSE SendUnicastDataAfterCts(u)
<1>1. Shape(n) /\ Shape(u)
  BY DEF Shape
<1> HIDE DEF n, u, d, f
<1>2. Shape(t1)
  BY <1>1, ScheduleCovers, SenderKindsTypes
<1> HIDE DEF t1
<1>3. Covered(t2) /\ Shape(t2)
  BY <1>2, ScheduleCovers, SenderKindsTypes
<1> HIDE DEF t2
<1>4. Covered(StartSend(t2, f))
  BY <1>3, StartSendCovered
<1>5. Alive(SendUnicastDataAfterCts(u))
  BY <1>1, SendUnicastDataAfterCtsAlive
<1>6. Alive(r)
  BY <1>4, <1>5 DEF Alive
<1> HIDE DEF r
<1>7. SendSpcDataAfterCtsSpc(m, spc) =
        NsAssert(m, "SendSpcDataAfterCtsSpc",
                 m.st = "SPC" /\ IsExpired(m, "AckTimeout1") /\ IsExpired(m, "AckTimeout2"),
                 r)
  BY DEF SendSpcDataAfterCtsSpc, r, u, t2, t1, n, d, f
<1> QED
  BY <1>6, <1>7, AssertAlive DEF Asserting

LEMMA BackoffTimeoutAlive ==
  ASSUME NEW m, Shape(m), NEW queue, NEW draw
  PROVE  Alive(BackoffTimeout(m, queue, draw))
<1> DEFINE n == [SetState(m) EXCEPT !.q = queue]
           s == BackoffTimeout(m, queue, draw)
<1>1. Shape(n)
  BY DEF SetState, Shape
<1> HIDE DEF n
<1>2. Alive(SendRtsSpc(n)) /\ Alive(SendRts(n)) /\ Alive(SendUnicastDataNoAck(n, draw))
  BY <1>1, SendRtsAlive, SendUnicastDataNoAckAlive
<1>3. Alive(Schedule(m, "BackoffGrantStart", GetBackoffGrantStart(m), NoFrame))
  BY ScheduleCovers, SenderKindsTypes DEF Alive
<1>4. ~Held(m) => Alive(InitSend(m))
  BY DEF InitSend, Held, Alive, Shape
<1>5. \/ s = InitSend(m) /\ ~Held(m)
      \/ s = Schedule(m, "BackoffGrantStart", GetBackoffGrantStart(m), NoFrame)
      \/ s = SendRtsSpc(n)
      \/ s = SendRts(n)
      \/ s = SendUnicastDataNoAck(n, draw)
  BY DEF BackoffTimeout, n
<1> HIDE DEF s
<1> QED
  BY <1>2, <1>3, <1>4, <1>5 DEF s

LEMMA TimeoutsAlive ==
  ASSUME NEW m, Shape(m), NEW draw
  PROVE  /\ Alive(CtsTimeout(m, draw))
         /\ Alive(AckTimeout1(m, draw))
         /\ Alive(AckTimeout2(m, draw))
<1> DEFINE i == InitSend(m)
           r == UpdateCw([m EXCEPT !.rrts = @ + 1])
           t == UpdateCw([m EXCEPT !.rdata = @ + 1])
<1>1. Shape(i)
  BY DEF InitSend, Shape
<1>2. Shape(r) /\ Shape(t)
  BY DEF UpdateCw, Shape
<1> HIDE DEF i, r, t
<1>3. /\ Shape([i EXCEPT !.p1 = NoPacket]) /\ Shape([i EXCEPT !.p2 = NoPacket])
      /\ Shape([i EXCEPT !.p1 = NoPacket, !.p2 = NoPacket])
      /\ Shape([i EXCEPT !.uni = TRUE])
  BY <1>1 DEF Shape
<1>4. /\ Alive(BackoffGrantStart(r, draw)) /\ Alive(BackoffGrantStart(t, draw))
      /\ Alive(BackoffGrantStart([i EXCEPT !.uni = TRUE], draw))
  BY <1>2, <1>3, BackoffCovers DEF Alive
<1>5. /\ Alive(StartBackoffIfNeeded([i EXCEPT !.p1 = NoPacket], draw))
      /\ Alive(StartBackoffIfNeeded([i EXCEPT !.p2 = NoPacket], draw))
      /\ Alive(StartBackoffIfNeeded([i EXCEPT !.p1 = NoPacket, !.p2 = NoPacket], draw))
  BY <1>3, RestartAlive
<1> QED
  BY <1>4, <1>5
     DEF CtsTimeout, AckTimeout1, AckTimeout2, RetryUnicast, RetryData, i, r, t

-----------------------------------------------------------------------------
(* The other handlers take no sender's event away, save to replace it.     *)

\* A change that keeps the packets and the events.
Same(m, s) == s.ev = m.ev /\ s.p1 = m.p1 /\ s.p2 = m.p2 /\ s.failed = m.failed

LEMMA SameAlive ==
  ASSUME NEW m, NEW s, Same(m, s), Alive(m) PROVE Alive(s)
BY DEF Same, Alive, Held, Covered

LEMMA ScheduleAlive ==
  ASSUME NEW m, Shape(m), m.ev \subseteq Events, Alive(m), NEW k, NEW d, NEW f
  PROVE  Alive(Schedule(m, k, d, f))
<1> DEFINE new  == [k |-> k, due |-> d, after |-> 0, cur |-> k \in Tracked, arg |-> f]
           F(e) == [e EXCEPT !.after = IF e.due = d THEN @ + 1 ELSE @,
                             !.cur   = @ /\ e.k # k]
           ev   == {F(e) : e \in m.ev} \cup {new}
           s    == Schedule(m, k, d, f)
<1>1. \A e \in m.ev : F(e).k = e.k
  BY DEF Events
<1>2. s = [m EXCEPT !.ev = ev]
  BY DEF Schedule
<1> HIDE DEF F, new
<1>3. Covered(m) => \E x \in ev : x.k \in SenderKinds
  BY <1>1 DEF Covered
<1> HIDE DEF ev
<1>4. s.ev = ev /\ s.p1 = m.p1 /\ s.p2 = m.p2 /\ s.failed = m.failed
  BY <1>2 DEF Shape
<1> HIDE DEF s
<1> QED
  BY <1>3, <1>4 DEF Alive, Held, Covered, s

LEMMA AnswerAlive ==
  ASSUME NEW m \in Stations, Alive(m), NEW f, NEW num
  PROVE  /\ Alive(ReceiveRts(m, f)) /\ Alive(ReceiveData(m, f))
         /\ Alive(ReceiveRtsSpc(m, f)) /\ Alive(ReceiveDataSpc(m, f, num))
<1>1. Shape(m) /\ m.ev \subseteq Events
  BY StationShape DEF Stations
<1>2. \A w : Shape(WaitUntil(m, w)) /\ Same(m, WaitUntil(m, w))
  BY <1>1 DEF WaitUntil, Shape, Same
<1>3. \A w : WaitUntil(m, w).ev \subseteq Events /\ Alive(WaitUntil(m, w))
  BY <1>1, <1>2, SameAlive DEF Same
<1>4. \A w, k, d, g : Alive(Schedule(WaitUntil(m, w), k, d, g))
  BY <1>2, <1>3, ScheduleAlive
<1>5. \A k, d, g : Alive(Schedule(m, k, d, g))
  BY <1>1, ScheduleAlive
<1> QED
  BY <1>4, <1>5 DEF ReceiveRts, ReceiveData, ReceiveRtsSpc, ReceiveDataSpc

LEMMA CancelShape ==
  ASSUME NEW m, Shape(m), NEW k PROVE Shape(Cancel(m, k))
BY DEF Cancel, Shape

LEMMA ReceiveCtsAlive ==
  ASSUME NEW m, Shape(m), Alive(m), NEW f
  PROVE  Alive(ReceiveCts(m, f)) /\ Alive(ReceiveCtsSpc(m, f))
<1> DEFINE n == [m EXCEPT !.ncts = @ + 1]
           P(x, k) == Schedule([Cancel(x, "CtsTimeout") EXCEPT !.end["cts"] = Sifs],
                               k, Sifs, NoFrame)
           c == P(m, "SendUnicastDataAfterCts")
           s == IF n.ncts = 2 THEN P(n, "SendSpcDataAfterCtsSpc") ELSE n
<1>1. ASSUME NEW x, Shape(x), NEW k \in SenderKinds
      PROVE  Alive(P(x, k))
  <2> DEFINE y == [Cancel(x, "CtsTimeout") EXCEPT !.end["cts"] = Sifs]
  <2>1. Shape(y)
    BY <1>1, CancelShape DEF Shape
  <2> HIDE DEF y
  <2>2. Covered(Schedule(y, k, Sifs, NoFrame))
    BY <2>1, ScheduleCovers
  <2> QED
    BY <2>2 DEF Alive, y
<1>2. Shape(n) /\ Same(m, n)
  BY DEF Shape, Same
<1> HIDE DEF n
<1>3. Alive(n)
  BY <1>2, SameAlive
<1>4. Alive(c) /\ Alive(s)
  BY <1>1, <1>2, <1>3, SenderKindsTypes
<1> HIDE DEF c, s
<1>5. /\ \/ ReceiveCts(m, f) = m
         \/ ReceiveCts(m, f) = NsAssert(m, "ReceiveCts", m.st # "SPC", c)
      /\ \/ ReceiveCtsSpc(m, f) = m
         \/ ReceiveCtsSpc(m, f) = NsAssert(m, "ReceiveCtsSpc", m.st = "SPC", s)
  BY DEF ReceiveCts, ReceiveCtsSpc, c, s, n
<1> QED
  BY <1>4, <1>5, AssertAlive DEF Asserting

LEMMA ReceiveAckAlive ==
  ASSUME NEW m \in Stations, Alive(m), NEW f \in Frames, NEW draw
  PROVE  Alive(ReceiveAck(m, f, draw))
<1> DEFINE first  == m.st = "FIRST"  \/ (m.st = "SPC" /\ f.spc = "FIRST")
           second == m.st = "SECOND" \/ (m.st = "SPC" /\ f.spc = "SECOND")
           n1 == [Cancel(m, "AckTimeout1") EXCEPT !.p1 = NoPacket]
           n2 == [Cancel(m, "AckTimeout2") EXCEPT !.p2 = NoPacket]
           n  == CASE first  -> n1
                   [] second -> n2
<1>1. Shape(n1) /\ Shape(n2)
  BY StationShape, CancelShape DEF Shape
<1>2. ~(first /\ second) /\ (first \/ second)
  BY FrameFields DEF Stations, SendStates, SpcNums
<1> HIDE DEF first, second, n1, n2
<1>3. Shape(n)
  BY <1>1, <1>2
<1>4. ReceiveAck(m, f, draw)
        = IF f.a1 = m.addr THEN StartBackoffIfNeeded(InitSend(n), draw) ELSE m
  BY DEF ReceiveAck, n1, n2, first, second
<1> HIDE DEF n
<1>5. Alive(StartBackoffIfNeeded(InitSend(n), draw))
  <2>1. Shape(InitSend(n))
    BY <1>3 DEF InitSend, Shape
  <2> QED
    BY <2>1, RestartAlive
<1> QED
  BY <1>4, <1>5

\* Setting m_rxing, and the reservation another frame announces.
LEMMA HeardSame ==
  ASSUME NEW m, Shape(m), NEW f
  PROVE  /\ Same(m, ReceiveError(m)) /\ Shape(ReceiveError(m))
         /\ Same(m, Overhear(m, f)) /\ Shape(Overhear(m, f))
BY DEF ReceiveError, Overhear, SetNav, Same, Shape

LEMMA ReceiveOkAlive ==
  ASSUME NEW m \in Stations, Good(m), Alive(m), NEW f \in Frames,
         NEW num \in SpcNums, NEW draw \in Nat
  PROVE  Alive(ReceiveOk(m, f, num, draw))
<1> DEFINE r == [m EXCEPT !.rxing = FALSE]
           n == Overhear(r, f)
           s == ReceiveOk(m, f, num, draw)
<1>1. Leads(m, r) /\ Same(m, r) /\ Shape(r)
  BY RxingLeads, StationShape, HeardSame DEF ReceiveError
<1> HIDE DEF r
<1>2. Leads(r, n) /\ Same(r, n) /\ Shape(n)
  BY <1>1, OverhearLeads, HeardSame DEF Leads
<1> HIDE DEF n
<1>3. n \in Stations /\ Alive(n) /\ Shape(n)
  BY <1>1, <1>2, SameAlive DEF Leads
<1>4. s = CASE f.type = "RTS"      -> ReceiveRts(n, f)
            [] f.type = "CTS"      -> ReceiveCts(n, f)
            [] f.type = "DATA"     -> ReceiveData(n, f)
            [] f.type = "RTS_SPC"  -> ReceiveRtsSpc(n, f)
            [] f.type = "CTS_SPC"  -> ReceiveCtsSpc(n, f)
            [] f.type = "DATA_SPC" -> ReceiveDataSpc(n, f, num)
            [] f.type = "ACK"      -> ReceiveAck(n, f, draw)
  BY DEF ReceiveOk, n, r
<1>5. /\ Alive(ReceiveRts(n, f)) /\ Alive(ReceiveData(n, f))
      /\ Alive(ReceiveRtsSpc(n, f)) /\ Alive(ReceiveDataSpc(n, f, num))
  BY <1>3, AnswerAlive
<1>6. Alive(ReceiveCts(n, f)) /\ Alive(ReceiveCtsSpc(n, f))
  BY <1>3, ReceiveCtsAlive
<1>7. Alive(ReceiveAck(n, f, draw))
  BY <1>3, ReceiveAckAlive
<1> HIDE DEF s
<1>8. f.type \in FrameTypes
  BY FrameFields
<1> QED
  BY <1>4, <1>5, <1>6, <1>7, <1>8 DEF s, FrameTypes

LEMMA EndReceiveAlive ==
  ASSUME NEW m \in Stations, Good(m), Alive(m), NEW f \in Frames,
         NEW ok1 \in BOOLEAN, NEW ok2 \in BOOLEAN, NEW draw \in Nat,
         Idle(m) => ~CtsTo(f, m.addr)
  PROVE  Alive(EndReceive(m, f, ok1, ok2, draw))
<1> DEFINE n == IF ok1 THEN ReceiveOk(m, f, "FIRST", draw) ELSE ReceiveError(m)
           s == IF ok2 THEN ReceiveOk(n, f, "SECOND", draw) ELSE ReceiveError(n)
<1>1. "FIRST" \in SpcNums /\ "SECOND" \in SpcNums
  BY DEF SpcNums
<1>2. n \in Stations /\ Good(n)
  BY <1>1, ReceiveOkLeads, RxingLeads DEF ReceiveError, Leads
<1>3. Alive(n)
  BY <1>1, ReceiveOkAlive, StationShape, HeardSame, SameAlive
<1> HIDE DEF n
<1>4. Alive(s)
  BY <1>1, <1>2, <1>3, ReceiveOkAlive, StationShape, HeardSame, SameAlive
<1> QED
  BY <1>3, <1>4 DEF EndReceive, n, s

LEMMA ReceptionAlive ==
  ASSUME NEW m \in Stations, Alive(m), NEW f, NEW d
  PROVE  Alive(StartReceive(m, f)) /\ Alive(NotifyMaybeCcaBusyStartNow(m, d))
<1> DEFINE n == Schedule(m, "EndReceive", AirTime(f), f)
<1>1. Shape(m) /\ m.ev \subseteq Events
  BY StationShape DEF Stations
<1>2. Alive(n)
  BY <1>1, ScheduleAlive
<1>3. Shape(n)
  BY <1>1 DEF Schedule, Shape
<1> HIDE DEF n
<1>4. Same(n, StartReceive(m, f))
  BY <1>3 DEF StartReceive, Same, Shape, n
<1>5. Same(m, NotifyMaybeCcaBusyStartNow(m, d))
  BY <1>1 DEF NotifyMaybeCcaBusyStartNow, Same, Shape
<1> QED
  BY <1>2, <1>4, <1>5, SameAlive

LEMMA ElapseAlive ==
  ASSUME NEW m \in Stations, Alive(m) PROVE Alive(Elapse(m))
<1> DEFINE D(e) == [e EXCEPT !.due = @ - 1]
           ev   == {D(e) : e \in m.ev}
           s    == Elapse(m)
<1>1. \A e \in m.ev : D(e).k = e.k
  BY DEF Stations, Events
<1>2. s.ev = ev /\ s.p1 = m.p1 /\ s.p2 = m.p2 /\ s.failed = m.failed
  BY StationShape DEF Elapse, Shape
<1> HIDE DEF D
<1>3. Covered(m) => \E x \in ev : x.k \in SenderKinds
  BY <1>1 DEF Covered
<1> QED
  BY <1>2, <1>3 DEF Alive, Held, Covered

LEMMA PopAlive ==
  ASSUME NEW m \in Stations, Alive(m), NEW e \in m.ev, e.k \notin SenderKinds
  PROVE  Alive(Pop(m, e))
<1>1. /\ Pop(m, e).ev = m.ev \ {e} /\ Pop(m, e).p1 = m.p1
      /\ Pop(m, e).p2 = m.p2 /\ Pop(m, e).failed = m.failed
  BY StationShape DEF Pop, Shape
<1> QED
  BY <1>1 DEF Alive, Held, Covered

=============================================================================
