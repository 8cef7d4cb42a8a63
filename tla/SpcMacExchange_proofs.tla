----------------------- MODULE SpcMacExchange_proofs ------------------------
(***************************************************************************)
(* TLAPS proofs about the handlers of SpcMac: what one that opens an       *)
(* exchange finds, in any environment.                                     *)
(*                                                                         *)
(* The first part is about the reply the station promised.  A promise is   *)
(* made together with an m_waitTime that lies after it; no handler brings  *)
(* m_waitTime forward, and only BackoffTimeout launches, when m_waitTime   *)
(* is over.                                                                *)
(*                                                                         *)
(* The second part is about the exchange it is engaged in: the answer it   *)
(* waits for, or the data it sends next.  Its lemmas say what each handler *)
(* does to the events of an exchange and to the packets it is about.       *)
(*                                                                         *)
(* Nothing here refers to an environment: SpcMacNode_proofs and            *)
(* SpcNetwork_proofs use it for a station among frames that come in any    *)
(* order and for stations that hear one another.  The parameter B of the   *)
(* first part bounds what another station may depend on.                   *)
(***************************************************************************)
EXTENDS SpcMac_proofs

\* A reply that the station defers its own exchanges for.
Awaited(f) == f.type \in {"CTS", "CTS_SPC"} \/ f.spc = "SECOND"
Promise(e) == e.k \in ReplyKinds /\ Awaited(e.arg)

\* What another station depends on: the frame that is being received, and the
\* CTSs that are to be sent.
View(e)   == [k |-> e.k, due |-> e.due, arg |-> e.arg]
Marked(e) == e.k = "EndReceive" \/ (e.k \in ReplyKinds /\ e.arg.type = "CTS")

\* Every promise is kept before m_waitTime, and the marked events are among
\* those of B.  What the proof needs to know of the types is part of it, so that
\* it holds in the middle of a handler too.
Deferring(m, B) ==
  /\ {"ev", "end", "sent"} \subseteq DOMAIN m
  /\ DOMAIN m.end = Causes /\ m.end["wait"] \in Int
  /\ \A e \in m.ev :
       /\ {"k", "due", "arg", "after", "cur"} \subseteq DOMAIN e
       /\ Promise(e) => e.due \in Int /\ e.due < m.end["wait"]
       /\ Marked(e) => View(e) \in B

\* A part of a handler that breaks no promise and sends nothing.
Keeps(m, s, B) == Deferring(s, B) /\ s.sent = m.sent

\* The end of a handler that breaks no promise and sends f.
Emits(s, f, B) == Deferring(s, B) /\ s.sent = f

\* A handler that breaks no promise and launches nothing.
Calm(m, B) == Deferring(m, B) /\ ~Launch(m.sent)

\* The marked events of a station are all it can be said to have marked.
MarksOf(m) == {View(e) : e \in {x \in m.ev : Marked(x)}}

LEMMA DeferringMarks ==
  ASSUME NEW B, NEW m, Deferring(m, B), NEW C, MarksOf(m) \subseteq C
  PROVE  MarksOf(m) \subseteq B /\ Deferring(m, C)
BY DEF Deferring, MarksOf

LEMMA KeepsCalm ==
  ASSUME NEW B, NEW m, Calm(m, B), NEW s, Keeps(m, s, B) PROVE Calm(s, B)
BY DEF Keeps, Calm

\* A change of what promises do not depend on.
Alike(m, s) ==
  /\ {"ev", "end", "sent"} \subseteq DOMAIN s
  /\ s.ev \subseteq m.ev /\ s.end = m.end /\ s.sent = m.sent

LEMMA AlikeKeeps ==
  ASSUME NEW B, NEW m, Deferring(m, B), NEW s, Alike(m, s) PROVE Keeps(m, s, B)
BY DEF Alike, Keeps, Deferring

LEMMA EndKeeps ==
  ASSUME NEW B, NEW m, Deferring(m, B), NEW c \in Causes \ {"wait"}, NEW d
  PROVE  Keeps(m, [m EXCEPT !.end[c] = d], B)
<1> DEFINE end == [m.end EXCEPT ![c] = d]
           s   == [m EXCEPT !.end[c] = d]
<1>1. DOMAIN end = Causes /\ end["wait"] = m.end["wait"]
  BY DEF Deferring, Causes
<1>2. /\ {"ev", "end", "sent"} \subseteq DOMAIN s
      /\ s.ev = m.ev /\ s.end = end /\ s.sent = m.sent
  BY DEF Deferring
<1> HIDE DEF end, s
<1>3. Keeps(m, s, B)
  BY <1>1, <1>2 DEF Keeps, Deferring
<1> QED
  BY <1>3 DEF s

LEMMA ScheduleKeeps ==
  ASSUME NEW B, NEW m, Deferring(m, B), NEW k, NEW d, NEW f,
         k \in ReplyKinds /\ Awaited(f) => d \in Int /\ d < m.end["wait"],
         k = "EndReceive" \/ (k \in ReplyKinds /\ f.type = "CTS") =>
           [k |-> k, due |-> d, arg |-> f] \in B
  PROVE  Keeps(m, Schedule(m, k, d, f), B)
<1> DEFINE new  == [k |-> k, due |-> d, after |-> 0, cur |-> k \in Tracked, arg |-> f]
           F(e) == [e EXCEPT !.after = IF e.due = d THEN @ + 1 ELSE @,
                             !.cur   = @ /\ e.k # k]
           ev   == {F(e) : e \in m.ev} \cup {new}
           s    == Schedule(m, k, d, f)
<1>1. ASSUME NEW e \in m.ev
      PROVE  /\ DOMAIN F(e) = DOMAIN e
             /\ F(e).k = e.k /\ F(e).due = e.due /\ F(e).arg = e.arg
  BY DEF Deferring
<1>2. /\ {"k", "due", "arg", "after", "cur"} \subseteq DOMAIN new
      /\ new.k = k /\ new.due = d /\ new.arg = f
  OBVIOUS
<1>3. s = [m EXCEPT !.ev = ev]
  BY DEF Schedule
<1> HIDE DEF F, new
<1>4. \A x \in ev : x = new \/ \E e \in m.ev :
        DOMAIN x = DOMAIN e /\ x.k = e.k /\ x.due = e.due /\ x.arg = e.arg
  BY <1>1
<1> HIDE DEF ev
<1>5. /\ {"ev", "end", "sent"} \subseteq DOMAIN s
      /\ s.ev = ev /\ s.end = m.end /\ s.sent = m.sent
  BY <1>3 DEF Deferring
<1> HIDE DEF s
<1>6. ASSUME NEW x \in ev
      PROVE  /\ {"k", "due", "arg", "after", "cur"} \subseteq DOMAIN x
             /\ Promise(x) => x.due \in Int /\ x.due < m.end["wait"]
             /\ Marked(x) => View(x) \in B
  BY <1>2, <1>4 DEF Promise, Marked, View, Deferring
<1>7. Keeps(m, s, B)
  BY <1>5, <1>6 DEF Keeps, Deferring
<1> QED
  BY <1>7 DEF s

\* An event of the sender is no promise.
LEMMA ScheduleOwnKeeps ==
  ASSUME NEW B, NEW m, Deferring(m, B), NEW k \in SenderKinds, NEW d, NEW f
  PROVE  Keeps(m, Schedule(m, k, d, f), B)
BY ScheduleKeeps, SenderKindsTypes

LEMMA StartSendDefers ==
  ASSUME NEW B, NEW m, Deferring(m, B), NEW f
  PROVE  Emits(StartSend(m, f), f, B)
<1> DEFINE ev  == IF IsStateRx(m) THEN {e \in m.ev : e.k # "EndReceive"} ELSE m.ev
           end == [c \in Causes |-> CASE c = "tx"           -> AirTime(f)
                                      [] c = "rx" /\ m.rxing -> 0
                                      [] OTHER              -> m.end[c]]
           s   == StartSend(m, f)
<1>1. ev \subseteq m.ev
  OBVIOUS
<1>2. DOMAIN end = Causes /\ end["wait"] = m.end["wait"]
  BY Zenon DEF Causes
<1>3. s = [m EXCEPT !.ev = ev, !.end = end, !.rxing = FALSE, !.sent = f]
  BY DEF StartSend
<1> HIDE DEF ev, end, s
<1>4. /\ {"ev", "end", "sent"} \subseteq DOMAIN s
      /\ s.ev = ev /\ s.end = end /\ s.sent = f
  BY <1>3 DEF Deferring
<1> QED
  BY <1>1, <1>2, <1>4 DEF Deferring, Emits, s

LEMMA AssertCalm ==
  ASSUME NEW B, NEW m, Calm(m, B), NEW a, NEW ok, NEW s, ok => Calm(s, B)
  PROVE  Calm(NsAssert(m, a, ok, s), B)
<1>1. Alike(m, [m EXCEPT !.failed = a])
  BY DEF Alike, Calm, Deferring
<1> QED
  BY <1>1, AlikeKeeps, KeepsCalm DEF NsAssert, Calm

LEMMA AssertKeeps ==
  ASSUME NEW B, NEW m, Deferring(m, B), NEW a, NEW ok, NEW s, ok => Keeps(m, s, B)
  PROVE  Keeps(m, NsAssert(m, a, ok, s), B)
<1>1. Alike(m, [m EXCEPT !.failed = a])
  BY DEF Alike, Deferring
<1> QED
  BY <1>1, AlikeKeeps DEF NsAssert

-----------------------------------------------------------------------------
(* Backoff.                                                                *)

LEMMA FieldsAlike ==
  ASSUME NEW B, NEW m, Deferring(m, B)
  PROVE  /\ Alike(m, SetState(m)) /\ Alike(m, InitSend(m)) /\ Alike(m, UpdateCw(m))
         /\ Alike(m, TakePackets(m))
         /\ \A k : Alike(m, Cancel(m, k))
<1>1. Alike(m, SetState(m)) /\ Alike(m, InitSend(m)) /\ Alike(m, UpdateCw(m))
  BY DEF Alike, Deferring, SetState, InitSend, UpdateCw
<1>2. Alike(m, TakePackets(m))
  BY DEF Alike, Deferring, TakePackets
<1>3. \A k : Alike(m, Cancel(m, k))
  BY DEF Alike, Deferring, Cancel
<1> QED
  BY <1>1, <1>2, <1>3

LEMMA FieldsKeep ==
  ASSUME NEW B, NEW m, Deferring(m, B)
  PROVE  /\ Keeps(m, SetState(m), B) /\ Keeps(m, InitSend(m), B) /\ Keeps(m, UpdateCw(m), B)
         /\ Keeps(m, TakePackets(m), B)
         /\ \A k : Keeps(m, Cancel(m, k), B)
BY FieldsAlike, AlikeKeeps

LEMMA BackoffKeeps ==
  ASSUME NEW B, NEW m, Deferring(m, B), NEW draw
  PROVE  Keeps(m, BackoffGrantStart(m, draw), B)
<1>1. Keeps(m, StartBackoff(m, draw), B)
  <2> DEFINE n == SetState(m)
  <2>1. Keeps(m, n, B)
    BY FieldsKeep
  <2> HIDE DEF n
  <2>2. Keeps(n, Schedule(n, "BackoffTimeout", draw % (m.cw + 1), NoFrame), B)
    BY <2>1, ScheduleOwnKeeps, SenderKindsTypes DEF Keeps
  <2> QED
    BY <2>1, <2>2 DEF StartBackoff, Keeps, n
<1>2. Keeps(m, Schedule(m, "BackoffGrantStart", GetBackoffGrantStart(m), NoFrame), B)
  BY ScheduleOwnKeeps, SenderKindsTypes
<1> QED
  BY <1>1, <1>2 DEF BackoffGrantStart

LEMMA RestartKeeps ==
  ASSUME NEW B, NEW m, Deferring(m, B), NEW draw
  PROVE  Keeps(m, StartBackoffIfNeeded(m, draw), B)
<1>1. Keeps(m, m, B)
  BY DEF Keeps
<1>2. Keeps(m, BackoffGrantStart(m, draw), B)
  BY BackoffKeeps
<1>3. Keeps(m, BackoffGrantStart(TakePackets(m), draw), B)
  BY FieldsKeep, BackoffKeeps DEF Keeps
<1> QED
  BY <1>1, <1>2, <1>3 DEF StartBackoffIfNeeded

\* The ways a handler releases packets.
LEMMA ReleasedKeeps ==
  ASSUME NEW B, NEW m, Deferring(m, B), NEW draw
  PROVE  /\ Keeps(m, StartBackoffIfNeeded(InitSend(m), draw), B)
         /\ Keeps(m, StartBackoffIfNeeded([InitSend(m) EXCEPT !.p1 = NoPacket], draw), B)
         /\ Keeps(m, StartBackoffIfNeeded([InitSend(m) EXCEPT !.p2 = NoPacket], draw), B)
         /\ Keeps(m, StartBackoffIfNeeded(
                       [InitSend(m) EXCEPT !.p1 = NoPacket, !.p2 = NoPacket], draw), B)
<1> DEFINE n == InitSend(m)
<1>1. Keeps(m, n, B)
  BY FieldsKeep
<1> HIDE DEF n
<1>2. /\ Alike(n, [n EXCEPT !.p1 = NoPacket])
      /\ Alike(n, [n EXCEPT !.p2 = NoPacket])
      /\ Alike(n, [n EXCEPT !.p1 = NoPacket, !.p2 = NoPacket])
  BY <1>1 DEF Alike, Keeps, Deferring
<1>3. /\ Keeps(n, [n EXCEPT !.p1 = NoPacket], B)
      /\ Keeps(n, [n EXCEPT !.p2 = NoPacket], B)
      /\ Keeps(n, [n EXCEPT !.p1 = NoPacket, !.p2 = NoPacket], B)
  BY <1>1, <1>2, AlikeKeeps DEF Keeps
<1>4. \A s : Deferring(s, B) => Keeps(s, StartBackoffIfNeeded(s, draw), B)
  BY RestartKeeps
<1>5. /\ Keeps(n, StartBackoffIfNeeded(n, draw), B)
      /\ Keeps(n, StartBackoffIfNeeded([n EXCEPT !.p1 = NoPacket], draw), B)
      /\ Keeps(n, StartBackoffIfNeeded([n EXCEPT !.p2 = NoPacket], draw), B)
      /\ Keeps(n, StartBackoffIfNeeded([n EXCEPT !.p1 = NoPacket, !.p2 = NoPacket], draw), B)
  BY <1>1, <1>3, <1>4 DEF Keeps
<1> QED
  BY <1>1, <1>5 DEF Keeps, n

LEMMA EnqueueCalm ==
  ASSUME NEW B, NEW m, Deferring(m, B), NEW p, NEW draw
  PROVE  Calm(Enqueue(m, p, draw), B)
<1> DEFINE n == [m EXCEPT !.q = IF Len(@) = QueueMax THEN @ ELSE Append(@, p),
                          !.sent = NoFrame]
<1>1. /\ {"ev", "end", "sent"} \subseteq DOMAIN n
      /\ n.ev = m.ev /\ n.end = m.end /\ n.sent = NoFrame
  BY DEF Deferring
<1> HIDE DEF n
<1>2. Calm(n, B)
  BY <1>1 DEF Calm, Deferring, Launch
<1>3. Keeps(n, StartBackoffIfNeeded(n, draw), B)
  BY <1>2, RestartKeeps DEF Calm
<1> QED
  BY <1>2, <1>3, KeepsCalm DEF Enqueue, n

-----------------------------------------------------------------------------
(* Sending.                                                                *)

LEMMA ArmDefers ==
  ASSUME NEW B, NEW m, Deferring(m, B), NEW k \in SenderKinds, NEW d,
         NEW c \in Causes \ {"wait"}, NEW f
  PROVE  /\ Emits(StartSend([Schedule(m, k, d, NoFrame) EXCEPT !.end[c] = d], f), f, B)
         /\ Emits(StartSend(Schedule([m EXCEPT !.end[c] = d], k, d, NoFrame), f), f, B)
<1> DEFINE n1 == Schedule(m, k, d, NoFrame)
           s1 == [n1 EXCEPT !.end[c] = d]
           n2 == [m EXCEPT !.end[c] = d]
           s2 == Schedule(n2, k, d, NoFrame)
<1>1. Deferring(n1, B) /\ Deferring(n2, B)
  BY ScheduleOwnKeeps, EndKeeps DEF Keeps
<1> HIDE DEF n1, n2
<1>2. Deferring(s1, B) /\ Deferring(s2, B)
  BY <1>1, ScheduleOwnKeeps, EndKeeps DEF Keeps
<1> HIDE DEF s1, s2
<1>3. Emits(StartSend(s1, f), f, B) /\ Emits(StartSend(s2, f), f, B)
  BY <1>2, StartSendDefers
<1> QED
  BY <1>3 DEF s1, s2, n1, n2

LEMMA TimerCauses ==
  {"cts", "ack"} \subseteq Causes \ {"wait"}
BY DEF Causes

\* Data of an exchange under way is no launch: the duration in it is not zero.
LEMMA DataNoLaunch ==
  ASSUME NEW x, NEW y, NEW z
  PROVE  /\ ~Launch(Frame("DATA", x, y, z, "FIRST", AckSendAndSifs))
         /\ ~Launch(Frame("DATA_SPC", x, y, z, "FIRST", 2 * AckSendAndSifs))
<1>1. AckSendAndSifs \in Nat \ {0}
  BY TimeAssumption DEF AckSendAndSifs
<1>2. 2 * AckSendAndSifs # 0
  BY <1>1
<1> QED
  BY <1>1, <1>2 DEF Launch, Frame

LEMMA SendUnicastDataAfterCtsCalm ==
  ASSUME NEW B, NEW m, Calm(m, B)
  PROVE  Calm(SendUnicastDataAfterCts(m), B)
<1> DEFINE d == DataTime + MaxProp + AckSendAndSifs
           k == IF m.st = "SECOND" THEN "AckTimeout2" ELSE "AckTimeout1"
           f == Frame("DATA", CurrentAddr(m), m.addr, NoAddr, "FIRST", AckSendAndSifs)
           s == StartSend(Schedule([m EXCEPT !.end["ack"] = d], k, d, NoFrame), f)
<1>1. k \in SenderKinds
  BY SenderKindsTypes
<1>2. ~Launch(f)
  BY DataNoLaunch
<1>3. Deferring(m, B)
  BY DEF Calm
<1> HIDE DEF d, f, k
<1>4. Emits(s, f, B)
  BY <1>1, <1>3, ArmDefers, TimerCauses
<1> HIDE DEF s
<1>5. SendUnicastDataAfterCts(m) =
        NsAssert(m, "SendUnicastDataAfterCts", m.st # "SPC" /\ IsExpired(m, k), s)
  BY DEF SendUnicastDataAfterCts, s, d, f, k
<1> QED
  BY <1>2, <1>4, <1>5, AssertCalm DEF Calm, Emits

LEMMA SendSpcDataAfterCtsSpcCalm ==
  ASSUME NEW B, NEW m, Calm(m, B), NEW spc \in BOOLEAN
  PROVE  Calm(SendSpcDataAfterCtsSpc(m, spc), B)
<1> DEFINE d  == DataTime + MaxProp + 2 * AckSendAndSifs
           f  == Frame("DATA_SPC", m.h1, m.h2, m.addr, "FIRST", 2 * AckSendAndSifs)
           n  == [m EXCEPT !.end["ack"] = d]
           t1 == Schedule(n, "AckTimeout1", d, NoFrame)
           t2 == Schedule(t1, "AckTimeout2", d, NoFrame)
           u  == [m EXCEPT !.st = "FIRST"]
           r  == IF spc THEN StartSend(t2, f) ELSE SendUnicastDataAfterCts(u)
<1>1. ~Launch(f)
  BY DataNoLaunch
<1> HIDE DEF d, f
<1>2. Deferring(n, B)
  BY EndKeeps, TimerCauses DEF Keeps, Calm
<1> HIDE DEF n
<1>3. Deferring(t1, B)
  BY <1>2, ScheduleOwnKeeps, SenderKindsTypes DEF Keeps
<1> HIDE DEF t1
<1>4. Deferring(t2, B)
  BY <1>3, ScheduleOwnKeeps, SenderKindsTypes DEF Keeps
<1> HIDE DEF t2
<1>5. Calm(StartSend(t2, f), B)
  BY <1>1, <1>4, StartSendDefers DEF Calm, Emits
<1>6. Alike(m, u)
  BY DEF Alike, Calm, Deferring
<1> HIDE DEF u
<1>7. Calm(SendUnicastDataAfterCts(u), B)
  BY <1>6, AlikeKeeps, KeepsCalm, SendUnicastDataAfterCtsCalm DEF Calm
<1>8. Calm(r, B)
  BY <1>5, <1>7
<1> HIDE DEF r
<1>9. SendSpcDataAfterCtsSpc(m, spc) =
        NsAssert(m, "SendSpcDataAfterCtsSpc",
                 m.st = "SPC" /\ IsExpired(m, "AckTimeout1") /\ IsExpired(m, "AckTimeout2"),
                 r)
  BY DEF SendSpcDataAfterCtsSpc, r, u, t2, t1, n, d, f
<1> QED
  BY <1>8, <1>9, AssertCalm

\* What BackoffTimeout sends breaks no promise that was made before.
LEMMA LaunchDefers ==
  ASSUME NEW B, NEW m, Deferring(m, B), NEW draw
  PROVE  /\ Deferring(SendRts(m), B) /\ Deferring(SendRtsSpc(m), B)
         /\ Deferring(SendUnicastDataNoAck(m, draw), B)
<1>1. Deferring(SendRts(m), B)
  <2> DEFINE d == RtsSendAndSifs + CtsSendAndSifs
             f == Frame("RTS", CurrentAddr(m), m.addr, NoAddr, "FIRST", CtsSendAndSifs)
             s == StartSend([Schedule(m, "CtsTimeout", d, NoFrame) EXCEPT !.end["cts"] = d], f)
  <2> HIDE DEF d, f
  <2>1. Deferring(s, B)
    BY ArmDefers, TimerCauses, SenderKindsTypes DEF Emits
  <2> HIDE DEF s
  <2>2. SendRts(m) = s \/ SendRts(m) = [m EXCEPT !.failed = "SendRts"]
    BY DEF SendRts, NsAssert, s, d, f
  <2>3. Alike(m, [m EXCEPT !.failed = "SendRts"])
    BY DEF Alike, Deferring
  <2> QED
    BY <2>1, <2>2, <2>3, AlikeKeeps DEF Keeps
<1>2. Deferring(SendRtsSpc(m), B)
  <2> DEFINE d == RtsSendAndSifs + 2 * CtsSendAndSifs
             f == Frame("RTS_SPC", m.h1, m.h2, NoAddr, "FIRST", 2 * CtsSendAndSifs)
             n == [m EXCEPT !.ncts = 0]
             s == StartSend([Schedule(n, "CtsTimeout", d, NoFrame) EXCEPT !.end["cts"] = d], f)
  <2>1. Alike(m, n) /\ Alike(m, [m EXCEPT !.failed = "SendRtsSpc"])
    BY DEF Alike, Deferring
  <2> HIDE DEF d, f, n
  <2>2. Deferring(n, B)
    BY <2>1, AlikeKeeps DEF Keeps
  <2>3. Deferring(s, B)
    BY <2>2, ArmDefers, TimerCauses, SenderKindsTypes DEF Emits
  <2> HIDE DEF s
  <2>4. SendRtsSpc(m) = s \/ SendRtsSpc(m) = [m EXCEPT !.failed = "SendRtsSpc"]
    BY DEF SendRtsSpc, NsAssert, s, d, f, n
  <2> QED
    BY <2>1, <2>3, <2>4, AlikeKeeps DEF Keeps
<1>3. Deferring(SendUnicastDataNoAck(m, draw), B)
  <2> DEFINE f == Frame("DATA", CurrentAddr(m), m.addr, NoAddr, "FIRST", 0)
             n == StartSend(m, f)
             s == SendUnicastDataNoAck(m, draw)
  <2> HIDE DEF f
  <2>1. Deferring(n, B)
    BY StartSendDefers DEF Emits
  <2> HIDE DEF n
  <2>2. /\ Deferring(StartBackoffIfNeeded([InitSend(n) EXCEPT !.p1 = NoPacket], draw), B)
        /\ Deferring(StartBackoffIfNeeded([InitSend(n) EXCEPT !.p2 = NoPacket], draw), B)
    BY <2>1, ReleasedKeeps DEF Keeps
  <2>3. \/ s = StartBackoffIfNeeded([InitSend(n) EXCEPT !.p1 = NoPacket], draw)
        \/ s = StartBackoffIfNeeded([InitSend(n) EXCEPT !.p2 = NoPacket], draw)
    BY DEF SendUnicastDataNoAck, n, f
  <2> HIDE DEF s
  <2>4. Deferring(s, B)
    BY <2>2, <2>3
  <2> QED
    BY <2>4 DEF s
<1> QED
  BY <1>1, <1>2, <1>3

\* It launches only when nothing is waited for.
LEMMA BackoffTimeoutDefers ==
  ASSUME NEW B, NEW m, Calm(m, B), NEW queue, NEW draw
  PROVE  LET s == BackoffTimeout(m, queue, draw)
         IN Deferring(s, B) /\ (GetSendGrantStart(m) > 0 => ~Launch(s.sent))
<1> DEFINE t == SetState(m)
           n == [t EXCEPT !.q = queue]
           g == Schedule(m, "BackoffGrantStart", GetBackoffGrantStart(m), NoFrame)
           s == BackoffTimeout(m, queue, draw)
<1>1. Deferring(t, B)
  BY FieldsKeep DEF Keeps, Calm
<1> HIDE DEF t
<1>2. Alike(t, n)
  BY <1>1 DEF Alike, Deferring
<1>3. Deferring(n, B)
  BY <1>1, <1>2, AlikeKeeps DEF Keeps
<1> HIDE DEF n
<1>4. Calm(g, B)
  BY ScheduleOwnKeeps, SenderKindsTypes, KeepsCalm DEF Calm
<1>5. Calm(InitSend(m), B)
  BY FieldsKeep, KeepsCalm DEF Calm
<1>6. Deferring(SendRtsSpc(n), B) /\ Deferring(SendRts(n), B)
      /\ Deferring(SendUnicastDataNoAck(n, draw), B)
  BY <1>3, LaunchDefers
<1> HIDE DEF g
<1>7. \/ s = InitSend(m)
      \/ s = g
      \/ /\ ~(GetSendGrantStart(m) > 0)
         /\ s \in {SendRtsSpc(n), SendRts(n), SendUnicastDataNoAck(n, draw)}
  BY DEF BackoffTimeout, g, n, t
<1> HIDE DEF s
<1>8. Deferring(s, B) /\ (GetSendGrantStart(m) > 0 => ~Launch(s.sent))
  BY <1>4, <1>5, <1>6, <1>7 DEF Calm
<1> QED
  BY <1>8 DEF s

LEMMA TimeoutsKeep ==
  ASSUME NEW B, NEW m, Deferring(m, B), NEW draw
  PROVE  /\ Keeps(m, CtsTimeout(m, draw), B)
         /\ Keeps(m, AckTimeout1(m, draw), B) /\ Keeps(m, AckTimeout2(m, draw), B)
<1> DEFINE i == InitSend(m)
           v == [i EXCEPT !.uni = TRUE]
           r == [m EXCEPT !.rrts = @ + 1]
           t == [m EXCEPT !.rdata = @ + 1]
<1>1. Keeps(m, i, B)
  BY FieldsKeep
<1> HIDE DEF i
<1>2. Alike(i, v) /\ Alike(m, r) /\ Alike(m, t)
  BY <1>1 DEF Alike, Keeps, Deferring
<1> HIDE DEF v, r, t
<1>3. Keeps(m, v, B) /\ Keeps(m, r, B) /\ Keeps(m, t, B)
  BY <1>1, <1>2, AlikeKeeps DEF Keeps
<1>4. Keeps(m, UpdateCw(r), B) /\ Keeps(m, UpdateCw(t), B)
  BY <1>3, FieldsKeep DEF Keeps
<1>5. /\ Keeps(m, BackoffGrantStart(v, draw), B)
      /\ Keeps(m, BackoffGrantStart(UpdateCw(r), draw), B)
      /\ Keeps(m, BackoffGrantStart(UpdateCw(t), draw), B)
  BY <1>3, <1>4, BackoffKeeps DEF Keeps
<1> QED
  BY <1>5, ReleasedKeeps
     DEF CtsTimeout, AckTimeout1, AckTimeout2, RetryUnicast, RetryData, v, r, t, i

-----------------------------------------------------------------------------
(* Receiving.                                                              *)

LEMMA WaitKeeps ==
  ASSUME NEW B, NEW m, Deferring(m, B), NEW w \in Int
  PROVE  LET s == WaitUntil(m, w) IN Keeps(m, s, B) /\ w <= s.end["wait"]
<1> DEFINE e   == IF m.end["wait"] >= w THEN m.end["wait"] ELSE w
           end == [m.end EXCEPT !["wait"] = e]
           s   == WaitUntil(m, w)
<1>1. e \in Int /\ w <= e /\ m.end["wait"] <= e
  BY DEF Deferring
<1>2. DOMAIN end = Causes /\ end["wait"] = e
  BY DEF Deferring, Causes
<1>3. /\ {"ev", "end", "sent"} \subseteq DOMAIN s
      /\ s.ev = m.ev /\ s.end = end /\ s.sent = m.sent
  BY DEF WaitUntil, Deferring
<1> HIDE DEF e, end, s
<1>4. \A d \in Int : d < m.end["wait"] => d < e
  BY <1>1 DEF Deferring
<1>5. Keeps(m, s, B) /\ w <= s.end["wait"]
  BY <1>1, <1>2, <1>3, <1>4 DEF Keeps, Deferring
<1> QED
  BY <1>5 DEF s

\* A reply is promised, m_waitTime set past it.
LEMMA PromiseKeeps ==
  ASSUME NEW B, NEW m, Deferring(m, B), NEW w \in Int, NEW d \in Int, d < w, NEW k, NEW f,
         k = "EndReceive" \/ (k \in ReplyKinds /\ f.type = "CTS") =>
           [k |-> k, due |-> d, arg |-> f] \in B
  PROVE  Keeps(m, Schedule(WaitUntil(m, w), k, d, f), B)
<1> DEFINE n == WaitUntil(m, w)
<1>1. Keeps(m, n, B) /\ w <= n.end["wait"]
  BY WaitKeeps
<1> HIDE DEF n
<1>2. d < n.end["wait"]
  BY <1>1 DEF Keeps, Deferring
<1>3. Keeps(n, Schedule(n, k, d, f), B)
  BY <1>1, <1>2, ScheduleKeeps DEF Keeps
<1> QED
  BY <1>1, <1>3 DEF Keeps, n

LEMMA Waits ==
  /\ {Sifs, Sifs + CtsSendAndSifs, Sifs + 2 * CtsSendAndSifs,
      AckSendAndSifs + Sifs, 2 * AckSendAndSifs + Sifs} \subseteq Int
  /\ Sifs < Sifs + CtsSendAndSifs
  /\ Sifs + CtsSendAndSifs < Sifs + 2 * CtsSendAndSifs
  /\ Sifs < 2 * AckSendAndSifs + Sifs
  /\ AckSendAndSifs + Sifs < 2 * AckSendAndSifs + Sifs
<1>1. CtsSendAndSifs \in Nat \ {0} /\ AckSendAndSifs \in Nat \ {0} /\ Sifs \in Nat
  BY TimeAssumption DEF CtsSendAndSifs, AckSendAndSifs
<1> HIDE DEF CtsSendAndSifs, AckSendAndSifs
<1> QED
  BY <1>1

\* The CTS an RTS is answered with.
CtsFor(f) == [k |-> "SendCtsAfterRts", due |-> Sifs,
              arg |-> Frame("CTS", f.a2, NoAddr, NoAddr, "FIRST", Sifs + MaxProp)]
Listed(m, f, B) == f.type = "RTS" /\ f.a1 = m.addr => CtsFor(f) \in B

LEMMA AnswerKeeps ==
  ASSUME NEW B, NEW m, Deferring(m, B), NEW f, NEW num
  PROVE  /\ (f.a1 = m.addr => CtsFor(f) \in B) => Keeps(m, ReceiveRts(m, f), B)
         /\ Keeps(m, ReceiveData(m, f), B)
         /\ Keeps(m, ReceiveRtsSpc(m, f), B) /\ Keeps(m, ReceiveDataSpc(m, f, num), B)
<1>1. Keeps(m, m, B)
  BY DEF Keeps
<1>2. Sifs + CtsSendAndSifs < Sifs + 2 * CtsSendAndSifs
      /\ Sifs < Sifs + 2 * CtsSendAndSifs
  BY Waits
<1>3. \A k \in ReplyKinds : \A g : g.type # "CTS" =>
        /\ Keeps(m, Schedule(WaitUntil(m, Sifs + 2 * CtsSendAndSifs), k, Sifs, g), B)
        /\ Keeps(m, Schedule(WaitUntil(m, Sifs + 2 * CtsSendAndSifs), k,
                             Sifs + CtsSendAndSifs, g), B)
        /\ Keeps(m, Schedule(WaitUntil(m, 2 * AckSendAndSifs + Sifs), k, Sifs, g), B)
        /\ Keeps(m, Schedule(WaitUntil(m, 2 * AckSendAndSifs + Sifs), k,
                             AckSendAndSifs + Sifs, g), B)
  BY <1>2, Waits, PromiseKeeps, SenderKindsTypes
<1>4. /\ ~Awaited(Ack(f.a2, "FIRST")) /\ Ack(f.a2, "FIRST").type # "CTS"
      /\ \A n : Ack(f.a3, n).type # "CTS"
      /\ Frame("CTS_SPC", m.addr, NoAddr, NoAddr, "FIRST", MaxProp + Sifs).type # "CTS"
  BY DEF Awaited, Ack, Frame
<1>5. Keeps(m, Schedule(m, "SendAckAfterData", Sifs, Ack(f.a2, "FIRST")), B)
  BY <1>4, ScheduleKeeps, SenderKindsTypes
<1>6. Keeps(m, ReceiveData(m, f), B)
  BY <1>1, <1>5 DEF ReceiveData
<1>7. ASSUME f.a1 = m.addr => CtsFor(f) \in B
      PROVE  Keeps(m, ReceiveRts(m, f), B)
  <2> DEFINE g == Frame("CTS", f.a2, NoAddr, NoAddr, "FIRST", Sifs + MaxProp)
  <2>1. CtsFor(f) = [k |-> "SendCtsAfterRts", due |-> Sifs, arg |-> g]
    BY DEF CtsFor
  <2> HIDE DEF g
  <2>2. CASE f.a1 = m.addr
    <3>1. Keeps(m, Schedule(WaitUntil(m, Sifs + CtsSendAndSifs), "SendCtsAfterRts", Sifs, g), B)
      BY <1>7, <2>1, <2>2, Waits, PromiseKeeps
    <3> QED
      BY <2>2, <3>1 DEF ReceiveRts, g
  <2>3. CASE f.a1 # m.addr
    BY <1>1, <2>3 DEF ReceiveRts
  <2> QED
    BY <2>2, <2>3
<1>8. Keeps(m, ReceiveRtsSpc(m, f), B) /\ Keeps(m, ReceiveDataSpc(m, f, num), B)
  BY <1>1, <1>3, <1>4, SenderKindsTypes DEF ReceiveRtsSpc, ReceiveDataSpc
<1> QED
  BY <1>6, <1>7, <1>8

LEMMA ProceedKeeps ==
  ASSUME NEW B, NEW m, Deferring(m, B), NEW k \in SenderKinds
  PROVE  Keeps(m, Schedule([Cancel(m, "CtsTimeout") EXCEPT !.end["cts"] = Sifs],
                           k, Sifs, NoFrame), B)
<1> DEFINE n == Cancel(m, "CtsTimeout")
           s == [n EXCEPT !.end["cts"] = Sifs]
<1>1. Keeps(m, n, B)
  BY FieldsKeep
<1> HIDE DEF n
<1>2. Keeps(n, s, B)
  BY <1>1, EndKeeps, TimerCauses DEF Keeps
<1> HIDE DEF s
<1>3. Keeps(s, Schedule(s, k, Sifs, NoFrame), B)
  BY <1>2, ScheduleOwnKeeps DEF Keeps
<1> QED
  BY <1>1, <1>2, <1>3 DEF Keeps, s, n

LEMMA ReceiveCtsKeeps ==
  ASSUME NEW B, NEW m, Deferring(m, B), NEW f
  PROVE  Keeps(m, ReceiveCts(m, f), B) /\ Keeps(m, ReceiveCtsSpc(m, f), B)
<1> DEFINE n == [m EXCEPT !.ncts = @ + 1]
           P(x, k) == Schedule([Cancel(x, "CtsTimeout") EXCEPT !.end["cts"] = Sifs],
                               k, Sifs, NoFrame)
           c == P(m, "SendUnicastDataAfterCts")
           s == IF n.ncts = 2 THEN P(n, "SendSpcDataAfterCtsSpc") ELSE n
<1>1. Keeps(m, m, B)
  BY DEF Keeps
<1>2. Alike(m, n)
  BY DEF Alike, Deferring
<1> HIDE DEF n
<1>3. Keeps(m, n, B)
  BY <1>2, AlikeKeeps
<1>4. Keeps(m, c, B) /\ Keeps(n, P(n, "SendSpcDataAfterCtsSpc"), B)
  BY <1>3, ProceedKeeps, SenderKindsTypes DEF Keeps
<1> HIDE DEF P
<1>5. Keeps(m, s, B)
  BY <1>3, <1>4 DEF Keeps
<1> HIDE DEF c, s
<1>6. /\ \/ ReceiveCts(m, f) = m
         \/ ReceiveCts(m, f) = NsAssert(m, "ReceiveCts", m.st # "SPC", c)
      /\ \/ ReceiveCtsSpc(m, f) = m
         \/ ReceiveCtsSpc(m, f) = NsAssert(m, "ReceiveCtsSpc", m.st = "SPC", s)
  BY DEF ReceiveCts, ReceiveCtsSpc, P, c, s, n
<1> QED
  BY <1>1, <1>4, <1>5, <1>6, AssertKeeps

LEMMA ReceiveAckKeeps ==
  ASSUME NEW B, NEW m, Deferring(m, B), m.st \in SendStates, NEW f \in Frames, NEW draw
  PROVE  Keeps(m, ReceiveAck(m, f, draw), B)
<1> DEFINE first  == m.st = "FIRST"  \/ (m.st = "SPC" /\ f.spc = "FIRST")
           second == m.st = "SECOND" \/ (m.st = "SPC" /\ f.spc = "SECOND")
           c1 == Cancel(m, "AckTimeout1")
           c2 == Cancel(m, "AckTimeout2")
           n1 == [c1 EXCEPT !.p1 = NoPacket]
           n2 == [c2 EXCEPT !.p2 = NoPacket]
           n  == CASE first  -> n1
                   [] second -> n2
<1>1. Keeps(m, c1, B) /\ Keeps(m, c2, B)
  BY FieldsKeep
<1> HIDE DEF c1, c2
<1>2. Alike(c1, n1) /\ Alike(c2, n2)
  BY <1>1 DEF Alike, Keeps, Deferring
<1> HIDE DEF n1, n2
<1>3. Keeps(m, n1, B) /\ Keeps(m, n2, B)
  BY <1>1, <1>2, AlikeKeeps DEF Keeps
<1>4. ~(first /\ second) /\ (first \/ second)
  BY FrameFields DEF SendStates, SpcNums
<1> HIDE DEF first, second
<1>5. Keeps(m, n, B)
  BY <1>3, <1>4
<1>6. ReceiveAck(m, f, draw)
        = IF f.a1 = m.addr THEN StartBackoffIfNeeded(InitSend(n), draw) ELSE m
  BY DEF ReceiveAck, n, n1, n2, c1, c2, first, second
<1> HIDE DEF n
<1>7. Keeps(n, StartBackoffIfNeeded(InitSend(n), draw), B)
  BY <1>5, ReleasedKeeps DEF Keeps
<1> QED
  BY <1>5, <1>6, <1>7 DEF Keeps

\* Setting m_rxing, and the reservation another frame announces.
LEMMA HeardKeeps ==
  ASSUME NEW B, NEW m, Deferring(m, B), NEW f
  PROVE  Keeps(m, [m EXCEPT !.rxing = FALSE], B) /\ Keeps(m, Overhear(m, f), B)
<1>1. Alike(m, [m EXCEPT !.rxing = FALSE])
  BY DEF Alike, Deferring
<1>2. "nav" \in Causes \ {"wait"}
  BY DEF Causes
<1>3. Keeps(m, SetNav(m, f.dur), B)
  BY <1>2, EndKeeps DEF SetNav
<1>4. Overhear(m, f) = m \/ Overhear(m, f) = SetNav(m, f.dur)
  BY DEF Overhear
<1>5. Keeps(m, Overhear(m, f), B)
  BY <1>3, <1>4 DEF Keeps
<1> QED
  BY <1>1, <1>5, AlikeKeeps

LEMMA ReceiveOkKeeps ==
  ASSUME NEW B, NEW m \in Stations, Good(m), Deferring(m, B), NEW f \in Frames,
         NEW num, NEW draw, Listed(m, f, B)
  PROVE  Keeps(m, ReceiveOk(m, f, num, draw), B)
<1> DEFINE r == [m EXCEPT !.rxing = FALSE]
           n == Overhear(r, f)
           s == ReceiveOk(m, f, num, draw)
<1>1. Keeps(m, r, B) /\ Leads(m, r)
  BY HeardKeeps, RxingLeads
<1> HIDE DEF r
<1>2. Keeps(r, n, B) /\ Leads(r, n)
  BY <1>1, HeardKeeps, OverhearLeads DEF Leads, Keeps
<1> HIDE DEF n
<1>3. Keeps(m, n, B) /\ Deferring(n, B) /\ n.st \in SendStates /\ n.addr = m.addr
  BY <1>1, <1>2 DEF Keeps, Leads, Stations
<1>4. s = CASE f.type = "RTS"      -> ReceiveRts(n, f)
            [] f.type = "CTS"      -> ReceiveCts(n, f)
            [] f.type = "DATA"     -> ReceiveData(n, f)
            [] f.type = "RTS_SPC"  -> ReceiveRtsSpc(n, f)
            [] f.type = "CTS_SPC"  -> ReceiveCtsSpc(n, f)
            [] f.type = "DATA_SPC" -> ReceiveDataSpc(n, f, num)
            [] f.type = "ACK"      -> ReceiveAck(n, f, draw)
  BY DEF ReceiveOk, n, r
<1>5. /\ f.type = "RTS" => Keeps(n, ReceiveRts(n, f), B)
      /\ Keeps(n, ReceiveData(n, f), B)
      /\ Keeps(n, ReceiveRtsSpc(n, f), B) /\ Keeps(n, ReceiveDataSpc(n, f, num), B)
  BY <1>3, AnswerKeeps DEF Listed
<1>6. Keeps(n, ReceiveCts(n, f), B) /\ Keeps(n, ReceiveCtsSpc(n, f), B)
  BY <1>3, ReceiveCtsKeeps
<1>7. Keeps(n, ReceiveAck(n, f, draw), B)
  BY <1>3, ReceiveAckKeeps
<1> HIDE DEF s
<1>8. f.type \in FrameTypes
  BY FrameFields
<1>9. Keeps(n, s, B)
  BY <1>4, <1>5, <1>6, <1>7, <1>8 DEF FrameTypes
<1> QED
  BY <1>3, <1>9 DEF Keeps, s

LEMMA EndReceiveKeeps ==
  ASSUME NEW B, NEW m \in Stations, Good(m), Deferring(m, B), NEW f \in Frames,
         NEW ok1 \in BOOLEAN, NEW ok2 \in BOOLEAN, NEW draw \in Nat,
         Idle(m) => ~CtsTo(f, m.addr), Listed(m, f, B)
  PROVE  Keeps(m, EndReceive(m, f, ok1, ok2, draw), B)
<1> DEFINE n == IF ok1 THEN ReceiveOk(m, f, "FIRST", draw) ELSE ReceiveError(m)
           s == IF ok2 THEN ReceiveOk(n, f, "SECOND", draw) ELSE ReceiveError(n)
<1>1. "FIRST" \in SpcNums
  BY DEF SpcNums
<1> HIDE DEF s
<1>2. n \in Stations /\ Good(n) /\ n.addr = m.addr
  <2>1. Leads(m, n)
    BY <1>1, ReceiveOkLeads, RxingLeads DEF ReceiveError
  <2> QED
    BY <2>1 DEF Leads
<1>3. Keeps(m, n, B)
  BY ReceiveOkKeeps, HeardKeeps DEF ReceiveError
<1> HIDE DEF n
<1>4. Keeps(n, s, B)
  BY <1>2, <1>3, ReceiveOkKeeps, HeardKeeps DEF ReceiveError, Keeps, Listed, s
<1> HIDE DEF s
<1>5. EndReceive(m, f, ok1, ok2, draw) = IF f.type # "DATA_SPC" THEN n ELSE s
  BY DEF EndReceive, n, s
<1> QED
  BY <1>3, <1>4, <1>5 DEF Keeps

-----------------------------------------------------------------------------
(* The simulator and the environment.                                      *)

LEMMA ReceptionCalm ==
  ASSUME NEW B, NEW m, Deferring(m, B), NEW f, NEW d
  PROVE  /\ [k |-> "EndReceive", due |-> AirTime(f), arg |-> f] \in B =>
              Calm(StartReceive(m, f), B)
         /\ Calm(NotifyMaybeCcaBusyStartNow(m, d), B)
<1> DEFINE n == Schedule(m, "EndReceive", AirTime(f), f)
           t == [n EXCEPT !.end["rx"] = AirTime(f)]
           g == GetEnergyDuration(m, d)
           u == [m EXCEPT !.end["busy"] = IF g = 0 THEN m.end["busy"] ELSE g]
           s == StartReceive(m, f)
           v == NotifyMaybeCcaBusyStartNow(m, d)
           L == [k |-> "EndReceive", due |-> AirTime(f), arg |-> f] \in B
<1>1. L => Deferring(n, B)
  BY ScheduleKeeps, SenderKindsTypes DEF Keeps
<1>2. "rx" \in Causes \ {"wait"} /\ "busy" \in Causes \ {"wait"}
  BY DEF Causes
<1>3. s = [n EXCEPT !.end["rx"] = AirTime(f), !.rxing = TRUE, !.sent = NoFrame]
  BY DEF StartReceive
<1> HIDE DEF n
<1> HIDE DEF L
<1>4. (L => Deferring(t, B)) /\ Deferring(u, B)
  BY <1>1, <1>2, EndKeeps DEF Keeps
<1>5. L => /\ {"ev", "end", "sent"} \subseteq DOMAIN s
           /\ s.ev = t.ev /\ s.end = t.end /\ s.sent = NoFrame
  BY <1>1, <1>3 DEF Deferring
<1>6. /\ {"ev", "end", "sent"} \subseteq DOMAIN v
      /\ v.ev = u.ev /\ v.end = u.end /\ v.sent = NoFrame
  BY DEF Deferring, NotifyMaybeCcaBusyStartNow
<1> HIDE DEF t, u, s, v
<1>7. (L => Calm(s, B)) /\ Calm(v, B)
  BY <1>4, <1>5, <1>6 DEF Calm, Deferring, Launch
<1> QED
  BY <1>7 DEF L, s, v

LEMMA PopCalm ==
  ASSUME NEW B, NEW m, Deferring(m, B), NEW e
  PROVE  LET s == Pop(m, e)
         IN Calm(s, B) /\ s.ev = m.ev \ {e} /\ s.end = m.end
<1> DEFINE s == Pop(m, e)
<1>1. /\ {"ev", "end", "sent"} \subseteq DOMAIN s
      /\ s.ev = m.ev \ {e} /\ s.end = m.end /\ s.sent = NoFrame
  BY DEF Pop, Deferring
<1> HIDE DEF s
<1>2. Calm(s, B)
  BY <1>1 DEF Calm, Deferring, Launch
<1> QED
  BY <1>1, <1>2 DEF s

\* Time brings a promise and m_waitTime nearer alike.
LEMMA ElapseCalm ==
  ASSUME NEW B, NEW m \in Stations, Deferring(m, B), \A e \in m.ev : e.due > 0,
         NEW C, \A e \in m.ev : Marked(e) =>
                  [k |-> e.k, due |-> e.due - 1, arg |-> e.arg] \in C
  PROVE  Calm(Elapse(m), C)
<1> DEFINE end  == [c \in Causes |-> Saturate(m.end[c] - 1)]
           D(e) == [e EXCEPT !.due = @ - 1]
           ev   == {D(e) : e \in m.ev}
           s    == Elapse(m)
<1>1. DOMAIN end = Causes /\ end["wait"] = Saturate(m.end["wait"] - 1)
  BY DEF Causes
<1>2. m.end["wait"] \in Int /\ Difs \in Nat
  BY TimeAssumption DEF Deferring
<1>3. /\ Saturate(m.end["wait"] - 1) \in Int
      /\ \A d \in Int : d > 0 /\ d < m.end["wait"]
                          => d - 1 \in Int /\ d - 1 < Saturate(m.end["wait"] - 1)
  BY <1>2 DEF Saturate
<1>4. ASSUME NEW e \in m.ev
      PROVE  /\ DOMAIN D(e) = DOMAIN e
             /\ D(e).k = e.k /\ D(e).due = e.due - 1 /\ D(e).arg = e.arg
  BY DEF Deferring
<1>5. s = [m EXCEPT !.end = end, !.ev = ev, !.sent = NoFrame]
  BY DEF Elapse
<1> HIDE DEF D
<1>6. \A x \in ev : \E e \in m.ev :
        DOMAIN x = DOMAIN e /\ x.k = e.k /\ x.due = e.due - 1 /\ x.arg = e.arg
  BY <1>4
<1> HIDE DEF ev, end
<1>7. /\ {"ev", "end", "sent"} \subseteq DOMAIN s
      /\ s.ev = ev /\ s.end = end /\ s.sent = NoFrame
  BY <1>5 DEF Deferring
<1> HIDE DEF s
<1>8. ASSUME NEW x \in ev
      PROVE  /\ {"k", "due", "arg", "after", "cur"} \subseteq DOMAIN x
             /\ Promise(x) => x.due \in Int /\ x.due < end["wait"]
             /\ Marked(x) => View(x) \in C
  <2>1. PICK e \in m.ev :
          DOMAIN x = DOMAIN e /\ x.k = e.k /\ x.due = e.due - 1 /\ x.arg = e.arg
    BY <1>6
  <2>2. e.due > 0
    OBVIOUS
  <2>3. Promise(x) => e.due \in Int /\ e.due < m.end["wait"]
    BY <2>1 DEF Promise, Deferring
  <2>4. Marked(x) => View(x) \in C
    BY <2>1 DEF Marked, View
  <2> QED
    BY <1>1, <1>3, <2>1, <2>2, <2>3, <2>4 DEF Deferring
<1>9. Calm(s, C)
  BY <1>1, <1>3, <1>7, <1>8 DEF Calm, Deferring, Launch
<1> QED
  BY <1>9 DEF s

-----------------------------------------------------------------------------

AckTimers == {"AckTimeout1", "AckTimeout2"}
Timers    == {"CtsTimeout"} \cup AckTimers
Granted   == {"SendUnicastDataAfterCts", "SendSpcDataAfterCtsSpc"}
Watched   == Waiting \cup {"EndReceive"}

\* The events of the exchange and of the reception under way, without their
\* place in the order of an instant.
Watch(m) == {View(e) : e \in {x \in m.ev : x.k \in Watched}}
Awaiting(m, k) == \E w \in Watch(m) : w.k = k

\* There is one of a kind, and the EventId member of a timer refers to it.
Single(m) ==
  /\ \A e1, e2 \in m.ev : e1.k = e2.k /\ e1.k \in Watched => e1 = e2
  /\ \A e \in m.ev : e.k \in Timers => e.cur

\* What the lemmas on handlers need to know of types, and Single.
Sound(m) ==
  /\ {"addr", "p1", "p2", "h1", "h2", "st", "uni", "uniSet", "cw", "rrts", "rdata",
      "ncts", "end", "rxing", "q", "ev", "sent", "failed"} \subseteq DOMAIN m
  /\ DOMAIN m.end = Causes
  /\ \A e \in m.ev : {"k", "due", "arg", "after", "cur"} \subseteq DOMAIN e
  /\ Single(m)

LEMMA WatchedKinds ==
  /\ Timers \subseteq Tracked /\ Timers \subseteq Watched
  /\ {"CtsTimeout", "AckTimeout1", "AckTimeout2"} \subseteq Timers
  /\ Granted \subseteq Watched /\ "EndReceive" \in Watched
  /\ {"SendUnicastDataAfterCts", "SendSpcDataAfterCtsSpc"} \subseteq Granted
  /\ "BackoffGrantStart" \notin Watched /\ "BackoffTimeout" \notin Watched
  /\ \A k \in ReplyKinds : k \notin Watched
BY DEF Timers, AckTimers, Granted, Watched, Waiting, Tracked, ReplyKinds

-----------------------------------------------------------------------------
(* The event list.                                                         *)

LEMMA WatchMembers ==
  ASSUME NEW m
  PROVE  /\ \A e \in m.ev : e.k \in Watched => View(e) \in Watch(m)
         /\ \A w \in Watch(m) : \E e \in m.ev : e.k \in Watched /\ w = View(e)
         /\ \A w \in Watch(m) : w.k \in Watched
         /\ \A k \in Watched : Awaiting(m, k) <=> \E e \in m.ev : e.k = k
<1>1. \A e : View(e).k = e.k
  BY DEF View
<1>2. \A e \in m.ev : e.k \in Watched => View(e) \in Watch(m)
  BY DEF Watch
<1>3. \A w \in Watch(m) : \E e \in m.ev : e.k \in Watched /\ w = View(e)
  BY DEF Watch
<1>4. \A k \in Watched : Awaiting(m, k) <=> \E e \in m.ev : e.k = k
  BY <1>1, <1>2, <1>3 DEF Awaiting
<1> QED
  BY <1>1, <1>2, <1>3, <1>4

LEMMA SameWatch ==
  ASSUME NEW m, NEW s, s.ev = m.ev
  PROVE  Watch(s) = Watch(m)
BY DEF Watch

\* What Schedule does to the events it finds.
LEMMA ScheduleEvents ==
  ASSUME NEW m, Sound(m), NEW k, NEW d, NEW f
  PROVE  LET s == Schedule(m, k, d, f)
         IN \E new :
              /\ s = [m EXCEPT !.ev = s.ev]
              /\ {"k", "due", "arg", "after", "cur"} \subseteq DOMAIN new
              /\ new.k = k /\ new.due = d /\ new.arg = f /\ new.cur = (k \in Tracked)
              /\ new \in s.ev
              /\ \E F : /\ \A x \in s.ev : x = new \/ \E e \in m.ev : x = F[e]
                        /\ \A e \in m.ev :
                             /\ F[e] \in s.ev /\ View(F[e]) = View(e)
                             /\ {"k", "due", "arg", "after", "cur"} \subseteq DOMAIN F[e]
                             /\ F[e].k = e.k /\ F[e].due = e.due /\ F[e].arg = e.arg
                             /\ F[e].cur = (e.cur /\ e.k # k)
<1> DEFINE new  == [k |-> k, due |-> d, after |-> 0, cur |-> k \in Tracked, arg |-> f]
           G(e) == [e EXCEPT !.after = IF e.due = d THEN @ + 1 ELSE @,
                             !.cur   = @ /\ e.k # k]
           F    == [e \in m.ev |-> G(e)]
           ev   == {G(e) : e \in m.ev} \cup {new}
           s    == Schedule(m, k, d, f)
<1>1. ASSUME NEW e \in m.ev
      PROVE  /\ {"k", "due", "arg", "after", "cur"} \subseteq DOMAIN G(e)
             /\ G(e).k = e.k /\ G(e).due = e.due /\ G(e).arg = e.arg
             /\ G(e).cur = (e.cur /\ e.k # k)
  BY DEF Sound
<1>2. /\ {"k", "due", "arg", "after", "cur"} \subseteq DOMAIN new
      /\ new.k = k /\ new.due = d /\ new.arg = f /\ new.cur = (k \in Tracked)
  OBVIOUS
<1>3. s = [m EXCEPT !.ev = ev]
  BY DEF Schedule
<1> HIDE DEF G, new
<1>4. \A e \in m.ev : F[e] = G(e)
  OBVIOUS
<1>5. /\ new \in ev /\ \A x \in ev : x = new \/ \E e \in m.ev : x = F[e]
      /\ \A e \in m.ev : F[e] \in ev
  BY <1>4
<1> HIDE DEF F, ev
<1>6. s.ev = ev /\ s = [m EXCEPT !.ev = s.ev]
  BY <1>3 DEF Sound
<1>7. \A e \in m.ev :
        /\ F[e] \in s.ev /\ View(F[e]) = View(e)
        /\ {"k", "due", "arg", "after", "cur"} \subseteq DOMAIN F[e]
        /\ F[e].k = e.k /\ F[e].due = e.due /\ F[e].arg = e.arg
        /\ F[e].cur = (e.cur /\ e.k # k)
  BY <1>1, <1>4, <1>5, <1>6 DEF View
<1> HIDE DEF s
<1>8. /\ new \in s.ev /\ \A x \in s.ev : x = new \/ \E e \in m.ev : x = F[e]
  BY <1>5, <1>6
<1> QED
  BY <1>2, <1>6, <1>7, <1>8 DEF s

\* An event of another kind is not seen.
LEMMA ScheduleOther ==
  ASSUME NEW m, Sound(m), NEW k, k \notin Watched, NEW d, NEW f
  PROVE  LET s == Schedule(m, k, d, f)
         IN Sound(s) /\ s = [m EXCEPT !.ev = s.ev] /\ Watch(s) = Watch(m)
<1> DEFINE s == Schedule(m, k, d, f)
<1>1. PICK new :
        /\ s = [m EXCEPT !.ev = s.ev]
        /\ {"k", "due", "arg", "after", "cur"} \subseteq DOMAIN new
        /\ new.k = k /\ new.due = d /\ new.arg = f /\ new.cur = (k \in Tracked)
        /\ new \in s.ev
        /\ \E F : /\ \A x \in s.ev : x = new \/ \E e \in m.ev : x = F[e]
                  /\ \A e \in m.ev :
                       /\ F[e] \in s.ev /\ View(F[e]) = View(e)
                       /\ {"k", "due", "arg", "after", "cur"} \subseteq DOMAIN F[e]
                       /\ F[e].k = e.k /\ F[e].due = e.due /\ F[e].arg = e.arg
                       /\ F[e].cur = (e.cur /\ e.k # k)
  BY ScheduleEvents
<1>2. PICK F : /\ \A x \in s.ev : x = new \/ \E e \in m.ev : x = F[e]
               /\ \A e \in m.ev :
                    /\ F[e] \in s.ev /\ View(F[e]) = View(e)
                    /\ {"k", "due", "arg", "after", "cur"} \subseteq DOMAIN F[e]
                    /\ F[e].k = e.k /\ F[e].due = e.due /\ F[e].arg = e.arg
                    /\ F[e].cur = (e.cur /\ e.k # k)
  BY <1>1
<1> HIDE DEF s
<1>3. \A w : w \in Watch(s) <=> w \in Watch(m)
  <2>1. ASSUME NEW w \in Watch(s) PROVE w \in Watch(m)
    BY <1>1, <1>2, <2>1, WatchMembers
  <2>2. ASSUME NEW w \in Watch(m) PROVE w \in Watch(s)
    BY <1>1, <1>2, <2>2, WatchMembers
  <2> QED
    BY <2>1, <2>2
<1>4. Single(s)
  <2>1. ASSUME NEW x1 \in s.ev, NEW x2 \in s.ev, x1.k = x2.k, x1.k \in Watched
        PROVE  x1 = x2
    <3>1. PICK e1 \in m.ev, e2 \in m.ev : x1 = F[e1] /\ x2 = F[e2]
      BY <1>1, <1>2, <2>1
    <3>2. e1.k = e2.k /\ e1.k \in Watched
      BY <1>2, <2>1, <3>1
    <3> QED
      BY <3>1, <3>2 DEF Sound, Single
  <2>2. ASSUME NEW x \in s.ev, x.k \in Timers PROVE x.cur
    <3>1. PICK e \in m.ev : x = F[e]
      BY <1>1, <1>2, <2>2, WatchedKinds
    <3>2. e.k \in Timers /\ e.k # k
      BY <1>2, <2>2, <3>1, WatchedKinds
    <3>3. e.cur
      BY <3>2 DEF Sound, Single
    <3> QED
      BY <1>2, <3>1, <3>2, <3>3
  <2> QED
    BY <2>1, <2>2 DEF Single
<1>5. /\ DOMAIN s = DOMAIN m /\ s.end = m.end
      /\ \A x \in s.ev : {"k", "due", "arg", "after", "cur"} \subseteq DOMAIN x
  BY <1>1, <1>2 DEF Sound
<1>6. Sound(s)
  BY <1>4, <1>5 DEF Sound
<1> QED
  BY <1>1, <1>3, <1>6 DEF s

\* An event of the exchange, or of a reception, when there is none of its kind.
LEMMA ScheduleWatched ==
  ASSUME NEW m, Sound(m), NEW k \in Watched, ~Awaiting(m, k), NEW d, NEW f
  PROVE  LET s == Schedule(m, k, d, f)
         IN /\ Sound(s) /\ s = [m EXCEPT !.ev = s.ev]
            /\ Watch(s) = Watch(m) \cup {[k |-> k, due |-> d, arg |-> f]}
<1> DEFINE s == Schedule(m, k, d, f)
           v == [k |-> k, due |-> d, arg |-> f]
<1>1. PICK new :
        /\ s = [m EXCEPT !.ev = s.ev]
        /\ {"k", "due", "arg", "after", "cur"} \subseteq DOMAIN new
        /\ new.k = k /\ new.due = d /\ new.arg = f /\ new.cur = (k \in Tracked)
        /\ new \in s.ev
        /\ \E F : /\ \A x \in s.ev : x = new \/ \E e \in m.ev : x = F[e]
                  /\ \A e \in m.ev :
                       /\ F[e] \in s.ev /\ View(F[e]) = View(e)
                       /\ {"k", "due", "arg", "after", "cur"} \subseteq DOMAIN F[e]
                       /\ F[e].k = e.k /\ F[e].due = e.due /\ F[e].arg = e.arg
                       /\ F[e].cur = (e.cur /\ e.k # k)
  BY ScheduleEvents
<1>2. PICK F : /\ \A x \in s.ev : x = new \/ \E e \in m.ev : x = F[e]
               /\ \A e \in m.ev :
                    /\ F[e] \in s.ev /\ View(F[e]) = View(e)
                    /\ {"k", "due", "arg", "after", "cur"} \subseteq DOMAIN F[e]
                    /\ F[e].k = e.k /\ F[e].due = e.due /\ F[e].arg = e.arg
                    /\ F[e].cur = (e.cur /\ e.k # k)
  BY <1>1
<1>3. View(new) = v
  BY <1>1 DEF View
<1>4. \A e \in m.ev : e.k # k
  BY WatchMembers
<1> HIDE DEF s, v
<1>5. \A w : w \in Watch(s) <=> w \in Watch(m) \/ w = v
  <2>1. ASSUME NEW w \in Watch(s) PROVE w \in Watch(m) \/ w = v
    BY <1>1, <1>2, <1>3, <2>1, WatchMembers
  <2>2. ASSUME NEW w \in Watch(m) PROVE w \in Watch(s)
    BY <1>1, <1>2, <2>2, WatchMembers
  <2>3. v \in Watch(s)
    BY <1>1, <1>3, WatchMembers
  <2> QED
    BY <2>1, <2>2, <2>3
<1>6. Single(s)
  <2>1. ASSUME NEW x1 \in s.ev, NEW x2 \in s.ev, x1.k = x2.k, x1.k \in Watched
        PROVE  x1 = x2
    <3>1. CASE x1.k = k
      <4>1. \A x \in s.ev : x.k = k => x = new
        BY <1>2, <1>4
      <4> QED
        BY <2>1, <3>1, <4>1
    <3>2. CASE x1.k # k
      <4>1. PICK e1 \in m.ev, e2 \in m.ev : x1 = F[e1] /\ x2 = F[e2]
        BY <1>1, <1>2, <2>1, <3>2
      <4>2. e1.k = e2.k /\ e1.k \in Watched
        BY <1>2, <2>1, <4>1
      <4> QED
        BY <4>1, <4>2 DEF Sound, Single
    <3> QED
      BY <3>1, <3>2
  <2>2. ASSUME NEW x \in s.ev, x.k \in Timers PROVE x.cur
    <3>1. CASE x = new
      BY <1>1, <2>2, <3>1, WatchedKinds
    <3>2. CASE x # new
      <4>1. PICK e \in m.ev : x = F[e]
        BY <1>2, <3>2
      <4>2. e.k \in Timers /\ e.k # k
        BY <1>2, <1>4, <2>2, <4>1
      <4>3. e.cur
        BY <4>2 DEF Sound, Single
      <4> QED
        BY <1>2, <4>1, <4>2, <4>3
    <3> QED
      BY <3>1, <3>2
  <2> QED
    BY <2>1, <2>2 DEF Single
<1>7. /\ DOMAIN s = DOMAIN m /\ s.end = m.end
      /\ \A x \in s.ev : {"k", "due", "arg", "after", "cur"} \subseteq DOMAIN x
  BY <1>1, <1>2 DEF Sound
<1>8. Sound(s)
  BY <1>6, <1>7 DEF Sound
<1> QED
  BY <1>1, <1>5, <1>8 DEF s, v

\* The watched events of m but those of kind k.
Without(m, k) == {w \in Watch(m) : w.k # k}

\* Some events are taken away.
LEMMA DropEvents ==
  ASSUME NEW m, Sound(m), NEW s, DOMAIN m \subseteq DOMAIN s, s.end = m.end,
         s.ev \subseteq m.ev, NEW k,
         \A e \in m.ev : e \in s.ev <=> e.k # k
  PROVE  Sound(s) /\ Watch(s) = Without(m, k)
<1>1. Sound(s)
  BY DEF Sound, Single
<1>2. \A e : View(e).k = e.k
  BY DEF View
<1>3. \A w : w \in Watch(s) <=> w \in Watch(m) /\ w.k # k
  <2>1. ASSUME NEW w \in Watch(s) PROVE w \in Watch(m) /\ w.k # k
    BY <1>2, <2>1, WatchMembers
  <2>2. ASSUME NEW w \in Watch(m), w.k # k PROVE w \in Watch(s)
    BY <1>2, <2>2, WatchMembers
  <2> QED
    BY <2>1, <2>2
<1>4. Watch(s) = Without(m, k)
  BY <1>3 DEF Without
<1> QED
  BY <1>1, <1>4

LEMMA CancelTimer ==
  ASSUME NEW m, Sound(m), NEW k \in Timers
  PROVE  LET s == Cancel(m, k)
         IN Sound(s) /\ s = [m EXCEPT !.ev = s.ev] /\ Watch(s) = Without(m, k)
<1> DEFINE ev == {e \in m.ev : ~(e.k = k /\ e.cur)}
           s  == Cancel(m, k)
<1>1. s = [m EXCEPT !.ev = ev]
  BY DEF Cancel
<1>2. \A e \in m.ev : e \in ev <=> e.k # k
  BY DEF Sound, Single
<1>3. ev \subseteq m.ev
  OBVIOUS
<1> HIDE DEF ev
<1>4. /\ s = [m EXCEPT !.ev = s.ev] /\ s.ev = ev
      /\ DOMAIN m \subseteq DOMAIN s /\ s.end = m.end
  BY <1>1 DEF Sound
<1> HIDE DEF s
<1>5. Sound(s) /\ Watch(s) = Without(m, k)
  BY <1>2, <1>3, <1>4, DropEvents
<1> QED
  BY <1>4, <1>5 DEF s

LEMMA PopEvent ==
  ASSUME NEW m, Sound(m), NEW e \in m.ev
  PROVE  LET s == Pop(m, e)
         IN /\ Sound(s) /\ s = [m EXCEPT !.ev = s.ev, !.sent = NoFrame]
            /\ Watch(s) = Without(m, e.k)
<1> DEFINE s == Pop(m, e)
<1>1. /\ s = [m EXCEPT !.ev = s.ev, !.sent = NoFrame] /\ s.ev = m.ev \ {e}
      /\ DOMAIN m \subseteq DOMAIN s /\ s.end = m.end
  BY DEF Pop, Sound
<1> HIDE DEF s
<1>2. CASE e.k \in Watched
  <2>1. \A x \in m.ev : x \in s.ev <=> x.k # e.k
    BY <1>1, <1>2 DEF Sound, Single
  <2>2. Sound(s) /\ Watch(s) = Without(m, e.k)
    BY <1>1, <2>1, DropEvents
  <2> QED
    BY <1>1, <2>2 DEF s
<1>3. CASE e.k \notin Watched
  <2>1. Sound(s)
    BY <1>1 DEF Sound, Single
  <2>2. \A w : w \in Watch(s) <=> w \in Watch(m)
    <3>1. \A x \in m.ev : x.k \in Watched => x \in s.ev
      BY <1>1, <1>3
    <3>2. s.ev \subseteq m.ev
      BY <1>1
    <3>3. ASSUME NEW w \in Watch(s) PROVE w \in Watch(m)
      BY <3>2, <3>3, WatchMembers
    <3>4. ASSUME NEW w \in Watch(m) PROVE w \in Watch(s)
      BY <3>1, <3>4, WatchMembers
    <3> QED
      BY <3>3, <3>4
  <2>3. Watch(s) = Without(m, e.k)
    BY <1>3, <2>2, WatchMembers DEF Without
  <2> QED
    BY <1>1, <2>1, <2>3 DEF s
<1> QED
  BY <1>2, <1>3

LEMMA StartSendEvents ==
  ASSUME NEW m, Sound(m), NEW f, Awaiting(m, "EndReceive") => IsStateRx(m)
  PROVE  LET s == StartSend(m, f)
         IN /\ Sound(s) /\ Watch(s) = Without(m, "EndReceive")
            /\ s = [m EXCEPT !.ev = s.ev, !.end = s.end, !.rxing = FALSE, !.sent = f]
            /\ s.end["tx"] = AirTime(f) /\ s.end["rx"] = IF m.rxing THEN 0 ELSE m.end["rx"]
            /\ \A c \in Causes \ {"tx", "rx"} : s.end[c] = m.end[c]
<1> DEFINE ev  == IF IsStateRx(m) THEN {e \in m.ev : e.k # "EndReceive"} ELSE m.ev
           end == [c \in Causes |-> CASE c = "tx"           -> AirTime(f)
                                      [] c = "rx" /\ m.rxing -> 0
                                      [] OTHER              -> m.end[c]]
           s   == StartSend(m, f)
           r   == [m EXCEPT !.ev = ev]
<1>1. s = [m EXCEPT !.ev = ev, !.end = end, !.rxing = FALSE, !.sent = f]
  BY DEF StartSend
<1>2. "tx" \in Causes /\ "rx" \in Causes
  BY DEF Causes
<1>3. /\ end["tx"] = AirTime(f) /\ end["rx"] = IF m.rxing THEN 0 ELSE m.end["rx"]
      /\ \A c \in Causes \ {"tx", "rx"} : end[c] = m.end[c]
      /\ DOMAIN end = Causes
  BY <1>2
<1>4. ev \subseteq m.ev /\ \A e \in m.ev : e \in ev <=> e.k # "EndReceive"
  BY WatchMembers, WatchedKinds
<1> HIDE DEF ev, end
<1>5. r.ev = ev /\ DOMAIN m \subseteq DOMAIN r /\ r.end = m.end
  BY DEF Sound
<1>6. Sound(r) /\ Watch(r) = Without(m, "EndReceive")
  <2> HIDE DEF r
  <2> QED
    BY <1>4, <1>5, DropEvents
<1>7. /\ s.ev = ev /\ s.end = end /\ DOMAIN s = DOMAIN r
      /\ s = [m EXCEPT !.ev = s.ev, !.end = s.end, !.rxing = FALSE, !.sent = f]
  BY <1>1 DEF Sound
<1> HIDE DEF s, r
<1>8. Watch(s) = Watch(r)
  BY <1>5, <1>7, SameWatch
<1>9. Sound(s)
  <2>1. Single(s)
    BY <1>5, <1>6, <1>7 DEF Sound, Single
  <2> QED
    BY <1>3, <1>5, <1>6, <1>7, <2>1 DEF Sound
<1> QED
  BY <1>3, <1>6, <1>7, <1>8, <1>9 DEF s

-----------------------------------------------------------------------------
(* Backoff.                                                                *)

\* A part of a handler that lets the exchange and the medium be.
Rests(m, s) ==
  /\ Sound(s) /\ Watch(s) = Watch(m)
  /\ s.addr = m.addr /\ s.end = m.end /\ s.rxing = m.rxing
  /\ s.ncts = m.ncts /\ s.sent = m.sent /\ s.failed = m.failed

Kept(m, s) == s.p1 = m.p1 /\ s.p2 = m.p2 /\ s.h1 = m.h1 /\ s.h2 = m.h2 /\ s.q = m.q

\* The packets held become x and y; if none is left, the queue is asked.
Goes(m, s, x, y) ==
  \/ /\ s.p1 = x /\ s.p2 = y
     /\ s.h1 = m.h1 /\ s.h2 = m.h2 /\ s.q = m.q
  \/ /\ x = NoPacket /\ y = NoPacket /\ m.q # <<>>
     /\ s.p1 = Head(m.q) /\ s.h1 = Head(m.q).dst
     /\ \/ s.p2 = NoPacket /\ s.h2 = m.h2 /\ s.q = Tail(m.q)
        \/ /\ Tail(m.q) # <<>>
           /\ s.p2 = Head(Tail(m.q)) /\ s.h2 = Head(Tail(m.q)).dst
           /\ s.q = Tail(Tail(m.q))

\* The backoff goes on with them.  SetState is called when the medium has been
\* free for DIFS.
Backs(m, s, x, y) ==
  /\ Rests(m, s) /\ Goes(m, s, x, y)
  /\ s.st = m.st \/ (s.st \in SendStates /\ Latest(m) + Difs <= 0)

LEMMA SameRests ==
  ASSUME NEW m, Sound(m), NEW s, DOMAIN m \subseteq DOMAIN s, s.ev = m.ev,
         s.addr = m.addr, s.end = m.end, s.rxing = m.rxing,
         s.ncts = m.ncts, s.sent = m.sent, s.failed = m.failed
  PROVE  Rests(m, s)
<1>1. Watch(s) = Watch(m)
  BY SameWatch
<1>2. Single(s)
  BY DEF Sound, Single
<1> QED
  BY <1>1, <1>2 DEF Rests, Sound

LEMMA RestsTransitive ==
  ASSUME NEW m, NEW n, NEW s, Rests(m, n), Rests(n, s) PROVE Rests(m, s)
BY DEF Rests

LEMMA LatestSame ==
  ASSUME NEW m, NEW s, s.end = m.end PROVE Latest(s) = Latest(m)
BY DEF Latest

LEMMA FieldsRest ==
  ASSUME NEW m, Sound(m)
  PROVE  /\ Rests(m, SetState(m)) /\ Kept(m, SetState(m))
         /\ SetState(m).uni = m.uni /\ SetState(m).st \in SendStates
         /\ Rests(m, UpdateCw(m)) /\ Kept(m, UpdateCw(m))
         /\ UpdateCw(m).uni = m.uni /\ UpdateCw(m).st = m.st
         /\ Rests(m, InitSend(m)) /\ Kept(m, InitSend(m))
         /\ InitSend(m).st = m.st
<1>1. /\ Rests(m, SetState(m)) /\ Kept(m, SetState(m))
      /\ SetState(m).uni = m.uni /\ SetState(m).st \in SendStates
  <2> DEFINE s == SetState(m)
  <2>1. PICK x \in SendStates : s = [m EXCEPT !.st = x]
    BY DEF SetState, SendStates
  <2> HIDE DEF s
  <2>2. Rests(m, s)
    BY <2>1, SameRests DEF Sound
  <2>3. Kept(m, s) /\ s.uni = m.uni /\ s.st \in SendStates
    BY <2>1 DEF Sound, Kept
  <2> QED
    BY <2>2, <2>3 DEF s
<1>2. /\ Rests(m, UpdateCw(m)) /\ Kept(m, UpdateCw(m))
      /\ UpdateCw(m).uni = m.uni /\ UpdateCw(m).st = m.st
  <2> DEFINE s == UpdateCw(m)
  <2>1. PICK x : s = [m EXCEPT !.cw = x]
    BY DEF UpdateCw
  <2> HIDE DEF s
  <2>2. Rests(m, s)
    BY <2>1, SameRests DEF Sound
  <2>3. Kept(m, s) /\ s.uni = m.uni /\ s.st = m.st
    BY <2>1 DEF Sound, Kept
  <2> QED
    BY <2>2, <2>3 DEF s
<1>3. /\ Rests(m, InitSend(m)) /\ Kept(m, InitSend(m))
      /\ InitSend(m).st = m.st
  <2> DEFINE s == InitSend(m)
  <2>1. s = [m EXCEPT !.rrts = 0, !.rdata = 0, !.cw = CwMin, !.uni = FALSE,
                      !.uniSet = TRUE]
    BY DEF InitSend
  <2> HIDE DEF s
  <2>2. Rests(m, s)
    BY <2>1, SameRests DEF Sound
  <2>3. Kept(m, s) /\ s.st = m.st
    BY <2>1 DEF Sound, Kept
  <2> QED
    BY <2>2, <2>3 DEF s
<1> QED
  BY <1>1, <1>2, <1>3

\* Scheduling a backoff event.
LEMMA ChainRests ==
  ASSUME NEW m, Sound(m), NEW k \in {"BackoffGrantStart", "BackoffTimeout"}, NEW d, NEW f
  PROVE  LET s == Schedule(m, k, d, f)
         IN Rests(m, s) /\ Kept(m, s) /\ s.uni = m.uni /\ s.st = m.st
<1> DEFINE s == Schedule(m, k, d, f)
<1>1. Sound(s) /\ s = [m EXCEPT !.ev = s.ev] /\ Watch(s) = Watch(m)
  BY ScheduleOther, WatchedKinds
<1> HIDE DEF s
<1>2. /\ s.addr = m.addr /\ s.end = m.end /\ s.rxing = m.rxing
      /\ s.ncts = m.ncts /\ s.sent = m.sent /\ s.failed = m.failed
  BY <1>1 DEF Sound
<1>3. Kept(m, s) /\ s.uni = m.uni /\ s.st = m.st
  BY <1>1 DEF Sound, Kept
<1> QED
  BY <1>1, <1>2, <1>3 DEF Rests, s

LEMMA BackoffBacks ==
  ASSUME NEW m, Sound(m), NEW draw
  PROVE  LET s == BackoffGrantStart(m, draw)
         IN Rests(m, s) /\ Kept(m, s) /\ s.uni = m.uni
            /\ (s.st = m.st \/ (s.st \in SendStates /\ Latest(m) + Difs <= 0))
<1> DEFINE n == SetState(m)
           b == Schedule(n, "BackoffTimeout", draw % (n.cw + 1), NoFrame)
           g == Schedule(m, "BackoffGrantStart", GetBackoffGrantStart(m), NoFrame)
           s == BackoffGrantStart(m, draw)
<1>1. Rests(m, g) /\ Kept(m, g) /\ g.uni = m.uni /\ g.st = m.st
  BY ChainRests
<1>2. Rests(m, n) /\ Kept(m, n) /\ n.uni = m.uni /\ n.st \in SendStates /\ n.cw = m.cw
  BY FieldsRest DEF SetState, Sound
<1> HIDE DEF n
<1>3. Rests(n, b) /\ Kept(n, b) /\ b.uni = n.uni /\ b.st = n.st
  BY <1>2, ChainRests DEF Rests
<1>4. s = IF Latest(m) + Difs <= 0 THEN b ELSE g
  BY <1>2 DEF BackoffGrantStart, StartBackoff, GetBackoffGrantStart, n
<1> HIDE DEF b, g, s
<1>5. Rests(m, b) /\ Kept(m, b) /\ b.uni = m.uni /\ b.st \in SendStates
  BY <1>2, <1>3, RestsTransitive DEF Kept
<1> QED
  BY <1>1, <1>4, <1>5 DEF s

LEMMA TakeRests ==
  ASSUME NEW m, Sound(m), ~Held(m), m.q # <<>>
  PROVE  LET s == TakePackets(m)
         IN Rests(m, s) /\ Goes(m, s, NoPacket, NoPacket) /\ s.uni = m.uni /\ s.st = m.st
<1> DEFINE s == TakePackets(m)
           rest == Tail(m.q)
           one  == [m EXCEPT !.p1 = Head(m.q), !.h1 = Head(m.q).dst, !.q = rest]
           two  == [one EXCEPT !.p2 = Head(rest), !.h2 = Head(rest).dst, !.q = Tail(rest)]
<1>1. m.p1 = NoPacket /\ m.p2 = NoPacket
  BY DEF Held
<1>2. s = IF rest = <<>> THEN one ELSE two
  BY DEF TakePackets
<1>3. Rests(m, one) /\ one.uni = m.uni /\ one.st = m.st
      /\ one.p1 = Head(m.q) /\ one.h1 = Head(m.q).dst /\ one.q = rest
      /\ one.p2 = m.p2 /\ one.h2 = m.h2
  BY SameRests DEF Sound
<1> HIDE DEF one
<1>4. Rests(one, two) /\ two.uni = one.uni /\ two.st = one.st
      /\ two.p1 = one.p1 /\ two.h1 = one.h1
      /\ two.p2 = Head(rest) /\ two.h2 = Head(rest).dst /\ two.q = Tail(rest)
  BY <1>3, SameRests DEF Sound, Rests
<1> HIDE DEF two, s
<1>5. Rests(m, two)
  BY <1>3, <1>4, RestsTransitive
<1> QED
  BY <1>1, <1>2, <1>3, <1>4, <1>5 DEF Goes, s

LEMMA RestartBacks ==
  ASSUME NEW m, Sound(m), NEW draw
  PROVE  LET s == StartBackoffIfNeeded(m, draw)
         IN Backs(m, s, m.p1, m.p2) /\ s.uni = m.uni
<1> DEFINE s == StartBackoffIfNeeded(m, draw)
           t == TakePackets(m)
           b == BackoffGrantStart(m, draw)
           c == BackoffGrantStart(t, draw)
<1>1. Rests(m, m) /\ Kept(m, m)
  BY DEF Rests, Kept
<1>2. /\ Rests(m, b) /\ Kept(m, b) /\ b.uni = m.uni
      /\ b.st = m.st \/ (b.st \in SendStates /\ Latest(m) + Difs <= 0)
  BY BackoffBacks
<1>3. ASSUME ~Held(m), m.q # <<>>
      PROVE  /\ Rests(m, c) /\ Goes(m, c, NoPacket, NoPacket) /\ c.uni = m.uni
             /\ c.st = m.st \/ (c.st \in SendStates /\ Latest(m) + Difs <= 0)
  <2>1. Rests(m, t) /\ Goes(m, t, NoPacket, NoPacket) /\ t.uni = m.uni /\ t.st = m.st
    BY <1>3, TakeRests
  <2> HIDE DEF t
  <2>2. /\ Rests(t, c) /\ Kept(t, c) /\ c.uni = t.uni
        /\ c.st = t.st \/ (c.st \in SendStates /\ Latest(t) + Difs <= 0)
    BY <2>1, BackoffBacks DEF Rests
  <2>3. Latest(t) = Latest(m)
    BY <2>1, LatestSame DEF Rests
  <2> HIDE DEF c
  <2>4. Goes(m, c, NoPacket, NoPacket)
    BY <2>1, <2>2 DEF Goes, Kept
  <2> QED
    BY <2>1, <2>2, <2>3, <2>4, RestsTransitive
<1>4. \/ s = m \/ s = b
      \/ s = c /\ ~Held(m) /\ m.q # <<>>
  BY DEF StartBackoffIfNeeded
<1> HIDE DEF s, b, c
<1>5. CASE s = m
  BY <1>1, <1>5 DEF Backs, Goes, Kept, s
<1>6. CASE s = b
  BY <1>2, <1>6 DEF Backs, Goes, Kept, s
<1>7. CASE s = c /\ ~Held(m) /\ m.q # <<>>
  BY <1>3, <1>7 DEF Backs, Held, s
<1> QED
  BY <1>4, <1>5, <1>6, <1>7

\* A handler releases packets; those left are x and y.
LEMMA ReleaseBacks ==
  ASSUME NEW m, Sound(m), NEW draw, NEW x, NEW y
  PROVE  /\ Backs(m, StartBackoffIfNeeded(InitSend(m), draw), m.p1, m.p2)
         /\ Backs(m, StartBackoffIfNeeded([InitSend(m) EXCEPT !.p1 = x], draw), x, m.p2)
         /\ Backs(m, StartBackoffIfNeeded([InitSend(m) EXCEPT !.p2 = y], draw), m.p1, y)
         /\ Backs(m, StartBackoffIfNeeded(
                       [InitSend(m) EXCEPT !.p1 = x, !.p2 = y], draw), x, y)
<1> DEFINE n == InitSend(m)
<1>1. Rests(m, n) /\ Kept(m, n) /\ n.st = m.st
  BY FieldsRest
<1> HIDE DEF n
<1>2. ASSUME NEW r, Rests(n, r), r.st = n.st, r.h1 = n.h1, r.h2 = n.h2, r.q = n.q
      PROVE  Backs(m, StartBackoffIfNeeded(r, draw), r.p1, r.p2)
  <2> DEFINE s == StartBackoffIfNeeded(r, draw)
  <2>1. Backs(r, s, r.p1, r.p2)
    BY <1>2, RestartBacks DEF Rests
  <2> HIDE DEF s
  <2>2. Rests(m, r) /\ Latest(r) = Latest(m)
    BY <1>1, <1>2, RestsTransitive, LatestSame DEF Rests
  <2>3. Goes(m, s, r.p1, r.p2)
    BY <1>1, <1>2, <2>1 DEF Backs, Goes, Kept
  <2>4. Rests(m, s)
    BY <2>1, <2>2, RestsTransitive DEF Backs
  <2> QED
    BY <1>1, <1>2, <2>1, <2>2, <2>3, <2>4 DEF Backs, s
<1>3. \A a, b : LET r == [n EXCEPT !.p1 = a, !.p2 = b]
                IN /\ Rests(n, r) /\ r.st = n.st /\ r.h1 = n.h1 /\ r.h2 = n.h2 /\ r.q = n.q
                   /\ r.p1 = a /\ r.p2 = b
  BY <1>1, SameRests DEF Rests, Sound
<1>4. /\ LET r == [n EXCEPT !.p1 = x]
         IN /\ Rests(n, r) /\ r.st = n.st /\ r.h1 = n.h1 /\ r.h2 = n.h2 /\ r.q = n.q
            /\ r.p1 = x /\ r.p2 = n.p2
      /\ LET r == [n EXCEPT !.p2 = y]
         IN /\ Rests(n, r) /\ r.st = n.st /\ r.h1 = n.h1 /\ r.h2 = n.h2 /\ r.q = n.q
            /\ r.p1 = n.p1 /\ r.p2 = y
  BY <1>1, SameRests DEF Rests, Sound
<1>5. Rests(n, n)
  BY <1>1 DEF Rests
<1>6. Backs(m, StartBackoffIfNeeded(n, draw), n.p1, n.p2)
  BY <1>2, <1>5
<1>7. Backs(m, StartBackoffIfNeeded([n EXCEPT !.p1 = x], draw), x, n.p2)
  BY <1>2, <1>4
<1>8. Backs(m, StartBackoffIfNeeded([n EXCEPT !.p2 = y], draw), n.p1, y)
  BY <1>2, <1>4
<1>9. Backs(m, StartBackoffIfNeeded([n EXCEPT !.p1 = x, !.p2 = y], draw), x, y)
  BY <1>2, <1>3
<1> QED
  BY <1>1, <1>6, <1>7, <1>8, <1>9 DEF Kept, n

-----------------------------------------------------------------------------
(* Timeouts, and what the application hands over.                          *)

Queued(m, p) == [m EXCEPT !.q = IF Len(@) = QueueMax THEN @ ELSE Append(@, p),
                          !.sent = NoFrame]

LEMMA EnqueueBacks ==
  ASSUME NEW m, Sound(m), NEW p, NEW draw
  PROVE  LET n == Queued(m, p)
             s == Enqueue(m, p, draw)
         IN /\ Sound(n) /\ Watch(n) = Watch(m) /\ n = [m EXCEPT !.q = n.q, !.sent = NoFrame]
            /\ n.q = (IF Len(m.q) = QueueMax THEN m.q ELSE Append(m.q, p))
            /\ Backs(n, s, m.p1, m.p2) /\ s.uni = m.uni
<1> DEFINE n == Queued(m, p)
<1>1. /\ n = [m EXCEPT !.q = n.q, !.sent = NoFrame]
      /\ n.q = (IF Len(m.q) = QueueMax THEN m.q ELSE Append(m.q, p))
  BY DEF Queued, Sound
<1> HIDE DEF n
<1>2. n.ev = m.ev /\ n.p1 = m.p1 /\ n.p2 = m.p2 /\ n.uni = m.uni
  BY <1>1 DEF Sound
<1>3. Sound(n) /\ Watch(n) = Watch(m)
  <2>1. Single(n)
    BY <1>2 DEF Sound, Single
  <2>2. DOMAIN n = DOMAIN m /\ n.end = m.end
    BY <1>1 DEF Sound
  <2> QED
    BY <1>2, <2>1, <2>2, SameWatch DEF Sound
<1>4. Backs(n, StartBackoffIfNeeded(n, draw), m.p1, m.p2)
      /\ StartBackoffIfNeeded(n, draw).uni = m.uni
  BY <1>2, <1>3, RestartBacks
<1> QED
  BY <1>1, <1>3, <1>4 DEF Enqueue, Queued, n

\* The backoff goes on, with a new count of attempts.
LEMMA RetryBacks ==
  ASSUME NEW m, Sound(m), NEW n, Rests(m, n), Kept(m, n), n.st = m.st, NEW draw
  PROVE  LET s == BackoffGrantStart(n, draw)
         IN Backs(m, s, m.p1, m.p2) /\ Kept(m, s) /\ s.uni = n.uni
<1> DEFINE s == BackoffGrantStart(n, draw)
<1>1. /\ Rests(n, s) /\ Kept(n, s) /\ s.uni = n.uni
      /\ s.st = n.st \/ (s.st \in SendStates /\ Latest(n) + Difs <= 0)
  BY BackoffBacks DEF Rests
<1>2. Latest(n) = Latest(m)
  BY LatestSame DEF Rests
<1> HIDE DEF s
<1>3. Rests(m, s) /\ Kept(m, s)
  BY <1>1, RestsTransitive DEF Kept
<1> QED
  BY <1>1, <1>2, <1>3 DEF Backs, Goes, Kept, s

LEMMA CtsTimeoutBacks ==
  ASSUME NEW m, Sound(m), NEW draw
  PROVE  LET s == CtsTimeout(m, draw)
         IN \/ Backs(m, s, m.p1, m.p2) /\ Kept(m, s) /\ s.uni = m.uni
            \/ Backs(m, s, NoPacket, NoPacket)
<1> DEFINE n == [m EXCEPT !.rrts = @ + 1]
           u == UpdateCw(n)
<1>1. Rests(m, n) /\ Kept(m, n) /\ n.st = m.st /\ n.uni = m.uni
  BY SameRests DEF Sound, Kept
<1> HIDE DEF n
<1>2. Rests(n, u) /\ Kept(n, u) /\ u.st = n.st /\ u.uni = n.uni
  BY <1>1, FieldsRest DEF Rests
<1> HIDE DEF u
<1>3. Rests(m, u) /\ Kept(m, u) /\ u.st = m.st /\ u.uni = m.uni
  BY <1>1, <1>2, RestsTransitive DEF Kept
<1>4. LET s == BackoffGrantStart(u, draw)
      IN Backs(m, s, m.p1, m.p2) /\ Kept(m, s) /\ s.uni = m.uni
  BY <1>3, RetryBacks
<1>5. Backs(m, StartBackoffIfNeeded(
                 [InitSend(m) EXCEPT !.p1 = NoPacket, !.p2 = NoPacket], draw),
            NoPacket, NoPacket)
  BY ReleaseBacks
<1> QED
  BY <1>4, <1>5 DEF CtsTimeout, u, n

LEMMA RetryUnicastBacks ==
  ASSUME NEW m, Sound(m), NEW draw
  PROVE  LET s == RetryUnicast(m, draw)
         IN Backs(m, s, m.p1, m.p2) /\ Kept(m, s) /\ s.uni
<1> DEFINE i == InitSend(m)
           n == [i EXCEPT !.uni = TRUE]
<1>1. Rests(m, i) /\ Kept(m, i) /\ i.st = m.st
  BY FieldsRest
<1> HIDE DEF i
<1>2. Rests(i, n) /\ Kept(i, n) /\ n.st = i.st /\ n.uni = TRUE
  BY <1>1, SameRests DEF Rests, Sound, Kept
<1> HIDE DEF n
<1>3. Rests(m, n) /\ Kept(m, n) /\ n.st = m.st
  BY <1>1, <1>2, RestsTransitive DEF Kept
<1>4. LET s == BackoffGrantStart(n, draw)
      IN Backs(m, s, m.p1, m.p2) /\ Kept(m, s) /\ s.uni = n.uni
  BY <1>3, RetryBacks
<1> QED
  BY <1>2, <1>4 DEF RetryUnicast, n, i

LEMMA RetryDataBacks ==
  ASSUME NEW m, Sound(m), NEW draw
  PROVE  LET s == RetryData(m, draw)
         IN Backs(m, s, m.p1, m.p2) /\ Kept(m, s) /\ s.uni = m.uni
<1> DEFINE n == [m EXCEPT !.rdata = @ + 1]
           u == UpdateCw(n)
<1>1. Rests(m, n) /\ Kept(m, n) /\ n.st = m.st /\ n.uni = m.uni
  BY SameRests DEF Sound, Kept
<1> HIDE DEF n
<1>2. Rests(n, u) /\ Kept(n, u) /\ u.st = n.st /\ u.uni = n.uni
  BY <1>1, FieldsRest DEF Rests
<1> HIDE DEF u
<1>3. Rests(m, u) /\ Kept(m, u) /\ u.st = m.st /\ u.uni = m.uni
  BY <1>1, <1>2, RestsTransitive DEF Kept
<1>4. LET s == BackoffGrantStart(u, draw)
      IN Backs(m, s, m.p1, m.p2) /\ Kept(m, s) /\ s.uni = m.uni
  BY <1>3, RetryBacks
<1> QED
  BY <1>4 DEF RetryData, u, n

LEMMA AckTimeoutBacks ==
  ASSUME NEW m, Sound(m), NEW draw
  PROVE  /\ LET s == AckTimeout1(m, draw)
            IN \/ Backs(m, s, m.p1, m.p2) /\ Kept(m, s) /\ m.st = "SPC" /\ s.uni
               \/ Backs(m, s, m.p1, m.p2) /\ Kept(m, s) /\ m.st # "SPC" /\ s.uni = m.uni
               \/ Backs(m, s, NoPacket, m.p2) /\ m.st # "SPC"
         /\ LET s == AckTimeout2(m, draw)
            IN \/ Backs(m, s, m.p1, m.p2) /\ Kept(m, s) /\ m.st = "SPC" /\ s.uni
               \/ Backs(m, s, m.p1, m.p2) /\ Kept(m, s) /\ m.st # "SPC" /\ s.uni = m.uni
               \/ Backs(m, s, m.p1, NoPacket) /\ m.st # "SPC"
<1> DEFINE u == RetryUnicast(m, draw)
           d == RetryData(m, draw)
           g == StartBackoffIfNeeded([InitSend(m) EXCEPT !.p1 = NoPacket], draw)
           h == StartBackoffIfNeeded([InitSend(m) EXCEPT !.p2 = NoPacket], draw)
           s == AckTimeout1(m, draw)
           t == AckTimeout2(m, draw)
<1>1. Backs(m, u, m.p1, m.p2) /\ Kept(m, u) /\ u.uni
  BY RetryUnicastBacks
<1>2. Backs(m, d, m.p1, m.p2) /\ Kept(m, d) /\ d.uni = m.uni
  BY RetryDataBacks
<1>3. Backs(m, g, NoPacket, m.p2) /\ Backs(m, h, m.p1, NoPacket)
  BY ReleaseBacks
<1>4. /\ (m.st = "SPC" /\ s = u) \/ (m.st # "SPC" /\ (s = d \/ s = g))
      /\ (m.st = "SPC" /\ t = u) \/ (m.st # "SPC" /\ (t = d \/ t = h))
  BY DEF AckTimeout1, AckTimeout2
<1> HIDE DEF u, d, g, h, s, t
<1>5. \/ Backs(m, s, m.p1, m.p2) /\ Kept(m, s) /\ m.st = "SPC" /\ s.uni
      \/ Backs(m, s, m.p1, m.p2) /\ Kept(m, s) /\ m.st # "SPC" /\ s.uni = m.uni
      \/ Backs(m, s, NoPacket, m.p2) /\ m.st # "SPC"
  BY <1>1, <1>2, <1>3, <1>4
<1>6. \/ Backs(m, t, m.p1, m.p2) /\ Kept(m, t) /\ m.st = "SPC" /\ t.uni
      \/ Backs(m, t, m.p1, m.p2) /\ Kept(m, t) /\ m.st # "SPC" /\ t.uni = m.uni
      \/ Backs(m, t, m.p1, NoPacket) /\ m.st # "SPC"
  BY <1>1, <1>2, <1>3, <1>4
<1> QED
  BY <1>5, <1>6 DEF s, t

-----------------------------------------------------------------------------
(* Sending.                                                                *)

Timer(k, d) == [k |-> k, due |-> d, arg |-> NoFrame]

\* The sender's state, and what else sending leaves alone.
Still(m, s) ==
  /\ Kept(m, s) /\ s.st = m.st /\ s.uni = m.uni
  /\ s.addr = m.addr /\ s.ncts = m.ncts /\ s.failed = m.failed

\* A reception under way is one the state machine of the PHY knows of.
Hearing(m) == Awaiting(m, "EndReceive") => IsStateRx(m)

\* Frame f is sent, timers V are set and end[c] to d.
Arms(m, s, V, c, d, f) ==
  /\ Sound(s) /\ Watch(s) = Without(m, "EndReceive") \cup V
  /\ Still(m, s) /\ ~s.rxing /\ s.sent = f
  /\ s.end["tx"] = AirTime(f) /\ s.end[c] = d
  /\ s.end["rx"] \in {0, m.end["rx"]}
  /\ \A x \in Causes \ {"tx", "rx", c} : s.end[x] = m.end[x]

LEMMA EndStep ==
  ASSUME NEW m, Sound(m), NEW c \in Causes, NEW d
  PROVE  LET s == [m EXCEPT !.end[c] = d]
         IN /\ Sound(s) /\ Watch(s) = Watch(m) /\ Still(m, s)
            /\ s.rxing = m.rxing /\ s.sent = m.sent
            /\ s.end[c] = d /\ \A x \in Causes \ {c} : s.end[x] = m.end[x]
<1> DEFINE end == [m.end EXCEPT ![c] = d]
           s   == [m EXCEPT !.end[c] = d]
<1>1. end[c] = d /\ (\A x \in Causes \ {c} : end[x] = m.end[x]) /\ DOMAIN end = Causes
  BY DEF Sound
<1>2. s = [m EXCEPT !.end = end]
  OBVIOUS
<1> HIDE DEF end, s
<1>3. /\ s.ev = m.ev /\ s.end = end /\ DOMAIN s = DOMAIN m
      /\ Still(m, s) /\ s.rxing = m.rxing /\ s.sent = m.sent
  BY <1>2 DEF Sound, Still, Kept
<1>4. Watch(s) = Watch(m)
  BY <1>3, SameWatch
<1>5. Single(s)
  BY <1>3 DEF Sound, Single
<1>6. Sound(s)
  BY <1>1, <1>3, <1>5 DEF Sound
<1> QED
  BY <1>1, <1>3, <1>4, <1>6 DEF s

LEMMA TimerStep ==
  ASSUME NEW m, Sound(m), NEW k \in Waiting, ~Awaiting(m, k), NEW d
  PROVE  LET s == Schedule(m, k, d, NoFrame)
         IN /\ Sound(s) /\ Watch(s) = Watch(m) \cup {Timer(k, d)} /\ Still(m, s)
            /\ s.rxing = m.rxing /\ s.sent = m.sent /\ s.end = m.end
            /\ Hearing(m) => Hearing(s)
<1> DEFINE s == Schedule(m, k, d, NoFrame)
<1>1. k \in Watched /\ k # "EndReceive"
  BY DEF Watched, Waiting
<1>2. /\ Sound(s) /\ s = [m EXCEPT !.ev = s.ev]
      /\ Watch(s) = Watch(m) \cup {Timer(k, d)}
  BY <1>1, ScheduleWatched DEF Timer
<1> HIDE DEF s
<1>3. Still(m, s) /\ s.rxing = m.rxing /\ s.sent = m.sent /\ s.end = m.end
  BY <1>2 DEF Sound, Still, Kept
<1>4. Awaiting(s, "EndReceive") => Awaiting(m, "EndReceive")
  BY <1>1, <1>2 DEF Awaiting, Timer
<1>5. IsStateRx(s) <=> IsStateRx(m)
  BY <1>3 DEF IsStateRx, IsStateTx
<1> QED
  BY <1>2, <1>3, <1>4, <1>5 DEF Hearing, s

LEMMA SendStep ==
  ASSUME NEW m, Sound(m), Hearing(m), NEW f
  PROVE  LET s == StartSend(m, f)
         IN /\ Sound(s) /\ Watch(s) = Without(m, "EndReceive") /\ Still(m, s)
            /\ ~s.rxing /\ s.sent = f /\ s.end["tx"] = AirTime(f)
            /\ s.end["rx"] \in {0, m.end["rx"]}
            /\ \A c \in Causes \ {"tx", "rx"} : s.end[c] = m.end[c]
<1> DEFINE s == StartSend(m, f)
<1>1. /\ Sound(s) /\ Watch(s) = Without(m, "EndReceive")
      /\ s = [m EXCEPT !.ev = s.ev, !.end = s.end, !.rxing = FALSE, !.sent = f]
      /\ s.end["tx"] = AirTime(f)
      /\ s.end["rx"] \in {0, m.end["rx"]}
      /\ \A c \in Causes \ {"tx", "rx"} : s.end[c] = m.end[c]
  BY StartSendEvents DEF Hearing
<1> HIDE DEF s
<1>2. Still(m, s) /\ ~s.rxing /\ s.sent = f
  BY <1>1 DEF Sound, Still, Kept
<1> QED
  BY <1>1, <1>2 DEF s

LEMMA EndHearing ==
  ASSUME NEW m, NEW n, Watch(n) = Watch(m), n.rxing = m.rxing, n.end["tx"] = m.end["tx"],
         Hearing(m)
  PROVE  Hearing(n)
BY DEF Hearing, Awaiting, IsStateRx, IsStateTx

\* A timer is set, before or after the instant it is awaited until.
LEMMA ArmStep ==
  ASSUME NEW m, Sound(m), Hearing(m), NEW k \in Waiting, ~Awaiting(m, k), NEW d,
         NEW c \in {"cts", "ack"}, NEW f
  PROVE  /\ Arms(m, StartSend([Schedule(m, k, d, NoFrame) EXCEPT !.end[c] = d], f),
                 {Timer(k, d)}, c, d, f)
         /\ Arms(m, StartSend(Schedule([m EXCEPT !.end[c] = d], k, d, NoFrame), f),
                 {Timer(k, d)}, c, d, f)
<1> DEFINE n1 == Schedule(m, k, d, NoFrame)
           n2 == [n1 EXCEPT !.end[c] = d]
           s  == StartSend(n2, f)
           r1 == [m EXCEPT !.end[c] = d]
           r2 == Schedule(r1, k, d, NoFrame)
           t  == StartSend(r2, f)
<1>0. /\ c \in Causes /\ {"tx", "rx"} \subseteq Causes \ {c}
      /\ c \in Causes \ {"tx", "rx"}
  BY DEF Causes
<1>1. /\ Sound(n1) /\ Watch(n1) = Watch(m) \cup {Timer(k, d)} /\ Still(m, n1)
      /\ n1.rxing = m.rxing /\ n1.sent = m.sent /\ n1.end = m.end /\ Hearing(n1)
  BY TimerStep
<1> HIDE DEF n1
<1>2. /\ Sound(n2) /\ Watch(n2) = Watch(n1) /\ Still(n1, n2)
      /\ n2.rxing = n1.rxing /\ n2.sent = n1.sent
      /\ n2.end[c] = d /\ \A x \in Causes \ {c} : n2.end[x] = n1.end[x]
  BY <1>0, <1>1, EndStep
<1> HIDE DEF n2
<1>3. Hearing(n2)
  BY <1>0, <1>1, <1>2, EndHearing
<1>4. /\ Sound(s) /\ Watch(s) = Without(n2, "EndReceive") /\ Still(n2, s)
      /\ ~s.rxing /\ s.sent = f /\ s.end["tx"] = AirTime(f)
      /\ s.end["rx"] \in {0, n2.end["rx"]}
      /\ \A x \in Causes \ {"tx", "rx"} : s.end[x] = n2.end[x]
  BY <1>2, <1>3, SendStep
<1>5. /\ Sound(r1) /\ Watch(r1) = Watch(m) /\ Still(m, r1)
      /\ r1.rxing = m.rxing /\ r1.sent = m.sent
      /\ r1.end[c] = d /\ \A x \in Causes \ {c} : r1.end[x] = m.end[x]
  BY <1>0, EndStep
<1> HIDE DEF r1
<1>6. Hearing(r1) /\ ~Awaiting(r1, k)
  BY <1>0, <1>5, EndHearing DEF Awaiting
<1>7. /\ Sound(r2) /\ Watch(r2) = Watch(r1) \cup {Timer(k, d)} /\ Still(r1, r2)
      /\ r2.rxing = r1.rxing /\ r2.sent = r1.sent /\ r2.end = r1.end /\ Hearing(r2)
  BY <1>5, <1>6, TimerStep
<1> HIDE DEF r2
<1>8. /\ Sound(t) /\ Watch(t) = Without(r2, "EndReceive") /\ Still(r2, t)
      /\ ~t.rxing /\ t.sent = f /\ t.end["tx"] = AirTime(f)
      /\ t.end["rx"] \in {0, r2.end["rx"]}
      /\ \A x \in Causes \ {"tx", "rx"} : t.end[x] = r2.end[x]
  BY <1>7, SendStep
<1> HIDE DEF s, t
<1>9. Timer(k, d).k # "EndReceive"
  BY DEF Timer, Waiting
<1>10. /\ Without(n2, "EndReceive") = Without(m, "EndReceive") \cup {Timer(k, d)}
       /\ Without(r2, "EndReceive") = Without(m, "EndReceive") \cup {Timer(k, d)}
  BY <1>1, <1>2, <1>5, <1>7, <1>9 DEF Without
<1>11. Still(m, s) /\ Still(m, t)
  BY <1>1, <1>2, <1>4, <1>5, <1>7, <1>8 DEF Still, Kept
<1>12. Arms(m, s, {Timer(k, d)}, c, d, f)
  BY <1>0, <1>1, <1>2, <1>4, <1>10, <1>11 DEF Arms
<1>13. Arms(m, t, {Timer(k, d)}, c, d, f)
  BY <1>0, <1>5, <1>7, <1>8, <1>10, <1>11 DEF Arms
<1> QED
  BY <1>12, <1>13 DEF s, t, n2, n1, r2, r1

LEMMA ExpiredAwaiting ==
  ASSUME NEW m, Sound(m), NEW k \in Timers
  PROVE  IsExpired(m, k) <=> ~Awaiting(m, k)
BY WatchMembers, WatchedKinds DEF IsExpired, Sound, Single

\* An NS_ASSERT of a fails.
Fails(m, s, a) ==
  /\ Sound(s) /\ Watch(s) = Watch(m) /\ Kept(m, s)
  /\ s.st = m.st /\ s.uni = m.uni /\ s.addr = m.addr /\ s.ncts = m.ncts
  /\ s.end = m.end /\ s.rxing = m.rxing /\ s.sent = m.sent /\ s.failed = a

LEMMA FailStep ==
  ASSUME NEW m, Sound(m), NEW a PROVE Fails(m, [m EXCEPT !.failed = a], a)
<1> DEFINE s == [m EXCEPT !.failed = a]
<1>1. /\ s.ev = m.ev /\ DOMAIN s = DOMAIN m /\ s.end = m.end /\ Kept(m, s)
      /\ s.st = m.st /\ s.uni = m.uni /\ s.addr = m.addr /\ s.ncts = m.ncts
      /\ s.rxing = m.rxing /\ s.sent = m.sent /\ s.failed = a
  BY DEF Sound, Kept
<1> HIDE DEF s
<1>2. Single(s)
  BY <1>1 DEF Sound, Single
<1>3. Sound(s) /\ Watch(s) = Watch(m)
  BY <1>1, <1>2, SameWatch DEF Sound
<1> QED
  BY <1>1, <1>3 DEF Fails, s

RtsWait    == RtsSendAndSifs + CtsSendAndSifs
RtsSpcWait == RtsSendAndSifs + 2 * CtsSendAndSifs
AckWait    == DataTime + MaxProp + AckSendAndSifs
AckSpcWait == DataTime + MaxProp + 2 * AckSendAndSifs

\* The frames that await an answer, and the data that does not.
Rts(m)     == Frame("RTS", CurrentAddr(m), m.addr, NoAddr, "FIRST", CtsSendAndSifs)
RtsSpc(m)  == Frame("RTS_SPC", m.h1, m.h2, NoAddr, "FIRST", 2 * CtsSendAndSifs)
Data(m, d) == Frame("DATA", CurrentAddr(m), m.addr, NoAddr, "FIRST", d)
DataSpc(m) == Frame("DATA_SPC", m.h1, m.h2, m.addr, "FIRST", 2 * AckSendAndSifs)

LEMMA SendRtsArms ==
  ASSUME NEW m, Sound(m), Hearing(m)
  PROVE  LET s == SendRts(m)
         IN \/ /\ m.st = "SPC" \/ Awaiting(m, "CtsTimeout")
               /\ Fails(m, s, "SendRts")
            \/ /\ m.st # "SPC" /\ ~Awaiting(m, "CtsTimeout")
               /\ Arms(m, s, {Timer("CtsTimeout", RtsWait)}, "cts", RtsWait, Rts(m))
<1> DEFINE t == StartSend([Schedule(m, "CtsTimeout", RtsWait, NoFrame)
                             EXCEPT !.end["cts"] = RtsWait], Rts(m))
           s == SendRts(m)
<1>1. "CtsTimeout" \in Waiting /\ "CtsTimeout" \in Timers
  BY WatchedKinds DEF Waiting
<1>2. IsExpired(m, "CtsTimeout") <=> ~Awaiting(m, "CtsTimeout")
  BY <1>1, ExpiredAwaiting
<1>3. ~Awaiting(m, "CtsTimeout") =>
        Arms(m, t, {Timer("CtsTimeout", RtsWait)}, "cts", RtsWait, Rts(m))
  BY <1>1, ArmStep
<1>4. s = IF m.st # "SPC" /\ IsExpired(m, "CtsTimeout") THEN t
          ELSE [m EXCEPT !.failed = "SendRts"]
  BY DEF SendRts, NsAssert, RtsWait, Rts
<1>5. Fails(m, [m EXCEPT !.failed = "SendRts"], "SendRts")
  BY FailStep
<1> HIDE DEF s, t
<1> QED
  BY <1>2, <1>3, <1>4, <1>5 DEF s

\* m_recvCtsNum starts from zero.
Recounted(m) == [m EXCEPT !.ncts = 0]

LEMMA RecountStep ==
  ASSUME NEW m, Sound(m)
  PROVE  LET n == Recounted(m)
         IN /\ Sound(n) /\ Watch(n) = Watch(m) /\ Kept(m, n)
            /\ n.st = m.st /\ n.uni = m.uni /\ n.addr = m.addr /\ n.ncts = 0
            /\ n.end = m.end /\ n.rxing = m.rxing /\ n.sent = m.sent
            /\ n.failed = m.failed /\ (Hearing(m) => Hearing(n))
<1> DEFINE n == Recounted(m)
<1>1. /\ n.ev = m.ev /\ DOMAIN n = DOMAIN m /\ n.end = m.end /\ Kept(m, n)
      /\ n.st = m.st /\ n.uni = m.uni /\ n.addr = m.addr /\ n.ncts = 0
      /\ n.rxing = m.rxing /\ n.sent = m.sent /\ n.failed = m.failed
  BY DEF Recounted, Sound, Kept
<1> HIDE DEF n
<1>2. Single(n)
  BY <1>1 DEF Sound, Single
<1>3. Sound(n) /\ Watch(n) = Watch(m)
  BY <1>1, <1>2, SameWatch DEF Sound
<1> QED
  BY <1>1, <1>3, EndHearing DEF n

LEMMA SendRtsSpcArms ==
  ASSUME NEW m, Sound(m), Hearing(m)
  PROVE  LET s == SendRtsSpc(m)
             n == Recounted(m)
         IN \/ /\ m.st # "SPC" \/ Awaiting(m, "CtsTimeout")
               /\ Fails(m, s, "SendRtsSpc")
            \/ /\ m.st = "SPC" /\ ~Awaiting(m, "CtsTimeout")
               /\ Arms(n, s, {Timer("CtsTimeout", RtsSpcWait)}, "cts", RtsSpcWait,
                       RtsSpc(m))
<1> DEFINE n == Recounted(m)
           t == StartSend([Schedule(n, "CtsTimeout", RtsSpcWait, NoFrame)
                             EXCEPT !.end["cts"] = RtsSpcWait], RtsSpc(m))
           s == SendRtsSpc(m)
<1>1. "CtsTimeout" \in Waiting /\ "CtsTimeout" \in Timers
  BY WatchedKinds DEF Waiting
<1>2. IsExpired(m, "CtsTimeout") <=> ~Awaiting(m, "CtsTimeout")
  BY <1>1, ExpiredAwaiting
<1>3. s = IF m.st = "SPC" /\ IsExpired(m, "CtsTimeout") THEN t
          ELSE [m EXCEPT !.failed = "SendRtsSpc"]
  BY DEF SendRtsSpc, NsAssert, RtsSpcWait, RtsSpc, Recounted
<1>4. Sound(n) /\ Watch(n) = Watch(m) /\ Hearing(n)
  BY RecountStep
<1> HIDE DEF n
<1>5. ~Awaiting(m, "CtsTimeout") =>
        Arms(n, t, {Timer("CtsTimeout", RtsSpcWait)}, "cts", RtsSpcWait, RtsSpc(m))
  BY <1>1, <1>4, ArmStep DEF Awaiting
<1>6. Fails(m, [m EXCEPT !.failed = "SendRtsSpc"], "SendRtsSpc")
  BY FailStep
<1> HIDE DEF s, t
<1> QED
  BY <1>2, <1>3, <1>5, <1>6 DEF s, n

LEMMA SendNoAckBacks ==
  ASSUME NEW m, Sound(m), Hearing(m), NEW draw
  PROVE  LET s == SendUnicastDataNoAck(m, draw)
         IN \E t : /\ Sound(t) /\ Watch(t) = Without(m, "EndReceive") /\ Still(m, t)
                   /\ ~t.rxing /\ t.sent = Data(m, 0)
                   /\ t.end["tx"] = AirTime(Data(m, 0))
                   /\ t.end["rx"] \in {0, m.end["rx"]}
                   /\ \A c \in Causes \ {"tx", "rx"} : t.end[c] = m.end[c]
                   /\ IF m.st = "SECOND" THEN Backs(t, s, m.p1, NoPacket)
                                         ELSE Backs(t, s, NoPacket, m.p2)
<1> DEFINE t == StartSend(m, Data(m, 0))
           g == StartBackoffIfNeeded([InitSend(t) EXCEPT !.p1 = NoPacket], draw)
           h == StartBackoffIfNeeded([InitSend(t) EXCEPT !.p2 = NoPacket], draw)
           s == SendUnicastDataNoAck(m, draw)
<1>1. /\ Sound(t) /\ Watch(t) = Without(m, "EndReceive") /\ Still(m, t)
      /\ ~t.rxing /\ t.sent = Data(m, 0) /\ t.end["tx"] = AirTime(Data(m, 0))
      /\ t.end["rx"] \in {0, m.end["rx"]}
      /\ \A c \in Causes \ {"tx", "rx"} : t.end[c] = m.end[c]
  BY SendStep
<1>2. s = IF m.st = "SECOND" THEN h ELSE g
  BY DEF SendUnicastDataNoAck, Data
<1> HIDE DEF t
<1>3. Backs(t, g, NoPacket, t.p2) /\ Backs(t, h, t.p1, NoPacket)
  BY <1>1, ReleaseBacks
<1>4. t.p1 = m.p1 /\ t.p2 = m.p2
  BY <1>1 DEF Still, Kept
<1> HIDE DEF g, h, s
<1>5. IF m.st = "SECOND" THEN Backs(t, s, m.p1, NoPacket) ELSE Backs(t, s, NoPacket, m.p2)
  BY <1>2, <1>3, <1>4
<1> QED
  BY <1>1, <1>5 DEF s

\* The timer of the packet that m_sendState points at.
OwnTimer(m) == IF m.st = "SECOND" THEN "AckTimeout2" ELSE "AckTimeout1"

LEMMA SendUnicastArms ==
  ASSUME NEW m, Sound(m), Hearing(m)
  PROVE  LET s == SendUnicastDataAfterCts(m)
         IN \/ /\ m.st = "SPC" \/ Awaiting(m, OwnTimer(m))
               /\ Fails(m, s, "SendUnicastDataAfterCts")
            \/ /\ m.st # "SPC" /\ ~Awaiting(m, OwnTimer(m))
               /\ Arms(m, s, {Timer(OwnTimer(m), AckWait)}, "ack", AckWait,
                       Data(m, AckSendAndSifs))
<1> DEFINE k == OwnTimer(m)
           f == Data(m, AckSendAndSifs)
           t == StartSend(Schedule([m EXCEPT !.end["ack"] = AckWait], k, AckWait, NoFrame), f)
           s == SendUnicastDataAfterCts(m)
<1>1. k \in Waiting /\ k \in Timers
  BY WatchedKinds DEF Waiting, OwnTimer
<1>2. s = IF m.st # "SPC" /\ IsExpired(m, k) THEN t
          ELSE [m EXCEPT !.failed = "SendUnicastDataAfterCts"]
  BY DEF SendUnicastDataAfterCts, NsAssert, AckWait, Data, OwnTimer
<1>3. IsExpired(m, k) <=> ~Awaiting(m, k)
  BY <1>1, ExpiredAwaiting
<1> HIDE DEF k, f
<1>4. ~Awaiting(m, k) => Arms(m, t, {Timer(k, AckWait)}, "ack", AckWait, f)
  BY <1>1, ArmStep
<1>5. Fails(m, [m EXCEPT !.failed = "SendUnicastDataAfterCts"], "SendUnicastDataAfterCts")
  BY FailStep
<1> HIDE DEF s, t
<1> QED
  BY <1>2, <1>3, <1>4, <1>5 DEF s, k, f

\* Both acknowledgements are awaited, or the first packet goes out alone.
LEMMA SendSpcArms ==
  ASSUME NEW m, Sound(m), Hearing(m), NEW spc \in BOOLEAN
  PROVE  LET s == SendSpcDataAfterCtsSpc(m, spc)
             n == [m EXCEPT !.st = "FIRST"]
         IN \/ /\ m.st # "SPC" \/ Awaiting(m, "AckTimeout1") \/ Awaiting(m, "AckTimeout2")
               /\ Fails(m, s, "SendSpcDataAfterCtsSpc")
            \/ /\ m.st = "SPC" /\ ~Awaiting(m, "AckTimeout1") /\ ~Awaiting(m, "AckTimeout2")
               /\ Arms(m, s, {Timer("AckTimeout1", AckSpcWait), Timer("AckTimeout2", AckSpcWait)},
                       "ack", AckSpcWait, DataSpc(m))
            \/ /\ m.st = "SPC" /\ ~Awaiting(m, "AckTimeout1") /\ ~Awaiting(m, "AckTimeout2")
               /\ Arms(n, s, {Timer("AckTimeout1", AckWait)}, "ack", AckWait,
                       Data(n, AckSendAndSifs))
<1> DEFINE d  == AckSpcWait
           f  == DataSpc(m)
           e  == [m EXCEPT !.end["ack"] = d]
           t1 == Schedule(e, "AckTimeout1", d, NoFrame)
           t2 == Schedule(t1, "AckTimeout2", d, NoFrame)
           t  == StartSend(t2, f)
           n  == [m EXCEPT !.st = "FIRST"]
           u  == SendUnicastDataAfterCts(n)
           s  == SendSpcDataAfterCtsSpc(m, spc)
           ok == m.st = "SPC" /\ ~Awaiting(m, "AckTimeout1") /\ ~Awaiting(m, "AckTimeout2")
           V  == {Timer("AckTimeout1", d), Timer("AckTimeout2", d)}
<1>1. /\ "AckTimeout1" \in Waiting /\ "AckTimeout1" \in Timers
      /\ "AckTimeout2" \in Waiting /\ "AckTimeout2" \in Timers
      /\ "ack" \in Causes /\ {"tx", "rx"} \subseteq Causes \ {"ack"} /\ "ack" \in Causes \ {"tx", "rx"}
  BY WatchedKinds DEF Waiting, Causes
<1>2. /\ IsExpired(m, "AckTimeout1") <=> ~Awaiting(m, "AckTimeout1")
      /\ IsExpired(m, "AckTimeout2") <=> ~Awaiting(m, "AckTimeout2")
  BY <1>1, ExpiredAwaiting
<1>3. s = IF m.st = "SPC" /\ IsExpired(m, "AckTimeout1") /\ IsExpired(m, "AckTimeout2")
            THEN IF spc THEN t ELSE u
            ELSE [m EXCEPT !.failed = "SendSpcDataAfterCtsSpc"]
  BY DEF SendSpcDataAfterCtsSpc, NsAssert, AckSpcWait, DataSpc
<1>4. Fails(m, [m EXCEPT !.failed = "SendSpcDataAfterCtsSpc"], "SendSpcDataAfterCtsSpc")
  BY FailStep
<1>5. ASSUME ok PROVE Arms(m, t, V, "ack", d, f)
  <2> HIDE DEF d, f
  <2>1. /\ Sound(e) /\ Watch(e) = Watch(m) /\ Still(m, e)
        /\ e.rxing = m.rxing /\ e.sent = m.sent
        /\ e.end["ack"] = d /\ \A x \in Causes \ {"ack"} : e.end[x] = m.end[x]
    BY <1>1, EndStep
  <2> HIDE DEF e
  <2>2. Hearing(e) /\ ~Awaiting(e, "AckTimeout1") /\ ~Awaiting(e, "AckTimeout2")
    BY <1>1, <1>5, <2>1, EndHearing DEF Awaiting
  <2>3. /\ Sound(t1) /\ Watch(t1) = Watch(e) \cup {Timer("AckTimeout1", d)} /\ Still(e, t1)
        /\ t1.rxing = e.rxing /\ t1.sent = e.sent /\ t1.end = e.end /\ Hearing(t1)
    BY <1>1, <2>1, <2>2, TimerStep
  <2> HIDE DEF t1
  <2>4. ~Awaiting(t1, "AckTimeout2")
    BY <2>2, <2>3 DEF Awaiting, Timer
  <2>5. /\ Sound(t2) /\ Watch(t2) = Watch(t1) \cup {Timer("AckTimeout2", d)} /\ Still(t1, t2)
        /\ t2.rxing = t1.rxing /\ t2.sent = t1.sent /\ t2.end = t1.end /\ Hearing(t2)
    BY <1>1, <2>3, <2>4, TimerStep
  <2> HIDE DEF t2
  <2>6. /\ Sound(t) /\ Watch(t) = Without(t2, "EndReceive") /\ Still(t2, t)
        /\ ~t.rxing /\ t.sent = f /\ t.end["tx"] = AirTime(f)
        /\ t.end["rx"] \in {0, t2.end["rx"]}
        /\ \A x \in Causes \ {"tx", "rx"} : t.end[x] = t2.end[x]
    BY <2>5, SendStep
  <2> HIDE DEF t
  <2>7. Timer("AckTimeout1", d).k # "EndReceive" /\ Timer("AckTimeout2", d).k # "EndReceive"
    BY DEF Timer
  <2>8. Without(t2, "EndReceive") = Without(m, "EndReceive") \cup V
    BY <2>1, <2>3, <2>5, <2>7 DEF Without
  <2>9. Still(m, t)
    BY <2>1, <2>3, <2>5, <2>6 DEF Still, Kept
  <2> QED
    BY <1>1, <2>1, <2>3, <2>5, <2>6, <2>8, <2>9 DEF Arms
<1>6. ASSUME ok PROVE Arms(n, u, {Timer("AckTimeout1", AckWait)}, "ack", AckWait,
                           Data(n, AckSendAndSifs))
  <2>1. /\ n.ev = m.ev /\ DOMAIN n = DOMAIN m /\ n.end = m.end /\ n.rxing = m.rxing
        /\ n.st = "FIRST"
    BY DEF Sound
  <2> HIDE DEF n
  <2>2. Single(n)
    BY <2>1 DEF Sound, Single
  <2>3. Sound(n) /\ Watch(n) = Watch(m)
    BY <2>1, <2>2, SameWatch DEF Sound
  <2>4. Hearing(n)
    BY <2>1, <2>3, EndHearing
  <2>5. OwnTimer(n) = "AckTimeout1" /\ ~Awaiting(n, OwnTimer(n)) /\ n.st # "SPC"
    BY <1>6, <2>1, <2>3 DEF OwnTimer, Awaiting
  <2> QED
    BY <2>3, <2>4, <2>5, SendUnicastArms
<1> HIDE DEF s, t, u, n
<1> QED
  BY <1>2, <1>3, <1>4, <1>5, <1>6 DEF s, n

-----------------------------------------------------------------------------
(* Receiving.                                                              *)

\* What a frame of no concern to the exchange may change.
Defers(m, s) ==
  /\ Sound(s) /\ Watch(s) = Watch(m) /\ Still(m, s)
  /\ s.sent = m.sent /\ s.rxing = m.rxing
  /\ \A c \in Causes \ {"nav", "wait"} : s.end[c] = m.end[c]

LEMMA DefersTransitive ==
  ASSUME NEW m, NEW n, NEW s, Defers(m, n), Defers(n, s) PROVE Defers(m, s)
BY DEF Defers, Still, Kept

LEMMA EndDefers ==
  ASSUME NEW m, Sound(m), NEW c \in {"nav", "wait"}, NEW d
  PROVE  Defers(m, [m EXCEPT !.end[c] = d])
<1> DEFINE s == [m EXCEPT !.end[c] = d]
<1>1. c \in Causes /\ \A x \in Causes \ {"nav", "wait"} : x \in Causes \ {c}
  BY DEF Causes
<1>2. /\ Sound(s) /\ Watch(s) = Watch(m) /\ Still(m, s)
      /\ s.rxing = m.rxing /\ s.sent = m.sent
      /\ \A x \in Causes \ {c} : s.end[x] = m.end[x]
  BY <1>1, EndStep
<1> HIDE DEF s
<1>3. Defers(m, s)
  BY <1>1, <1>2 DEF Defers
<1> QED
  BY <1>3 DEF s

LEMMA AnswerDefers ==
  ASSUME NEW m, Sound(m), NEW k \in ReplyKinds, NEW d, NEW w, NEW f
  PROVE  /\ Defers(m, Schedule(m, k, d, f))
         /\ Defers(m, Schedule(WaitUntil(m, w), k, d, f))
<1>1. ASSUME NEW n, Sound(n) PROVE Defers(n, Schedule(n, k, d, f))
  <2> DEFINE s == Schedule(n, k, d, f)
  <2>1. Sound(s) /\ s = [n EXCEPT !.ev = s.ev] /\ Watch(s) = Watch(n)
    BY <1>1, ScheduleOther, WatchedKinds
  <2> HIDE DEF s
  <2>2. Still(n, s) /\ s.sent = n.sent /\ s.rxing = n.rxing /\ s.end = n.end
    BY <1>1, <2>1 DEF Sound, Still, Kept
  <2> QED
    BY <2>1, <2>2 DEF Defers, s
<1>2. PICK x : WaitUntil(m, w) = [m EXCEPT !.end["wait"] = x]
  BY DEF WaitUntil
<1>3. Defers(m, WaitUntil(m, w))
  BY <1>2, EndDefers
<1>4. Defers(WaitUntil(m, w), Schedule(WaitUntil(m, w), k, d, f))
  BY <1>1, <1>3 DEF Defers
<1> QED
  BY <1>1, <1>3, <1>4, DefersTransitive

LEMMA ReplyKindNames ==
  {"SendCtsAfterRts", "SendCtsSpcAfterRtsSpc", "SendAckAfterData"} \subseteq ReplyKinds
BY DEF ReplyKinds

LEMMA AnswersDefer ==
  ASSUME NEW m, Sound(m), NEW f, NEW num
  PROVE  /\ Defers(m, ReceiveRts(m, f)) /\ Defers(m, ReceiveData(m, f))
         /\ Defers(m, ReceiveRtsSpc(m, f)) /\ Defers(m, ReceiveDataSpc(m, f, num))
<1>1. Defers(m, m)
  BY DEF Defers, Still, Kept
<1>2. \A k \in ReplyKinds : \A d, w, g :
        /\ Defers(m, Schedule(m, k, d, g))
        /\ Defers(m, Schedule(WaitUntil(m, w), k, d, g))
  BY AnswerDefers
<1>3. Defers(m, ReceiveRts(m, f)) /\ Defers(m, ReceiveData(m, f))
  BY <1>1, <1>2, ReplyKindNames DEF ReceiveRts, ReceiveData
<1>4. Defers(m, ReceiveRtsSpc(m, f)) /\ Defers(m, ReceiveDataSpc(m, f, num))
  BY <1>1, <1>2, ReplyKindNames DEF ReceiveRtsSpc, ReceiveDataSpc
<1> QED
  BY <1>3, <1>4

\* The reception is over, and what the frame reserves is noted.
LEMMA HeardDefers ==
  ASSUME NEW m, Sound(m), NEW f
  PROVE  LET r == [m EXCEPT !.rxing = FALSE]
             n == Overhear(r, f)
         IN /\ Sound(r) /\ Watch(r) = Watch(m) /\ Still(m, r) /\ ~r.rxing
            /\ r.sent = m.sent /\ r.end = m.end
            /\ Defers(r, n)
<1> DEFINE r == [m EXCEPT !.rxing = FALSE]
           n == Overhear(r, f)
<1>1. /\ r.ev = m.ev /\ DOMAIN r = DOMAIN m /\ Still(m, r) /\ ~r.rxing
      /\ r.sent = m.sent /\ r.end = m.end
  BY DEF Sound, Still, Kept
<1> HIDE DEF r
<1>2. Single(r)
  BY <1>1 DEF Sound, Single
<1>3. Sound(r) /\ Watch(r) = Watch(m)
  BY <1>1, <1>2, SameWatch DEF Sound
<1>4. Defers(r, r) /\ Defers(r, SetNav(r, f.dur))
  BY <1>3, EndDefers DEF SetNav, Defers, Still, Kept
<1>5. n = r \/ n = SetNav(r, f.dur)
  BY DEF Overhear
<1> QED
  BY <1>1, <1>3, <1>4, <1>5 DEF r

\* The answer awaited has come: the timer is cancelled, and k is due after SIFS.
Proceeds(m, s, k) ==
  /\ Sound(s) /\ Watch(s) = Without(m, "CtsTimeout") \cup {Timer(k, Sifs)}
  /\ Still(m, s) /\ s.sent = m.sent /\ s.rxing = m.rxing
  /\ s.end["cts"] = Sifs /\ \A c \in Causes \ {"cts"} : s.end[c] = m.end[c]

LEMMA ProceedStep ==
  ASSUME NEW m, Sound(m), NEW k \in Granted, ~Awaiting(m, k)
  PROVE  Proceeds(m, Schedule([Cancel(m, "CtsTimeout") EXCEPT !.end["cts"] = Sifs],
                              k, Sifs, NoFrame), k)
<1> DEFINE c == Cancel(m, "CtsTimeout")
           e == [c EXCEPT !.end["cts"] = Sifs]
           s == Schedule(e, k, Sifs, NoFrame)
<1>1. /\ "CtsTimeout" \in Timers /\ "cts" \in Causes /\ k \in Waiting
  BY WatchedKinds DEF Granted, Waiting, Causes
<1>2. Sound(c) /\ c = [m EXCEPT !.ev = c.ev] /\ Watch(c) = Without(m, "CtsTimeout")
  BY <1>1, CancelTimer
<1> HIDE DEF c
<1>3. Still(m, c) /\ c.rxing = m.rxing /\ c.sent = m.sent /\ c.end = m.end
  BY <1>2 DEF Sound, Still, Kept
<1>4. /\ Sound(e) /\ Watch(e) = Watch(c) /\ Still(c, e)
      /\ e.rxing = c.rxing /\ e.sent = c.sent
      /\ e.end["cts"] = Sifs /\ \A x \in Causes \ {"cts"} : e.end[x] = c.end[x]
  BY <1>1, <1>2, EndStep
<1> HIDE DEF e
<1>5. ~Awaiting(e, k)
  BY <1>2, <1>4 DEF Awaiting, Without
<1>6. /\ Sound(s) /\ Watch(s) = Watch(e) \cup {Timer(k, Sifs)} /\ Still(e, s)
      /\ s.rxing = e.rxing /\ s.sent = e.sent /\ s.end = e.end
  BY <1>1, <1>4, <1>5, TimerStep
<1> HIDE DEF s
<1>7. Still(m, s)
  BY <1>3, <1>4, <1>6 DEF Still, Kept
<1>8. Proceeds(m, s, k)
  BY <1>2, <1>3, <1>4, <1>6, <1>7 DEF Proceeds
<1> QED
  BY <1>8 DEF s, e, c

LEMMA ReceiveCtsProceeds ==
  ASSUME NEW m, Sound(m), NEW f,
         f.a1 = m.addr => ~Awaiting(m, "SendUnicastDataAfterCts")
  PROVE  LET s == ReceiveCts(m, f)
         IN \/ s = m /\ f.a1 # m.addr
            \/ Fails(m, s, "ReceiveCts") /\ f.a1 = m.addr /\ m.st = "SPC"
            \/ /\ Proceeds(m, s, "SendUnicastDataAfterCts")
               /\ f.a1 = m.addr /\ m.st # "SPC"
<1> DEFINE k == "SendUnicastDataAfterCts"
           t == Schedule([Cancel(m, "CtsTimeout") EXCEPT !.end["cts"] = Sifs],
                         k, Sifs, NoFrame)
           s == ReceiveCts(m, f)
<1>1. s = IF f.a1 = m.addr
            THEN IF m.st # "SPC" THEN t ELSE [m EXCEPT !.failed = "ReceiveCts"]
            ELSE m
  BY DEF ReceiveCts, NsAssert
<1>2. f.a1 = m.addr => Proceeds(m, t, k)
  BY ProceedStep, WatchedKinds
<1>3. Fails(m, [m EXCEPT !.failed = "ReceiveCts"], "ReceiveCts")
  BY FailStep
<1> HIDE DEF s, t
<1> QED
  BY <1>1, <1>2, <1>3 DEF s

Counted(m) == [m EXCEPT !.ncts = @ + 1]

LEMMA CountStep ==
  ASSUME NEW m, Sound(m)
  PROVE  LET n == Counted(m)
         IN /\ Sound(n) /\ Watch(n) = Watch(m) /\ Kept(m, n)
            /\ n.st = m.st /\ n.uni = m.uni /\ n.addr = m.addr /\ n.ncts = m.ncts + 1
            /\ n.end = m.end /\ n.rxing = m.rxing /\ n.sent = m.sent
            /\ n.failed = m.failed
<1> DEFINE n == Counted(m)
<1>1. /\ n.ev = m.ev /\ DOMAIN n = DOMAIN m /\ n.end = m.end /\ Kept(m, n)
      /\ n.st = m.st /\ n.uni = m.uni /\ n.addr = m.addr /\ n.ncts = m.ncts + 1
      /\ n.rxing = m.rxing /\ n.sent = m.sent /\ n.failed = m.failed
  BY DEF Counted, Sound, Kept
<1> HIDE DEF n
<1>2. Single(n)
  BY <1>1 DEF Sound, Single
<1>3. Sound(n) /\ Watch(n) = Watch(m)
  BY <1>1, <1>2, SameWatch DEF Sound
<1> QED
  BY <1>1, <1>3 DEF n

LEMMA ReceiveCtsSpcProceeds ==
  ASSUME NEW m, Sound(m), NEW f,
         Awaiting(m, "CtsTimeout") => ~Awaiting(m, "SendSpcDataAfterCtsSpc")
  PROVE  LET s == ReceiveCtsSpc(m, f)
             n == Counted(m)
         IN \/ s = m /\ (~Awaiting(m, "CtsTimeout") \/ f.a1 \notin {m.h1, m.h2})
            \/ /\ Awaiting(m, "CtsTimeout") /\ f.a1 \in {m.h1, m.h2}
               /\ \/ Fails(m, s, "ReceiveCtsSpc") /\ m.st # "SPC"
                  \/ s = n /\ m.st = "SPC" /\ n.ncts # 2
                  \/ /\ Proceeds(n, s, "SendSpcDataAfterCtsSpc")
                     /\ m.st = "SPC" /\ n.ncts = 2
<1> DEFINE k == "SendSpcDataAfterCtsSpc"
           n == Counted(m)
           t == Schedule([Cancel(n, "CtsTimeout") EXCEPT !.end["cts"] = Sifs],
                         k, Sifs, NoFrame)
           s == ReceiveCtsSpc(m, f)
<1>1. s = IF IsExpired(m, "CtsTimeout") \/ f.a1 \notin {m.h1, m.h2} THEN m
          ELSE IF m.st = "SPC" THEN IF n.ncts = 2 THEN t ELSE n
          ELSE [m EXCEPT !.failed = "ReceiveCtsSpc"]
  BY DEF ReceiveCtsSpc, NsAssert, Counted
<1>2. IsExpired(m, "CtsTimeout") <=> ~Awaiting(m, "CtsTimeout")
  BY ExpiredAwaiting, WatchedKinds
<1>3. Sound(n) /\ Watch(n) = Watch(m)
  BY CountStep
<1> HIDE DEF n
<1>4. Awaiting(m, "CtsTimeout") => Proceeds(n, t, k)
  BY <1>3, ProceedStep, WatchedKinds DEF Awaiting
<1>5. Fails(m, [m EXCEPT !.failed = "ReceiveCtsSpc"], "ReceiveCtsSpc")
  BY FailStep
<1> HIDE DEF s, t
<1> QED
  BY <1>1, <1>2, <1>4, <1>5 DEF s, n

\* The timer an acknowledgement stops; the packet it releases goes with it.
AckedTimer(st, n) ==
  IF st = "SECOND" \/ (st = "SPC" /\ n = "SECOND") THEN "AckTimeout2" ELSE "AckTimeout1"

LEMMA ReceiveAckBacks ==
  ASSUME NEW m, Sound(m), m.st \in SendStates, NEW f, f.spc \in SpcNums, NEW draw
  PROVE  LET s == ReceiveAck(m, f, draw)
             k == AckedTimer(m.st, f.spc)
         IN \/ s = m /\ f.a1 # m.addr
            \/ \E c : /\ f.a1 = m.addr
                      /\ Sound(c) /\ Watch(c) = Without(m, k) /\ Still(m, c)
                      /\ c.end = m.end /\ c.rxing = m.rxing /\ c.sent = m.sent
                      /\ IF k = "AckTimeout1" THEN Backs(c, s, NoPacket, m.p2)
                                              ELSE Backs(c, s, m.p1, NoPacket)
<1> DEFINE s == ReceiveAck(m, f, draw)
           k == AckedTimer(m.st, f.spc)
           first  == m.st = "FIRST"  \/ (m.st = "SPC" /\ f.spc = "FIRST")
           second == m.st = "SECOND" \/ (m.st = "SPC" /\ f.spc = "SECOND")
           c == Cancel(m, k)
           n1 == [c EXCEPT !.p1 = NoPacket]
           n2 == [c EXCEPT !.p2 = NoPacket]
           b1 == StartBackoffIfNeeded(InitSend(n1), draw)
           b2 == StartBackoffIfNeeded(InitSend(n2), draw)
<1>1. /\ first => k = "AckTimeout1"
      /\ second => k = "AckTimeout2"
      /\ (first \/ second) /\ ~(first /\ second)
  BY DEF SendStates, SpcNums, AckedTimer
<1>2. s = IF f.a1 = m.addr THEN IF first THEN b1 ELSE b2 ELSE m
  BY <1>1 DEF ReceiveAck
<1>3. k \in Timers
  BY WatchedKinds DEF AckedTimer
<1> HIDE DEF first, second, k
<1>4. Sound(c) /\ c = [m EXCEPT !.ev = c.ev] /\ Watch(c) = Without(m, k)
  BY <1>3, CancelTimer
<1> HIDE DEF c
<1>5. Still(m, c) /\ c.end = m.end /\ c.rxing = m.rxing /\ c.sent = m.sent
  BY <1>4 DEF Sound, Still, Kept
<1>6. /\ Rests(c, n1) /\ n1.p1 = NoPacket /\ n1.p2 = c.p2 /\ n1.h1 = c.h1 /\ n1.h2 = c.h2
      /\ n1.q = c.q /\ n1.st = c.st
      /\ Rests(c, n2) /\ n2.p1 = c.p1 /\ n2.p2 = NoPacket /\ n2.h1 = c.h1 /\ n2.h2 = c.h2
      /\ n2.q = c.q /\ n2.st = c.st
  BY <1>4, SameRests DEF Sound
<1> HIDE DEF n1, n2
<1>7. Backs(n1, b1, n1.p1, n1.p2) /\ Backs(n2, b2, n2.p1, n2.p2)
  BY <1>6, ReleaseBacks DEF Rests
<1> HIDE DEF b1, b2
<1>8. Latest(n1) = Latest(c) /\ Latest(n2) = Latest(c)
  BY <1>6, LatestSame DEF Rests
<1>9. Backs(c, b1, NoPacket, c.p2)
  <2>1. Rests(c, b1)
    BY <1>6, <1>7, RestsTransitive DEF Backs
  <2>2. Goes(c, b1, NoPacket, c.p2)
    BY <1>6, <1>7 DEF Backs, Goes
  <2> QED
    BY <1>6, <1>7, <1>8, <2>1, <2>2 DEF Backs
<1>10. Backs(c, b2, c.p1, NoPacket)
  <2>1. Rests(c, b2)
    BY <1>6, <1>7, RestsTransitive DEF Backs
  <2>2. Goes(c, b2, c.p1, NoPacket)
    BY <1>6, <1>7 DEF Backs, Goes
  <2> QED
    BY <1>6, <1>7, <1>8, <2>1, <2>2 DEF Backs
<1>11. c.p1 = m.p1 /\ c.p2 = m.p2
  BY <1>5 DEF Still, Kept
<1> HIDE DEF s
<1>12. CASE f.a1 # m.addr
  BY <1>2, <1>12 DEF s
<1>13. CASE f.a1 = m.addr
  <2>1. IF k = "AckTimeout1" THEN Backs(c, s, NoPacket, m.p2) ELSE Backs(c, s, m.p1, NoPacket)
    BY <1>1, <1>2, <1>9, <1>10, <1>11, <1>13
  <2> QED
    BY <1>4, <1>5, <1>13, <2>1 DEF s, k
<1> QED
  BY <1>12, <1>13

-----------------------------------------------------------------------------
(* The end of a backoff, and what the environment does.                    *)

\* What BackoffTimeout sends with: m_sendState chosen anew, queue aggregated.
Chosen(m, queue) == [SetState(m) EXCEPT !.q = queue]

LEMMA ChosenStep ==
  ASSUME NEW m, Sound(m), NEW queue
  PROVE  LET n == Chosen(m, queue)
         IN /\ Rests(m, n) /\ n.q = queue /\ n.uni = m.uni
            /\ n.p1 = m.p1 /\ n.p2 = m.p2 /\ n.h1 = m.h1 /\ n.h2 = m.h2
            /\ n.st = SetState(m).st
<1> DEFINE t == SetState(m)
           n == [t EXCEPT !.q = queue]
<1>1. Rests(m, t) /\ Kept(m, t) /\ t.uni = m.uni
  BY FieldsRest
<1> HIDE DEF t
<1>2. /\ n.q = queue /\ n.uni = t.uni /\ n.st = t.st
      /\ n.p1 = t.p1 /\ n.p2 = t.p2 /\ n.h1 = t.h1 /\ n.h2 = t.h2
      /\ Rests(t, n)
  BY <1>1, SameRests DEF Rests, Sound
<1> HIDE DEF n
<1>3. Rests(m, n)
  BY <1>1, <1>2, RestsTransitive
<1> QED
  BY <1>1, <1>2, <1>3 DEF Chosen, Kept, n, t

LEMMA RestsHearing ==
  ASSUME NEW m, NEW n, Rests(m, n), Hearing(m) PROVE Hearing(n)
BY EndHearing DEF Rests

LEMMA BackoffTimeoutArms ==
  ASSUME NEW m, Sound(m), Hearing(m), NEW queue, NEW draw
  PROVE  LET s == BackoffTimeout(m, queue, draw)
             n == Chosen(m, queue)
         IN \/ ~Held(m) /\ Rests(m, s) /\ Kept(m, s) /\ s.st = m.st
            \/ /\ Held(m) /\ Latest(m) > 0
               /\ Rests(m, s) /\ Kept(m, s) /\ s.st = m.st /\ s.uni = m.uni
            \/ /\ Held(m) /\ ~(Latest(m) > 0)
               /\ \/ n.st = "SPC" /\ s = SendRtsSpc(n)
                  \/ /\ n.st # "SPC" /\ CurrentAddr(n) # Group /\ CurrentPacket(n).large
                     /\ s = SendRts(n)
                  \/ /\ n.st # "SPC"
                     /\ ~(CurrentAddr(n) # Group /\ CurrentPacket(n).large)
                     /\ s = SendUnicastDataNoAck(n, draw)
<1> DEFINE n == Chosen(m, queue)
           g == Schedule(m, "BackoffGrantStart", GetBackoffGrantStart(m), NoFrame)
           s == BackoffTimeout(m, queue, draw)
<1>1. Rests(m, InitSend(m)) /\ Kept(m, InitSend(m)) /\ InitSend(m).st = m.st
  BY FieldsRest
<1>2. Rests(m, g) /\ Kept(m, g) /\ g.uni = m.uni /\ g.st = m.st
  BY ChainRests
<1>3. s = IF ~Held(m) THEN InitSend(m)
          ELSE IF Latest(m) > 0 THEN g
          ELSE IF n.st = "SPC" THEN SendRtsSpc(n)
          ELSE IF CurrentAddr(n) # Group /\ CurrentPacket(n).large THEN SendRts(n)
          ELSE SendUnicastDataNoAck(n, draw)
  BY DEF BackoffTimeout, GetSendGrantStart, Chosen
<1> HIDE DEF g, n, s
<1>4. CASE ~Held(m)
  BY <1>1, <1>3, <1>4 DEF s
<1>5. CASE Held(m) /\ Latest(m) > 0
  BY <1>2, <1>3, <1>5 DEF s
<1>6. CASE Held(m) /\ ~(Latest(m) > 0)
  BY <1>3, <1>6 DEF s, n
<1> QED
  BY <1>4, <1>5, <1>6

\* The end of a reception, as it is seen.
Reception(d, f) == [k |-> "EndReceive", due |-> d, arg |-> f]

LEMMA StartReceiveStep ==
  ASSUME NEW m, Sound(m), ~Awaiting(m, "EndReceive"), NEW f
  PROVE  LET s == StartReceive(m, f)
         IN /\ Sound(s) /\ Watch(s) = Watch(m) \cup {Reception(AirTime(f), f)}
            /\ Still(m, s) /\ s.rxing /\ s.sent = NoFrame
            /\ s.end["rx"] = AirTime(f)
            /\ \A c \in Causes \ {"rx"} : s.end[c] = m.end[c]
<1> DEFINE n == Schedule(m, "EndReceive", AirTime(f), f)
           e == [n EXCEPT !.end["rx"] = AirTime(f)]
           s == StartReceive(m, f)
<1>1. /\ Sound(n) /\ n = [m EXCEPT !.ev = n.ev]
      /\ Watch(n) = Watch(m) \cup {Reception(AirTime(f), f)}
  BY ScheduleWatched, WatchedKinds DEF Reception
<1>2. s = [n EXCEPT !.end["rx"] = AirTime(f), !.rxing = TRUE, !.sent = NoFrame]
  BY DEF StartReceive
<1> HIDE DEF n
<1>3. "rx" \in Causes
  BY DEF Causes
<1>4. /\ Sound(e) /\ Watch(e) = Watch(n) /\ Still(n, e)
      /\ e.end["rx"] = AirTime(f) /\ \A x \in Causes \ {"rx"} : e.end[x] = n.end[x]
  BY <1>1, <1>3, EndStep
<1>5. /\ s.ev = e.ev /\ s.end = e.end /\ DOMAIN s = DOMAIN e /\ Still(e, s)
      /\ s.rxing /\ s.sent = NoFrame
  BY <1>1, <1>2 DEF Sound, Still, Kept
<1> HIDE DEF e, s
<1>6. Single(s)
  BY <1>4, <1>5 DEF Sound, Single
<1>7. Sound(s) /\ Watch(s) = Watch(e)
  BY <1>4, <1>5, <1>6, SameWatch DEF Sound
<1>8. n.end = m.end /\ Still(m, n)
  BY <1>1 DEF Sound, Still, Kept
<1>9. Still(m, s)
  BY <1>4, <1>5, <1>8 DEF Still, Kept
<1> QED
  BY <1>1, <1>4, <1>5, <1>7, <1>8, <1>9 DEF s

LEMMA BusyStep ==
  ASSUME NEW m, Sound(m), NEW d
  PROVE  LET s == NotifyMaybeCcaBusyStartNow(m, d)
         IN /\ Sound(s) /\ Watch(s) = Watch(m) /\ Still(m, s)
            /\ s.rxing = m.rxing /\ s.sent = NoFrame
            /\ \A c \in Causes \ {"busy"} : s.end[c] = m.end[c]
<1> DEFINE g == GetEnergyDuration(m, d)
           x == IF g = 0 THEN m.end["busy"] ELSE g
           e == [m EXCEPT !.end["busy"] = x]
           s == NotifyMaybeCcaBusyStartNow(m, d)
<1>1. s = [m EXCEPT !.end["busy"] = x, !.sent = NoFrame]
  BY DEF NotifyMaybeCcaBusyStartNow
<1> HIDE DEF x
<1>2. "busy" \in Causes
  BY DEF Causes
<1>3. /\ Sound(e) /\ Watch(e) = Watch(m) /\ Still(m, e) /\ e.rxing = m.rxing
      /\ \A y \in Causes \ {"busy"} : e.end[y] = m.end[y]
  BY <1>2, EndStep
<1>4. /\ s.ev = e.ev /\ s.end = e.end /\ DOMAIN s = DOMAIN e /\ Still(e, s)
      /\ s.rxing = e.rxing /\ s.sent = NoFrame
  BY <1>1 DEF Sound, Still, Kept
<1> HIDE DEF e, s
<1>5. Single(s)
  BY <1>3, <1>4 DEF Sound, Single
<1>6. Sound(s) /\ Watch(s) = Watch(e)
  BY <1>3, <1>4, <1>5, SameWatch DEF Sound
<1>7. Still(m, s)
  BY <1>3, <1>4 DEF Still, Kept
<1> QED
  BY <1>3, <1>4, <1>6, <1>7 DEF s

\* An event, one time unit later.
Sooner(w) == [w EXCEPT !.due = @ - 1]

LEMMA ElapseStep ==
  ASSUME NEW m, Sound(m)
  PROVE  LET s == Elapse(m)
         IN /\ Sound(s) /\ Watch(s) = {Sooner(w) : w \in Watch(m)}
            /\ Still(m, s) /\ s.rxing = m.rxing /\ s.sent = NoFrame
            /\ \A c \in Causes : s.end[c] = Saturate(m.end[c] - 1)
<1> DEFINE end == [c \in Causes |-> Saturate(m.end[c] - 1)]
           ev  == {Sooner(e) : e \in m.ev}
           s   == Elapse(m)
<1>1. s = [m EXCEPT !.end = end, !.ev = ev, !.sent = NoFrame]
  BY DEF Elapse, Sooner
<1>2. DOMAIN end = Causes /\ \A c \in Causes : end[c] = Saturate(m.end[c] - 1)
  OBVIOUS
<1>3. \A e \in m.ev : /\ DOMAIN Sooner(e) = DOMAIN e /\ Sooner(e).k = e.k
                      /\ Sooner(e).cur = e.cur
                      /\ View(Sooner(e)) = Sooner(View(e))
  BY DEF Sound, Sooner, View
<1>4. /\ \A x \in ev : \E e \in m.ev : x = Sooner(e)
      /\ \A e \in m.ev : Sooner(e) \in ev
  OBVIOUS
<1> HIDE DEF end, ev
<1>5. /\ s.ev = ev /\ s.end = end /\ DOMAIN s = DOMAIN m
      /\ Still(m, s) /\ s.rxing = m.rxing /\ s.sent = NoFrame
  BY <1>1 DEF Sound, Still, Kept
<1> HIDE DEF s
<1>6. ASSUME NEW w PROVE w \in Watch(s) <=> \E v \in Watch(m) : w = Sooner(v)
  <2>1. ASSUME w \in Watch(s) PROVE \E v \in Watch(m) : w = Sooner(v)
    <3>1. PICK x \in s.ev : x.k \in Watched /\ w = View(x)
      BY <2>1, WatchMembers
    <3>2. PICK e \in m.ev : x = Sooner(e)
      BY <1>4, <1>5
    <3>3. View(e) \in Watch(m) /\ w = Sooner(View(e))
      BY <1>3, <3>1, <3>2, WatchMembers
    <3> QED
      BY <3>3
  <2>2. ASSUME NEW v \in Watch(m), w = Sooner(v) PROVE w \in Watch(s)
    <3>1. PICK e \in m.ev : e.k \in Watched /\ v = View(e)
      BY WatchMembers
    <3>2. Sooner(e) \in s.ev /\ Sooner(e).k \in Watched /\ w = View(Sooner(e))
      BY <1>3, <1>4, <1>5, <2>2, <3>1
    <3> QED
      BY <3>2, WatchMembers
  <2> QED
    BY <2>1, <2>2
<1>7. Single(s)
  <2>1. ASSUME NEW x1 \in s.ev, NEW x2 \in s.ev, x1.k = x2.k, x1.k \in Watched
        PROVE  x1 = x2
    <3>1. PICK e1 \in m.ev, e2 \in m.ev : x1 = Sooner(e1) /\ x2 = Sooner(e2)
      BY <1>4, <1>5
    <3>2. e1.k = e2.k /\ e1.k \in Watched
      BY <1>3, <2>1, <3>1
    <3> QED
      BY <3>1, <3>2 DEF Sound, Single
  <2>2. \A x \in s.ev : x.k \in Timers => x.cur
    BY <1>3, <1>4, <1>5 DEF Sound, Single
  <2> QED
    BY <2>1, <2>2 DEF Single
<1>8. \A x \in s.ev : {"k", "due", "arg", "after", "cur"} \subseteq DOMAIN x
  BY <1>3, <1>4, <1>5 DEF Sound
<1>9. Sound(s)
  BY <1>2, <1>5, <1>7, <1>8 DEF Sound
<1>10. Watch(s) = {Sooner(w) : w \in Watch(m)}
  BY <1>6
<1> QED
  BY <1>2, <1>5, <1>9, <1>10 DEF s

-----------------------------------------------------------------------------
(*****************************************************************************)
(* No exchange is opened while another waits: what is waited for is over     *)
(* before the instant that holds back the station's own frames, and what is  *)
(* waited for is what was sent.                                              *)
(*****************************************************************************)

\* Frames whose reception may end at this station, and when: those that are
\* being received, and the answers that will begin to arrive.
Heard(w)       == [at |-> w.due, frame |-> w.arg]
Expected(r)    == [at |-> r.due + AirTime(r.frame), frame |-> r.frame]
Coming(m, ar)  == {Heard(w) : w \in {x \in Watch(m) : x.k = "EndReceive"}}
                  \cup {Expected(r) : r \in ar}

\* What the station waits for is over at the instants it keeps for that.
Within(m) == \A w \in Watch(m) :
  /\ w.k = "EndReceive" => m.rxing /\ ~(m.end["tx"] > 0) /\ w.due <= m.end["rx"]
  /\ w.k \in {"CtsTimeout"} \cup Granted => w.due <= m.end["cts"]
  /\ w.k \in Granted => w.due <= Sifs
  /\ w.k \in AckTimers => w.due <= m.end["ack"] /\ (w.due > AckWait => m.st = "SPC")

\* Data that was granted goes out before another answer can have come.
Apart(m) == \A g, t \in Watch(m) :
  g.k \in Granted /\ t.k = "CtsTimeout" =>
    g.due = 0 /\ \A r \in Watch(m) : r.k = "EndReceive" => r.due > 0

\* A CTS for this station comes while its CtsTimeout is pending.
CtsWait == 2 * MaxProp + Sifs
CtsComing(m, ar) == \A c \in Coming(m, ar) :
  CtsTo(c.frame, m.addr) =>
    m.st # "SPC" /\ \E t \in Watch(m) : t.k = "CtsTimeout" /\ t.due = c.at + CtsWait

\* What these need to know of types.
Typed(m) ==
  /\ \A c \in Causes : m.end[c] \in Int
  /\ \A w \in Watch(m) : w.due \in Nat /\ (w.k = "EndReceive" => w.arg \in Frames)

Answering(ar) == ar \subseteq [due : Nat, frame : Frames]

Guarded(m, ar) ==
  Sound(m) /\ Typed(m) /\ Within(m) /\ Apart(m) /\ CtsComing(m, ar) /\ Answering(ar)

LEMMA Times ==
  /\ {Sifs, Difs, MaxProp, RtsTime, CtsTime, AckTime, DataTime} \subseteq Nat
  /\ Sifs > 0 /\ Difs > 0 /\ MaxProp > 0
  /\ RtsTime > 0 /\ CtsTime > 0 /\ AckTime > 0 /\ DataTime > 0
  /\ \A f \in Frames : AirTime(f) \in Nat /\ AirTime(f) > 0
  /\ CtsWait \in Nat /\ CtsWait > 0
  /\ {RtsSendAndSifs, CtsSendAndSifs, AckSendAndSifs,
      RtsWait, RtsSpcWait, AckWait, AckSpcWait} \subseteq Nat
  /\ AckWait < AckSpcWait
<1>1. /\ {Sifs, Difs, MaxProp, RtsTime, CtsTime, AckTime, DataTime} \subseteq Nat
      /\ Sifs > 0 /\ Difs > 0 /\ MaxProp > 0
      /\ RtsTime > 0 /\ CtsTime > 0 /\ AckTime > 0 /\ DataTime > 0
  BY TimeAssumption
<1>2. ASSUME NEW f \in Frames PROVE AirTime(f) \in Nat /\ AirTime(f) > 0
  BY <1>1, FrameFields DEF AirTime, FrameTypes
<1>3. CtsWait \in Nat /\ CtsWait > 0
  BY <1>1 DEF CtsWait
<1>4. /\ {RtsSendAndSifs, CtsSendAndSifs, AckSendAndSifs} \subseteq Nat
      /\ AckSendAndSifs > 0
  BY <1>1 DEF RtsSendAndSifs, CtsSendAndSifs, AckSendAndSifs
<1>5. {RtsWait, RtsSpcWait, AckWait, AckSpcWait} \subseteq Nat /\ AckWait < AckSpcWait
  BY <1>1, <1>4 DEF RtsWait, RtsSpcWait, AckWait, AckSpcWait
<1> QED
  BY <1>1, <1>2, <1>3, <1>4, <1>5

\* No answer comes without an instant it comes at.
LEMMA ComingTypes ==
  ASSUME NEW m, Typed(m), NEW ar, Answering(ar)
  PROVE  /\ \A c \in Coming(m, ar) : c.at \in Nat /\ c.frame \in Frames
         /\ \A r \in ar : /\ Expected(r) \in Coming(m, ar)
                          /\ Expected(r).at = r.due + AirTime(r.frame)
                          /\ Expected(r).at > 0 /\ Expected(r).frame = r.frame
         /\ \A w \in Watch(m) : w.k = "EndReceive" =>
              Heard(w) \in Coming(m, ar) /\ Heard(w).at = w.due /\ Heard(w).frame = w.arg
<1>1. ASSUME NEW r \in ar
      PROVE  /\ Expected(r) \in Coming(m, ar)
             /\ Expected(r).at = r.due + AirTime(r.frame)
             /\ Expected(r).at > 0 /\ Expected(r).frame = r.frame
             /\ Expected(r).at \in Nat /\ Expected(r).frame \in Frames
  <2>1. r.due \in Nat /\ r.frame \in Frames
    BY DEF Answering
  <2>2. AirTime(r.frame) \in Nat /\ AirTime(r.frame) > 0
    BY <2>1, Times
  <2>3. Expected(r).at = r.due + AirTime(r.frame) /\ Expected(r).frame = r.frame
    BY DEF Expected
  <2> QED
    BY <2>1, <2>2, <2>3 DEF Coming
<1>2. ASSUME NEW w \in Watch(m), w.k = "EndReceive"
      PROVE  /\ Heard(w) \in Coming(m, ar) /\ Heard(w).at = w.due /\ Heard(w).frame = w.arg
             /\ Heard(w).at \in Nat /\ Heard(w).frame \in Frames
  BY <1>2 DEF Heard, Coming, Typed
<1>3. \A c \in Coming(m, ar) : c.at \in Nat /\ c.frame \in Frames
  <2> SUFFICES ASSUME NEW c \in Coming(m, ar) PROVE c.at \in Nat /\ c.frame \in Frames
    OBVIOUS
  <2>1. \/ \E r \in ar : c = Expected(r)
        \/ \E w \in Watch(m) : w.k = "EndReceive" /\ c = Heard(w)
    BY DEF Coming
  <2> QED
    BY <1>1, <1>2, <2>1
<1> QED
  BY <1>1, <1>2, <1>3

LEMMA LatestBound ==
  ASSUME NEW m, Typed(m)
  PROVE  Latest(m) \in Int /\ \A c \in Causes : m.end[c] <= Latest(m)
<1> DEFINE end == [c \in Causes |-> m.end[c]]
<1>1. end \in [Causes -> Int] /\ \A c \in Causes : end[c] = m.end[c]
  BY DEF Typed
<1> HIDE DEF end
<1>2. \E t \in {end[c] : c \in Causes} : \A c \in Causes : end[c] <= t
  BY <1>1, LatestExists
<1>3. \E t \in {m.end[c] : c \in Causes} : \A c \in Causes : m.end[c] <= t
  BY <1>1, <1>2
<1> QED
  BY <1>3 DEF Latest, Typed

\* Nothing that the station waits for is later than its own frames may be.
LEMMA WatchedEnds ==
  ASSUME NEW m, Typed(m), Within(m)
  PROVE  \A w \in Watch(m) : w.due <= Latest(m)
<1>1. {"rx", "tx", "ack", "cts"} \subseteq Causes
  BY DEF Causes
<1>2. Latest(m) \in Int /\ \A c \in Causes : m.end[c] <= Latest(m)
  BY LatestBound
<1>3. SUFFICES ASSUME NEW w \in Watch(m) PROVE w.due <= Latest(m)
  OBVIOUS
<1>4. w.k \in AckTimers \/ w.k \in {"CtsTimeout"} \cup Granted \/ w.k = "EndReceive"
  BY WatchMembers DEF Watched, Waiting, AckTimers, Granted
<1>5. \E c \in Causes : w.due <= m.end[c]
  BY <1>1, <1>4 DEF Within
<1> QED
  BY <1>2, <1>5 DEF Typed

LEMMA FreeEmpty ==
  ASSUME NEW m, Typed(m), Within(m), Latest(m) + Difs <= 0
  PROVE  Watch(m) = {}
<1>1. \A w \in Watch(m) : w.due <= Latest(m) /\ w.due \in Nat
  BY WatchedEnds DEF Typed
<1> QED
  BY <1>1, LatestBound, Times

LEMMA FreeNow ==
  ASSUME NEW m, Typed(m), Within(m), ~(Latest(m) > 0)
  PROVE  \A w \in Watch(m) : w.due = 0
<1>1. \A w \in Watch(m) : w.due <= Latest(m) /\ w.due \in Nat
  BY WatchedEnds DEF Typed
<1> QED
  BY <1>1, LatestBound

LEMMA ComingLess ==
  ASSUME NEW m, NEW s, NEW ar, NEW ar2 \in SUBSET ar,
         \A w \in Watch(s) : w.k = "EndReceive" => w \in Watch(m)
  PROVE  Coming(s, ar2) \subseteq Coming(m, ar)
BY DEF Coming

\* No answer is added, and the CtsTimeouts stay.
LEMMA CtsComingLess ==
  ASSUME NEW m, NEW s, NEW ar, NEW ar2, CtsComing(m, ar),
         Coming(s, ar2) \subseteq Coming(m, ar), s.addr = m.addr, s.st = m.st,
         \A t \in Watch(m) : t.k = "CtsTimeout" => t \in Watch(s)
  PROVE  CtsComing(s, ar2)
BY DEF CtsComing

\* No CTS comes when the CtsTimeouts pending are due, or there are none.
LEMMA NoCtsComing ==
  ASSUME NEW m, NEW ar, Typed(m), Answering(ar), CtsComing(m, ar),
         m.st = "SPC" \/ \A t \in Watch(m) : t.k = "CtsTimeout" => t.due = 0
  PROVE  \A c \in Coming(m, ar) : ~CtsTo(c.frame, m.addr)
<1> SUFFICES ASSUME NEW c \in Coming(m, ar), CtsTo(c.frame, m.addr) PROVE FALSE
  OBVIOUS
<1>1. m.st # "SPC" /\ \E t \in Watch(m) : t.k = "CtsTimeout" /\ t.due = c.at + CtsWait
  BY DEF CtsComing
<1>2. c.at \in Nat
  BY ComingTypes
<1> QED
  BY <1>1, <1>2, Times

-----------------------------------------------------------------------------
(* Each kind of step keeps a station guarded.                              *)

LEMMA GuardedRests ==
  ASSUME NEW m, NEW ar, Guarded(m, ar), NEW s, Rests(m, s),
         s.st = m.st \/ Latest(m) + Difs <= 0
  PROVE  Guarded(s, ar)
<1>1. /\ Sound(s) /\ Watch(s) = Watch(m) /\ s.end = m.end
      /\ s.rxing = m.rxing /\ s.addr = m.addr
  BY DEF Rests
<1>2. Typed(s) /\ Apart(s)
  BY <1>1 DEF Guarded, Typed, Apart
<1>3. Within(s) /\ CtsComing(s, ar)
  <2>1. CASE s.st = m.st
    <3>1. Within(s)
      BY <1>1, <2>1 DEF Guarded, Within
    <3>2. Coming(s, ar) = Coming(m, ar)
      BY <1>1 DEF Coming
    <3> QED
      BY <1>1, <2>1, <3>1, <3>2, CtsComingLess DEF Guarded
  <2>2. CASE Latest(m) + Difs <= 0
    <3>1. Watch(m) = {}
      BY <2>2, FreeEmpty DEF Guarded
    <3>2. \A c \in Coming(m, ar) : ~CtsTo(c.frame, m.addr)
      BY <3>1, NoCtsComing DEF Guarded
    <3>3. Coming(s, ar) = Coming(m, ar)
      BY <1>1 DEF Coming
    <3> QED
      BY <1>1, <3>1, <3>2, <3>3 DEF Within, CtsComing
  <2> QED
    BY <2>1, <2>2
<1> QED
  BY <1>1, <1>2, <1>3 DEF Guarded

LEMMA GuardedBacks ==
  ASSUME NEW m, NEW ar, Guarded(m, ar), NEW s, NEW x, NEW y, Backs(m, s, x, y)
  PROVE  Guarded(s, ar)
BY GuardedRests DEF Backs

\* Events are taken away, other than CtsTimeouts that an answer waits for.
LEMMA GuardedWithout ==
  ASSUME NEW m, NEW ar, Guarded(m, ar), NEW s, Sound(s), NEW k,
         Watch(s) = Without(m, k), s.st = m.st, s.addr = m.addr, s.end = m.end,
         s.rxing = m.rxing \/ k = "EndReceive",
         k = "CtsTimeout" => \A c \in Coming(m, ar) : ~CtsTo(c.frame, m.addr),
         NEW ar2 \in SUBSET ar
  PROVE  Guarded(s, ar2)
<1>1. Watch(s) \subseteq Watch(m) /\ \A w \in Watch(s) : w.k # k
  BY DEF Without
<1>2. Typed(s) /\ Apart(s) /\ Answering(ar2)
  BY <1>1 DEF Guarded, Typed, Apart, Answering
<1>3. Within(s)
  BY <1>1 DEF Guarded, Within
<1>4. Coming(s, ar2) \subseteq Coming(m, ar)
  BY <1>1, ComingLess
<1>5. CtsComing(s, ar2)
  <2>1. CASE k = "CtsTimeout"
    BY <1>4, <2>1 DEF CtsComing
  <2>2. CASE k # "CtsTimeout"
    <3>1. \A t \in Watch(m) : t.k = "CtsTimeout" => t \in Watch(s)
      BY <2>2 DEF Without
    <3> QED
      BY <1>4, <3>1, CtsComingLess DEF Guarded
  <2> QED
    BY <2>1, <2>2
<1> QED
  BY <1>2, <1>3, <1>5 DEF Guarded

LEMMA GuardedPop ==
  ASSUME NEW m, NEW ar, Guarded(m, ar), NEW e \in m.ev, e.due = 0
  PROVE  Guarded(Pop(m, e), ar)
<1> DEFINE s == Pop(m, e)
<1>1. /\ Sound(s) /\ s = [m EXCEPT !.ev = s.ev, !.sent = NoFrame]
      /\ Watch(s) = Without(m, e.k)
  BY PopEvent DEF Guarded
<1> HIDE DEF s
<1>2. s.st = m.st /\ s.addr = m.addr /\ s.end = m.end /\ s.rxing = m.rxing
  BY <1>1 DEF Guarded, Sound
<1>3. e.k = "CtsTimeout" => \A c \in Coming(m, ar) : ~CtsTo(c.frame, m.addr)
  <2> SUFFICES ASSUME e.k = "CtsTimeout"
               PROVE  \A c \in Coming(m, ar) : ~CtsTo(c.frame, m.addr)
    OBVIOUS
  <2>1. \A t \in Watch(m) : t.k = "CtsTimeout" => t.due = 0
    <3>1. \A t \in Watch(m) : t.k = "CtsTimeout" => \E x \in m.ev : x.k = "CtsTimeout" /\ t = View(x)
      BY WatchMembers DEF View
    <3>2. \A x \in m.ev : x.k = "CtsTimeout" => x = e
      BY WatchedKinds DEF Guarded, Sound, Single
    <3>3. View(e).due = 0
      BY DEF View
    <3> QED
      BY <3>1, <3>2, <3>3
  <2> QED
    BY <2>1, NoCtsComing DEF Guarded
<1>4. Guarded(s, ar)
  BY <1>1, <1>2, <1>3, GuardedWithout
<1> QED
  BY <1>4 DEF s

\* An exchange opens: what was waited for is over in this instant.
LEMMA GuardedOpens ==
  ASSUME NEW m, NEW ar, Guarded(m, ar), \A w \in Watch(m) : w.due = 0,
         NEW s, NEW d \in Nat, NEW f, AirTime(f) \in Int,
         Arms(m, s, {Timer("CtsTimeout", d)}, "cts", d, f)
  PROVE  Guarded(s, ar) /\ Timer("CtsTimeout", d) \in Watch(s)
<1>1. /\ Sound(s) /\ Watch(s) = Without(m, "EndReceive") \cup {Timer("CtsTimeout", d)}
      /\ ~s.rxing /\ s.end["tx"] = AirTime(f) /\ s.end["cts"] = d
      /\ \A x \in Causes \ {"tx", "rx", "cts"} : s.end[x] = m.end[x]
      /\ s.addr = m.addr /\ s.st = m.st
  BY DEF Arms, Still
<1>2. \A w \in Watch(s) : /\ w.k # "EndReceive"
                          /\ w = Timer("CtsTimeout", d) \/ (w \in Watch(m) /\ w.due = 0)
  BY <1>1 DEF Without, Timer
<1>3. /\ Timer("CtsTimeout", d).k = "CtsTimeout" /\ Timer("CtsTimeout", d).due = d
      /\ Timer("CtsTimeout", d) \in Watch(s)
  BY <1>1 DEF Timer
<1>4. "cts" \in Causes /\ "ack" \in Causes \ {"tx", "rx", "cts"}
  BY DEF Causes
<1>5. CtsComing(s, ar)
  <2>1. \A c \in Coming(m, ar) : ~CtsTo(c.frame, m.addr)
    BY NoCtsComing DEF Guarded
  <2>2. Coming(s, ar) \subseteq Coming(m, ar)
    BY <1>2, ComingLess
  <2> QED
    BY <1>1, <2>1, <2>2 DEF CtsComing
<1>6. Within(s)
  <2> SUFFICES ASSUME NEW w \in Watch(s)
               PROVE  /\ w.k # "EndReceive"
                      /\ w.k \in {"CtsTimeout"} \cup Granted => w.due <= s.end["cts"]
                      /\ w.k \in Granted => w.due <= Sifs
                      /\ w.k \in AckTimers => /\ w.due <= s.end["ack"]
                                              /\ (w.due > AckWait => s.st = "SPC")
    BY DEF Within
  <2>1. CASE w = Timer("CtsTimeout", d)
    BY <1>1, <1>3, <2>1 DEF Granted, AckTimers
  <2>2. CASE w \in Watch(m) /\ w.due = 0
    BY <1>1, <1>2, <1>4, <2>2, Times DEF Guarded, Within
  <2> QED
    BY <1>2, <2>1, <2>2
<1>7. Apart(s)
  BY <1>2, <1>3 DEF Apart, Granted
<1>8. Typed(s)
  <2>1. \A c \in Causes : s.end[c] \in Int
    <3>1. s.end["rx"] \in Int
      BY DEF Arms, Causes, Guarded, Typed
    <3> QED
      BY <1>1, <3>1, Times DEF Guarded, Typed
  <2> QED
    BY <1>2, <1>3, <2>1 DEF Guarded, Typed
<1> QED
  BY <1>1, <1>3, <1>5, <1>6, <1>7, <1>8 DEF Guarded

\* A frame is sent that no new timer waits for.
LEMMA GuardedSends ==
  ASSUME NEW m, NEW ar, Guarded(m, ar), NEW s, NEW f, AirTime(f) \in Int,
         Sound(s), Watch(s) = Without(m, "EndReceive"), s.addr = m.addr, s.st = m.st,
         s.end["tx"] = AirTime(f), s.end["rx"] \in {0, m.end["rx"]},
         \A c \in Causes \ {"tx", "rx"} : s.end[c] = m.end[c]
  PROVE  Guarded(s, ar)
<1>1. \A w \in Watch(s) : w.k # "EndReceive" /\ w \in Watch(m)
  BY DEF Without
<1>2. {"cts", "ack"} \subseteq Causes \ {"tx", "rx"} /\ {"rx", "tx"} \subseteq Causes
  BY DEF Causes
<1>3. Within(s)
  BY <1>1, <1>2 DEF Guarded, Within
<1>4. Typed(s)
  BY <1>1, <1>2, Times DEF Guarded, Typed
<1>5. Apart(s)
  BY <1>1 DEF Guarded, Apart
<1>6. CtsComing(s, ar)
  <2>1. Coming(s, ar) \subseteq Coming(m, ar)
    BY <1>1, ComingLess
  <2>2. \A t \in Watch(m) : t.k = "CtsTimeout" => t \in Watch(s)
    BY DEF Without
  <2> QED
    BY <2>1, <2>2, CtsComingLess DEF Guarded
<1> QED
  BY <1>3, <1>4, <1>5, <1>6 DEF Guarded

\* Data goes out, and its acknowledgements are awaited.
LEMMA GuardedArms ==
  ASSUME NEW m, NEW ar, Guarded(m, ar), NEW d \in Nat,
         d > AckWait => m.st = "SPC",
         \A w \in Watch(m) : w.k \in AckTimers => w.due <= d,
         NEW V, \A v \in V : v.k \in AckTimers /\ v.due = d,
         NEW s, NEW f, AirTime(f) \in Int, Arms(m, s, V, "ack", d, f)
  PROVE  Guarded(s, ar)
<1>1. /\ Sound(s) /\ Watch(s) = Without(m, "EndReceive") \cup V
      /\ s.end["tx"] = AirTime(f) /\ s.end["rx"] \in {0, m.end["rx"]} /\ s.end["ack"] = d
      /\ \A x \in Causes \ {"tx", "rx", "ack"} : s.end[x] = m.end[x]
      /\ s.addr = m.addr /\ s.st = m.st
  BY DEF Arms, Still
<1>2. \A w \in Watch(s) : /\ w.k # "EndReceive"
                          /\ w \in Watch(m) \/ (w.k \in AckTimers /\ w.due = d)
  BY <1>1 DEF Without, AckTimers
<1>3. "cts" \in Causes \ {"tx", "rx", "ack"} /\ {"rx", "tx", "ack"} \subseteq Causes
  BY DEF Causes
<1>4. \A k \in AckTimers : k # "CtsTimeout" /\ k \notin Granted /\ k # "EndReceive"
  BY DEF AckTimers, Granted
<1>5. Within(s)
  <2> SUFFICES ASSUME NEW w \in Watch(s)
               PROVE  /\ w.k # "EndReceive"
                      /\ w.k \in {"CtsTimeout"} \cup Granted => w.due <= s.end["cts"]
                      /\ w.k \in Granted => w.due <= Sifs
                      /\ w.k \in AckTimers => /\ w.due <= s.end["ack"]
                                              /\ (w.due > AckWait => s.st = "SPC")
    BY DEF Within
  <2>1. CASE w \in Watch(m)
    BY <1>1, <1>2, <1>3, <2>1 DEF Guarded, Within
  <2>2. CASE w.k \in AckTimers /\ w.due = d
    BY <1>1, <1>4, <2>2
  <2> QED
    BY <1>2, <2>1, <2>2
<1>6. Typed(s)
  BY <1>1, <1>2, <1>3, <1>4, Times DEF Guarded, Typed
<1>7. Apart(s)
  BY <1>2, <1>4 DEF Guarded, Apart
<1>8. CtsComing(s, ar)
  <2>1. Coming(s, ar) \subseteq Coming(m, ar)
    BY <1>2, <1>4, ComingLess
  <2>2. \A t \in Watch(m) : t.k = "CtsTimeout" => t \in Watch(s)
    BY <1>1 DEF Without
  <2> QED
    BY <1>1, <2>1, <2>2, CtsComingLess DEF Guarded
<1> QED
  BY <1>1, <1>5, <1>6, <1>7, <1>8 DEF Guarded

\* A change of what is not waited for.
LEMMA GuardedSame ==
  ASSUME NEW m, NEW ar, Guarded(m, ar), NEW s, Sound(s), Watch(s) = Watch(m),
         s.addr = m.addr, s.st = m.st,
         s.rxing = m.rxing \/ ~Awaiting(m, "EndReceive"),
         \A c \in {"tx", "rx", "cts", "ack"} : s.end[c] = m.end[c],
         \A c \in Causes : s.end[c] \in Int,
         NEW ar2 \in SUBSET ar
  PROVE  Guarded(s, ar2)
<1>1. Typed(s) /\ Apart(s)
  BY DEF Guarded, Typed, Apart
<1>2. Within(s)
  BY DEF Guarded, Within, Awaiting
<1>3. CtsComing(s, ar2)
  BY ComingLess, CtsComingLess DEF Guarded
<1>4. Answering(ar2)
  BY DEF Guarded, Answering
<1> QED
  BY <1>1, <1>2, <1>3, <1>4 DEF Guarded

\* An answer opens the way for data: no other CTS can be under way.
LEMMA GuardedProceeds ==
  ASSUME NEW m, NEW ar, Guarded(m, ar), ~Awaiting(m, "EndReceive"),
         \A c \in Coming(m, ar) : ~CtsTo(c.frame, m.addr),
         NEW k \in Granted, NEW s, Proceeds(m, s, k)
  PROVE  Guarded(s, ar)
<1>1. /\ Sound(s) /\ Watch(s) = Without(m, "CtsTimeout") \cup {Timer(k, Sifs)}
      /\ s.addr = m.addr /\ s.st = m.st /\ s.rxing = m.rxing
      /\ s.end["cts"] = Sifs /\ \A c \in Causes \ {"cts"} : s.end[c] = m.end[c]
  BY DEF Proceeds, Still
<1>2. {"tx", "rx", "ack"} \subseteq Causes \ {"cts"} /\ "cts" \in Causes
  BY DEF Causes
<1>3. /\ Timer(k, Sifs).k = k /\ Timer(k, Sifs).due = Sifs
      /\ k # "EndReceive" /\ k # "CtsTimeout" /\ k \notin AckTimers
  BY DEF Timer, Granted, AckTimers
<1>4. \A w \in Watch(s) : /\ w.k # "EndReceive" /\ w.k # "CtsTimeout"
                          /\ w = Timer(k, Sifs) \/ w \in Watch(m)
  BY <1>1, <1>3 DEF Without, Awaiting
<1>5. Within(s)
  <2> SUFFICES ASSUME NEW w \in Watch(s)
               PROVE  /\ w.k \in Granted => w.due <= Sifs
                      /\ w.k \in AckTimers => /\ w.due <= s.end["ack"]
                                              /\ (w.due > AckWait => s.st = "SPC")
    BY <1>1, <1>4 DEF Within
  <2>1. CASE w \in Watch(m)
    BY <1>1, <1>2, <2>1 DEF Guarded, Within
  <2>2. CASE w = Timer(k, Sifs)
    BY <1>3, <2>2, Times
  <2> QED
    BY <1>4, <2>1, <2>2
<1>6. Typed(s)
  BY <1>1, <1>2, <1>3, <1>4, Times DEF Guarded, Typed
<1>7. Apart(s)
  BY <1>4 DEF Apart
<1>8. CtsComing(s, ar)
  <2>1. Coming(s, ar) \subseteq Coming(m, ar)
    BY <1>4, ComingLess
  <2> QED
    BY <1>1, <2>1 DEF CtsComing
<1> QED
  BY <1>1, <1>5, <1>6, <1>7, <1>8 DEF Guarded

\* A reception begins.
LEMMA GuardedReceives ==
  ASSUME NEW m, NEW ar, Guarded(m, ar), CanReceive(m), NEW f \in Frames,
         NEW ar2 \in SUBSET ar,
         CtsTo(f, m.addr) =>
           m.st # "SPC" /\ \E t \in Watch(m) : t.k = "CtsTimeout" /\ t.due = AirTime(f) + CtsWait
  PROVE  ~Awaiting(m, "EndReceive") /\ Guarded(StartReceive(m, f), ar2)
<1> DEFINE s == StartReceive(m, f)
           v == Reception(AirTime(f), f)
<1>1. ~m.rxing /\ ~(m.end["tx"] > 0)
  BY DEF CanReceive, IsStateTx
<1>2. ~Awaiting(m, "EndReceive")
  BY <1>1 DEF Guarded, Within, Awaiting
<1>3. /\ Sound(s) /\ Watch(s) = Watch(m) \cup {v} /\ s.rxing
      /\ s.addr = m.addr /\ s.st = m.st /\ s.end["rx"] = AirTime(f)
      /\ \A c \in Causes \ {"rx"} : s.end[c] = m.end[c]
  BY <1>2, StartReceiveStep DEF Guarded, Still
<1> HIDE DEF s
<1>4. v.k = "EndReceive" /\ v.due = AirTime(f) /\ v.arg = f
  BY DEF Reception
<1>5. AirTime(f) \in Nat /\ AirTime(f) > 0
  BY Times
<1> HIDE DEF v
<1>6. {"tx", "cts", "ack"} \subseteq Causes \ {"rx"} /\ "rx" \in Causes
  BY DEF Causes
<1>7. \A w \in Watch(m) : w.k # "EndReceive"
  BY <1>2 DEF Awaiting
<1>8. Within(s)
  <2> SUFFICES ASSUME NEW w \in Watch(s)
               PROVE  /\ w.k = "EndReceive" =>
                           s.rxing /\ ~(s.end["tx"] > 0) /\ w.due <= s.end["rx"]
                      /\ w.k \in {"CtsTimeout"} \cup Granted => w.due <= s.end["cts"]
                      /\ w.k \in Granted => w.due <= Sifs
                      /\ w.k \in AckTimers => /\ w.due <= s.end["ack"]
                                              /\ (w.due > AckWait => s.st = "SPC")
    BY DEF Within
  <2>1. CASE w \in Watch(m)
    BY <1>3, <1>6, <1>7, <2>1 DEF Guarded, Within
  <2>2. CASE w = v
    BY <1>1, <1>3, <1>4, <1>5, <1>6, <2>2 DEF Granted, AckTimers
  <2> QED
    BY <1>3, <2>1, <2>2
<1>9. Typed(s)
  BY <1>3, <1>4, <1>5, <1>6 DEF Guarded, Typed
<1>10. Apart(s)
  BY <1>3, <1>4, <1>5, <1>7 DEF Guarded, Apart, Granted
<1>11. CtsComing(s, ar2)
  <2>1. ASSUME NEW c \in Coming(s, ar2)
        PROVE  c \in Coming(m, ar) \/ (c.at = AirTime(f) /\ c.frame = f)
    <3>1. \/ \E r \in ar2 : c = Expected(r)
          \/ \E w \in Watch(s) : w.k = "EndReceive" /\ c = Heard(w)
      BY DEF Coming
    <3>2. CASE \E r \in ar2 : c = Expected(r)
      BY <3>2 DEF Coming
    <3>3. CASE \E w \in Watch(s) : w.k = "EndReceive" /\ c = Heard(w)
      BY <1>3, <1>4, <1>7, <3>3 DEF Heard
    <3> QED
      BY <3>1, <3>2, <3>3
  <2> QED
    BY <1>3, <2>1 DEF CtsComing, Guarded
<1>12. Answering(ar2)
  BY DEF Guarded, Answering
<1> QED
  BY <1>2, <1>3, <1>8, <1>9, <1>10, <1>11, <1>12 DEF Guarded, s

\* Answers, one time unit later.
Nearer(ar) == {[r EXCEPT !.due = @ - 1] : r \in ar}

LEMMA NearerComing ==
  ASSUME NEW m, NEW s, NEW ar, Typed(m), Answering(ar),
         Watch(s) = {Sooner(w) : w \in Watch(m)},
         \A w \in Watch(m) : w.due > 0, \A r \in ar : r.due > 0
  PROVE  /\ Answering(Nearer(ar))
         /\ \A c \in Coming(s, Nearer(ar)) :
              \E b \in Coming(m, ar) : b.frame = c.frame /\ b.at = c.at + 1
         /\ \A w \in Watch(m) : Sooner(w) \in Watch(s) /\ Sooner(w).k = w.k
                                /\ Sooner(w).due = w.due - 1
         /\ \A x \in Watch(s) : \E w \in Watch(m) :
              x.k = w.k /\ x.due = w.due - 1 /\ x.arg = w.arg /\ x.due \in Nat
<1>1. \A w \in Watch(m) : /\ Sooner(w).k = w.k /\ Sooner(w).due = w.due - 1
                          /\ Sooner(w).arg = w.arg
  BY DEF Sooner, Watch, View
<1>2. \A r \in ar : LET q == [r EXCEPT !.due = @ - 1]
                    IN q.due = r.due - 1 /\ q.frame = r.frame
                       /\ q \in [due : Nat, frame : Frames]
  BY DEF Answering
<1>3. Answering(Nearer(ar))
  BY <1>2 DEF Answering, Nearer
<1>4. \A x \in Watch(s) : \E w \in Watch(m) :
        x.k = w.k /\ x.due = w.due - 1 /\ x.arg = w.arg /\ x.due \in Nat
  BY <1>1 DEF Typed
<1>5. ASSUME NEW c \in Coming(s, Nearer(ar))
      PROVE  \E b \in Coming(m, ar) : b.frame = c.frame /\ b.at = c.at + 1
  <2>1. \/ \E r \in Nearer(ar) : c = Expected(r)
        \/ \E x \in Watch(s) : x.k = "EndReceive" /\ c = Heard(x)
    BY DEF Coming
  <2>2. CASE \E r \in Nearer(ar) : c = Expected(r)
    <3>1. PICK r \in ar : c = Expected([r EXCEPT !.due = @ - 1])
      BY <2>2 DEF Nearer
    <3>2. c.at = r.due - 1 + AirTime(r.frame) /\ c.frame = r.frame
      BY <1>2, <3>1 DEF Expected
    <3>3. r.due \in Nat /\ AirTime(r.frame) \in Nat
      BY Times DEF Answering
    <3>4. Expected(r) \in Coming(m, ar) /\ Expected(r).frame = c.frame
          /\ Expected(r).at = c.at + 1
      BY <3>2, <3>3 DEF Coming, Expected
    <3> QED
      BY <3>4
  <2>3. CASE \E x \in Watch(s) : x.k = "EndReceive" /\ c = Heard(x)
    <3>1. PICK x \in Watch(s) : x.k = "EndReceive" /\ c = Heard(x)
      BY <2>3
    <3>2. PICK w \in Watch(m) : x.k = w.k /\ x.due = w.due - 1 /\ x.arg = w.arg
      BY <1>4
    <3>3. w.due \in Nat
      BY DEF Typed
    <3>4. Heard(w) \in Coming(m, ar) /\ Heard(w).frame = c.frame /\ Heard(w).at = c.at + 1
      BY <3>1, <3>2, <3>3 DEF Coming, Heard
    <3> QED
      BY <3>4
  <2> QED
    BY <2>1, <2>2, <2>3
<1>6. \A w \in Watch(m) : Sooner(w) \in Watch(s)
  OBVIOUS
<1> QED
  BY <1>1, <1>3, <1>4, <1>5, <1>6

LEMMA GuardedElapses ==
  ASSUME NEW m, NEW ar, Guarded(m, ar),
         \A e \in m.ev : e.due > 0, \A r \in ar : r.due > 0
  PROVE  Guarded(Elapse(m), Nearer(ar))
<1> DEFINE s == Elapse(m)
<1>1. /\ Sound(s) /\ Watch(s) = {Sooner(w) : w \in Watch(m)}
      /\ s.addr = m.addr /\ s.st = m.st /\ s.rxing = m.rxing
      /\ \A c \in Causes : s.end[c] = Saturate(m.end[c] - 1)
  BY ElapseStep DEF Guarded, Still
<1> HIDE DEF s
<1>2. \A w \in Watch(m) : w.due > 0
  BY WatchMembers DEF View
<1>3. /\ Answering(Nearer(ar))
      /\ \A c \in Coming(s, Nearer(ar)) :
           \E b \in Coming(m, ar) : b.frame = c.frame /\ b.at = c.at + 1
      /\ \A w \in Watch(m) : Sooner(w) \in Watch(s) /\ Sooner(w).k = w.k
                             /\ Sooner(w).due = w.due - 1
      /\ \A x \in Watch(s) : \E w \in Watch(m) :
           x.k = w.k /\ x.due = w.due - 1 /\ x.arg = w.arg /\ x.due \in Nat
  BY <1>1, <1>2, NearerComing DEF Guarded
<1>4. \A c \in Causes : /\ m.end[c] \in Int /\ s.end[c] \in Int /\ m.end[c] - 1 <= s.end[c]
                        /\ m.end[c] <= 0 => s.end[c] <= 0
  BY <1>1, Times DEF Guarded, Typed, Saturate
<1>5. Typed(s)
  BY <1>3, <1>4 DEF Guarded, Typed
<1>6. {"tx", "rx", "cts", "ack"} \subseteq Causes
  BY DEF Causes
<1>7. Within(s)
  <2> SUFFICES ASSUME NEW x \in Watch(s)
               PROVE  /\ x.k = "EndReceive" =>
                           s.rxing /\ ~(s.end["tx"] > 0) /\ x.due <= s.end["rx"]
                      /\ x.k \in {"CtsTimeout"} \cup Granted => x.due <= s.end["cts"]
                      /\ x.k \in Granted => x.due <= Sifs
                      /\ x.k \in AckTimers => /\ x.due <= s.end["ack"]
                                              /\ (x.due > AckWait => s.st = "SPC")
    BY DEF Within
  <2>1. PICK w \in Watch(m) : x.k = w.k /\ x.due = w.due - 1 /\ x.due \in Nat
    BY <1>3
  <2>2. /\ w.k = "EndReceive" =>
             m.rxing /\ ~(m.end["tx"] > 0) /\ w.due <= m.end["rx"]
        /\ w.k \in {"CtsTimeout"} \cup Granted => w.due <= m.end["cts"]
        /\ w.k \in Granted => w.due <= Sifs
        /\ w.k \in AckTimers => /\ w.due <= m.end["ack"]
                                /\ (w.due > AckWait => m.st = "SPC")
        /\ w.due \in Nat
    BY DEF Guarded, Within, Typed
  <2>3. x.k = "EndReceive" => s.rxing /\ ~(s.end["tx"] > 0) /\ x.due <= s.end["rx"]
    BY <1>1, <1>4, <1>6, <2>1, <2>2
  <2>4. /\ x.k \in {"CtsTimeout"} \cup Granted => x.due <= s.end["cts"]
        /\ x.k \in Granted => x.due <= Sifs
    BY <1>4, <1>6, <2>1, <2>2, Times
  <2>5. x.k \in AckTimers => x.due <= s.end["ack"] /\ (x.due > AckWait => s.st = "SPC")
    BY <1>1, <1>4, <1>6, <2>1, <2>2, Times
  <2> QED
    BY <2>3, <2>4, <2>5
<1>8. Apart(s)
  BY <1>2, <1>3 DEF Guarded, Apart
<1>9. CtsComing(s, Nearer(ar))
  <2> SUFFICES ASSUME NEW c \in Coming(s, Nearer(ar)), CtsTo(c.frame, s.addr)
               PROVE  /\ s.st # "SPC"
                      /\ \E t \in Watch(s) : t.k = "CtsTimeout" /\ t.due = c.at + CtsWait
    BY DEF CtsComing
  <2>1. PICK b \in Coming(m, ar) : b.frame = c.frame /\ b.at = c.at + 1
    BY <1>3
  <2>2. m.st # "SPC" /\ \E t \in Watch(m) : t.k = "CtsTimeout" /\ t.due = b.at + CtsWait
    BY <1>1, <2>1 DEF Guarded, CtsComing
  <2>3. PICK t \in Watch(m) : t.k = "CtsTimeout" /\ t.due = b.at + CtsWait
    BY <2>2
  <2>4. c.at \in Nat
    BY <1>3, <1>5, ComingTypes
  <2>5. Sooner(t).k = "CtsTimeout" /\ Sooner(t).due = c.at + CtsWait /\ Sooner(t) \in Watch(s)
    BY <1>3, <2>1, <2>3, <2>4, Times
  <2> QED
    BY <1>1, <2>2, <2>5
<1> QED
  BY <1>1, <1>3, <1>5, <1>7, <1>8, <1>9 DEF Guarded, s

LEMMA GuardedHearing ==
  ASSUME NEW m, NEW ar, Guarded(m, ar) PROVE Hearing(m)
BY DEF Guarded, Within, Hearing, Awaiting, IsStateRx, IsStateTx

\* m_sendState is chosen anew, when nothing is waited for any more.
LEMMA GuardedChosen ==
  ASSUME NEW m, NEW ar, Guarded(m, ar), \A w \in Watch(m) : w.due = 0,
         NEW n, Rests(m, n)
  PROVE  Guarded(n, ar) /\ \A w \in Watch(n) : w.due = 0
<1>1. /\ Sound(n) /\ Watch(n) = Watch(m) /\ n.end = m.end
      /\ n.rxing = m.rxing /\ n.addr = m.addr
  BY DEF Rests
<1>2. Typed(n) /\ Apart(n)
  BY <1>1 DEF Guarded, Typed, Apart
<1>3. Within(n)
  BY <1>1, Times DEF Guarded, Within
<1>4. CtsComing(n, ar)
  <2>1. \A c \in Coming(m, ar) : ~CtsTo(c.frame, m.addr)
    BY NoCtsComing DEF Guarded
  <2>2. Coming(n, ar) = Coming(m, ar)
    BY <1>1 DEF Coming
  <2> QED
    BY <1>1, <2>1, <2>2 DEF CtsComing
<1> QED
  BY <1>1, <1>2, <1>3, <1>4 DEF Guarded

LEMMA GuardedFails ==
  ASSUME NEW m, NEW ar, Guarded(m, ar), NEW s, NEW a, Fails(m, s, a)
  PROVE  Guarded(s, ar) /\ s.sent = m.sent
<1>1. /\ Sound(s) /\ Watch(s) = Watch(m) /\ s.addr = m.addr /\ s.st = m.st
      /\ s.rxing = m.rxing /\ s.end = m.end /\ s.sent = m.sent
  BY DEF Fails
<1> QED
  BY <1>1, GuardedSame DEF Guarded, Typed

\* The air times of the frames that a station sends.
LEMMA OwnFrames ==
  /\ \A m : Rts(m).type = "RTS" /\ AirTime(Rts(m)) = RtsTime
  /\ \A m : RtsSpc(m).type = "RTS_SPC" /\ AirTime(RtsSpc(m)) = RtsTime
  /\ \A m, d : Data(m, d).type = "DATA" /\ AirTime(Data(m, d)) = DataTime
  /\ \A m : DataSpc(m).type = "DATA_SPC" /\ AirTime(DataSpc(m)) = DataTime
<1>1. \A t, a1, a2, a3, n, d : Frame(t, a1, a2, a3, n, d).type = t
  BY DEF Frame
<1> QED
  BY <1>1 DEF Rts, RtsSpc, Data, DataSpc, AirTime

-----------------------------------------------------------------------------
(* Receiving.                                                              *)

LEMMA ErrorGuarded ==
  ASSUME NEW m, NEW ar, Guarded(m, ar), ~Awaiting(m, "EndReceive")
  PROVE  LET s == [m EXCEPT !.rxing = FALSE]
         IN /\ Guarded(s, ar) /\ Watch(s) = Watch(m) /\ Still(m, s) /\ s.sent = m.sent
            /\ s.end = m.end
<1> DEFINE s == [m EXCEPT !.rxing = FALSE]
<1>1. /\ Sound(s) /\ Watch(s) = Watch(m) /\ Still(m, s) /\ s.sent = m.sent
      /\ s.end = m.end
  BY HeardDefers DEF Guarded
<1> HIDE DEF s
<1>2. s.addr = m.addr /\ s.st = m.st
  BY <1>1 DEF Still
<1>3. Guarded(s, ar)
  BY <1>1, <1>2, GuardedSame DEF Guarded, Typed
<1> QED
  BY <1>1, <1>3 DEF s

LEMMA DefersGuarded ==
  ASSUME NEW m, NEW ar, Guarded(m, ar), NEW s \in Stations, Defers(m, s)
  PROVE  Guarded(s, ar)
<1>1. /\ Sound(s) /\ Watch(s) = Watch(m) /\ s.addr = m.addr /\ s.st = m.st
      /\ s.rxing = m.rxing /\ \A c \in Causes \ {"nav", "wait"} : s.end[c] = m.end[c]
  BY DEF Defers, Still
<1>2. {"tx", "rx", "cts", "ack"} \subseteq Causes \ {"nav", "wait"}
  BY DEF Causes
<1>3. \A c \in Causes : s.end[c] \in Int
  BY DEF Stations
<1> QED
  BY <1>1, <1>2, <1>3, GuardedSame

\* What the station knows when a CTS comes, or a CTS_SPC it waits for.
Open(m, ar, f) ==
  /\ CtsTo(f, m.addr) => /\ \A c \in Coming(m, ar) : ~CtsTo(c.frame, m.addr)
                         /\ \A k \in Granted : ~Awaiting(m, k)
  /\ f.type = "CTS_SPC" /\ Awaiting(m, "CtsTimeout") =>
       \A k \in Granted : ~Awaiting(m, k)

LEMMA ReceiveOkGuarded ==
  ASSUME NEW m \in Stations, Good(m), NEW ar, Guarded(m, ar),
         ~Awaiting(m, "EndReceive"), NEW f \in Frames, NEW num \in SpcNums,
         NEW draw \in Nat, Idle(m) => ~CtsTo(f, m.addr), Open(m, ar, f)
  PROVE  LET s == ReceiveOk(m, f, num, draw)
         IN /\ Guarded(s, ar) /\ s.sent = m.sent
            /\ f.type = "DATA_SPC" => ~Awaiting(s, "EndReceive")
<1> DEFINE r == [m EXCEPT !.rxing = FALSE]
           n == Overhear(r, f)
           s == ReceiveOk(m, f, num, draw)
<1>1. /\ Guarded(r, ar) /\ Watch(r) = Watch(m) /\ Still(m, r) /\ r.sent = m.sent
  BY ErrorGuarded
<1>2. r \in Stations /\ Good(r)
  BY RxingLeads DEF Leads
<1>3. Defers(r, n)
  BY HeardDefers DEF Guarded
<1>4. n \in Stations /\ Good(n)
  <2> HIDE DEF r
  <2> QED
    BY <1>2, OverhearLeads DEF Leads
<1>5. /\ f.type = "RTS" => s = ReceiveRts(n, f)
      /\ f.type = "CTS" => s = ReceiveCts(n, f)
      /\ f.type = "DATA" => s = ReceiveData(n, f)
      /\ f.type = "RTS_SPC" => s = ReceiveRtsSpc(n, f)
      /\ f.type = "CTS_SPC" => s = ReceiveCtsSpc(n, f)
      /\ f.type = "DATA_SPC" => s = ReceiveDataSpc(n, f, num)
      /\ f.type = "ACK" => s = ReceiveAck(n, f, draw)
  BY DEF ReceiveOk
<1> HIDE DEF r, n, s
<1>6. /\ Guarded(n, ar) /\ Watch(n) = Watch(m) /\ n.addr = m.addr
      /\ n.st = m.st /\ n.sent = m.sent /\ Sound(n)
  BY <1>1, <1>3, <1>4, DefersGuarded DEF Defers, Still, Guarded
<1>7. /\ ~Awaiting(n, "EndReceive") /\ Coming(n, ar) = Coming(m, ar)
      /\ \A k : Awaiting(n, k) <=> Awaiting(m, k)
  BY <1>6 DEF Awaiting, Coming
<1>8. CASE f.type \in {"RTS", "DATA", "RTS_SPC", "DATA_SPC"}
  <2>1. Defers(n, s)
    BY <1>5, <1>6, <1>8, AnswersDefer
  <2>2. s \in Stations
    BY <1>4, <1>5, <1>8, ReceiveRtsLeads, ReceiveDataLeads, ReceiveRtsSpcLeads,
       ReceiveDataSpcLeads DEF Leads
  <2>3. s.sent = n.sent /\ ~Awaiting(s, "EndReceive")
    BY <1>7, <2>1 DEF Defers, Awaiting
  <2> QED
    BY <1>6, <2>1, <2>2, <2>3, DefersGuarded DEF s
<1>9. CASE f.type = "CTS"
  <2>1. f.a1 = n.addr => /\ \A c \in Coming(n, ar) : ~CtsTo(c.frame, n.addr)
                         /\ \A k \in Granted : ~Awaiting(n, k)
    BY <1>6, <1>7, <1>9 DEF Open, CtsTo
  <2>2. "SendUnicastDataAfterCts" \in Granted
    BY WatchedKinds
  <2>3. \/ s = n /\ f.a1 # n.addr
        \/ Fails(n, s, "ReceiveCts") /\ f.a1 = n.addr /\ n.st = "SPC"
        \/ /\ Proceeds(n, s, "SendUnicastDataAfterCts")
           /\ f.a1 = n.addr /\ n.st # "SPC"
    BY <1>5, <1>6, <1>9, <2>1, <2>2, ReceiveCtsProceeds
  <2>4. Guarded(s, ar) /\ s.sent = n.sent
    <3>1. CASE s = n
      BY <1>6, <3>1
    <3>2. CASE Fails(n, s, "ReceiveCts")
      BY <1>6, <3>2, GuardedFails
    <3>3. CASE Proceeds(n, s, "SendUnicastDataAfterCts") /\ f.a1 = n.addr
      <4>1. s.sent = n.sent
        BY <3>3 DEF Proceeds
      <4> QED
        BY <1>6, <1>7, <2>1, <2>2, <3>3, <4>1, GuardedProceeds
    <3> QED
      BY <2>3, <3>1, <3>2, <3>3
  <2> QED
    BY <1>6, <1>9, <2>4 DEF s
<1>10. CASE f.type = "CTS_SPC"
  <2>1. Awaiting(n, "CtsTimeout") => \A k \in Granted : ~Awaiting(n, k)
    BY <1>7, <1>10 DEF Open
  <2>2. "SendSpcDataAfterCtsSpc" \in Granted
    BY WatchedKinds
  <2> DEFINE o == Counted(n)
  <2>3. \/ s = n
        \/ /\ Awaiting(n, "CtsTimeout")
           /\ \/ Fails(n, s, "ReceiveCtsSpc")
              \/ s = o
              \/ Proceeds(o, s, "SendSpcDataAfterCtsSpc") /\ n.st = "SPC"
    BY <1>5, <1>6, <1>10, <2>1, <2>2, ReceiveCtsSpcProceeds
  <2>4. /\ Sound(o) /\ Watch(o) = Watch(n) /\ o.st = n.st /\ o.addr = n.addr
        /\ o.end = n.end /\ o.rxing = n.rxing /\ o.sent = n.sent
    BY <1>6, CountStep
  <2> HIDE DEF o
  <2>5. Guarded(o, ar) /\ ~Awaiting(o, "EndReceive")
    BY <1>6, <1>7, <2>4, GuardedSame DEF Guarded, Typed, Awaiting
  <2>6. Guarded(s, ar) /\ s.sent = n.sent
    <3>1. CASE s = n
      BY <1>6, <3>1
    <3>2. CASE Fails(n, s, "ReceiveCtsSpc")
      BY <1>6, <3>2, GuardedFails
    <3>3. CASE s = o
      BY <2>4, <2>5, <3>3
    <3>4. CASE Proceeds(o, s, "SendSpcDataAfterCtsSpc") /\ n.st = "SPC"
      <4>1. \A c \in Coming(o, ar) : ~CtsTo(c.frame, o.addr)
        BY <2>4, <2>5, <3>4, NoCtsComing DEF Guarded
      <4>2. s.sent = o.sent
        BY <3>4 DEF Proceeds
      <4> QED
        BY <2>2, <2>4, <2>5, <3>4, <4>1, <4>2, GuardedProceeds
    <3> QED
      BY <2>3, <3>1, <3>2, <3>3, <3>4
  <2> QED
    BY <1>6, <1>10, <2>6 DEF s
<1>11. CASE f.type = "ACK"
  <2>1. n.st \in SendStates /\ f.spc \in SpcNums
    BY <1>4, FrameFields DEF Stations
  <2> DEFINE k == AckedTimer(n.st, f.spc)
  <2>2. \/ s = n
        \/ \E c : /\ Sound(c) /\ Watch(c) = Without(n, k) /\ Still(n, c)
                  /\ c.end = n.end /\ c.rxing = n.rxing /\ c.sent = n.sent
                  /\ IF k = "AckTimeout1" THEN Backs(c, s, NoPacket, n.p2)
                                          ELSE Backs(c, s, n.p1, NoPacket)
    BY <1>5, <1>6, <1>11, <2>1, ReceiveAckBacks
  <2>3. k # "CtsTimeout"
    BY DEF AckedTimer
  <2> HIDE DEF k
  <2>4. CASE s = n
    BY <1>6, <1>11, <2>4 DEF s
  <2>5. CASE s # n
    <3>1. PICK c : /\ Sound(c) /\ Watch(c) = Without(n, k) /\ Still(n, c)
                   /\ c.end = n.end /\ c.rxing = n.rxing /\ c.sent = n.sent
                   /\ IF k = "AckTimeout1" THEN Backs(c, s, NoPacket, n.p2)
                                           ELSE Backs(c, s, n.p1, NoPacket)
      BY <2>2, <2>5
    <3>2. c.st = n.st /\ c.addr = n.addr
      BY <3>1 DEF Still
    <3>3. Guarded(c, ar)
      BY <1>6, <2>3, <3>1, <3>2, GuardedWithout
    <3>4. Guarded(s, ar)
      BY <3>1, <3>3, GuardedBacks
    <3>5. s.sent = c.sent
      BY <3>1 DEF Backs, Rests
    <3> QED
      BY <1>6, <1>11, <3>1, <3>4, <3>5 DEF s
  <2> QED
    BY <2>4, <2>5
<1> QED
  BY <1>8, <1>9, <1>10, <1>11, FrameFields DEF FrameTypes

LEMMA WatchUnique ==
  ASSUME NEW m, Sound(m), NEW v \in Watch(m), NEW w \in Watch(m), v.k = w.k
  PROVE  v = w
<1>1. PICK e \in m.ev : e.k \in Watched /\ v = View(e)
  BY WatchMembers
<1>2. PICK x \in m.ev : x.k \in Watched /\ w = View(x)
  BY WatchMembers
<1>3. e.k = x.k
  BY <1>1, <1>2 DEF View
<1>4. e = x
  BY <1>1, <1>3 DEF Sound, Single
<1> QED
  BY <1>1, <1>2, <1>4

\* A reception ends: both packets of it, if it is superposed.
LEMMA EndReceiveGuarded ==
  ASSUME NEW m \in Stations, Good(m), NEW ar, Guarded(m, ar),
         ~Awaiting(m, "EndReceive"), NEW f \in Frames, NEW ok1 \in BOOLEAN,
         NEW ok2 \in BOOLEAN, NEW draw \in Nat, Idle(m) => ~CtsTo(f, m.addr),
         Open(m, ar, f)
  PROVE  LET s == EndReceive(m, f, ok1, ok2, draw)
         IN Guarded(s, ar) /\ s.sent = m.sent
<1> DEFINE n == IF ok1 THEN ReceiveOk(m, f, "FIRST", draw) ELSE ReceiveError(m)
           s == EndReceive(m, f, ok1, ok2, draw)
<1>1. s = IF f.type # "DATA_SPC" THEN n
          ELSE IF ok2 THEN ReceiveOk(n, f, "SECOND", draw) ELSE ReceiveError(n)
  BY DEF EndReceive
<1>2. SpcNums = {"FIRST", "SECOND"}
  BY DEF SpcNums
<1>3. /\ Guarded(n, ar) /\ n.sent = m.sent
      /\ f.type = "DATA_SPC" => ~Awaiting(n, "EndReceive")
  <2>1. CASE ok1
    BY <1>2, <2>1, ReceiveOkGuarded
  <2>2. CASE ~ok1
    <3>1. LET r == [m EXCEPT !.rxing = FALSE]
          IN Guarded(r, ar) /\ Watch(r) = Watch(m) /\ r.sent = m.sent
      BY ErrorGuarded
    <3> QED
      BY <2>2, <3>1 DEF ReceiveError, Awaiting
  <2> QED
    BY <2>1, <2>2
<1>4. n \in Stations /\ Good(n)
  <2>1. CASE ok1
    BY <1>2, <2>1, ReceiveOkLeads DEF Leads
  <2>2. CASE ~ok1
    BY <2>2, RxingLeads DEF ReceiveError, Leads
  <2> QED
    BY <2>1, <2>2
<1> HIDE DEF n, s
<1>5. CASE f.type = "DATA_SPC"
  <2>1. ~CtsTo(f, n.addr) /\ Open(n, ar, f)
    BY <1>5 DEF CtsTo, Open
  <2>2. LET r == [n EXCEPT !.rxing = FALSE] IN Guarded(r, ar) /\ r.sent = n.sent
    BY <1>3, <1>5, ErrorGuarded
  <2>3. LET r == ReceiveOk(n, f, "SECOND", draw) IN Guarded(r, ar) /\ r.sent = n.sent
    BY <1>2, <1>3, <1>4, <1>5, <2>1, ReceiveOkGuarded
  <2> QED
    BY <1>1, <1>3, <1>5, <2>2, <2>3 DEF ReceiveError, s
<1> QED
  BY <1>1, <1>3, <1>5 DEF s

\* The data that a grant or a pair of grants lets go.
LEMMA SendDataGuarded ==
  ASSUME NEW m, NEW ar, Guarded(m, ar)
  PROVE  /\ LET s == SendUnicastDataAfterCts(m)
            IN Guarded(s, ar) /\ (s.sent = m.sent \/ s.sent.type = "DATA")
         /\ \A spc \in BOOLEAN :
              LET s == SendSpcDataAfterCtsSpc(m, spc)
              IN Guarded(s, ar) /\ (s.sent = m.sent \/ s.sent.type \in {"DATA", "DATA_SPC"})
<1>1. Sound(m) /\ Hearing(m)
  BY GuardedHearing DEF Guarded
<1>2. /\ {AckWait, AckSpcWait} \subseteq Nat /\ DataTime \in Int
      /\ \A k, d : Timer(k, d).k = k /\ Timer(k, d).due = d
  BY Times DEF Timer
<1>3. ASSUME NEW n, Guarded(n, ar), n.st # "SPC", NEW s,
             NEW k \in AckTimers,
             Arms(n, s, {Timer(k, AckWait)}, "ack", AckWait, Data(n, AckSendAndSifs))
      PROVE  Guarded(s, ar) /\ s.sent.type = "DATA"
  <2>1. \A w \in Watch(n) : w.k \in AckTimers => w.due <= AckWait
    BY <1>2, <1>3 DEF Guarded, Within, Typed
  <2>2. s.sent = Data(n, AckSendAndSifs)
    BY <1>3 DEF Arms
  <2> QED
    BY <1>2, <1>3, <2>1, <2>2, OwnFrames, GuardedArms
<1>4. LET s == SendUnicastDataAfterCts(m)
      IN Guarded(s, ar) /\ (s.sent = m.sent \/ s.sent.type = "DATA")
  <2> DEFINE s == SendUnicastDataAfterCts(m)
  <2>1. \/ Fails(m, s, "SendUnicastDataAfterCts")
        \/ /\ m.st # "SPC"
           /\ Arms(m, s, {Timer(OwnTimer(m), AckWait)}, "ack", AckWait,
                   Data(m, AckSendAndSifs))
    BY <1>1, SendUnicastArms
  <2>2. OwnTimer(m) \in AckTimers
    BY DEF OwnTimer, AckTimers
  <2> HIDE DEF s
  <2>3. CASE Fails(m, s, "SendUnicastDataAfterCts")
    BY <2>3, GuardedFails DEF s
  <2>4. CASE /\ m.st # "SPC"
             /\ Arms(m, s, {Timer(OwnTimer(m), AckWait)}, "ack", AckWait,
                     Data(m, AckSendAndSifs))
    BY <1>3, <2>2, <2>4 DEF s
  <2> QED
    BY <2>1, <2>3, <2>4
<1>5. ASSUME NEW spc \in BOOLEAN
      PROVE  LET s == SendSpcDataAfterCtsSpc(m, spc)
             IN Guarded(s, ar) /\ (s.sent = m.sent \/ s.sent.type \in {"DATA", "DATA_SPC"})
  <2> DEFINE s == SendSpcDataAfterCtsSpc(m, spc)
             n == [m EXCEPT !.st = "FIRST"]
             V == {Timer("AckTimeout1", AckSpcWait), Timer("AckTimeout2", AckSpcWait)}
  <2>1. \/ Fails(m, s, "SendSpcDataAfterCtsSpc")
        \/ /\ m.st = "SPC" /\ ~Awaiting(m, "AckTimeout1") /\ ~Awaiting(m, "AckTimeout2")
           /\ \/ Arms(m, s, V, "ack", AckSpcWait, DataSpc(m))
              \/ Arms(n, s, {Timer("AckTimeout1", AckWait)}, "ack", AckWait,
                      Data(n, AckSendAndSifs))
    BY <1>1, SendSpcArms
  <2>2. /\ n.ev = m.ev /\ n.st = "FIRST" /\ n.addr = m.addr /\ n.end = m.end
        /\ n.rxing = m.rxing /\ DOMAIN n = DOMAIN m
    BY <1>1 DEF Sound
  <2> HIDE DEF s, n
  <2>3. CASE Fails(m, s, "SendSpcDataAfterCtsSpc")
    BY <2>3, GuardedFails DEF s
  <2>4. CASE /\ m.st = "SPC" /\ ~Awaiting(m, "AckTimeout1") /\ ~Awaiting(m, "AckTimeout2")
             /\ Arms(m, s, V, "ack", AckSpcWait, DataSpc(m))
    <3>1. \A w \in Watch(m) : w.k \notin AckTimers
      BY <2>4 DEF Awaiting, AckTimers
    <3>2. \A v \in V : v.k \in AckTimers /\ v.due = AckSpcWait
      BY <1>2 DEF AckTimers
    <3>3. s.sent = DataSpc(m)
      BY <2>4 DEF Arms
    <3> HIDE DEF V
    <3>4. Guarded(s, ar)
      BY <1>2, <2>4, <3>1, <3>2, OwnFrames, GuardedArms
    <3> QED
      BY <3>3, <3>4, OwnFrames DEF s
  <2>5. CASE /\ m.st = "SPC" /\ ~Awaiting(m, "AckTimeout1") /\ ~Awaiting(m, "AckTimeout2")
             /\ Arms(n, s, {Timer("AckTimeout1", AckWait)}, "ack", AckWait,
                     Data(n, AckSendAndSifs))
    <3>1. \A w \in Watch(m) : w.k \notin AckTimers
      BY <2>5 DEF Awaiting, AckTimers
    <3>2. Watch(n) = Watch(m) /\ Sound(n)
      BY <1>1, <2>2, SameWatch DEF Sound, Single
    <3>3. Typed(n) /\ Apart(n) /\ Within(n)
      BY <2>2, <3>1, <3>2 DEF Guarded, Typed, Apart, Within
    <3>4. CtsComing(n, ar)
      <4>1. \A c \in Coming(m, ar) : ~CtsTo(c.frame, m.addr)
        BY <2>5, NoCtsComing DEF Guarded
      <4>2. Coming(n, ar) = Coming(m, ar)
        BY <3>2 DEF Coming
      <4> QED
        BY <2>2, <4>1, <4>2 DEF CtsComing
    <3>5. Guarded(n, ar)
      BY <3>2, <3>3, <3>4 DEF Guarded
    <3>6. Guarded(s, ar) /\ s.sent.type = "DATA"
      BY <1>3, <2>2, <2>5, <3>5 DEF AckTimers
    <3> QED
      BY <3>6 DEF s
  <2> QED
    BY <2>1, <2>3, <2>4, <2>5
<1> QED
  BY <1>4, <1>5

\* The end of a backoff.
LEMMA BackoffTimeoutGuarded ==
  ASSUME NEW m, NEW ar, Guarded(m, ar), NEW queue, NEW draw
  PROVE  LET s == BackoffTimeout(m, queue, draw)
         IN /\ Guarded(s, ar)
            /\ \/ s.sent = m.sent \/ s.sent.type \in {"DATA", "RTS_SPC"}
               \/ /\ s.sent.type = "RTS" /\ s.st # "SPC"
                  /\ Timer("CtsTimeout", RtsWait) \in Watch(s)
<1> DEFINE s == BackoffTimeout(m, queue, draw)
           n == Chosen(m, queue)
           o == Recounted(n)
<1>1. Sound(m) /\ Hearing(m)
  BY GuardedHearing DEF Guarded
<1>2. \/ Rests(m, s) /\ s.st = m.st
      \/ /\ ~(Latest(m) > 0)
         /\ \/ s = SendRtsSpc(n)
            \/ n.st # "SPC" /\ s = SendRts(n)
            \/ s = SendUnicastDataNoAck(n, draw)
  BY <1>1, BackoffTimeoutArms
<1>3. Rests(m, n)
  BY <1>1, ChosenStep
<1> HIDE DEF s, n
<1>4. CASE Rests(m, s) /\ s.st = m.st
  <2>1. s.sent = m.sent
    BY <1>4 DEF Rests
  <2> QED
    BY <1>4, <2>1, GuardedRests DEF s
<1>5. CASE ~(Latest(m) > 0)
  <2>1. \A w \in Watch(m) : w.due = 0
    BY <1>5, FreeNow DEF Guarded
  <2>2. Guarded(n, ar) /\ \A w \in Watch(n) : w.due = 0
    BY <1>3, <2>1, GuardedChosen
  <2>3. Sound(n) /\ Hearing(n) /\ n.sent = m.sent
    BY <1>3, <2>2, GuardedHearing DEF Guarded, Rests
  <2>4. {RtsTime, DataTime} \subseteq Int /\ {RtsWait, RtsSpcWait} \subseteq Nat
    BY Times
  <2>5. CASE s = SendRtsSpc(n)
    <3>1. /\ Sound(o) /\ Watch(o) = Watch(n) /\ o.st = n.st /\ o.addr = n.addr
          /\ o.end = n.end /\ o.rxing = n.rxing /\ o.sent = n.sent
      BY <2>3, RecountStep
    <3>2. \/ Fails(n, s, "SendRtsSpc")
          \/ Arms(o, s, {Timer("CtsTimeout", RtsSpcWait)}, "cts", RtsSpcWait, RtsSpc(n))
      BY <2>3, <2>5, SendRtsSpcArms
    <3> HIDE DEF o
    <3>3. CASE Fails(n, s, "SendRtsSpc")
      BY <2>2, <2>3, <3>3, GuardedFails DEF s
    <3>4. CASE Arms(o, s, {Timer("CtsTimeout", RtsSpcWait)}, "cts", RtsSpcWait, RtsSpc(n))
      <4>1. Guarded(o, ar) /\ \A w \in Watch(o) : w.due = 0
        BY <2>2, <3>1, GuardedSame DEF Guarded, Typed
      <4>2. AirTime(RtsSpc(n)) \in Int /\ RtsSpc(n).type = "RTS_SPC"
        BY <2>4, OwnFrames
      <4>3. Guarded(s, ar)
        BY <2>4, <3>4, <4>1, <4>2, GuardedOpens
      <4>4. s.sent = RtsSpc(n)
        BY <3>4 DEF Arms
      <4> QED
        BY <4>2, <4>3, <4>4 DEF s
    <3> QED
      BY <3>2, <3>3, <3>4
  <2>6. CASE n.st # "SPC" /\ s = SendRts(n)
    <3>1. \/ Fails(n, s, "SendRts")
          \/ Arms(n, s, {Timer("CtsTimeout", RtsWait)}, "cts", RtsWait, Rts(n))
      BY <2>3, <2>6, SendRtsArms
    <3>2. CASE Fails(n, s, "SendRts")
      BY <2>2, <2>3, <3>2, GuardedFails DEF s
    <3>3. CASE Arms(n, s, {Timer("CtsTimeout", RtsWait)}, "cts", RtsWait, Rts(n))
      <4>1. AirTime(Rts(n)) \in Int /\ Rts(n).type = "RTS"
        BY <2>4, OwnFrames
      <4>2. Guarded(s, ar) /\ Timer("CtsTimeout", RtsWait) \in Watch(s)
        BY <2>2, <2>4, <3>3, <4>1, GuardedOpens
      <4>3. s.sent = Rts(n) /\ s.st = n.st
        BY <3>3 DEF Arms, Still
      <4> QED
        BY <2>6, <4>1, <4>2, <4>3 DEF s
    <3> QED
      BY <3>1, <3>2, <3>3
  <2>7. CASE s = SendUnicastDataNoAck(n, draw)
    <3>1. PICK t : /\ Sound(t) /\ Watch(t) = Without(n, "EndReceive") /\ Still(n, t)
                   /\ t.sent = Data(n, 0) /\ t.end["tx"] = AirTime(Data(n, 0))
                   /\ t.end["rx"] \in {0, n.end["rx"]}
                   /\ \A c \in Causes \ {"tx", "rx"} : t.end[c] = n.end[c]
                   /\ \E x, y : Backs(t, s, x, y)
      BY <2>3, <2>7, SendNoAckBacks
    <3>2. AirTime(Data(n, 0)) \in Int /\ Data(n, 0).type = "DATA"
      BY <2>4, OwnFrames
    <3>3. t.addr = n.addr /\ t.st = n.st
      BY <3>1 DEF Still
    <3>4. Guarded(t, ar)
      BY <2>2, <3>1, <3>2, <3>3, GuardedSends
    <3>5. Guarded(s, ar)
      BY <3>1, <3>4, GuardedBacks
    <3>6. s.sent = t.sent
      BY <3>1 DEF Backs, Rests
    <3> QED
      BY <3>1, <3>2, <3>5, <3>6 DEF s
  <2> QED
    BY <1>2, <2>5, <2>6, <2>7, <1>4
<1> QED
  BY <1>2, <1>4, <1>5

=============================================================================
