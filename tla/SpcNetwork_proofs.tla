------------------------- MODULE SpcNetwork_proofs --------------------------
(***************************************************************************)
(* TLAPS proofs about SpcNetwork, stations that hear one another, and about *)
(* the header of the frames they exchange.                                 *)
(*                                                                         *)
(* SpcMacNode_proofs shows what a station does in an environment that       *)
(* answers an RTS with one CTS, a SIFS after it.  Here the other stations   *)
(* are that environment: the invariant follows every RTS from the air to   *)
(* the station it asks, and the CTS from there to the air again (CtsIn).   *)
(***************************************************************************)
EXTENDS SpcNetwork, SpcMacExchange_proofs, SequenceTheorems

-----------------------------------------------------------------------------
(* The frame control field.                                                *)

LEMMA ControlSplits ==
  ASSUME NEW t \in FrameTypes, NEW n \in Nat
  PROVE  /\ GetFrameControl(t, n) \in Nat
         /\ GetFrameControl(t, n) % 8 = CtrlType[t]
         /\ (GetFrameControl(t, n) \div 8) % 2 = n % 2
<1>1. CtrlType[t] \in 0 .. 6
  BY DEF CtrlType, FrameTypes
<1>2. n % 2 \in 0 .. 1
  OBVIOUS
<1> QED
  BY <1>1, <1>2 DEF GetFrameControl

LEMMA TypeIsRead ==
  ASSUME NEW t \in FrameTypes, NEW n \in Nat
  PROVE  TypeOf(GetFrameControl(t, n)) = t
<1>1. \A s \in FrameTypes : CtrlType[s] = CtrlType[t] => s = t
  BY DEF CtrlType, FrameTypes
<1> QED
  BY <1>1, ControlSplits DEF TypeOf

LEMMA NumberIsRead ==
  ASSUME NEW t \in FrameTypes, NEW s \in SpcNums
  PROVE  SpcNumOf(GetFrameControl(t, SpcNumber[s])) = s
<1>1. SpcNumber[s] \in 0 .. 1 /\ SpcNumber[s] % 2 = SpcNumber[s]
  BY DEF SpcNumber, SpcNums
<1>2. \A r \in SpcNums : SpcNumber[r] = SpcNumber[s] => r = s
  BY DEF SpcNumber, SpcNums
<1> QED
  BY <1>1, <1>2, ControlSplits DEF SpcNumOf

-----------------------------------------------------------------------------
(* The header.                                                             *)

TwoAddrs == {"DATA", "RTS", "RTS_SPC"}

\* The fields that a frame's type has are read as they were written, and the
\* bytes written are those GetSize counts.
LEMMA HeaderIsRead ==
  ASSUME NEW f \in Frames, NEW rssi, NEW junk \in Nat
  PROVE  LET w == Serialize(f, rssi, junk)
         IN /\ Deserialize(w) =
                 Frame(f.type, f.a1,
                       IF f.type \in TwoAddrs \cup {"DATA_SPC"} THEN f.a2 ELSE NoAddr,
                       IF f.type = "DATA_SPC" THEN f.a3 ELSE NoAddr,
                       IF f.type = "ACK" THEN f.spc ELSE "FIRST", f.dur)
            /\ f.type \in {"CTS", "CTS_SPC"} => GetRtsRssi(w) = rssi
            /\ GetSize(f.type) = IF f.type \in {"CTS", "CTS_SPC"} THEN 2 + 2 + 6 + 1
                                ELSE 2 + 2 + 6 * (Len(w) - 2)
<1> DEFINE n == SpcNumWritten(f, junk)
           c == GetFrameControl(f.type, n)
           w == Serialize(f, rssi, junk)
<1>1. f.type \in FrameTypes /\ f.spc \in SpcNums
  BY FrameFields
<1>2. n \in Nat
  BY <1>1 DEF SpcNumWritten, SpcNumber, SpcNums
<1>3. TypeOf(c) = f.type
  BY <1>1, <1>2, TypeIsRead
<1>4. CASE f.type \in TwoAddrs
  <2>1. w = <<c, f.dur, f.a1, f.a2>>
    BY <1>4, Zenon DEF Serialize, TwoAddrs
  <2>2. w[1] = c /\ w[2] = f.dur /\ w[3] = f.a1 /\ w[4] = f.a2 /\ Len(w) = 4
    BY <2>1
  <2> HIDE DEF w, c
  <2>3. Deserialize(w) = Frame(f.type, f.a1, f.a2, NoAddr, "FIRST", f.dur)
    BY <1>3, <1>4, <2>2 DEF Deserialize, TwoAddrs
  <2>4. GetSize(f.type) = 2 + 2 + 6 + 6
    BY <1>4, Zenon DEF GetSize, TwoAddrs
  <2> QED
    BY <1>4, <2>2, <2>3, <2>4 DEF TwoAddrs, w
<1>5. CASE f.type = "DATA_SPC"
  <2>1. w = <<c, f.dur, f.a1, f.a2, f.a3>>
    BY <1>5, Zenon DEF Serialize
  <2>2. /\ w[1] = c /\ w[2] = f.dur /\ w[3] = f.a1 /\ w[4] = f.a2 /\ w[5] = f.a3
        /\ Len(w) = 5
    BY <2>1
  <2> HIDE DEF w, c
  <2>3. Deserialize(w) = Frame(f.type, f.a1, f.a2, f.a3, "FIRST", f.dur)
    BY <1>3, <1>5, <2>2 DEF Deserialize
  <2>4. GetSize(f.type) = 2 + 2 + 6 + 6 + 6
    BY <1>5, Zenon DEF GetSize
  <2> QED
    BY <1>5, <2>2, <2>3, <2>4 DEF TwoAddrs, w
<1>6. CASE f.type \in {"CTS", "CTS_SPC"}
  <2>1. w = <<c, f.dur, f.a1, rssi>>
    BY <1>6, Zenon DEF Serialize
  <2>2. w[1] = c /\ w[2] = f.dur /\ w[3] = f.a1 /\ w[4] = rssi
    BY <2>1
  <2> HIDE DEF w, c
  <2>3. Deserialize(w) = Frame(f.type, f.a1, NoAddr, NoAddr, "FIRST", f.dur)
    BY <1>3, <1>6, <2>2 DEF Deserialize
  <2>4. GetSize(f.type) = 2 + 2 + 1 + 6
    BY <1>6, Zenon DEF GetSize
  <2> QED
    BY <1>6, <2>2, <2>3, <2>4 DEF TwoAddrs, w, GetRtsRssi
<1>7. CASE f.type = "ACK"
  <2>1. w = <<c, f.dur, f.a1>>
    BY <1>7, Zenon DEF Serialize
  <2>2. w[1] = c /\ w[2] = f.dur /\ w[3] = f.a1 /\ Len(w) = 3
    BY <2>1
  <2>3. SpcNumOf(c) = f.spc
    BY <1>1, <1>7, NumberIsRead DEF SpcNumWritten
  <2> HIDE DEF w, c
  <2>4. Deserialize(w) = Frame(f.type, f.a1, NoAddr, NoAddr, f.spc, f.dur)
    BY <1>3, <1>7, <2>2, <2>3 DEF Deserialize
  <2>5. GetSize(f.type) = 2 + 2 + 6
    BY <1>7, Zenon DEF GetSize
  <2> QED
    BY <1>7, <2>2, <2>4, <2>5 DEF TwoAddrs, w
<1> QED
  BY <1>1, <1>4, <1>5, <1>6, <1>7 DEF FrameTypes, TwoAddrs

\* A header of which the fields of its type are set and no others.
Proper(f) ==
  /\ f \in Frames
  /\ f.type \notin TwoAddrs \cup {"DATA_SPC"} => f.a2 = NoAddr
  /\ f.type # "DATA_SPC" => f.a3 = NoAddr
  /\ f.type # "ACK" => f.spc = "FIRST"

\* What a station writes into a frame (Serialize) is what the others read out
\* of it (Deserialize), the power in a CTS included, whatever is left in the
\* bit that only an ACK sets; and the bytes written are those GetSize counts.
THEOREM WrittenIsRead ==
  ASSUME NEW f, Proper(f), NEW rssi \in Rssi, NEW junk \in Nat
  PROVE  LET w == Serialize(f, rssi, junk)
         IN /\ Deserialize(w) = f
            /\ f.type \in {"CTS", "CTS_SPC"} => GetRtsRssi(w) = rssi
            /\ GetSize(f.type) = IF f.type \in {"CTS", "CTS_SPC"} THEN 2 + 2 + 6 + 1
                                ELSE 2 + 2 + 6 * (Len(w) - 2)
<1>1. f \in Frames
  BY DEF Proper
<1>2. f = Frame(f.type, f.a1, f.a2, f.a3, f.spc, f.dur)
  BY <1>1 DEF Frames, Frame
<1>3. Deserialize(Serialize(f, rssi, junk)) = Frame(f.type, f.a1, f.a2, f.a3, f.spc, f.dur)
  BY <1>1, HeaderIsRead DEF Proper
<1> QED
  BY <1>1, <1>2, <1>3, HeaderIsRead

-----------------------------------------------------------------------------
(* The received power.                                                     *)

\* Towards zero: a negative level loses less than one dB of its size.
LEMMA Truncates ==
  ASSUME NEW x \in Int, x < 0
  PROVE  ToInt(x) \in Int /\ 10 * ToInt(x) - 10 < x /\ x <= 10 * ToInt(x)
  BY DEF ToInt

\* Between -127 dBW and 0 dBW the byte of ConvertRssiToDbm is in range, and
\* ConvertRssiToW makes a level of it that is below the one measured, by at
\* most 1 dB: the offset that is added, 126, and the one that is taken away,
\* 127, differ by as much as the conversion to int may add.
THEOREM PowerIsNotOverstated ==
  ASSUME NEW x \in Int, -1270 < x, x < 0
  PROVE  LET b == ConvertRssiToDbm(x)
         IN /\ b \in Rssi
            /\ ConvertRssiToW(b) < x /\ x - 10 <= ConvertRssiToW(b)
<1>1. /\ ToInt(x) \in Int /\ ToInt(x) < 127 /\ -127 < ToInt(x)
      /\ 10 * ToInt(x) - 10 < x /\ x <= 10 * ToInt(x)
  BY Truncates
<1>2. ConvertRssiToDbm(x) = ToInt(x) + 127 - 1
  BY <1>1 DEF ConvertRssiToDbm
<1> QED
  BY <1>1, <1>2 DEF ConvertRssiToW, Rssi

\* Levels that are told apart in whole dB stay apart and in their order:
\* which of two stations is nearer is decided as it was measured.
THEOREM PowerKeepsOrder ==
  ASSUME NEW x \in Int, NEW y \in Int,
         -1270 < x, x < 0, -1270 < y, y < 0
  PROVE  /\ x <= y => ConvertRssiToDbm(x) <= ConvertRssiToDbm(y)
         /\ x + 10 <= y => ConvertRssiToDbm(x) < ConvertRssiToDbm(y)
<1>1. /\ ToInt(x) \in Int /\ ToInt(x) < 127 /\ -127 < ToInt(x)
      /\ 10 * ToInt(x) - 10 < x /\ x <= 10 * ToInt(x)
  BY Truncates
<1>2. /\ ToInt(y) \in Int /\ ToInt(y) < 127 /\ -127 < ToInt(y)
      /\ 10 * ToInt(y) - 10 < y /\ y <= 10 * ToInt(y)
  BY Truncates
<1>3. /\ ConvertRssiToDbm(x) = ToInt(x) + 127 - 1
      /\ ConvertRssiToDbm(y) = ToInt(y) + 127 - 1
  BY <1>1, <1>2 DEF ConvertRssiToDbm
<1> QED
  BY <1>1, <1>2, <1>3
-----------------------------------------------------------------------------
(* A frame under way.                                                      *)

LEMMA CopiesAre ==
  ASSUME NEW n \in Addrs, NEW f \in Frames \cup {NoFrame}, NEW rssi \in Rssi,
         NEW pk1 \in Payload, NEW pk2 \in Payload,
         NEW x \in Copies(n, f, rssi, pk1, pk2)
  PROVE  /\ f # NoFrame /\ x \in Signals /\ x.from = n /\ x.to # n
         /\ x.pk1 = pk1 /\ x.pk2 = pk2
         /\ x.frame.type = f.type /\ x.frame.a1 = f.a1
         /\ f.type \in {"RTS", "RTS_SPC", "DATA_SPC"} => x.frame.a2 = f.a2
         /\ f.type \in {"CTS", "CTS_SPC"} => x.rssi = rssi
         /\ Launch(x.frame) => Launch(f)
<1> DEFINE w == Serialize(f, rssi, 0)
           g == Deserialize(w)
           r == IF g.type \in {"CTS", "CTS_SPC"} THEN GetRtsRssi(w) ELSE 0
<1>1. f # NoFrame /\ f \in Frames
  BY DEF Copies
<1>2. /\ f.type \in FrameTypes /\ f.a1 \in Address /\ f.a2 \in Address
      /\ f.a3 \in Address /\ f.spc \in SpcNums /\ f.dur \in Nat
  BY <1>1, FrameFields
<1>3. /\ g = Frame(f.type, f.a1,
                   IF f.type \in TwoAddrs \cup {"DATA_SPC"} THEN f.a2 ELSE NoAddr,
                   IF f.type = "DATA_SPC" THEN f.a3 ELSE NoAddr,
                   IF f.type = "ACK" THEN f.spc ELSE "FIRST", f.dur)
      /\ f.type \in {"CTS", "CTS_SPC"} => GetRtsRssi(w) = rssi
  BY <1>1, HeaderIsRead
<1>4. PICK d \in Addrs \ {n} :
        x = [from |-> n, to |-> d, frame |-> g, rssi |-> r,
             pk1 |-> pk1, pk2 |-> pk2, clear |-> TRUE]
  BY <1>1 DEF Copies
<1> HIDE DEF w, g
<1>5. NoAddr \in Address /\ "FIRST" \in SpcNums
  BY DEF Address, SpcNums
<1>6. g \in Frames
  BY <1>2, <1>3, <1>5, FrameType
<1>7. /\ g.type = f.type /\ g.a1 = f.a1 /\ g.dur = f.dur
      /\ f.type \in {"RTS", "RTS_SPC", "DATA_SPC"} => g.a2 = f.a2
  BY <1>3 DEF Frame, TwoAddrs
<1>8. r \in Rssi /\ (f.type \in {"CTS", "CTS_SPC"} => r = rssi)
  BY <1>3, <1>7 DEF Rssi
<1> HIDE DEF r
<1>9. x \in Signals
  BY <1>4, <1>6, <1>8 DEF Signals
<1>10. Launch(g) => Launch(f)
  BY <1>1, <1>7 DEF Launch
<1> QED
  BY <1>1, <1>4, <1>7, <1>8, <1>9, <1>10

-----------------------------------------------------------------------------
(* The CTSs that are on their way to a station.                            *)

\* An RTS of n that reaches d, the station it asks.
Calls(f, d, n) == f.type = "RTS" /\ f.a1 = d /\ f.a2 = n

\* V are the marked events of station d: in t it begins to send n a CTS.
Offered(V, d, n, t) == \E v \in V :
  \/ v.k = "EndReceive" /\ Calls(v.arg, d, n) /\ t = v.due + Sifs
  \/ v.k \in ReplyKinds /\ CtsTo(v.arg, n) /\ t = v.due

\* When CTSs begin to reach n, if nothing is lost: those that the signals sigs
\* ask for or are, and those that the stations ms are about to send.
CtsIn(ms, sigs, n) == {t \in Nat :
  \/ \E x \in sigs : \/ Calls(x.frame, x.to, n) /\ t = RtsTime + Sifs
                     \/ x.to = n /\ CtsTo(x.frame, n) /\ t = 0
  \/ \E d \in Addrs : Offered(MarksOf(ms[d]), d, n, t)}

\* The CTSs that begin to reach n at the times C, as answers to its frames.
Cts(n, t)  == [due |-> t,
               frame |-> Frame("CTS", n, NoAddr, NoAddr, "FIRST", Sifs + MaxProp)]
Ctss(n, C) == {Cts(n, t) : t \in C}

\* What it receives is the signal h.
Hears(m, h) == \A e \in m.ev : e.k = "EndReceive" => h # NoSignal /\ e.arg = h.frame

\* Station n, in state m, receives h, and CTSs begin to reach it at the times C.
Behaves(m, n, h, C) ==
  /\ m \in Stations /\ m.addr = n /\ m.sent = NoFrame
  /\ Good(m) /\ Alive(m) /\ Deferring(m, MarksOf(m)) /\ Guarded(m, Ctss(n, C))
  /\ Idle(m) => C = {}
  /\ Hears(m, h)

\* A handler of station n takes it from m to s, when it hears h, and asks for a
\* CTS or sends one only as it should.
Moves(m, n, h, C, s) ==
  /\ Leads(m, s) /\ Alive(s) /\ Deferring(s, MarksOf(s)) /\ Guarded(s, Ctss(n, C))
  /\ Hears(s, h)
  /\ \A d, t : Offered(MarksOf(s), n, d, t) => Offered(MarksOf(m), n, d, t)
  /\ \A v \in MarksOf(s) : v.k = "EndReceive" => v \in MarksOf(m)
  /\ \/ s.sent = NoFrame \/ s.sent.type \notin {"RTS", "CTS"}
     \/ /\ s.sent.type = "RTS" /\ s.sent.a2 = n /\ s.st # "SPC"
        /\ Timer("CtsTimeout", RtsWait) \in Watch(s)
     \/ /\ s.sent.type = "CTS"
        /\ \A d : CtsTo(s.sent, d) => Offered(MarksOf(m), n, d, 0)

LEMMA CtsTypes ==
  ASSUME NEW n \in Addrs, NEW C \in SUBSET Nat
  PROVE  /\ Answering(Ctss(n, C))
         /\ \A t : Cts(n, t).due = t /\ CtsTo(Cts(n, t).frame, n)
                   /\ AirTime(Cts(n, t).frame) = CtsTime
<1>1. n \in Address /\ "CTS" \in Answers /\ "FIRST" \in SpcNums /\ Sifs + MaxProp \in Nat
  BY Times DEF Address, Dests, Answers, SpcNums
<1>2. Frame("CTS", n, NoAddr, NoAddr, "FIRST", Sifs + MaxProp) \in Frames
  BY <1>1, AnswerFrame
<1>3. \A t \in Nat : Cts(n, t) \in [due : Nat, frame : Frames]
  BY <1>2 DEF Cts
<1>4. \A t : Cts(n, t).due = t /\ CtsTo(Cts(n, t).frame, n)
             /\ AirTime(Cts(n, t).frame) = CtsTime
  BY DEF Cts, CtsTo, Frame, AirTime
<1> QED
  BY <1>3, <1>4 DEF Ctss, Answering

LEMMA GuardedLess ==
  ASSUME NEW m, NEW ar, Guarded(m, ar), NEW ar2 \in SUBSET ar
  PROVE  Guarded(m, ar2)
<1>1. {"tx", "rx", "cts", "ack"} \subseteq Causes /\ \A c \in Causes : m.end[c] \in Int
  BY DEF Guarded, Typed, Causes
<1>2. Sound(m)
  BY DEF Guarded
<1> QED
  BY <1>1, <1>2, GuardedSame

LEMMA CtssLess ==
  ASSUME NEW n, NEW m, NEW D, Guarded(m, Ctss(n, D)), NEW C, C \subseteq D
  PROVE  Guarded(m, Ctss(n, C))
<1>1. Ctss(n, C) \in SUBSET Ctss(n, D)
  BY DEF Ctss
<1> QED
  BY <1>1, GuardedLess

\* The station has just asked for a CTS.
LEMMA GuardedCalls ==
  ASSUME NEW n \in Addrs, NEW C \in SUBSET Nat, NEW m, m.addr = n, Guarded(m, Ctss(n, C)),
         m.st # "SPC", Timer("CtsTimeout", RtsWait) \in Watch(m)
  PROVE  Guarded(m, Ctss(n, C \cup {RtsTime + Sifs}))
<1> DEFINE t == RtsTime + Sifs
           x == Cts(n, t)
           D == C \cup {t}
<1>1. t \in Nat
  BY Times
<1>a. D \in SUBSET Nat
  BY <1>1
<1>2. Ctss(n, D) = Ctss(n, C) \cup {x} /\ Answering(Ctss(n, D))
  BY <1>a, CtsTypes DEF Ctss
<1>3. Coming(m, Ctss(n, D)) = Coming(m, Ctss(n, C)) \cup {Expected(x)}
  BY <1>2 DEF Coming
<1>4. Expected(x).at + CtsWait = RtsWait
  <2>1. x.due = t /\ AirTime(x.frame) = CtsTime
    BY CtsTypes
  <2>2. Expected(x).at = t + CtsTime
    BY <2>1 DEF Expected
  <2> QED
    BY <2>2, Times DEF CtsWait, RtsWait, RtsSendAndSifs, CtsSendAndSifs
<1> DEFINE w == Timer("CtsTimeout", RtsWait)
<1>5. w \in Watch(m) /\ w.k = "CtsTimeout" /\ w.due = RtsWait
  BY DEF Timer
<1> HIDE DEF t, x, D, w
<1>6. CtsComing(m, Ctss(n, D))
  BY <1>3, <1>4, <1>5 DEF Guarded, CtsComing
<1> QED
  BY <1>2, <1>6 DEF Guarded, D, t

\* The frame a handler gave to the physical layer is on its way.
LEMMA Cleared ==
  ASSUME NEW s \in Stations, Good(s), Alive(s), Deferring(s, MarksOf(s)),
         NEW ar, Guarded(s, ar), NEW h, Hears(s, h)
  PROVE  LET c == [s EXCEPT !.sent = NoFrame]
         IN /\ c \in Stations /\ c.addr = s.addr /\ c.sent = NoFrame
            /\ Good(c) /\ Alive(c) /\ (Idle(c) => Idle(s))
            /\ MarksOf(c) = MarksOf(s) /\ Deferring(c, MarksOf(c))
            /\ Guarded(c, ar) /\ Hears(c, h)
<1> DEFINE c == [s EXCEPT !.sent = NoFrame]
<1>1. c \in Stations /\ c = [s EXCEPT !.sent = NoFrame]
  BY DEF Stations
<1>2. /\ c.addr = s.addr /\ c.p1 = s.p1 /\ c.p2 = s.p2 /\ c.uniSet = s.uniSet
      /\ c.q = s.q /\ c.ev = s.ev /\ c.sent = NoFrame /\ c.end = s.end
      /\ c.failed = s.failed /\ c.rxing = s.rxing /\ c.st = s.st
  BY <1>1 DEF Stations
<1>3. DOMAIN c = DOMAIN s
  BY <1>1
<1> HIDE DEF c
<1>4. Leads(s, c)
  BY <1>1, <1>2, SameLemma
<1>5. Alive(c)
  BY <1>2, SameAlive DEF Same
<1>6. MarksOf(c) = MarksOf(s)
  BY <1>2 DEF MarksOf
<1>7. Deferring(c, MarksOf(c))
  BY <1>2, <1>3, <1>6 DEF Deferring
<1>8. Sound(c) /\ Watch(c) = Watch(s)
  BY <1>2, <1>3, SameWatch DEF Guarded, Sound, Single
<1>9. {"tx", "rx", "cts", "ack"} \subseteq Causes /\ \A x \in Causes : c.end[x] \in Int
  BY <1>2 DEF Guarded, Typed, Causes
<1>10. Guarded(c, ar)
  BY <1>2, <1>8, <1>9, GuardedSame
<1>11. Hears(c, h)
  BY <1>2 DEF Hears
<1> QED
  BY <1>1, <1>2, <1>4, <1>5, <1>6, <1>7, <1>10, <1>11 DEF Leads, c

\* One station moves: what the others count on goes on, and what it counts on.
LEMMA OneMoves ==
  ASSUME NEW ms \in [Addrs -> Stations], NEW sigs, NEW hs, DOMAIN hs = Addrs,
         \A d \in Addrs : Behaves(ms[d], d, hs[d], CtsIn(ms, sigs, d)),
         NEW n \in Addrs, NEW h, NEW s, Moves(ms[n], n, h, CtsIn(ms, sigs, n), s),
         NEW new, \A x \in new : /\ s.sent # NoFrame
                                 /\ x.frame.type = s.sent.type /\ x.frame.a1 = s.sent.a1
                                 /\ s.sent.type = "RTS" => x.frame.a2 = s.sent.a2
  PROVE  LET ms2 == [ms EXCEPT ![n] = [s EXCEPT !.sent = NoFrame]]
             hs2 == [hs EXCEPT ![n] = h]
         IN \A d \in Addrs : Behaves(ms2[d], d, hs2[d], CtsIn(ms2, sigs \cup new, d))
<1> DEFINE c == [s EXCEPT !.sent = NoFrame]
           ms2 == [ms EXCEPT ![n] = c]
           hs2 == [hs EXCEPT ![n] = h]
           Was(d) == CtsIn(ms, sigs, d)
           Is(d)  == CtsIn(ms2, sigs \cup new, d)
           Asked == s.sent # NoFrame /\ s.sent.type = "RTS"
<1>1. /\ s \in Stations /\ Good(s) /\ s.addr = n /\ (Idle(s) => Idle(ms[n]))
      /\ Alive(s) /\ Deferring(s, MarksOf(s)) /\ Guarded(s, Ctss(n, Was(n))) /\ Hears(s, h)
  BY DEF Moves, Leads, Behaves
<1>2. /\ c \in Stations /\ c.addr = s.addr /\ c.sent = NoFrame
      /\ Good(c) /\ Alive(c) /\ (Idle(c) => Idle(s))
      /\ MarksOf(c) = MarksOf(s) /\ Deferring(c, MarksOf(c))
      /\ Hears(c, h) /\ \A ar : Guarded(s, ar) => Guarded(c, ar)
  BY <1>1, Cleared
<1> HIDE DEF c
<1>3. /\ ms2[n] = c /\ hs2[n] = h
      /\ \A d \in Addrs \ {n} : ms2[d] = ms[d] /\ hs2[d] = hs[d]
  OBVIOUS
<1> HIDE DEF ms2, hs2
<1>4. \A d, t : Offered(MarksOf(s), n, d, t) => Offered(MarksOf(ms[n]), n, d, t)
  BY DEF Moves
<1>5. Asked => s.sent.a2 = n /\ s.st # "SPC" /\ Timer("CtsTimeout", RtsWait) \in Watch(s)
  BY DEF Moves
<1>6. ASSUME NEW d, s.sent # NoFrame, CtsTo(s.sent, d)
      PROVE  Offered(MarksOf(ms[n]), n, d, 0)
  BY <1>6 DEF Moves, CtsTo
<1>7. ASSUME NEW d \in Addrs, NEW t \in Is(d)
      PROVE  t \in Was(d) \/ (Asked /\ d = n /\ t = RtsTime + Sifs)
  <2>1. t \in Nat
    BY DEF CtsIn
  <2>2. CASE \E x \in sigs : \/ Calls(x.frame, x.to, d) /\ t = RtsTime + Sifs
                             \/ x.to = d /\ CtsTo(x.frame, d) /\ t = 0
    BY <2>1, <2>2 DEF CtsIn
  <2>3. CASE \E x \in new : Calls(x.frame, x.to, d) /\ t = RtsTime + Sifs
    BY <1>5, <2>3 DEF Calls
  <2>4. CASE \E x \in new : x.to = d /\ CtsTo(x.frame, d) /\ t = 0
    <3>1. s.sent # NoFrame /\ CtsTo(s.sent, d)
      BY <2>4 DEF CtsTo
    <3> QED
      BY <1>6, <2>1, <2>4, <3>1 DEF CtsIn
  <2>5. CASE \E b \in Addrs : Offered(MarksOf(ms2[b]), b, d, t)
    BY <1>2, <1>3, <1>4, <2>1, <2>5 DEF CtsIn
  <2> QED
    BY <2>2, <2>3, <2>4, <2>5 DEF CtsIn
<1> HIDE DEF Asked
<1>8. Was(n) \in SUBSET Nat
  BY DEF CtsIn
<1> HIDE DEF Was, Is
<1>9. ASSUME NEW d \in Addrs \ {n} PROVE Behaves(ms2[d], d, hs2[d], Is(d))
  <2>1. Behaves(ms[d], d, hs[d], Was(d)) /\ Is(d) \subseteq Was(d)
    BY <1>7 DEF Was
  <2>2. Guarded(ms[d], Ctss(d, Is(d)))
    BY <2>1, CtssLess DEF Behaves
  <2> QED
    BY <1>3, <2>1, <2>2 DEF Behaves
<1>10. Behaves(c, n, h, Is(n))
  <2>1. CASE ~Asked
    <3>1. Is(n) \subseteq Was(n)
      BY <1>7, <2>1
    <3>2. Guarded(s, Ctss(n, Is(n)))
      BY <1>1, <3>1, CtssLess
    <3>3. Idle(ms[n]) => Was(n) = {}
      BY DEF Behaves, Was
    <3> QED
      BY <1>1, <1>2, <3>1, <3>2, <3>3 DEF Behaves
  <2>2. CASE Asked
    <3> DEFINE D == Was(n) \cup {RtsTime + Sifs}
    <3>1. Is(n) \subseteq D
      BY <1>7
    <3>2. Guarded(s, Ctss(n, D))
      BY <1>1, <1>5, <1>8, <2>2, GuardedCalls
    <3>3. Guarded(s, Ctss(n, Is(n)))
      BY <3>1, <3>2, CtssLess
    <3>4. ~Idle(s)
      BY <1>1, <2>2 DEF Good, Fresh, Quiet, Answers, Asked
    <3> QED
      BY <1>1, <1>2, <3>3, <3>4 DEF Behaves
  <2> QED
    BY <2>1, <2>2
<1> QED
  BY <1>3, <1>9, <1>10 DEF c, ms2, hs2, Is

-----------------------------------------------------------------------------
(* A station runs an event.                                                *)

LEMMA Popped ==
  ASSUME NEW n, NEW m, NEW h, NEW C \in SUBSET Nat, Behaves(m, n, h, C),
         NEW e \in Due(m)
  PROVE  LET p == Pop(m, e)
         IN /\ p \in Stations /\ Good(p) /\ Leads(m, p) /\ Shape(p)
            /\ p.addr = n /\ p.sent = NoFrame /\ p.ev = m.ev \ {e} /\ p.end = m.end
            /\ Guarded(p, Ctss(n, C)) /\ Hearing(p) /\ Watch(p) = Without(m, e.k)
            /\ Calm(p, MarksOf(p)) /\ MarksOf(p) \subseteq MarksOf(m)
            /\ e \in m.ev /\ e.due = 0
            /\ e.k \in SenderKinds => ~Idle(p)
            /\ e.k \in ReplyKinds \cup {"EndReceive"} => Alive(p) /\ e.arg \in Frames
            /\ e.k \in ReplyKinds => e.arg.type \in Answers
            /\ e.k = "EndReceive" => (Idle(p) => ~CtsTo(e.arg, n))
<1> DEFINE p == Pop(m, e)
<1>1. /\ m \in Stations /\ Good(m) /\ m.addr = n /\ Alive(m)
      /\ Deferring(m, MarksOf(m)) /\ Guarded(m, Ctss(n, C))
  BY DEF Behaves
<1>2. e \in m.ev /\ e.due = 0
  BY DEF Due
<1>3. Leads(m, p) /\ Idle(p) = Idle(m) /\ p.addr = n
  BY <1>1, <1>2, PopLeads
<1>4. Calm(p, MarksOf(m)) /\ p.ev = m.ev \ {e} /\ p.end = m.end
  BY <1>1, PopCalm
<1>5. Guarded(p, Ctss(n, C))
  BY <1>1, <1>2, GuardedPop
<1>6. p = [m EXCEPT !.ev = p.ev, !.sent = NoFrame] /\ Watch(p) = Without(m, e.k)
  BY <1>1, <1>2, PopEvent DEF Guarded
<1>7. e.k \notin SenderKinds => Alive(p)
  BY <1>1, <1>2, PopAlive
<1> HIDE DEF p
<1>8. p.sent = NoFrame
  BY <1>1, <1>6 DEF Guarded, Sound
<1>9. p \in Stations /\ Good(p) /\ Shape(p) /\ Hearing(p)
  BY <1>3, <1>5, StationShape, GuardedHearing DEF Leads
<1>10. MarksOf(p) \subseteq MarksOf(m) /\ Calm(p, MarksOf(p))
  BY <1>4, DeferringMarks DEF Calm
<1>11. ArgsOK(m) /\ (Idle(m) => Quiet(m))
  BY <1>1 DEF Good, Fresh
<1>12. /\ e.k \in SenderKinds => ~Idle(p)
       /\ e.k \in ReplyKinds => e.arg \in Frames /\ e.arg.type \in Answers
       /\ e.k = "EndReceive" => e.arg \in Frames /\ (Idle(p) => ~CtsTo(e.arg, n))
  BY <1>1, <1>2, <1>3, <1>11 DEF Quiet, ArgsOK, Replies, Answers
<1>13. e.k \in ReplyKinds \cup {"EndReceive"} => e.k \notin SenderKinds
  BY SenderKindsTypes
<1> QED
  BY <1>2, <1>3, <1>4, <1>5, <1>6, <1>7, <1>8, <1>9, <1>10, <1>12, <1>13 DEF p

\* A handler that receives nothing and promises no CTS.
LEMMA Handled ==
  ASSUME NEW n, NEW m, NEW h, NEW C \in SUBSET Nat, Behaves(m, n, h, C),
         NEW e \in Due(m), NEW s, Leads(Pop(m, e), s), Alive(s),
         Deferring(s, MarksOf(Pop(m, e))), Guarded(s, Ctss(n, C)),
         \/ s.sent = NoFrame \/ s.sent.type \notin {"RTS", "CTS"}
         \/ /\ s.sent.type = "RTS" /\ s.sent.a2 = n /\ s.st # "SPC"
            /\ Timer("CtsTimeout", RtsWait) \in Watch(s)
         \/ /\ s.sent.type = "CTS" /\ e.k \in ReplyKinds /\ s.sent = e.arg
  PROVE  Moves(m, n, IF s.rxing THEN h ELSE NoSignal, C, s)
<1> DEFINE p == Pop(m, e)
           g == IF s.rxing THEN h ELSE NoSignal
<1>1. /\ Leads(m, p) /\ MarksOf(p) \subseteq MarksOf(m) /\ e \in m.ev /\ e.due = 0
  BY Popped
<1>2. Leads(m, s)
  BY <1>1, LeadsTransitive
<1>3. MarksOf(s) \subseteq MarksOf(p) /\ Deferring(s, MarksOf(s))
  BY DeferringMarks
<1> HIDE DEF p
<1>4. \A d, t : Offered(MarksOf(s), n, d, t) => Offered(MarksOf(m), n, d, t)
  BY <1>1, <1>3 DEF Offered
<1>5. ASSUME NEW x \in s.ev, x.k = "EndReceive" PROVE g # NoSignal /\ x.arg = g.frame
  <2>1. View(x) \in MarksOf(s)
    BY <1>5 DEF MarksOf, Marked
  <2>2. PICK y \in m.ev : View(y) = View(x)
    BY <1>1, <1>3, <2>1 DEF MarksOf
  <2>3. y.k = "EndReceive" /\ y.arg = x.arg
    BY <1>5, <2>2 DEF View
  <2>4. h # NoSignal /\ x.arg = h.frame
    BY <2>3 DEF Behaves, Hears
  <2>5. View(x) \in Watch(s) /\ View(x).k = "EndReceive"
    BY <1>5, WatchMembers, WatchedKinds DEF View
  <2>6. s.rxing
    BY <2>5 DEF Guarded, Within
  <2> QED
    BY <2>4, <2>6
<1>6. ASSUME s.sent.type = "CTS", e.k \in ReplyKinds, s.sent = e.arg,
             NEW d, CtsTo(s.sent, d)
      PROVE  Offered(MarksOf(m), n, d, 0)
  <2>1. View(e) \in MarksOf(m)
    BY <1>1, <1>6 DEF MarksOf, Marked
  <2>2. View(e).k = e.k /\ View(e).due = 0 /\ View(e).arg = e.arg
    BY <1>1 DEF View
  <2> QED
    BY <1>6, <2>1, <2>2 DEF Offered
<1>7. MarksOf(s) \subseteq MarksOf(m)
  BY <1>1, <1>3
<1> QED
  BY <1>2, <1>3, <1>4, <1>5, <1>6, <1>7 DEF Moves, Hears

\* A handler that hands no frame to the physical layer.
LEMMA HandledBack ==
  ASSUME NEW n, NEW m, NEW h, NEW C \in SUBSET Nat, Behaves(m, n, h, C),
         NEW e \in Due(m), NEW s, Leads(Pop(m, e), s), Alive(s),
         Keeps(Pop(m, e), s, MarksOf(Pop(m, e))), Guarded(s, Ctss(n, C))
  PROVE  /\ Moves(m, n, IF s.rxing THEN h ELSE NoSignal, C, s)
         /\ s.sent = NoFrame
<1>1. Pop(m, e).sent = NoFrame
  BY Popped
<1> QED
  BY <1>1, Handled DEF Keeps

\* BackoffGrantStart and the timeouts.
LEMMA TimeoutsMove ==
  ASSUME NEW n, NEW m, NEW h, NEW C \in SUBSET Nat, Behaves(m, n, h, C),
         NEW e \in Due(m), NEW draw \in Nat, NEW s,
         \/ e.k = "BackoffGrantStart" /\ s = BackoffGrantStart(Pop(m, e), draw)
         \/ e.k = "CtsTimeout" /\ s = CtsTimeout(Pop(m, e), draw)
         \/ e.k = "AckTimeout1" /\ s = AckTimeout1(Pop(m, e), draw)
         \/ e.k = "AckTimeout2" /\ s = AckTimeout2(Pop(m, e), draw)
  PROVE  /\ Moves(m, n, IF s.rxing THEN h ELSE NoSignal, C, s)
         /\ s.sent = NoFrame
<1> DEFINE p == Pop(m, e)
<1>1. /\ p \in Stations /\ Good(p) /\ Shape(p) /\ ~Idle(p)
      /\ Guarded(p, Ctss(n, C)) /\ Deferring(p, MarksOf(p))
  BY Popped, SenderKindsTypes DEF Calm
<1>2. Sound(p)
  BY <1>1 DEF Guarded
<1> HIDE DEF p
<1>3. CASE e.k = "BackoffGrantStart" /\ s = BackoffGrantStart(p, draw)
  <2>1. Leads(p, s) /\ Alive(s) /\ Keeps(p, s, MarksOf(p))
    BY <1>1, <1>3, BackoffGrantStartLeads, BackoffCovers, BackoffKeeps DEF Alive
  <2>2. Guarded(s, Ctss(n, C))
    BY <1>1, <1>2, <1>3, BackoffBacks, GuardedRests
  <2> QED
    BY <2>1, <2>2, HandledBack DEF p
<1>4. CASE \/ s = CtsTimeout(p, draw)
           \/ s = AckTimeout1(p, draw)
           \/ s = AckTimeout2(p, draw)
  <2>1. Leads(p, s)
    BY <1>1, <1>4, CtsTimeoutLeads, AckTimeoutsLead
  <2>2. Alive(s) /\ Keeps(p, s, MarksOf(p))
    BY <1>1, <1>4, TimeoutsAlive, TimeoutsKeep
  <2>3. \E x, y : Backs(p, s, x, y)
    BY <1>2, <1>4, CtsTimeoutBacks, AckTimeoutBacks
  <2>4. Guarded(s, Ctss(n, C))
    BY <1>1, <2>3, GuardedBacks
  <2> QED
    BY <2>1, <2>2, <2>4, HandledBack DEF p
<1> QED
  BY <1>3, <1>4 DEF p

\* BackoffTimeout sends an RTS in its own name, and not before its waits are over.
LEMMA RtsIsOwn ==
  ASSUME NEW m, Sound(m), Hearing(m), m.sent = NoFrame, NEW queue, NEW draw
  PROVE  LET s == BackoffTimeout(m, queue, draw)
         IN s.sent = NoFrame \/ s.sent.type # "RTS" \/ s.sent.a2 = m.addr
<1> DEFINE s == BackoffTimeout(m, queue, draw)
           k == Chosen(m, queue)
<1>1. Rests(m, k)
  BY ChosenStep
<1>2. Sound(k) /\ Hearing(k) /\ k.sent = NoFrame /\ k.addr = m.addr
  BY <1>1, RestsHearing DEF Rests
<1>3. /\ \A x : Rts(x).a2 = x.addr
      /\ \A x : RtsSpc(x).type # "RTS"
      /\ \A x, d : Data(x, d).type # "RTS"
  BY DEF Rts, RtsSpc, Data, Frame
<1>4. \/ Rests(m, s)
      \/ s = SendRtsSpc(k) \/ s = SendRts(k) \/ s = SendUnicastDataNoAck(k, draw)
  BY BackoffTimeoutArms
<1> HIDE DEF s, k
<1>5. Rests(m, s) => s.sent = NoFrame
  BY DEF Rests
<1>6. ASSUME s = SendRtsSpc(k) PROVE s.sent = NoFrame \/ s.sent = RtsSpc(k)
  BY <1>2, <1>6, SendRtsSpcArms, RecountStep DEF Fails, Arms
<1>7. ASSUME s = SendRts(k) PROVE s.sent = NoFrame \/ s.sent = Rts(k)
  BY <1>2, <1>7, SendRtsArms DEF Fails, Arms
<1>8. ASSUME s = SendUnicastDataNoAck(k, draw) PROVE s.sent = Data(k, 0)
  <2>1. PICK t : /\ t.sent = Data(k, 0)
                 /\ IF k.st = "SECOND" THEN Backs(t, s, k.p1, NoPacket)
                                       ELSE Backs(t, s, NoPacket, k.p2)
    BY <1>2, <1>8, SendNoAckBacks
  <2> QED
    BY <2>1 DEF Backs, Rests
<1>9. s.sent = NoFrame \/ s.sent.type # "RTS" \/ s.sent.a2 = m.addr
  BY <1>2, <1>3, <1>4, <1>5, <1>6, <1>7, <1>8
<1> QED
  BY <1>9 DEF s

LEMMA BackoffTimeoutMoves ==
  ASSUME NEW n, NEW m, NEW h, NEW C \in SUBSET Nat, Behaves(m, n, h, C),
         NEW e \in Due(m), e.k = "BackoffTimeout", NEW queue \in Seq(Packets),
         NEW draw \in Nat
  PROVE  LET s == BackoffTimeout(Pop(m, e), queue, draw)
         IN /\ Moves(m, n, IF s.rxing THEN h ELSE NoSignal, C, s)
            /\ Launch(s.sent) =>
                 \A x \in m.ev : ~Promised(x) /\ (x.due > 0 => x.k \notin Watched)
<1> DEFINE p == Pop(m, e)
           s == BackoffTimeout(p, queue, draw)
<1>1. /\ p \in Stations /\ Good(p) /\ Shape(p) /\ ~Idle(p) /\ p.sent = NoFrame
      /\ p.addr = n /\ Guarded(p, Ctss(n, C)) /\ Calm(p, MarksOf(p)) /\ Hearing(p)
      /\ p.end = m.end
  BY Popped, SenderKindsTypes
<1> HIDE DEF p
<1>2. Leads(p, s) /\ Alive(s)
  BY <1>1, BackoffTimeoutLeads, BackoffTimeoutAlive
<1>3. Deferring(s, MarksOf(p)) /\ (GetSendGrantStart(p) > 0 => ~Launch(s.sent))
  BY <1>1, BackoffTimeoutDefers
<1>4. /\ Guarded(s, Ctss(n, C))
      /\ \/ s.sent = NoFrame \/ s.sent.type \in {"DATA", "RTS_SPC"}
         \/ /\ s.sent.type = "RTS" /\ s.st # "SPC"
            /\ Timer("CtsTimeout", RtsWait) \in Watch(s)
  BY <1>1, BackoffTimeoutGuarded
<1>5. s.sent = NoFrame \/ s.sent.type # "RTS" \/ s.sent.a2 = n
  BY <1>1, RtsIsOwn DEF Guarded
<1> HIDE DEF s
<1>6. Moves(m, n, IF s.rxing THEN h ELSE NoSignal, C, s)
  BY <1>2, <1>3, <1>4, <1>5, Handled DEF p
<1>7. /\ m \in Stations /\ Deferring(m, MarksOf(m)) /\ Guarded(m, Ctss(n, C))
      /\ Latest(p) = Latest(m)
  BY <1>1, LatestSame DEF Behaves
<1>8. ASSUME Launch(s.sent), NEW x \in m.ev
      PROVE  ~Promised(x) /\ (x.due > 0 => x.k \notin Watched)
  <2>1. ~(Latest(m) > 0) /\ Latest(m) \in Int /\ m.end["wait"] <= Latest(m)
    BY <1>3, <1>7, <1>8, LatestType DEF GetSendGrantStart, Causes
  <2>2. ~Promised(x)
    <3>1. x.due \in Nat /\ m.end["wait"] \in Int
      BY <1>7 DEF Stations, Events, Causes
    <3>2. Promise(x) => x.due < m.end["wait"]
      BY <1>7 DEF Deferring
    <3> QED
      BY <2>1, <3>1, <3>2 DEF Promised, Promise, Awaited
  <2>3. \A w \in Watch(m) : w.due = 0
    BY <1>7, <2>1, FreeNow DEF Guarded
  <2>4. x.k \in Watched => View(x) \in Watch(m) /\ View(x).due = x.due
    BY WatchMembers DEF View
  <2> QED
    BY <2>2, <2>3, <2>4
<1> QED
  BY <1>6, <1>8 DEF s, p

\* Data that was granted, and the answers.
LEMMA DataMoves ==
  ASSUME NEW n, NEW m, NEW h, NEW C \in SUBSET Nat, Behaves(m, n, h, C),
         NEW e \in Due(m), NEW s,
         \/ /\ e.k = "SendUnicastDataAfterCts"
            /\ s = SendUnicastDataAfterCts(Pop(m, e))
         \/ /\ e.k = "SendSpcDataAfterCtsSpc"
            /\ \E spc \in BOOLEAN : s = SendSpcDataAfterCtsSpc(Pop(m, e), spc)
  PROVE  /\ Moves(m, n, IF s.rxing THEN h ELSE NoSignal, C, s)
         /\ ~Launch(s.sent)
<1> DEFINE p == Pop(m, e)
<1>1. /\ p \in Stations /\ Good(p) /\ Shape(p) /\ ~Idle(p) /\ p.sent = NoFrame
      /\ Guarded(p, Ctss(n, C)) /\ Calm(p, MarksOf(p))
  BY Popped, SenderKindsTypes
<1>2. \/ s = SendUnicastDataAfterCts(p)
      \/ \E spc \in BOOLEAN : s = SendSpcDataAfterCtsSpc(p, spc)
  OBVIOUS
<1> HIDE DEF p
<1>3. Leads(p, s) /\ Alive(s)
  BY <1>1, <1>2, SendUnicastDataAfterCtsLeads, SendUnicastDataAfterCtsAlive,
     SendSpcDataAfterCtsSpcLeads, SendSpcDataAfterCtsSpcAlive
<1>4. Deferring(s, MarksOf(p)) /\ ~Launch(s.sent)
  BY <1>1, <1>2, SendUnicastDataAfterCtsCalm, SendSpcDataAfterCtsSpcCalm DEF Calm
<1>5. Guarded(s, Ctss(n, C)) /\ (s.sent = NoFrame \/ s.sent.type \in {"DATA", "DATA_SPC"})
  BY <1>1, <1>2, SendDataGuarded
<1> QED
  BY <1>3, <1>4, <1>5, Handled DEF p

LEMMA ReplyMoves ==
  ASSUME NEW n, NEW m, NEW h, NEW C \in SUBSET Nat, Behaves(m, n, h, C),
         NEW e \in Due(m), e.k \in ReplyKinds
  PROVE  LET s == StartSend(Pop(m, e), e.arg)
         IN /\ Moves(m, n, IF s.rxing THEN h ELSE NoSignal, C, s)
            /\ ~Launch(s.sent)
<1> DEFINE p == Pop(m, e)
           s == StartSend(p, e.arg)
<1>1. /\ p \in Stations /\ Good(p) /\ Shape(p) /\ Hearing(p) /\ Alive(p)
      /\ Guarded(p, Ctss(n, C)) /\ Calm(p, MarksOf(p))
      /\ e.arg \in Frames /\ e.arg.type \in Answers
  BY Popped
<1> HIDE DEF p
<1>2. Leads(p, s)
  BY <1>1, StartSendLeads
<1>3. Deferring(s, MarksOf(p)) /\ s.sent = e.arg
  BY <1>1, StartSendDefers DEF Calm, Emits
<1>4. /\ Sound(s) /\ Watch(s) = Without(p, "EndReceive") /\ Still(p, s)
      /\ s.end["tx"] = AirTime(e.arg) /\ s.end["rx"] \in {0, p.end["rx"]}
      /\ \A c \in Causes \ {"tx", "rx"} : s.end[c] = p.end[c]
  BY <1>1, SendStep DEF Guarded
<1>5. Covered(p) => Covered(s)
  BY <1>1, StartSendCovered
<1> HIDE DEF s
<1>6. Alive(s)
  BY <1>1, <1>4, <1>5 DEF Alive, Held, Still, Kept
<1>7. s.addr = p.addr /\ s.st = p.st /\ AirTime(e.arg) \in Int
  BY <1>1, <1>4, Times DEF Still
<1>8. Guarded(s, Ctss(n, C))
  BY <1>1, <1>4, <1>7, GuardedSends
<1>9. ~Launch(s.sent) /\ (s.sent.type = "CTS" \/ s.sent.type \notin {"RTS", "CTS"})
  BY <1>1, <1>3 DEF Launch, Answers
<1> QED
  BY <1>2, <1>3, <1>6, <1>8, <1>9, Handled DEF p, s

-----------------------------------------------------------------------------
(* A reception ends.                                                       *)

\* Neither another CTS nor data that was granted can be on its way, when the
\* CTS comes that the station waits for.
LEMMA NothingElse ==
  ASSUME NEW n \in Addrs, NEW m, NEW h, NEW C \in SUBSET Nat, Behaves(m, n, h, C),
         NEW e \in Due(m), e.k = "EndReceive"
  PROVE  LET p == Pop(m, e)
         IN ~Awaiting(p, "EndReceive") /\ Open(p, Ctss(n, C), e.arg)
<1> DEFINE p == Pop(m, e)
           v == View(e)
           ar == Ctss(n, C)
<1>1. /\ Guarded(p, ar) /\ Watch(p) = Without(m, e.k) /\ p.addr = n
      /\ e.due = 0 /\ e \in m.ev
  BY Popped
<1>2. v \in Watch(m) /\ v.k = "EndReceive" /\ v.due = 0 /\ v.arg = e.arg
  BY <1>1, WatchMembers, WatchedKinds DEF View
<1>3. m.addr = n /\ Guarded(m, ar)
  BY DEF Behaves
<1> HIDE DEF p, v, ar
<1>4. ~Awaiting(p, "EndReceive") /\ Watch(p) \subseteq Watch(m)
  BY <1>1 DEF Without, Awaiting
<1>5. Awaiting(m, "CtsTimeout") => \A k \in Granted : ~Awaiting(p, k)
  BY <1>2, <1>3, <1>4 DEF Guarded, Apart, Awaiting
<1>6. ASSUME CtsTo(e.arg, n)
      PROVE  /\ \A c \in Coming(p, ar) : ~CtsTo(c.frame, n)
             /\ Awaiting(m, "CtsTimeout")
  <2>1. Heard(v) \in Coming(m, ar) /\ Heard(v).at = 0 /\ Heard(v).frame = e.arg
    BY <1>2, <1>3, ComingTypes DEF Guarded
  <2>2. PICK t \in Watch(m) : t.k = "CtsTimeout" /\ t.due = 0 + CtsWait
    BY <1>3, <1>6, <2>1 DEF Guarded, CtsComing
  <2>3. ASSUME NEW c \in Coming(p, ar), CtsTo(c.frame, n) PROVE FALSE
    <3>1. PICK r \in ar : c = Expected(r)
      BY <1>4 DEF Coming, Awaiting
    <3>2. c \in Coming(m, ar)
      BY <3>1 DEF Coming
    <3>3. PICK u \in Watch(m) : u.k = "CtsTimeout" /\ u.due = c.at + CtsWait
      BY <1>3, <2>3, <3>2 DEF Guarded, CtsComing
    <3>4. u = t
      BY <1>3, <2>2, <3>3, WatchUnique DEF Guarded
    <3>5. c.at \in Nat /\ c.at > 0
      BY <1>3, <3>1, <3>2, ComingTypes DEF Guarded
    <3> QED
      BY <2>2, <3>3, <3>4, <3>5, Times
  <2> QED
    BY <2>2, <2>3 DEF Awaiting
<1>7. Awaiting(p, "CtsTimeout") => Awaiting(m, "CtsTimeout")
  BY <1>4 DEF Awaiting
<1> QED
  BY <1>1, <1>4, <1>5, <1>6, <1>7 DEF Open, p, ar

LEMMA ReceptionMoves ==
  ASSUME NEW n \in Addrs, NEW m, NEW h, NEW C \in SUBSET Nat, Behaves(m, n, h, C),
         NEW e \in Due(m), e.k = "EndReceive",
         NEW ok1 \in BOOLEAN, NEW ok2 \in BOOLEAN, NEW draw \in Nat
  PROVE  LET s == EndReceive(Pop(m, e), h.frame, ok1, ok2, draw)
         IN /\ h # NoSignal /\ h.frame \in Frames
            /\ Moves(m, n, NoSignal, C, s) /\ s.sent = NoFrame
<1> DEFINE p == Pop(m, e)
           f == h.frame
           s == EndReceive(p, f, ok1, ok2, draw)
           B == MarksOf(p) \cup {c \in {CtsFor(f)} : f.type = "RTS" /\ f.a1 = n}
<1>1. /\ p \in Stations /\ Good(p) /\ Leads(m, p) /\ p.addr = n /\ p.sent = NoFrame
      /\ Guarded(p, Ctss(n, C)) /\ Calm(p, MarksOf(p)) /\ MarksOf(p) \subseteq MarksOf(m)
      /\ e \in m.ev /\ e.due = 0 /\ Alive(p) /\ e.arg \in Frames
      /\ Idle(p) => ~CtsTo(e.arg, n)
  BY Popped
<1>2. ~Awaiting(p, "EndReceive") /\ Open(p, Ctss(n, C), e.arg)
  BY NothingElse
<1>3. h # NoSignal /\ e.arg = f
  BY <1>1 DEF Behaves, Hears
<1> HIDE DEF p, f
<1>4. Deferring(p, B) /\ Listed(p, f, B)
  BY <1>1, DeferringMarks DEF Calm, Listed
<1>5. Keeps(p, s, B)
  BY <1>1, <1>3, <1>4, EndReceiveKeeps
<1>6. Leads(p, s) /\ Alive(s)
  BY <1>1, <1>3, EndReceiveLeads, EndReceiveAlive
<1>7. Guarded(s, Ctss(n, C)) /\ s.sent = NoFrame
  BY <1>1, <1>2, <1>3, EndReceiveGuarded
<1> HIDE DEF s
<1>8. Leads(m, s)
  BY <1>1, <1>6, LeadsTransitive
<1>9. MarksOf(s) \subseteq B /\ Deferring(s, MarksOf(s))
  BY <1>5, DeferringMarks DEF Keeps
<1>10. CtsFor(f).k # "EndReceive" /\ CtsFor(f).due = Sifs
       /\ \A d : CtsTo(CtsFor(f).arg, d) => f.a2 = d
  BY DEF CtsFor, CtsTo, Frame
<1>11. View(e) \in MarksOf(m) /\ View(e).k = "EndReceive" /\ View(e).due = 0
       /\ View(e).arg = f
  BY <1>1, <1>3 DEF MarksOf, Marked, View
<1>12. ASSUME NEW d, NEW t, Offered(MarksOf(s), n, d, t)
       PROVE  Offered(MarksOf(m), n, d, t)
  <2>1. PICK v \in MarksOf(s) :
          \/ v.k = "EndReceive" /\ Calls(v.arg, n, d) /\ t = v.due + Sifs
          \/ v.k \in ReplyKinds /\ CtsTo(v.arg, d) /\ t = v.due
    BY <1>12 DEF Offered
  <2>2. CASE v \in MarksOf(p)
    BY <1>1, <2>1, <2>2 DEF Offered
  <2>3. CASE v = CtsFor(f) /\ f.type = "RTS" /\ f.a1 = n
    <3>1. Calls(f, n, d) /\ t = 0 + Sifs
      BY <1>10, <2>1, <2>3, Times DEF Calls
    <3> QED
      BY <1>11, <3>1 DEF Offered
  <2> QED
    BY <1>9, <2>1, <2>2, <2>3
<1>13. ASSUME NEW x \in s.ev, x.k = "EndReceive" PROVE FALSE
  <2>1. View(x) \in MarksOf(s) /\ View(x).k = "EndReceive"
    BY <1>13 DEF MarksOf, Marked, View
  <2>2. View(x) \in MarksOf(p)
    BY <1>9, <1>10, <2>1
  <2>3. PICK y \in p.ev : View(y) = View(x)
    BY <2>2 DEF MarksOf
  <2>4. y.k = "EndReceive"
    BY <2>1, <2>3 DEF View
  <2> QED
    BY <1>2, <2>4, WatchMembers, WatchedKinds
<1>14. \A v \in MarksOf(s) : v.k = "EndReceive" => v \in MarksOf(m)
  BY <1>1, <1>9, <1>10
<1>15. Moves(m, n, NoSignal, C, s)
  BY <1>6, <1>7, <1>8, <1>9, <1>12, <1>13, <1>14 DEF Moves, Hears
<1> QED
  BY <1>1, <1>3, <1>7, <1>15 DEF f, s, p

-----------------------------------------------------------------------------
(* The application, a signal that arrives, and time.                       *)

LEMMA EnqueueMoves ==
  ASSUME NEW n, NEW m, NEW h, NEW C \in SUBSET Nat, Behaves(m, n, h, C),
         NEW p \in Packets, NEW draw \in Nat
  PROVE  LET s == Enqueue(m, p, draw)
         IN Moves(m, n, h, C, s) /\ s.sent = NoFrame
<1> DEFINE s == Enqueue(m, p, draw)
           q == Queued(m, p)
           ar == Ctss(n, C)
<1>1. m \in Stations /\ Good(m) /\ Deferring(m, MarksOf(m)) /\ Guarded(m, ar) /\ Hears(m, h)
  BY DEF Behaves
<1>2. Leads(m, s) /\ Calm(s, MarksOf(m))
  BY <1>1, EnqueueLeads, EnqueueCalm
<1>3. Alive(s)
  <2>1. Shape(q)
    BY <1>1, StationShape DEF Shape, Queued
  <2> QED
    BY <2>1, RestartAlive DEF Enqueue, Queued
<1>4. /\ Sound(q) /\ Watch(q) = Watch(m) /\ q = [m EXCEPT !.q = q.q, !.sent = NoFrame]
      /\ Backs(q, s, m.p1, m.p2)
  BY <1>1, EnqueueBacks DEF Guarded
<1> HIDE DEF s, q, ar
<1>5. q.addr = m.addr /\ q.st = m.st /\ q.rxing = m.rxing /\ q.end = m.end /\ q.sent = NoFrame
  BY <1>1, <1>4 DEF Guarded, Sound
<1>6. {"tx", "rx", "cts", "ack"} \subseteq Causes /\ \A c \in Causes : q.end[c] \in Int
  BY <1>1, <1>5 DEF Guarded, Typed, Causes
<1>7. Guarded(q, ar)
  BY <1>1, <1>4, <1>5, <1>6, GuardedSame
<1>8. Guarded(s, ar) /\ s.sent = NoFrame
  BY <1>4, <1>5, <1>7, GuardedBacks DEF Backs, Rests
<1>9. MarksOf(s) \subseteq MarksOf(m) /\ Deferring(s, MarksOf(s))
  BY <1>2, DeferringMarks DEF Calm
<1>10. \A d, t : Offered(MarksOf(s), n, d, t) => Offered(MarksOf(m), n, d, t)
  BY <1>9 DEF Offered
<1>11. Hears(s, h)
  <2> SUFFICES ASSUME NEW x \in s.ev, x.k = "EndReceive"
               PROVE  h # NoSignal /\ x.arg = h.frame
    BY DEF Hears
  <2>1. View(x) \in MarksOf(s)
    BY DEF MarksOf, Marked
  <2>2. PICK y \in m.ev : View(y) = View(x)
    BY <1>9, <2>1 DEF MarksOf
  <2>3. y.k = "EndReceive" /\ y.arg = x.arg
    BY <2>2 DEF View
  <2> QED
    BY <1>1, <2>3 DEF Hears
<1>12. Moves(m, n, h, C, s)
  BY <1>2, <1>3, <1>8, <1>9, <1>10, <1>11 DEF Moves, ar
<1> QED
  BY <1>8, <1>12 DEF s

\* A signal x reaches a station in state m that hears h0; it is received or only
\* raises the noise, and leaves it in state s, hearing h.
Reaches(x, m, h0, s, h) ==
  \/ /\ CanReceive(m) /\ s = StartReceive(m, x.frame)
     /\ h # NoSignal /\ h.frame = x.frame
  \/ /\ s = NotifyMaybeCcaBusyStartNow(m, AirTime(x.frame))
     /\ h0 # NoSignal => h # NoSignal /\ h.frame = h0.frame

LEMMA SignalArrives ==
  ASSUME NEW ms \in [Addrs -> Stations], NEW sigs \in SUBSET Signals,
         NEW hs, DOMAIN hs = Addrs,
         \A d \in Addrs : Behaves(ms[d], d, hs[d], CtsIn(ms, sigs, d)),
         NEW x \in sigs, NEW h, NEW s, Reaches(x, ms[x.to], hs[x.to], s, h)
  PROVE  LET ms2 == [ms EXCEPT ![x.to] = s]
             hs2 == [hs EXCEPT ![x.to] = h]
         IN /\ s \in Stations /\ s.sent = NoFrame
            /\ \A d \in Addrs : Behaves(ms2[d], d, hs2[d], CtsIn(ms2, sigs \ {x}, d))
<1> DEFINE n == x.to
           m == ms[n]
           f == x.frame
           new == [k |-> "EndReceive", due |-> AirTime(f), arg |-> f]
           ms2 == [ms EXCEPT ![n] = s]
           hs2 == [hs EXCEPT ![n] = h]
           Was(d) == CtsIn(ms, sigs, d)
           Is(d)  == CtsIn(ms2, sigs \ {x}, d)
           Rx == CanReceive(m) /\ s = StartReceive(m, f) /\ h # NoSignal /\ h.frame = f
<1>0. Rx \/ (/\ s = NotifyMaybeCcaBusyStartNow(m, AirTime(f))
             /\ hs[n] # NoSignal => h # NoSignal /\ h.frame = hs[n].frame)
  BY DEF Reaches
<1>1. n \in Addrs /\ f \in Frames /\ AirTime(f) \in Nat
  BY DurationTypes DEF Signals
<1>2. /\ m \in Stations /\ Good(m) /\ Alive(m) /\ m.addr = n /\ Deferring(m, MarksOf(m))
      /\ Guarded(m, Ctss(n, Was(n))) /\ Hears(m, hs[n]) /\ (Idle(m) => Was(n) = {})
  BY <1>1 DEF Behaves
<1>3. Rx \/ s = NotifyMaybeCcaBusyStartNow(m, AirTime(f))
  BY <1>0
<1>4. CtsTo(f, n) => 0 \in Was(n)
  BY DEF CtsIn
<1>5. Leads(m, s) /\ Alive(s)
  <2>1. Idle(m) => ~CtsTo(f, m.addr)
    BY <1>2, <1>4
  <2> QED
    BY <1>1, <1>2, <1>3, <2>1, StartReceiveLeads, BusyLeads, ReceptionAlive
<1>6. /\ Deferring(s, MarksOf(s))
      /\ \A v \in MarksOf(s) : v \in MarksOf(m) \/ (Rx /\ v = new)
  <2>1. CASE Rx
    <3> DEFINE B == MarksOf(m) \cup {new}
    <3>1. Deferring(m, B) /\ new \in B
      BY <1>2, DeferringMarks
    <3>2. Deferring(s, B)
      BY <2>1, <3>1, ReceptionCalm DEF Calm
    <3> QED
      BY <2>1, <3>2, DeferringMarks
  <2>2. CASE ~Rx
    <3>1. Deferring(s, MarksOf(m))
      BY <1>2, <1>3, <2>2, ReceptionCalm DEF Calm
    <3> QED
      BY <3>1, DeferringMarks
  <2> QED
    BY <2>1, <2>2
<1>7. Hears(s, h)
  <2> SUFFICES ASSUME NEW y \in s.ev, y.k = "EndReceive"
               PROVE  h # NoSignal /\ y.arg = h.frame
    BY DEF Hears
  <2>1. View(y) \in MarksOf(s)
    BY DEF MarksOf, Marked
  <2>2. CASE Rx
    <3>1. ~Awaiting(m, "EndReceive")
      BY <1>1, <1>2, <2>2, GuardedLess DEF Guarded, Within, Awaiting, CanReceive
    <3>2. View(y) \notin MarksOf(m)
      <4>1. SUFFICES ASSUME NEW z \in m.ev, View(z) = View(y) PROVE FALSE
        BY DEF MarksOf
      <4>2. z.k = "EndReceive"
        BY <4>1 DEF View
      <4> QED
        BY <3>1, <4>2, WatchMembers, WatchedKinds
    <3>3. View(y) = new
      BY <1>6, <2>1, <3>2
    <3>4. y.arg = f
      BY <3>3 DEF View
    <3>5. h # NoSignal /\ h.frame = f
      BY <2>2
    <3> QED
      BY <3>4, <3>5
  <2>3. CASE ~Rx
    <3>1. PICK z \in m.ev : View(z) = View(y)
      BY <1>6, <2>1, <2>3 DEF MarksOf
    <3>2. z.k = "EndReceive" /\ z.arg = y.arg
      BY <3>1 DEF View
    <3> QED
      BY <1>0, <1>2, <2>3, <3>2 DEF Hears
  <2> QED
    BY <2>2, <2>3
<1>8. s.sent = NoFrame
  <2>1. "sent" \in DOMAIN m
    BY <1>2 DEF Stations
  <2> QED
    BY <1>3, <2>1 DEF StartReceive, Schedule, NotifyMaybeCcaBusyStartNow
<1>9. /\ ms2[n] = s /\ hs2[n] = h
      /\ \A d \in Addrs \ {n} : ms2[d] = ms[d] /\ hs2[d] = hs[d]
  BY <1>1
<1> HIDE DEF ms2, hs2
<1>10. ASSUME NEW d \in Addrs, NEW t \in Is(d) PROVE t \in Was(d)
  <2>1. t \in Nat
    BY DEF CtsIn
  <2>2. CASE \E y \in sigs \ {x} : \/ Calls(y.frame, y.to, d) /\ t = RtsTime + Sifs
                                   \/ y.to = d /\ CtsTo(y.frame, d) /\ t = 0
    BY <2>1, <2>2 DEF CtsIn
  <2>3. ASSUME NEW b \in Addrs, Offered(MarksOf(ms2[b]), b, d, t) PROVE t \in Was(d)
    <3>1. CASE Offered(MarksOf(ms[b]), b, d, t)
      BY <2>1, <3>1 DEF CtsIn
    <3>2. CASE b = n /\ Offered({new}, n, d, t)
      <4>1. Calls(f, n, d) /\ t = AirTime(f) + Sifs
        BY <3>2 DEF Offered, ReplyKinds
      <4>2. AirTime(f) = RtsTime
        BY <4>1 DEF Calls, AirTime
      <4> QED
        BY <2>1, <4>1, <4>2 DEF CtsIn
    <3>3. MarksOf(ms2[b]) \subseteq MarksOf(ms[b])
            \/ (b = n /\ MarksOf(ms2[b]) \subseteq MarksOf(m) \cup {new})
      BY <1>6, <1>9
    <3> QED
      BY <2>3, <3>1, <3>2, <3>3 DEF Offered
  <2> QED
    BY <2>2, <2>3 DEF CtsIn
<1>11. Guarded(s, Ctss(n, Was(n)))
  <2>1. CASE Rx
    <3>1. ASSUME CtsTo(f, n)
          PROVE  /\ m.st # "SPC"
                 /\ \E t \in Watch(m) : t.k = "CtsTimeout" /\ t.due = AirTime(f) + CtsWait
      <4> DEFINE r == Cts(n, 0)
      <4>1. r \in Ctss(n, Was(n))
        BY <1>4, <3>1 DEF Ctss
      <4>2. r.due = 0 /\ CtsTo(r.frame, n) /\ AirTime(r.frame) = CtsTime
        BY <1>1, CtsTypes
      <4>3. AirTime(f) = CtsTime
        BY <3>1 DEF CtsTo, AirTime
      <4> HIDE DEF r
      <4>4. Expected(r) \in Coming(m, Ctss(n, Was(n)))
        BY <4>1 DEF Coming
      <4>5. Expected(r).at = AirTime(f) /\ CtsTo(Expected(r).frame, n)
        BY <4>2, <4>3, Times DEF Expected
      <4> HIDE DEF Was
      <4> QED
        BY <1>2, <4>4, <4>5 DEF Guarded, CtsComing
    <3> HIDE DEF Was
    <3> QED
      BY <1>1, <1>2, <2>1, <3>1, GuardedReceives
  <2>2. CASE s = NotifyMaybeCcaBusyStartNow(m, AirTime(f))
    <3>1. /\ Sound(s) /\ Watch(s) = Watch(m) /\ Still(m, s) /\ s.rxing = m.rxing
          /\ \A c \in Causes \ {"busy"} : s.end[c] = m.end[c]
      BY <1>2, <2>2, BusyStep DEF Guarded
    <3>2. /\ \A c \in Causes : s.end[c] \in Int
          /\ {"tx", "rx", "cts", "ack"} \subseteq Causes \ {"busy"}
      BY <1>5 DEF Leads, Stations, Causes
    <3>3. s.addr = m.addr /\ s.st = m.st
      BY <3>1 DEF Still
    <3>4. \A c \in {"tx", "rx", "cts", "ack"} : s.end[c] = m.end[c]
      BY <3>1, <3>2
    <3> HIDE DEF Was
    <3> QED
      BY <1>2, <3>1, <3>2, <3>3, <3>4, GuardedSame
  <2> QED
    BY <1>3, <2>1, <2>2
<1> HIDE DEF Was, Is
<1>12. ASSUME NEW d \in Addrs \ {n} PROVE Behaves(ms2[d], d, hs2[d], Is(d))
  <2>1. Behaves(ms[d], d, hs[d], Was(d)) /\ Is(d) \subseteq Was(d)
    BY <1>10 DEF Was
  <2>2. Guarded(ms[d], Ctss(d, Is(d)))
    BY <2>1, CtssLess DEF Behaves
  <2> QED
    BY <1>9, <2>1, <2>2 DEF Behaves
<1>13. Behaves(s, n, h, Is(n))
  <2>1. Is(n) \subseteq Was(n)
    BY <1>1, <1>10
  <2>2. Guarded(s, Ctss(n, Is(n)))
    BY <1>11, <2>1, CtssLess
  <2> HIDE DEF m
  <2> QED
    BY <1>2, <1>5, <1>6, <1>7, <1>8, <2>1, <2>2 DEF Behaves, Leads
<1>14. s \in Stations
  BY <1>5 DEF Leads
<1> QED
  BY <1>8, <1>9, <1>12, <1>13, <1>14 DEF ms2, hs2, Is

-----------------------------------------------------------------------------
(* Time passes.                                                            *)

LEMMA ElapsedEvents ==
  ASSUME NEW m \in Stations
  PROVE  LET s == Elapse(m)
         IN /\ \A e \in m.ev : \E y \in s.ev : y.k = e.k /\ y.arg = e.arg /\ y.due = e.due - 1
            /\ \A y \in s.ev : /\ y.due \in Int
                               /\ \E e \in m.ev : y.k = e.k /\ y.arg = e.arg /\ e.due = y.due + 1
            /\ s.sent = NoFrame
<1>1. /\ {"end", "ev", "sent"} \subseteq DOMAIN m
      /\ \A e \in m.ev : {"k", "due", "arg"} \subseteq DOMAIN e /\ e.due \in Nat
  BY DEF Stations, Events
<1> DEFINE F(e) == [e EXCEPT !.due = @ - 1]
<1>2. Elapse(m).sent = NoFrame /\ Elapse(m).ev = {F(e) : e \in m.ev}
  BY <1>1 DEF Elapse
<1>3. \A e \in m.ev : /\ F(e).k = e.k /\ F(e).arg = e.arg /\ F(e).due = e.due - 1
                      /\ F(e).due \in Int /\ e.due = F(e).due + 1
  BY <1>1
<1> HIDE DEF F
<1> QED
  BY <1>2, <1>3

LEMMA ElapsedMarks ==
  ASSUME NEW m \in Stations
  PROVE  \A v \in MarksOf(Elapse(m)) : \E w \in MarksOf(m) :
           v.k = w.k /\ v.arg = w.arg /\ w.due = v.due + 1
<1> SUFFICES ASSUME NEW v \in MarksOf(Elapse(m))
             PROVE  \E w \in MarksOf(m) : v.k = w.k /\ v.arg = w.arg /\ w.due = v.due + 1
  OBVIOUS
<1>1. PICK y \in Elapse(m).ev : Marked(y) /\ v = View(y)
  BY DEF MarksOf
<1>2. PICK e \in m.ev : y.k = e.k /\ y.arg = e.arg /\ e.due = y.due + 1
  BY ElapsedEvents
<1>3. Marked(e)
  BY <1>1, <1>2 DEF Marked
<1>4. View(e) \in MarksOf(m)
  BY <1>3 DEF MarksOf
<1> QED
  BY <1>1, <1>2, <1>4 DEF View

\* A CTS that station d will begin to send is nearer.
LEMMA OfferNearer ==
  ASSUME NEW m \in Stations, NEW d, NEW n, NEW t \in Nat,
         Offered(MarksOf(Elapse(m)), d, n, t)
  PROVE  t + 1 \in Nat /\ Offered(MarksOf(m), d, n, t + 1)
<1>1. PICK v \in MarksOf(Elapse(m)) :
        \/ v.k = "EndReceive" /\ Calls(v.arg, d, n) /\ t = v.due + Sifs
        \/ v.k \in ReplyKinds /\ CtsTo(v.arg, n) /\ t = v.due
  BY DEF Offered
<1>2. PICK w \in MarksOf(m) : v.k = w.k /\ v.arg = w.arg /\ w.due = v.due + 1
  BY ElapsedMarks
<1>3. PICK y \in Elapse(m).ev : v = View(y)
  BY DEF MarksOf
<1>4. v.due \in Int
  BY <1>3, ElapsedEvents DEF View
<1>5. v.due + 1 + Sifs = v.due + Sifs + 1
  BY <1>4, Times
<1> QED
  BY <1>1, <1>2, <1>5 DEF Offered

\* A CTS that will begin to reach n is nearer.
LEMMA CtsNearer ==
  ASSUME NEW ms \in [Addrs -> Stations], \A d \in Addrs : \A e \in ms[d].ev : e.due > 0,
         NEW n \in Addrs
  PROVE  LET Was == CtsIn(ms, {}, n)
             Is  == CtsIn([d \in Addrs |-> Elapse(ms[d])], {}, n)
         IN /\ \A t \in Was : t > 0
            /\ \A t \in Is : t + 1 \in Was
<1> DEFINE ms2 == [d \in Addrs |-> Elapse(ms[d])]
           Was == CtsIn(ms, {}, n)
           Is  == CtsIn(ms2, {}, n)
<1>1. \A d \in Addrs : \A w \in MarksOf(ms[d]) : w.due \in Nat /\ w.due > 0
  <2> SUFFICES ASSUME NEW d \in Addrs, NEW e \in ms[d].ev
               PROVE  View(e).due \in Nat /\ View(e).due > 0
    BY DEF MarksOf
  <2>1. ms[d] \in Stations
    OBVIOUS
  <2> QED
    BY <2>1 DEF View, Stations, Events
<1>2. ASSUME NEW t \in Was PROVE t > 0
  <2>1. PICK d \in Addrs : Offered(MarksOf(ms[d]), d, n, t)
    BY <1>2 DEF CtsIn
  <2>2. PICK w \in MarksOf(ms[d]) : t = w.due + Sifs \/ t = w.due
    BY <2>1 DEF Offered
  <2> QED
    BY <1>1, <2>2, Times
<1>3. ASSUME NEW t \in Is PROVE t + 1 \in Was
  <2>1. t \in Nat /\ \E d \in Addrs : Offered(MarksOf(ms2[d]), d, n, t)
    BY <1>3 DEF CtsIn
  <2>2. PICK d \in Addrs : Offered(MarksOf(Elapse(ms[d])), d, n, t)
    BY <2>1
  <2>3. Offered(MarksOf(ms[d]), d, n, t + 1) /\ t + 1 \in Nat
    <3>1. ms[d] \in Stations
      OBVIOUS
    <3> QED
      BY <2>1, <2>2, <3>1, OfferNearer
  <2> QED
    BY <2>3 DEF CtsIn
<1> QED
  BY <1>2, <1>3

LEMMA TicksMove ==
  ASSUME NEW ms \in [Addrs -> Stations], NEW hs,
         \A d \in Addrs : Behaves(ms[d], d, hs[d], CtsIn(ms, {}, d)),
         \A d \in Addrs : \A e \in ms[d].ev : e.due > 0
  PROVE  LET ms2 == [d \in Addrs |-> Elapse(ms[d])]
         IN /\ ms2 \in [Addrs -> Stations]
            /\ \A d \in Addrs : Behaves(ms2[d], d, hs[d], CtsIn(ms2, {}, d))
<1> DEFINE ms2 == [d \in Addrs |-> Elapse(ms[d])]
           Was(d) == CtsIn(ms, {}, d)
           Is(d)  == CtsIn(ms2, {}, d)
<1>1. ASSUME NEW n \in Addrs
      PROVE  Elapse(ms[n]) \in Stations /\ Behaves(Elapse(ms[n]), n, hs[n], Is(n))
  <2> DEFINE m == ms[n]
             s == Elapse(m)
  <2>1. /\ m \in Stations /\ Good(m) /\ Alive(m) /\ m.addr = n /\ Deferring(m, MarksOf(m))
        /\ Guarded(m, Ctss(n, Was(n))) /\ Hears(m, hs[n]) /\ (Idle(m) => Was(n) = {})
        /\ \A e \in m.ev : e.due > 0
    BY DEF Behaves
  <2>2. (\A t \in Was(n) : t > 0) /\ \A t \in Is(n) : t + 1 \in Was(n)
    BY CtsNearer
  <2>3. Was(n) \in SUBSET Nat /\ Is(n) \in SUBSET Nat
    BY DEF CtsIn
  <2> HIDE DEF Was, Is, m
  <2>4. Leads(m, s) /\ Alive(s)
    BY <2>1, ElapseLeads, ElapseAlive
  <2>5. Deferring(s, MarksOf(s))
    <3>1. \A e \in m.ev : Marked(e) =>
            [k |-> e.k, due |-> e.due - 1, arg |-> e.arg] \in MarksOf(s)
      <4> SUFFICES ASSUME NEW e \in m.ev, Marked(e)
                   PROVE  [k |-> e.k, due |-> e.due - 1, arg |-> e.arg] \in MarksOf(s)
        OBVIOUS
      <4>1. PICK y \in s.ev : y.k = e.k /\ y.arg = e.arg /\ y.due = e.due - 1
        BY <2>1, ElapsedEvents
      <4>2. Marked(y)
        BY <4>1 DEF Marked
      <4>3. View(y) = [k |-> e.k, due |-> e.due - 1, arg |-> e.arg]
        BY <4>1 DEF View
      <4>4. View(y) \in MarksOf(s)
        BY <4>2 DEF MarksOf
      <4> QED
        BY <4>3, <4>4
    <3> QED
      BY <2>1, <3>1, ElapseCalm DEF Calm
  <2>6. Guarded(s, Ctss(n, Is(n)))
    <3> DEFINE ar == Ctss(n, Was(n))
    <3>1. \A t \in Nat : Cts(n, t).due = t
      BY DEF Cts
    <3>2. \A r \in ar : r.due > 0
      BY <2>2, <2>3, <3>1 DEF Ctss
    <3>3. Guarded(s, Nearer(ar))
      BY <2>1, <3>2, GuardedElapses
    <3>4. \A t \in Nat : [Cts(n, t + 1) EXCEPT !.due = @ - 1] = Cts(n, t)
      BY DEF Cts
    <3>5. Ctss(n, Is(n)) \in SUBSET Nearer(ar)
      BY <2>2, <2>3, <3>4 DEF Ctss, Nearer
    <3> QED
      BY <3>3, <3>5, GuardedLess
  <2>7. Hears(s, hs[n])
    <3>1. \A y \in s.ev : \E e \in m.ev : y.k = e.k /\ y.arg = e.arg
      BY <2>1, ElapsedEvents
    <3> QED
      BY <2>1, <3>1 DEF Hears
  <2>8. s.sent = NoFrame /\ s.addr = n /\ s \in Stations /\ Good(s)
    BY <2>1, <2>4, ElapsedEvents DEF Leads
  <2>9. Idle(s) => Is(n) = {}
    BY <2>1, <2>2, <2>4 DEF Leads
  <2>10. Behaves(s, n, hs[n], Is(n))
    BY <2>4, <2>5, <2>6, <2>7, <2>8, <2>9 DEF Behaves
  <2> QED
    BY <2>8, <2>10 DEF m
<1>2. \A d \in Addrs : ms2[d] = Elapse(ms[d])
  OBVIOUS
<1>3. ms2 \in [Addrs -> Stations]
  BY <1>1
<1>4. \A d \in Addrs : Behaves(ms2[d], d, hs[d], Is(d))
  BY <1>1, <1>2
<1> QED
  BY <1>3, <1>4

-----------------------------------------------------------------------------
(* The state of the network.                                               *)

Answer == [due : Int, rssi : Rssi]
Owed   == Seq(Answer)

\* An answer is taken out of those scheduled.
LEMMA RemovedFrom ==
  ASSUME NEW S, NEW s \in Seq(S), NEW i \in DOMAIN s
  PROVE  Seqs!RemoveAt(s, i) \in Seq(S)
<1>1. i \in 1 .. Len(s) /\ Len(s) \in Nat /\ \A j \in 1 .. Len(s) : s[j] \in S
  OBVIOUS
<1>2. SubSeq(s, 1, i - 1) \in Seq(S)
  <2>1. i - 1 \in Int /\ \A j \in 1 .. (i - 1) : s[j] \in S
    BY <1>1
  <2> QED
    BY <2>1, SubSeqProperties
<1>3. SubSeq(s, i + 1, Len(s)) \in Seq(S)
  <2>1. i + 1 \in Int /\ Len(s) \in Int /\ \A j \in (i + 1) .. Len(s) : s[j] \in S
    BY <1>1
  <2> QED
    BY <2>1, SubSeqProperties
<1>4. Seqs!RemoveAt(s, i) = SubSeq(s, 1, i - 1) \o SubSeq(s, i + 1, Len(s))
  BY DEF Seqs!RemoveAt
<1> QED
  BY <1>2, <1>3, <1>4

LEMMA AnswerLeaves ==
  ASSUME TypeOK, FireCts
  PROVE  owed' \in [Addrs -> Owed]
<1>1. PICK n \in Addrs : \E i \in DOMAIN owed[n] :
        owed' = [owed EXCEPT ![n] = Seqs!RemoveAt(owed[n], i)]
  BY DEF FireCts
<1>2. PICK i \in DOMAIN owed[n] : owed' = [owed EXCEPT ![n] = Seqs!RemoveAt(owed[n], i)]
  BY <1>1
<1>3. owed \in [Addrs -> Owed]
  BY DEF TypeOK, Owed, Answer
<1>4. Seqs!RemoveAt(owed[n], i) \in Owed
  <2>1. owed[n] \in Seq(Answer)
    BY <1>3 DEF Owed
  <2> QED
    BY <2>1, RemovedFrom DEF Owed
<1> QED
  BY <1>2, <1>3, <1>4

NetInv ==
  TypeOK /\ \A n \in Addrs : Behaves(macs[n], n, heard[n], CtsIn(macs, air, n))

\* What NoLaunchOutOfTurn says of a step.
InTurn == \A s \in air' \ air : Launch(s.frame) =>
  \A e \in macs[s.from].ev : /\ ~Promised(e)
                             /\ e.due > 0 => e.k \notin Waiting \cup {"EndReceive"}

LEMMA InitNet == Init => NetInv
<1> SUFFICES ASSUME Init PROVE NetInv
  OBVIOUS
<1>1. ASSUME NEW n \in Addrs
      PROVE  macs[n] \in Stations /\ Behaves(macs[n], n, heard[n], CtsIn(macs, air, n))
  <2> DEFINE m == macs[n]
  <2>1. m = SpcMacInit(n, "FIRST", FALSE)
    BY <1>1 DEF Init
  <2>2. m \in Stations
    <3>1. [c \in Causes |-> 0] \in [Causes -> Int]
      OBVIOUS
    <3>2. NoAddr \in Address /\ <<>> \in Seq(Packets) /\ "FIRST" \in SendStates
      BY DEF Address, SendStates
    <3>3. CwMin \in CwMin .. CwMax /\ 0 \in 0 .. ResendRtsMax /\ 0 \in 0 .. ResendDataMax
      BY TimeAssumption
    <3> QED
      BY <1>1, <2>1, <3>1, <3>2, <3>3 DEF SpcMacInit, Stations
  <2>3. /\ m.addr = n /\ m.p1 = NoPacket /\ m.p2 = NoPacket /\ ~m.uniSet
        /\ m.q = <<>> /\ m.ev = {} /\ m.sent = NoFrame /\ m.end = [c \in Causes |-> 0]
    BY <2>1 DEF SpcMacInit
  <2>4. /\ {"addr", "p1", "p2", "h1", "h2", "st", "uni", "uniSet", "cw", "rrts", "rdata",
            "ncts", "end", "rxing", "q", "ev", "sent", "failed"} \subseteq DOMAIN m
        /\ \A d \in Addrs : macs[d].ev = {}
        /\ air = {}
    BY <2>1 DEF SpcMacInit, Init
  <2> HIDE DEF m
  <2>5. Good(m) /\ Alive(m) /\ Hears(m, heard[n])
    BY <2>3 DEF Good, Fresh, Quiet, ArgsOK, Alive, Held, Hears
  <2>6. Deferring(m, MarksOf(m))
    BY <2>3, <2>4 DEF Deferring, Causes
  <2>7. CtsIn(macs, air, n) = {}
    BY <2>4 DEF CtsIn, Offered, MarksOf
  <2>8. Ctss(n, {}) = {}
    BY DEF Ctss
  <2>9. Guarded(m, {})
    <3>1. Watch(m) = {} /\ Coming(m, {}) = {}
      BY <2>3 DEF Watch, Coming
    <3>2. Sound(m)
      BY <2>3, <2>4 DEF Sound, Single
    <3> QED
      BY <2>3, <3>1, <3>2 DEF Guarded, Typed, Within, Apart, CtsComing, Answering
  <2> QED
    BY <2>2, <2>3, <2>5, <2>6, <2>7, <2>8, <2>9 DEF Behaves, m
<1>2. macs \in [Addrs -> Stations]
  <2>1. macs = [n \in Addrs |-> macs[n]]
    BY DEF Init
  <2> QED
    BY <1>1, <2>1
<1>3. MaxLosses \in Nat
  BY NetworkAssumption
<1>4. /\ info \in [Addrs -> Payload \X Payload]
      /\ heard \in [Addrs -> Signals \cup {NoSignal}]
  <2>1. <<NoPacket, NoPacket>> \in Payload \X Payload
    BY DEF Payload
  <2> QED
    BY <2>1 DEF Init
<1>5. owed \in [Addrs -> Seq([due : Int, rssi : Rssi])]
  BY DEF Init
<1>6. table \in [Addrs -> [Addrs -> Int \cup {Unknown}]]
  BY DEF Init
<1>7. /\ air \subseteq Signals /\ offers \subseteq Offers /\ losses \in 0 .. MaxLosses
      /\ noise \in [Addrs -> Nat] /\ got \in [Load -> [Addrs -> Nat]]
      /\ confirmed \subseteq Packets /\ agreed \in [Addrs -> SUBSET Addrs]
      /\ disturbed \in BOOLEAN
  <2>1. losses \in 0 .. MaxLosses
    BY <1>3 DEF Init
  <2>2. [p \in Load |-> [n \in Addrs |-> 0]] \in [Load -> [Addrs -> Nat]]
    OBVIOUS
  <2>3. [n \in Addrs |-> {}] \in [Addrs -> SUBSET Addrs]
    OBVIOUS
  <2> QED
    BY <2>1, <2>2, <2>3 DEF Init
<1>8. TypeOK
  BY <1>2, <1>4, <1>5, <1>6, <1>7 DEF TypeOK
<1> QED
  BY <1>1, <1>8 DEF NetInv

\* A handler of station n runs, and what it sends is on its way.
LEMMA DoesMove ==
  ASSUME NetInv, NEW n \in Addrs, NEW m, NEW slot, NEW rssi \in Rssi,
         NEW h \in Signals \cup {NoSignal},
         Moves(macs[n], n, h, CtsIn(macs, air, n), m),
         Does(n, m, slot, rssi), heard' = [heard EXCEPT ![n] = h]
  PROVE  /\ macs' \in [Addrs -> Stations] /\ info' \in [Addrs -> Payload \X Payload]
         /\ air' \subseteq Signals /\ heard' \in [Addrs -> Signals \cup {NoSignal}]
         /\ \A d \in Addrs : Behaves(macs'[d], d, heard'[d], CtsIn(macs', air', d))
         /\ \A x \in air' \ air : /\ m.sent # NoFrame /\ x.from = n
                                  /\ Launch(x.frame) => Launch(m.sent)
<1> DEFINE c   == Carried(n, m.sent, slot)
           new == Copies(n, m.sent, rssi, c[1], c[2])
<1>1. /\ macs' = [macs EXCEPT ![n] = [m EXCEPT !.sent = NoFrame]]
      /\ air' = air \cup new
      /\ info' = [info EXCEPT ![n] = <<IF m.p1 # NoPacket THEN m.p1 ELSE @[1],
                                       IF m.p2 # NoPacket THEN m.p2 ELSE @[2]>>]
  BY DEF Does
<1>2. /\ macs \in [Addrs -> Stations] /\ info \in [Addrs -> Payload \X Payload]
      /\ air \subseteq Signals /\ heard \in [Addrs -> Signals \cup {NoSignal}]
      /\ \A d \in Addrs : Behaves(macs[d], d, heard[d], CtsIn(macs, air, d))
  BY DEF NetInv, TypeOK
<1>3. m \in Stations
  BY DEF Moves, Leads
<1>4. m.sent \in Frames \cup {NoFrame} /\ m.p1 \in Payload /\ m.p2 \in Payload
  BY <1>3 DEF Stations, Payload
<1>5. c[1] \in Payload /\ c[2] \in Payload
  <2>1. NoPacket \in Payload /\ info[n] \in Payload \X Payload
    BY <1>2 DEF Payload
  <2>2. info[n][1] \in Payload /\ info[n][2] \in Payload
    BY <2>1
  <2>3. c \in {<<NoPacket, NoPacket>>, info[n],
               <<info[n][1], NoPacket>>, <<info[n][2], NoPacket>>}
    BY DEF Carried
  <2> HIDE DEF c
  <2> QED
    BY <2>1, <2>2, <2>3
<1> HIDE DEF c
<1>6. \A x \in new : /\ m.sent # NoFrame /\ x \in Signals /\ x.from = n
                     /\ x.frame.type = m.sent.type /\ x.frame.a1 = m.sent.a1
                     /\ m.sent.type = "RTS" => x.frame.a2 = m.sent.a2
                     /\ Launch(x.frame) => Launch(m.sent)
  BY <1>4, <1>5, CopiesAre
<1> HIDE DEF new
<1>7. \A d \in Addrs : Behaves(macs'[d], d, heard'[d], CtsIn(macs', air', d))
  BY <1>1, <1>2, <1>6, OneMoves
<1>8. macs' \in [Addrs -> Stations]
  <2>1. macs'[n] \in Stations
    BY <1>7 DEF Behaves
  <2> QED
    BY <1>1, <1>2, <2>1
<1>9. info' \in [Addrs -> Payload \X Payload]
  <2>1. info[n][1] \in Payload /\ info[n][2] \in Payload
    BY <1>2
  <2> QED
    BY <1>1, <1>2, <1>4, <2>1
<1>10. air' \subseteq Signals /\ \A x \in air' \ air : x \in new
  BY <1>1, <1>2, <1>6
<1>11. heard' \in [Addrs -> Signals \cup {NoSignal}]
  BY <1>2
<1> QED
  BY <1>6, <1>7, <1>8, <1>9, <1>10, <1>11

\* A handler that sends or waits ran.
LEMMA SendsKeep ==
  ASSUME NetInv, NEW n \in Addrs, NEW m, NEW slot, NEW rssi \in Rssi,
         Moves(macs[n], n, IF m.rxing THEN heard[n] ELSE NoSignal, CtsIn(macs, air, n), m),
         Sends(n, m, slot, rssi), owed' \in [Addrs -> Seq([due : Int, rssi : Rssi])]
  PROVE  /\ NetInv'
         /\ \A x \in air' \ air : x.from = n /\ (Launch(x.frame) => Launch(m.sent))
<1> DEFINE h == IF m.rxing THEN heard[n] ELSE NoSignal
<1>1. /\ TypeOK /\ Does(n, m, slot, rssi)
      /\ heard' = [heard EXCEPT ![n] = h]
      /\ agreed' = [agreed EXCEPT ![n] = {}] \/ agreed' = agreed
      /\ UNCHANGED <<table, noise, offers, losses, got, confirmed>>
  BY DEF NetInv, Sends
<1>2. h \in Signals \cup {NoSignal}
  BY <1>1 DEF TypeOK
<1>3. Moves(macs[n], n, h, CtsIn(macs, air, n), m)
  OBVIOUS
<1> HIDE DEF h
<1>4. /\ macs' \in [Addrs -> Stations] /\ info' \in [Addrs -> Payload \X Payload]
      /\ air' \subseteq Signals /\ heard' \in [Addrs -> Signals \cup {NoSignal}]
      /\ \A d \in Addrs : Behaves(macs'[d], d, heard'[d], CtsIn(macs', air', d))
      /\ \A x \in air' \ air : x.from = n /\ (Launch(x.frame) => Launch(m.sent))
  BY <1>1, <1>2, <1>3, DoesMove
<1>5. agreed' \in [Addrs -> SUBSET Addrs]
  <2>1. {} \in SUBSET Addrs /\ agreed \in [Addrs -> SUBSET Addrs]
    BY <1>1 DEF TypeOK
  <2> QED
    BY <1>1, <2>1
<1>6. disturbed' \in BOOLEAN
  BY DEF Sends, Disturb
<1>7. TypeOK'
  BY <1>1, <1>4, <1>5, <1>6 DEF TypeOK
<1> QED
  BY <1>4, <1>7 DEF NetInv

\* What is known before an event of a station runs.
LEMMA Before ==
  ASSUME NetInv
  PROVE  /\ TypeOK /\ 0 \in Rssi /\ Draws \subseteq Nat
         /\ \A n \in Addrs : /\ Behaves(macs[n], n, heard[n], CtsIn(macs, air, n))
                             /\ CtsIn(macs, air, n) \in SUBSET Nat
                             /\ macs[n] \in Stations
<1>1. \A n : CtsIn(macs, air, n) \in SUBSET Nat
  BY DEF CtsIn
<1>2. 0 \in Rssi /\ Draws \subseteq Nat
  BY TimeAssumption DEF Rssi, Draws
<1> QED
  BY <1>1, <1>2 DEF NetInv, TypeOK

LEMMA TimeoutsNet ==
  ASSUME NetInv,
         FireBackoffGrantStart \/ FireCtsTimeout \/ FireAckTimeout1 \/ FireAckTimeout2
  PROVE  NetInv' /\ InTurn
<1> DEFINE Ran(n, e, draw, m) ==
             /\ e \in Due(macs[n]) /\ Sends(n, m, "FIRST", 0) /\ UNCHANGED owed
             /\ \/ e.k = "BackoffGrantStart" /\ m = BackoffGrantStart(Pop(macs[n], e), draw)
                \/ e.k = "CtsTimeout" /\ m = CtsTimeout(Pop(macs[n], e), draw)
                \/ e.k = "AckTimeout1" /\ m = AckTimeout1(Pop(macs[n], e), draw)
                \/ e.k = "AckTimeout2" /\ m = AckTimeout2(Pop(macs[n], e), draw)
<1>1. PICK n \in Addrs, draw \in Draws : \E e \in macs[n].ev : \E m : Ran(n, e, draw, m)
  <2>1. CASE FireBackoffGrantStart
    BY <2>1 DEF FireBackoffGrantStart, Runs
  <2>2. CASE FireCtsTimeout
    BY <2>2 DEF FireCtsTimeout, Runs
  <2>3. CASE FireAckTimeout1
    BY <2>3 DEF FireAckTimeout1, Runs
  <2>4. CASE FireAckTimeout2
    BY <2>4 DEF FireAckTimeout2, Runs
  <2> QED
    BY <2>1, <2>2, <2>3, <2>4
<1>2. PICK e \in macs[n].ev : \E m : Ran(n, e, draw, m)
  BY <1>1
<1>3. PICK m : Ran(n, e, draw, m)
  BY <1>2
<1>4. /\ Moves(macs[n], n, IF m.rxing THEN heard[n] ELSE NoSignal, CtsIn(macs, air, n), m)
      /\ m.sent = NoFrame
  BY <1>3, Before, TimeoutsMove
<1>5. owed' \in [Addrs -> Seq([due : Int, rssi : Rssi])]
  BY <1>3, Before DEF TypeOK
<1>6. /\ NetInv'
      /\ \A x \in air' \ air : x.from = n /\ (Launch(x.frame) => Launch(m.sent))
  BY <1>3, <1>4, <1>5, Before, SendsKeep
<1>7. ~Launch(m.sent)
  BY <1>4 DEF Launch
<1> QED
  BY <1>6, <1>7 DEF InTurn

LEMMA BackoffTimeoutNet ==
  ASSUME NetInv, FireBackoffTimeout
  PROVE  NetInv' /\ InTurn
<1>1. PICK n \in Addrs, draw \in Draws : \E e \in macs[n].ev :
        /\ Runs(n, e, "BackoffTimeout") /\ UNCHANGED owed
        /\ Sends(n, BackoffTimeout(Pop(macs[n], e), macs[n].q, draw),
                 SetState(macs[n]).st, 0)
  BY DEF FireBackoffTimeout
<1> DEFINE slot == SetState(macs[n]).st
<1>2. PICK e \in macs[n].ev :
        /\ e \in Due(macs[n]) /\ e.k = "BackoffTimeout" /\ UNCHANGED owed
        /\ Sends(n, BackoffTimeout(Pop(macs[n], e), macs[n].q, draw), slot, 0)
  BY <1>1 DEF Runs
<1> DEFINE m == BackoffTimeout(Pop(macs[n], e), macs[n].q, draw)
<1>3. macs[n].q \in Seq(Packets)
  BY Before DEF Stations
<1>4. /\ Moves(macs[n], n, IF m.rxing THEN heard[n] ELSE NoSignal, CtsIn(macs, air, n), m)
      /\ Launch(m.sent) =>
           \A x \in macs[n].ev : ~Promised(x) /\ (x.due > 0 => x.k \notin Watched)
  BY <1>2, <1>3, Before, BackoffTimeoutMoves
<1>5. Sends(n, m, slot, 0)
  BY <1>2
<1> HIDE DEF m, slot
<1>6. owed' \in [Addrs -> Seq([due : Int, rssi : Rssi])]
  BY <1>2, Before DEF TypeOK
<1>7. /\ NetInv'
      /\ \A x \in air' \ air : x.from = n /\ (Launch(x.frame) => Launch(m.sent))
  BY <1>4, <1>5, <1>6, Before, SendsKeep
<1> QED
  BY <1>4, <1>7 DEF InTurn, Watched

LEMMA DataNet ==
  ASSUME NetInv, FireSendUnicastDataAfterCts \/ FireSendSpcDataAfterCtsSpc
  PROVE  NetInv' /\ InTurn
<1> DEFINE Ran(n, e, slot, m) ==
             /\ e \in Due(macs[n]) /\ Sends(n, m, slot, 0) /\ UNCHANGED owed
             /\ \/ /\ e.k = "SendUnicastDataAfterCts"
                   /\ m = SendUnicastDataAfterCts(Pop(macs[n], e))
                \/ /\ e.k = "SendSpcDataAfterCtsSpc"
                   /\ \E spc \in BOOLEAN : m = SendSpcDataAfterCtsSpc(Pop(macs[n], e), spc)
<1>1. PICK n \in Addrs : \E e \in macs[n].ev : \E slot, m : Ran(n, e, slot, m)
  <2>1. CASE FireSendUnicastDataAfterCts
    BY <2>1 DEF FireSendUnicastDataAfterCts, Runs
  <2>2. CASE FireSendSpcDataAfterCtsSpc
    BY <2>2 DEF FireSendSpcDataAfterCtsSpc, Runs
  <2> QED
    BY <2>1, <2>2
<1>2. PICK e \in macs[n].ev : \E slot, m : Ran(n, e, slot, m)
  BY <1>1
<1>3. PICK slot, m : Ran(n, e, slot, m)
  BY <1>2
<1>4. /\ Moves(macs[n], n, IF m.rxing THEN heard[n] ELSE NoSignal, CtsIn(macs, air, n), m)
      /\ ~Launch(m.sent)
  BY <1>3, Before, DataMoves
<1>5. owed' \in [Addrs -> Seq([due : Int, rssi : Rssi])]
  BY <1>3, Before DEF TypeOK
<1>6. /\ NetInv'
      /\ \A x \in air' \ air : x.from = n /\ (Launch(x.frame) => Launch(m.sent))
  BY <1>3, <1>4, <1>5, Before, SendsKeep
<1> QED
  BY <1>4, <1>6 DEF InTurn

\* An answer leaves, with the power that was measured.
LEMMA ReplyRuns ==
  ASSUME NetInv, FireCts \/ FireSendAckAfterData
  PROVE  \E n \in Addrs, rssi \in Rssi : \E e \in macs[n].ev :
           /\ e \in Due(macs[n]) /\ e.k \in ReplyKinds
           /\ Sends(n, StartSend(Pop(macs[n], e), e.arg), "FIRST", rssi)
<1>1. CASE FireCts
  <2>1. PICK n \in Addrs : \E e \in macs[n].ev, i \in DOMAIN owed[n] :
          /\ Runs(n, e, "SendCtsAfterRts") \/ Runs(n, e, "SendCtsSpcAfterRtsSpc")
          /\ Sends(n, StartSend(Pop(macs[n], e), e.arg), "FIRST", owed[n][i].rssi)
    BY <1>1 DEF FireCts
  <2>2. PICK e \in macs[n].ev, i \in DOMAIN owed[n] :
          /\ Runs(n, e, "SendCtsAfterRts") \/ Runs(n, e, "SendCtsSpcAfterRtsSpc")
          /\ Sends(n, StartSend(Pop(macs[n], e), e.arg), "FIRST", owed[n][i].rssi)
    BY <2>1
  <2>3. e \in Due(macs[n]) /\ e.k \in ReplyKinds
    BY <2>2 DEF Runs, ReplyKinds
  <2>4. owed[n] \in Seq([due : Int, rssi : Rssi])
    BY Before DEF TypeOK
  <2>5. owed[n][i] \in [due : Int, rssi : Rssi]
    <3>1. owed[n] \in Seq(Answer)
      BY <2>4 DEF Answer
    <3>2. owed[n][i] \in Answer
      BY <3>1
    <3> QED
      BY <3>2 DEF Answer
  <2>6. owed[n][i].rssi \in Rssi
    BY <2>5
  <2> QED
    BY <2>2, <2>3, <2>6
<1>2. CASE FireSendAckAfterData
  BY <1>2, Before DEF FireSendAckAfterData, Runs, ReplyKinds
<1> QED
  BY <1>1, <1>2

LEMMA RepliesNet ==
  ASSUME NetInv, FireCts \/ FireSendAckAfterData
  PROVE  NetInv' /\ InTurn
<1>1. PICK n \in Addrs, rssi \in Rssi : \E e \in macs[n].ev :
        /\ e \in Due(macs[n]) /\ e.k \in ReplyKinds
        /\ Sends(n, StartSend(Pop(macs[n], e), e.arg), "FIRST", rssi)
  BY ReplyRuns
<1>2. PICK e \in macs[n].ev :
        /\ e \in Due(macs[n]) /\ e.k \in ReplyKinds
        /\ Sends(n, StartSend(Pop(macs[n], e), e.arg), "FIRST", rssi)
  BY <1>1
<1> DEFINE m == StartSend(Pop(macs[n], e), e.arg)
<1>3. /\ Moves(macs[n], n, IF m.rxing THEN heard[n] ELSE NoSignal, CtsIn(macs, air, n), m)
      /\ ~Launch(m.sent)
  BY <1>2, Before, ReplyMoves
<1>4. Sends(n, m, "FIRST", rssi)
  BY <1>2
<1> HIDE DEF m
<1>5. owed' \in [Addrs -> Seq([due : Int, rssi : Rssi])]
  <2>1. CASE FireCts
    BY <2>1, Before, AnswerLeaves DEF Owed, Answer
  <2>2. CASE FireSendAckAfterData
    <3>1. owed' = owed
      BY <2>2 DEF FireSendAckAfterData
    <3> QED
      BY <3>1, Before DEF TypeOK
  <2> QED
    BY <2>1, <2>2
<1>6. /\ NetInv'
      /\ \A x \in air' \ air : x.from = n /\ (Launch(x.frame) => Launch(m.sent))
  BY <1>3, <1>4, <1>5, Before, SendsKeep
<1> QED
  BY <1>3, <1>6 DEF InTurn

\* A handler of station n ran that sent nothing.
LEMMA NothingNew ==
  ASSUME NEW n, NEW m, m.sent = NoFrame, NEW slot, NEW rssi, Does(n, m, slot, rssi)
  PROVE  air' = air
BY DEF Does, Copies

LEMMA NothingLaunched ==
  ASSUME air' \subseteq air
  PROVE  InTurn
BY DEF InTurn

LEMMA PowerFits ==
  ASSUME NEW x \in Int
  PROVE  ConvertRssiToDbm(x) \in Rssi /\ \A b \in Rssi : ConvertRssiToW(b) \in Int
<1>1. ToInt(x) \in Int
  <2>1. CASE x >= 0
    BY <2>1 DEF ToInt
  <2>2. CASE x < 0
    BY <2>2, Truncates
  <2> QED
    BY <2>1, <2>2
<1>2. ToInt(x) < 127 /\ ToInt(x) > -127 => ToInt(x) + 127 - 1 \in 0 .. 255
  BY <1>1
<1>3. ConvertRssiToDbm(x) \in {255, 0} \/ (ToInt(x) < 127 /\ ToInt(x) > -127
                                          /\ ConvertRssiToDbm(x) = ToInt(x) + 127 - 1)
  BY <1>1 DEF ConvertRssiToDbm
<1>4. ConvertRssiToDbm(x) \in 0 .. 255
  BY <1>2, <1>3
<1> QED
  BY <1>4 DEF Rssi, ConvertRssiToW

\* A reception of station n ends.
Ended(n, e, ok1, ok2, draw) ==
  EndReceive(Pop(macs[n], e), heard[n].frame, ok1, ok2, draw)
Lost(n, ok1, ok2) == heard[n].clear /\ ~(ok1 /\ ok2)
Learned(n, ok1)   == IF ok1 THEN Measured(macs[n], heard[n].frame) ELSE {}

Ends(n, e, ok1, ok2, draw) ==
  /\ Runs(n, e, "EndReceive")
  /\ heard[n].frame.type = "DATA_SPC" \/ ok2
  /\ Lost(n, ok1, ok2) => losses > 0
  /\ losses' = IF Lost(n, ok1, ok2) THEN losses - 1 ELSE losses
  /\ Does(n, Ended(n, e, ok1, ok2, draw), "FIRST", 0)
  /\ owed' = [owed EXCEPT ![n] = IF ok1 /\ Asks(n, heard[n].frame)
       THEN Append(@, [due  |-> CtsDelay(n, heard[n].frame),
                       rssi |-> ConvertRssiToDbm(Power[heard[n].from][n])])
       ELSE @]
  /\ table' = [table EXCEPT ![n] = [d \in Addrs |->
       IF d \in Learned(n, ok1) THEN ConvertRssiToW(heard[n].rssi) ELSE @[d]]]
  /\ heard' = [heard EXCEPT ![n] = NoSignal]
  /\ got' = [p \in Load |-> IF p \in Delivered(n, heard[n], ok1, ok2)
                             THEN [got[p] EXCEPT ![n] = @ + 1] ELSE got[p]]
  /\ confirmed' = confirmed \cup
       (HeldBy(macs[n]) \ HeldBy(Ended(n, e, ok1, ok2, draw)))
  /\ agreed' = IF heard[n].frame.type = "CTS_SPC" /\ Learned(n, ok1) # {}
       THEN [agreed EXCEPT ![n] = @ \cup {heard[n].from}] ELSE agreed
  /\ UNCHANGED <<noise, offers>>
  /\ Disturb(Lost(n, ok1, ok2))

LEMMA ReceptionEnds ==
  ASSUME FireEndReceive
  PROVE  \E n \in Addrs, ok1, ok2 \in BOOLEAN, draw \in Draws :
           \E e \in macs[n].ev : Ends(n, e, ok1, ok2, draw)
BY Zenon DEF FireEndReceive, Ends, Ended, Lost, Learned

LEMMA EndReceiveNet ==
  ASSUME NetInv, FireEndReceive
  PROVE  NetInv' /\ InTurn
<1>1. PICK n \in Addrs, ok1 \in BOOLEAN, ok2 \in BOOLEAN, draw \in Draws :
        \E e \in macs[n].ev : Ends(n, e, ok1, ok2, draw)
  BY ReceptionEnds
<1>2. PICK e \in macs[n].ev : Ends(n, e, ok1, ok2, draw)
  BY <1>1
<1> DEFINE m == Ended(n, e, ok1, ok2, draw)
           s == heard[n]
<1>3. e \in Due(macs[n]) /\ e.k = "EndReceive"
  BY <1>2 DEF Ends, Runs
<1>4. /\ s # NoSignal /\ s.frame \in Frames
      /\ Moves(macs[n], n, NoSignal, CtsIn(macs, air, n), m) /\ m.sent = NoFrame
  BY <1>3, Before, ReceptionMoves DEF Ended
<1>5. Does(n, m, "FIRST", 0) /\ heard' = [heard EXCEPT ![n] = NoSignal]
  BY <1>2 DEF Ends
<1>6. /\ macs' \in [Addrs -> Stations] /\ info' \in [Addrs -> Payload \X Payload]
      /\ air' \subseteq Signals /\ heard' \in [Addrs -> Signals \cup {NoSignal}]
      /\ \A d \in Addrs : Behaves(macs'[d], d, heard'[d], CtsIn(macs', air', d))
  <2> HIDE DEF m
  <2> QED
    BY <1>4, <1>5, Before, DoesMove
<1>7. air' = air
  BY <1>4, <1>5, NothingNew
<1>8. s \in Signals /\ s.from \in Addrs /\ s.rssi \in Rssi
  <2>1. s \in Signals
    BY <1>4, Before DEF TypeOK
  <2> QED
    BY <2>1 DEF Signals
<1>9. owed' \in [Addrs -> Seq([due : Int, rssi : Rssi])]
  <2> DEFINE w == [due |-> CtsDelay(n, s.frame), rssi |-> ConvertRssiToDbm(Power[s.from][n])]
  <2>1. Power[s.from][n] \in Int
    BY <1>8, NetworkAssumption
  <2>2. CtsDelay(n, s.frame) \in Int
    BY Times DEF CtsDelay
  <2>3. w \in Answer
    BY <2>1, <2>2, PowerFits DEF Answer
  <2> HIDE DEF w
  <2>4. owed \in [Addrs -> Seq(Answer)]
    BY Before DEF TypeOK, Answer
  <2>5. owed' = owed \/ owed' = [owed EXCEPT ![n] = Append(@, w)]
    BY <1>2, <2>4 DEF Ends, w
  <2>6. Append(owed[n], w) \in Seq(Answer)
    BY <2>3, <2>4
  <2>7. owed' \in [Addrs -> Seq(Answer)]
    BY <2>4, <2>5, <2>6
  <2> QED
    BY <2>7 DEF Answer
<1>10. table' \in [Addrs -> [Addrs -> Int \cup {Unknown}]]
  <2>1. ConvertRssiToW(s.rssi) \in Int
    BY <1>8 DEF ConvertRssiToW, Rssi
  <2>2. table \in [Addrs -> [Addrs -> Int \cup {Unknown}]]
    BY Before DEF TypeOK
  <2>3. [d \in Addrs |-> IF d \in Learned(n, ok1) THEN ConvertRssiToW(s.rssi) ELSE table[n][d]]
          \in [Addrs -> Int \cup {Unknown}]
    BY <2>1, <2>2
  <2>4. table' = [table EXCEPT ![n] =
          [d \in Addrs |-> IF d \in Learned(n, ok1) THEN ConvertRssiToW(s.rssi) ELSE table[n][d]]]
    BY <1>2 DEF Ends
  <2> QED
    BY <2>2, <2>3, <2>4
<1>11. got' \in [Load -> [Addrs -> Nat]]
  <2>1. got \in [Load -> [Addrs -> Nat]]
    BY Before DEF TypeOK
  <2>2. \A p \in Load : [got[p] EXCEPT ![n] = @ + 1] \in [Addrs -> Nat]
    BY <2>1
  <2>3. got' = [p \in Load |-> IF p \in Delivered(n, s, ok1, ok2)
                                THEN [got[p] EXCEPT ![n] = @ + 1] ELSE got[p]]
    BY <1>2 DEF Ends
  <2> QED
    BY <2>1, <2>2, <2>3
<1>12. confirmed' \subseteq Packets
  <2>1. /\ macs[n].p1 \in Packets \cup {NoPacket} /\ macs[n].p2 \in Packets \cup {NoPacket}
        /\ macs[n].q \in Seq(Packets)
    BY Before DEF Stations
  <2>2. \A i \in DOMAIN macs[n].q : macs[n].q[i] \in Packets
    BY <2>1
  <2>3. HeldBy(macs[n]) \subseteq Packets
    BY <2>1, <2>2 DEF HeldBy
  <2> QED
    BY <1>2, <2>3, Before DEF Ends, TypeOK
<1>13. agreed' \in [Addrs -> SUBSET Addrs]
  <2>1. agreed \in [Addrs -> SUBSET Addrs]
    BY Before DEF TypeOK
  <2>2. agreed[n] \cup {s.from} \in SUBSET Addrs
    BY <1>8, <2>1
  <2>3. agreed' = agreed \/ agreed' = [agreed EXCEPT ![n] = agreed[n] \cup {s.from}]
    BY <1>2 DEF Ends
  <2> QED
    BY <2>1, <2>2, <2>3
<1>14. losses' \in 0 .. MaxLosses /\ disturbed' \in BOOLEAN
  <2>1. losses \in 0 .. MaxLosses /\ MaxLosses \in Nat
    BY Before, NetworkAssumption DEF TypeOK
  <2>2. losses' = losses \/ (losses > 0 /\ losses' = losses - 1)
    BY <1>2 DEF Ends
  <2>3. disturbed' \in BOOLEAN
    BY <1>2 DEF Ends, Disturb
  <2> QED
    BY <2>1, <2>2, <2>3
<1>15. noise' = noise /\ offers' = offers
  BY <1>2 DEF Ends
<1>16. TypeOK'
  BY <1>6, <1>9, <1>10, <1>11, <1>12, <1>13, <1>14, <1>15, Before DEF TypeOK
<1>17. NetInv'
  BY <1>6, <1>16 DEF NetInv
<1> QED
  BY <1>7, <1>17, NothingLaunched

LEMMA SendNet ==
  ASSUME NetInv, Send
  PROVE  NetInv' /\ InTurn
<1>1. PICK o \in offers, draw \in Draws :
        /\ Does(o.src, Enqueue(macs[o.src], o.pkt, draw), "FIRST", 0)
        /\ offers' = offers \ {o} /\ Disturb(FALSE)
        /\ UNCHANGED <<owed, table, heard, noise, losses, got, confirmed, agreed>>
  BY DEF Send
<1> DEFINE n == o.src
           m == Enqueue(macs[n], o.pkt, draw)
<1>2. offers \subseteq Offers /\ n \in Addrs /\ o.pkt \in Packets
  BY Before, NetworkAssumption DEF TypeOK
<1>3. /\ Moves(macs[n], n, heard[n], CtsIn(macs, air, n), m) /\ m.sent = NoFrame
  BY <1>2, Before, EnqueueMoves
<1>4. Does(n, m, "FIRST", 0)
  BY <1>1
<1> HIDE DEF m
<1>5. heard' = [heard EXCEPT ![n] = heard[n]] /\ heard[n] \in Signals \cup {NoSignal}
  BY <1>1, <1>2, Before DEF TypeOK
<1> HIDE DEF n
<1>6. /\ macs' \in [Addrs -> Stations] /\ info' \in [Addrs -> Payload \X Payload]
      /\ air' \subseteq Signals /\ heard' \in [Addrs -> Signals \cup {NoSignal}]
      /\ \A d \in Addrs : Behaves(macs'[d], d, heard'[d], CtsIn(macs', air', d))
  BY <1>2, <1>3, <1>4, <1>5, Before, DoesMove
<1>7. air' = air
  BY <1>3, <1>4, NothingNew
<1>8. disturbed' \in BOOLEAN /\ offers' \subseteq Offers
  BY <1>1, <1>2 DEF Disturb
<1>9. TypeOK'
  BY <1>1, <1>6, <1>8, Before DEF TypeOK
<1> QED
  BY <1>6, <1>7, <1>9, NothingLaunched DEF NetInv

LEMMA ArriveNet ==
  ASSUME NetInv, Arrive
  PROVE  NetInv' /\ InTurn
<1> DEFINE Rx(s) == Power[s.from][s.to] >= Threshold /\ CanReceive(macs[s.to])
           Mac(s) == IF Rx(s) THEN StartReceive(macs[s.to], s.frame)
                     ELSE NotifyMaybeCcaBusyStartNow(macs[s.to], AirTime(s.frame))
           Signal(s) == IF Rx(s) THEN [s EXCEPT !.clear = noise[s.to] <= 0]
                        ELSE IF heard[s.to] = NoSignal THEN heard[s.to]
                        ELSE [heard[s.to] EXCEPT !.clear = FALSE]
<1>1. PICK s \in air :
        /\ macs' = [macs EXCEPT ![s.to] = Mac(s)]
        /\ heard' = [heard EXCEPT ![s.to] = Signal(s)]
        /\ noise' = [noise EXCEPT ![s.to] = IF @ >= AirTime(s.frame) THEN @
                                            ELSE AirTime(s.frame)]
        /\ air' = air \ {s}
        /\ UNCHANGED <<info, owed, table, offers, losses, got, confirmed, agreed>>
        /\ Disturb(~Rx(s) \/ noise[s.to] > 0)
  BY DEF Arrive
<1> DEFINE n == s.to
           m == Mac(s)
           h == Signal(s)
<1>2. /\ air \in SUBSET Signals /\ s \in Signals /\ n \in Addrs
      /\ heard[n] \in Signals \cup {NoSignal}
  <2>1. air \in SUBSET Signals /\ heard \in [Addrs -> Signals \cup {NoSignal}]
    BY Before DEF TypeOK
  <2>2. s \in Signals
    BY <2>1
  <2>3. n \in Addrs
    BY <2>2 DEF Signals
  <2> QED
    BY <2>1, <2>2, <2>3
<1>3. \A x \in Signals : \A b \in BOOLEAN :
        /\ [x EXCEPT !.clear = b] \in Signals /\ [x EXCEPT !.clear = b].frame = x.frame
        /\ [x EXCEPT !.clear = b] # NoSignal
  <2>1. \A x \in Signals : \A b \in BOOLEAN :
          [x EXCEPT !.clear = b] \in Signals /\ [x EXCEPT !.clear = b].frame = x.frame
    BY DEF Signals
  <2> QED
    BY <2>1, NoSignalAssumption
<1>4. /\ h \in Signals \cup {NoSignal}
      /\ Rx(s) => h # NoSignal /\ h.frame = s.frame
      /\ ~Rx(s) => (heard[n] # NoSignal => h # NoSignal /\ h.frame = heard[n].frame)
  <2>1. CASE Rx(s)
    <3>1. (noise[n] <= 0) \in BOOLEAN /\ h = [s EXCEPT !.clear = noise[n] <= 0]
      BY <2>1
    <3> QED
      BY <1>2, <1>3, <2>1, <3>1
  <2>2. CASE ~Rx(s)
    BY <1>2, <1>3, <2>2
  <2> QED
    BY <2>1, <2>2
<1>5. Reaches(s, macs[n], heard[n], m, h)
  BY <1>4 DEF Reaches
<1>6. macs' = [macs EXCEPT ![n] = m] /\ heard' = [heard EXCEPT ![n] = h]
  BY <1>1
<1> HIDE DEF m, h
<1>7. /\ macs \in [Addrs -> Stations] /\ DOMAIN heard = Addrs
      /\ \A d \in Addrs : Behaves(macs[d], d, heard[d], CtsIn(macs, air, d))
  BY Before DEF TypeOK
<1>8. /\ m \in Stations
      /\ \A d \in Addrs : Behaves(macs'[d], d, heard'[d], CtsIn(macs', air \ {s}, d))
  <2>1. LET ms2 == [macs EXCEPT ![s.to] = m]
            hs2 == [heard EXCEPT ![s.to] = h]
        IN /\ m \in Stations
           /\ \A d \in Addrs : Behaves(ms2[d], d, hs2[d], CtsIn(ms2, air \ {s}, d))
    BY <1>2, <1>5, <1>7, SignalArrives
  <2> QED
    BY <1>6, <2>1
<1>9. noise' \in [Addrs -> Nat]
  <2>1. s.frame \in Frames
    BY <1>2 DEF Signals
  <2>2. AirTime(s.frame) \in Nat /\ noise \in [Addrs -> Nat]
    BY <2>1, Before, DurationTypes DEF TypeOK
  <2> HIDE DEF n
  <2> QED
    BY <1>1, <2>2
<1>10. /\ macs' \in [Addrs -> Stations] /\ heard' \in [Addrs -> Signals \cup {NoSignal}]
       /\ air' \subseteq Signals
  BY <1>1, <1>2, <1>4, <1>6, <1>7, <1>8, Before DEF TypeOK
<1>11. disturbed' \in BOOLEAN
  BY <1>1 DEF Disturb
<1>12. TypeOK'
  BY <1>1, <1>9, <1>10, <1>11, Before DEF TypeOK
<1>13. air' = air \ {s}
  BY <1>1
<1> QED
  BY <1>8, <1>12, <1>13, NothingLaunched DEF NetInv

LEMMA TickNet ==
  ASSUME NetInv, Tick
  PROVE  NetInv' /\ InTurn
<1>1. /\ air = {} /\ air' = {} /\ heard' = heard
      /\ \A n \in Addrs : \A e \in macs[n].ev : e.due > 0
      /\ macs' = [n \in Addrs |-> Elapse(macs[n])]
      /\ noise' = [n \in Addrs |-> IF noise[n] > 0 THEN noise[n] - 1 ELSE 0]
      /\ UNCHANGED <<info, table, offers, losses, got, confirmed, agreed>>
      /\ disturbed' \in BOOLEAN
  BY DEF Tick, Disturb
<1>2. /\ macs' \in [Addrs -> Stations]
      /\ \A d \in Addrs : Behaves(macs'[d], d, heard'[d], CtsIn(macs', air', d))
  <2>1. macs \in [Addrs -> Stations]
    BY Before DEF TypeOK
  <2>2. \A d \in Addrs : Behaves(macs[d], d, heard[d], CtsIn(macs, {}, d))
    BY <1>1, Before
  <2> QED
    BY <1>1, <2>1, <2>2, TicksMove
<1>3. noise' \in [Addrs -> Nat]
  BY <1>1, Before DEF TypeOK
<1>4. owed' \in [Addrs -> Seq([due : Int, rssi : Rssi])]
  <2> DEFINE Sooner2(s) == [i \in DOMAIN s |-> [s[i] EXCEPT !.due = @ - 1]]
  <2>1. owed \in [Addrs -> Seq(Answer)]
    BY Before DEF TypeOK, Answer
  <2>2. ASSUME NEW s \in Seq(Answer) PROVE Sooner2(s) \in Seq(Answer)
    <3>1. DOMAIN s = 1 .. Len(s) /\ Len(s) \in Nat /\ \A i \in DOMAIN s : s[i] \in Answer
      OBVIOUS
    <3>2. \A w \in Answer : [w EXCEPT !.due = @ - 1] \in Answer
      BY DEF Answer
    <3> QED
      BY <3>1, <3>2
  <2>3. owed' = [n \in Addrs |-> Sooner2(owed[n])]
    BY DEF Tick
  <2> HIDE DEF Sooner2
  <2>4. owed' \in [Addrs -> Seq(Answer)]
    BY <2>1, <2>2, <2>3
  <2> QED
    BY <2>4 DEF Answer
<1>5. TypeOK'
  BY <1>1, <1>2, <1>3, <1>4, Before DEF TypeOK
<1> QED
  BY <1>1, <1>2, <1>5, NothingLaunched DEF NetInv

LEMMA NextNet ==
  ASSUME NetInv, [Next]_vars
  PROVE  NetInv' /\ [InTurn]_vars
<1>1. CASE Fire
  BY <1>1, TimeoutsNet, BackoffTimeoutNet, DataNet, RepliesNet, EndReceiveNet DEF Fire
<1>2. CASE Send
  BY <1>2, SendNet
<1>3. CASE Arrive
  BY <1>3, ArriveNet
<1>4. CASE Tick
  BY <1>4, TickNet
<1>5. CASE UNCHANGED vars
  <2>1. /\ macs' = macs /\ info' = info /\ owed' = owed /\ table' = table /\ air' = air
        /\ heard' = heard /\ noise' = noise /\ offers' = offers /\ losses' = losses
        /\ got' = got /\ confirmed' = confirmed /\ agreed' = agreed
        /\ disturbed' = disturbed
    BY <1>5 DEF vars, hist
  <2>2. TypeOK'
    BY <2>1, Before DEF TypeOK
  <2> QED
    BY <1>5, <2>1, <2>2, Before DEF NetInv
<1> QED
  BY <1>1, <1>2, <1>3, <1>4, <1>5 DEF Next

\* In every network, whatever its stations send and whichever frames are lost,
\* the state stays what SpcMac's members and the simulator's events can hold.
THEOREM TypeCorrect == Spec => []TypeOK
<1>1. Spec => []NetInv
  <2>1. Init => NetInv
    BY InitNet
  <2>2. NetInv /\ [Next]_vars => NetInv'
    BY NextNet
  <2> QED
    BY <2>1, <2>2, PTL DEF Spec
<1>2. NetInv => TypeOK
  BY DEF NetInv
<1> QED
  BY <1>1, <1>2, PTL

\* A packet a station has taken out of its queue is never forgotten, whatever the
\* other stations do: some event that will retry it, finish it or give it up
\* (BackoffGrantStart, CtsTimeout, AckTimeout1 and so on) is scheduled.
THEOREM AlwaysLookedAfter == Spec => []NoOrphanPacket
<1>1. Spec => []NetInv
  <2>1. Init => NetInv
    BY InitNet
  <2>2. NetInv /\ [Next]_vars => NetInv'
    BY NextNet
  <2> QED
    BY <2>1, <2>2, PTL DEF Spec
<1>2. NetInv => NoOrphanPacket
  <2> SUFFICES ASSUME NetInv, Running, NEW n \in Addrs, Held(macs[n])
               PROVE  \E e \in macs[n].ev : e.k \in SenderKinds
    BY DEF NoOrphanPacket
  <2>1. Alive(macs[n]) /\ macs[n].failed = "none"
    BY DEF NetInv, Behaves, Running
  <2> QED
    BY <2>1 DEF Alive, Covered
<1> QED
  BY <1>1, <1>2, PTL

\* What Latest and m_waitTime are for: a station whose backoff ends launches a
\* frame only when it waits for no answer, receives nothing, and owes no CTS,
\* CTS_SPC or second ACK.
THEOREM LaunchesInTurn == Spec => NoLaunchOutOfTurn
<1>1. Init => NetInv
  BY InitNet
<1>2. NetInv /\ [Next]_vars => NetInv' /\ [InTurn]_vars
  BY NextNet
<1>3. [InTurn]_vars =>
        [\A s \in air' \ air : Launch(s.frame) =>
           \A e \in macs[s.from].ev :
             /\ ~Promised(e)
             /\ e.due > 0 => e.k \notin Waiting \cup {"EndReceive"}]_vars
  BY DEF InTurn
<1> QED
  BY <1>1, <1>2, <1>3, PTL DEF Spec, NoLaunchOutOfTurn

-----------------------------------------------------------------------------
(* Which packet is where.                                                  *)

\* What station n has been handed.
Mine(n) == {o.pkt : o \in {r \in Offers \ offers : r.src = n}}

\* Slots and queue of m hold packets of L; i, packetInfo1 and packetInfo2, is of
\* what the slots hold or held last, and the slots' addresses are where that goes.
Labelled(m, i, L) ==
  /\ \A j \in DOMAIN m.q : m.q[j] \in L
  /\ m.p1 # NoPacket => m.p1 = i[1]
  /\ m.p2 # NoPacket => m.p2 = i[2]
  /\ i[1] # NoPacket => i[1] \in L /\ m.h1 = i[1].dst
  /\ i[2] # NoPacket => i[2] \in L /\ m.h2 = i[2].dst

Noted(i, m) == <<IF m.p1 # NoPacket THEN m.p1 ELSE i[1],
                 IF m.p2 # NoPacket THEN m.p2 ELSE i[2]>>

\* Packets are only given up, or taken from the head of the queue.
Shifts(m, s) == \E x \in {m.p1, NoPacket}, y \in {m.p2, NoPacket} : Goes(m, s, x, y)

LEMMA LabelledShifts ==
  ASSUME NEW m, m.q \in Seq(Packets), NEW i, NEW L, Labelled(m, i, L),
         NEW s, Shifts(m, s)
  PROVE  Labelled(s, Noted(i, s), L)
<1> DEFINE k == Noted(i, s)
<1>1. PICK x \in {m.p1, NoPacket}, y \in {m.p2, NoPacket} : Goes(m, s, x, y)
  BY DEF Shifts
<1>2. /\ k[1] = IF s.p1 # NoPacket THEN s.p1 ELSE i[1]
      /\ k[2] = IF s.p2 # NoPacket THEN s.p2 ELSE i[2]
  BY DEF Noted
<1> HIDE DEF k
<1>3. CASE s.p1 = x /\ s.p2 = y /\ s.h1 = m.h1 /\ s.h2 = m.h2 /\ s.q = m.q
  <2>1. k[1] = i[1] /\ k[2] = i[2]
    BY <1>2, <1>3 DEF Labelled
  <2> QED
    BY <1>3, <2>1 DEF Labelled, k
<1>4. CASE /\ m.q # <<>> /\ s.p1 = Head(m.q) /\ s.h1 = Head(m.q).dst
           /\ \/ s.p2 = NoPacket /\ s.h2 = m.h2 /\ s.q = Tail(m.q)
              \/ /\ Tail(m.q) # <<>>
                 /\ s.p2 = Head(Tail(m.q)) /\ s.h2 = Head(Tail(m.q)).dst
                 /\ s.q = Tail(Tail(m.q))
  <2>1. \A r \in Seq(Packets) :
          r # <<>> /\ (\A j \in DOMAIN r : r[j] \in L) =>
            /\ Head(r) \in L /\ Head(r) # NoPacket
            /\ Tail(r) \in Seq(Packets) /\ \A j \in DOMAIN Tail(r) : Tail(r)[j] \in L
    <3> TAKE r \in Seq(Packets)
    <3> HAVE r # <<>> /\ \A j \in DOMAIN r : r[j] \in L
    <3>1. DOMAIN r = 1 .. Len(r) /\ Len(r) \in Nat /\ Len(r) > 0 /\ Head(r) = r[1]
      OBVIOUS
    <3>2. /\ Tail(r) \in Seq(Packets) /\ Len(Tail(r)) = Len(r) - 1
          /\ \A j \in 1 .. Len(Tail(r)) : Tail(r)[j] = r[j + 1]
      BY <3>1
    <3>3. r[1] \in Packets
      BY <3>1
    <3> QED
      BY <3>1, <3>2, <3>3, NoPacketAssumption
  <2>2. \A j \in DOMAIN m.q : m.q[j] \in L
    BY DEF Labelled
  <2>3. /\ Head(m.q) \in L /\ Head(m.q) # NoPacket
        /\ Tail(m.q) \in Seq(Packets) /\ \A j \in DOMAIN Tail(m.q) : Tail(m.q)[j] \in L
    BY <1>4, <2>1, <2>2
  <2>4. /\ k[1] = s.p1 /\ s.p1 \in L /\ s.h1 = k[1].dst
    BY <1>2, <1>4, <2>3
  <2>5. CASE s.p2 = NoPacket /\ s.h2 = m.h2 /\ s.q = Tail(m.q)
    <3>1. k[2] = i[2]
      BY <1>2, <2>5
    <3> QED
      BY <2>3, <2>4, <2>5, <3>1 DEF Labelled, k
  <2>6. CASE /\ Tail(m.q) # <<>>
             /\ s.p2 = Head(Tail(m.q)) /\ s.h2 = Head(Tail(m.q)).dst
             /\ s.q = Tail(Tail(m.q))
    <3> DEFINE t == Tail(m.q)
    <3>1. t \in Seq(Packets) /\ t # <<>> /\ \A j \in DOMAIN t : t[j] \in L
      BY <2>3, <2>6
    <3>2. /\ s.p2 = Head(t) /\ s.h2 = Head(t).dst /\ s.q = Tail(t)
      BY <2>6
    <3> HIDE DEF t
    <3>3. /\ Head(t) \in L /\ Head(t) # NoPacket
          /\ \A j \in DOMAIN Tail(t) : Tail(t)[j] \in L
      BY <2>1, <3>1
    <3>4. k[2] = s.p2 /\ s.p2 \in L /\ s.h2 = k[2].dst
      BY <1>2, <3>2, <3>3
    <3> QED
      BY <2>4, <3>2, <3>3, <3>4 DEF Labelled, k
  <2> QED
    BY <1>4, <2>5, <2>6
<1> QED
  BY <1>1, <1>3, <1>4 DEF Goes

LEMMA LabelledMore ==
  ASSUME NEW m, NEW i, NEW L, Labelled(m, i, L), NEW M, L \subseteq M
  PROVE  Labelled(m, i, M)
BY DEF Labelled

LEMMA LabelledSame ==
  ASSUME NEW m, NEW i, NEW L, Labelled(m, i, L), NEW s, Kept(m, s)
  PROVE  Labelled(s, i, L)
BY DEF Labelled, Kept

LEMMA ShiftsTo ==
  ASSUME NEW m, NEW p, Kept(m, p), NEW s,
         \/ Kept(p, s) \/ Shifts(p, s)
         \/ \E x \in {p.p1, NoPacket}, y \in {p.p2, NoPacket} : Backs(p, s, x, y)
  PROVE  Shifts(m, s)
<1>1. Shifts(p, s)
  <2>1. CASE Kept(p, s)
    BY <2>1 DEF Kept, Shifts, Goes
  <2>2. CASE \E x \in {p.p1, NoPacket}, y \in {p.p2, NoPacket} : Backs(p, s, x, y)
    BY <2>2 DEF Backs, Shifts
  <2> QED
    BY <2>1, <2>2
<1>2. PICK x \in {p.p1, NoPacket}, y \in {p.p2, NoPacket} : Goes(p, s, x, y)
  BY <1>1 DEF Shifts
<1>3. x \in {m.p1, NoPacket} /\ y \in {m.p2, NoPacket} /\ Goes(m, s, x, y)
  BY <1>2 DEF Kept, Goes
<1> QED
  BY <1>3 DEF Shifts

\* An event is taken out and the rest left.
LEMMA PoppedKeeps ==
  ASSUME NEW n, NEW m, NEW h, NEW C \in SUBSET Nat, Behaves(m, n, h, C),
         NEW e \in Due(m)
  PROVE  LET p == Pop(m, e)
         IN /\ Kept(m, p) /\ p.st = m.st /\ p.q \in Seq(Packets) /\ p.sent = NoFrame
            /\ Sound(p) /\ Hearing(p) /\ p \in Stations
<1> DEFINE p == Pop(m, e)
<1>1. /\ p \in Stations /\ Guarded(p, Ctss(n, C)) /\ Hearing(p) /\ p.sent = NoFrame
  BY Popped
<1>2. m \in Stations
  BY DEF Behaves
<1>3. Kept(m, p) /\ p.st = m.st
  BY <1>2 DEF Kept, Pop, Stations
<1>4. Sound(p)
  BY <1>1 DEF Guarded
<1>5. p.q \in Seq(Packets)
  BY <1>1 DEF Stations
<1> QED
  BY <1>1, <1>3, <1>4, <1>5

\* What a handler sends is addressed to where the packets of the slots go.
Addressed(m, slot, f) ==
  /\ IsType(f, "DATA") => f.a1 = IF slot = "SECOND" THEN m.h2 ELSE m.h1
  /\ IsType(f, "DATA_SPC") => f.a1 = m.h1 /\ f.a2 = m.h2

LEMMA NothingAddressed ==
  ASSUME NEW m, NEW slot, NEW f,
         f = NoFrame \/ f.type \notin {"DATA", "DATA_SPC"}
  PROVE  Addressed(m, slot, f)
BY DEF Addressed, IsType

LEMMA OwnData ==
  ASSUME NEW m, NEW n, Kept(m, n), NEW d
  PROVE  /\ \A slot : Addressed(m, slot, Rts(n)) /\ Addressed(m, slot, RtsSpc(n))
                      /\ Addressed(m, slot, DataSpc(n))
         /\ Addressed(m, n.st, Data(n, d))
BY DEF Addressed, IsType, Kept, Rts, RtsSpc, Data, DataSpc, Frame, CurrentAddr

LEMMA TimeoutsShift ==
  ASSUME NEW n, NEW m, NEW h, NEW C \in SUBSET Nat, Behaves(m, n, h, C),
         NEW e \in Due(m), NEW draw, NEW s,
         \/ e.k = "BackoffGrantStart" /\ s = BackoffGrantStart(Pop(m, e), draw)
         \/ e.k = "CtsTimeout" /\ s = CtsTimeout(Pop(m, e), draw)
         \/ e.k = "AckTimeout1" /\ s = AckTimeout1(Pop(m, e), draw)
         \/ e.k = "AckTimeout2" /\ s = AckTimeout2(Pop(m, e), draw)
  PROVE  Shifts(m, s)
<1> DEFINE p == Pop(m, e)
<1>1. Kept(m, p) /\ Sound(p)
  BY PoppedKeeps
<1> HIDE DEF p
<1>2. CASE s = BackoffGrantStart(p, draw)
  <2>1. Kept(p, s)
    BY <1>1, <1>2, BackoffBacks
  <2> QED
    BY <1>1, <2>1, ShiftsTo
<1>3. CASE s = CtsTimeout(p, draw)
  <2>1. Backs(p, s, p.p1, p.p2) \/ Backs(p, s, NoPacket, NoPacket)
    BY <1>1, <1>3, CtsTimeoutBacks
  <2> QED
    BY <1>1, <2>1, ShiftsTo
<1>4. CASE s = AckTimeout1(p, draw)
  <2>1. Backs(p, s, p.p1, p.p2) \/ Backs(p, s, NoPacket, p.p2)
    BY <1>1, <1>4, AckTimeoutBacks
  <2> QED
    BY <1>1, <2>1, ShiftsTo
<1>5. CASE s = AckTimeout2(p, draw)
  <2>1. Backs(p, s, p.p1, p.p2) \/ Backs(p, s, p.p1, NoPacket)
    BY <1>1, <1>5, AckTimeoutBacks
  <2> QED
    BY <1>1, <2>1, ShiftsTo
<1> QED
  BY <1>2, <1>3, <1>4, <1>5 DEF p

LEMMA BackoffTimeoutShifts ==
  ASSUME NEW n, NEW m, NEW h, NEW C \in SUBSET Nat, Behaves(m, n, h, C),
         NEW e \in Due(m), NEW draw
  PROVE  LET s == BackoffTimeout(Pop(m, e), m.q, draw)
         IN Shifts(m, s) /\ Addressed(m, SetState(m).st, s.sent)
<1> DEFINE p == Pop(m, e)
           s == BackoffTimeout(p, m.q, draw)
           c == Chosen(p, m.q)
           slot == SetState(m).st
<1>1. Kept(m, p) /\ Sound(p) /\ Hearing(p) /\ p.sent = NoFrame
  BY PoppedKeeps
<1>2. m \in Stations /\ p \in Stations
  BY PoppedKeeps DEF Behaves
<1>3. SetState(p).st = slot
  <2>1. p.p1 = m.p1 /\ p.p2 = m.p2 /\ p.h1 = m.h1 /\ p.h2 = m.h2 /\ p.uni = m.uni
    BY <1>2 DEF Pop, Stations
  <2> QED
    BY <1>2, <2>1 DEF SetState, Stations
<1> HIDE DEF p, slot
<1>4. Kept(m, c) /\ Sound(c) /\ Hearing(c) /\ c.sent = NoFrame /\ c.st = slot
  <2>1. /\ Rests(p, c) /\ c.q = m.q /\ c.p1 = p.p1 /\ c.p2 = p.p2
        /\ c.h1 = p.h1 /\ c.h2 = p.h2 /\ c.st = SetState(p).st
    BY <1>1, ChosenStep
  <2> HIDE DEF c
  <2> QED
    BY <1>1, <1>3, <2>1, RestsHearing DEF Rests, Kept
<1>5. \/ Rests(p, s) /\ Kept(p, s)
      \/ s = SendRtsSpc(c) \/ s = SendRts(c) \/ s = SendUnicastDataNoAck(c, draw)
  BY <1>1, BackoffTimeoutArms
<1> HIDE DEF s, c
<1>6. CASE Rests(p, s) /\ Kept(p, s)
  BY <1>1, <1>6, ShiftsTo, NothingAddressed DEF Rests, s, slot, p
<1>7. ASSUME Kept(c, s), s.sent \in {NoFrame, Rts(c), RtsSpc(c)}
      PROVE  Shifts(m, s) /\ Addressed(m, slot, s.sent)
  BY <1>4, <1>7, ShiftsTo, NothingAddressed, OwnData
<1>8. CASE s = SendRtsSpc(c)
  <2>1. Kept(c, Recounted(c))
    BY <1>4, RecountStep
  <2>2. \/ Fails(c, s, "SendRtsSpc")
        \/ Still(Recounted(c), s) /\ s.sent = RtsSpc(c)
    BY <1>4, <1>8, SendRtsSpcArms DEF Arms
  <2> QED
    BY <1>4, <1>7, <2>1, <2>2 DEF Fails, Still, Kept, s, slot, p
<1>9. CASE s = SendRts(c)
  <2>1. Fails(c, s, "SendRts") \/ (Still(c, s) /\ s.sent = Rts(c))
    BY <1>4, <1>9, SendRtsArms DEF Arms
  <2> QED
    BY <1>4, <1>7, <2>1 DEF Fails, Still, s, slot, p
<1>10. CASE s = SendUnicastDataNoAck(c, draw)
  <2>1. PICK t : /\ Still(c, t) /\ t.sent = Data(c, 0)
                 /\ IF c.st = "SECOND" THEN Backs(t, s, c.p1, NoPacket)
                                       ELSE Backs(t, s, NoPacket, c.p2)
    BY <1>4, <1>10, SendNoAckBacks
  <2>2. Kept(c, t) /\ t.p1 = c.p1 /\ t.p2 = c.p2
    BY <2>1 DEF Still, Kept
  <2>3. Kept(m, t)
    BY <1>4, <2>2 DEF Kept
  <2>4. \E x \in {t.p1, NoPacket}, y \in {t.p2, NoPacket} : Backs(t, s, x, y)
    BY <2>1, <2>2
  <2>5. s.sent = Data(c, 0)
    BY <2>1 DEF Backs, Rests
  <2> QED
    BY <1>4, <2>3, <2>4, <2>5, ShiftsTo, OwnData DEF s, slot, p
<1> QED
  BY <1>5, <1>6, <1>8, <1>9, <1>10 DEF s, slot, p

LEMMA DataShifts ==
  ASSUME NEW n, NEW m, NEW h, NEW C \in SUBSET Nat, Behaves(m, n, h, C),
         NEW e \in Due(m), NEW s, NEW slot,
         \/ s = SendUnicastDataAfterCts(Pop(m, e)) /\ slot = m.st
         \/ /\ \E spc \in BOOLEAN : s = SendSpcDataAfterCtsSpc(Pop(m, e), spc)
            /\ slot = "FIRST"
  PROVE  Shifts(m, s) /\ Addressed(m, slot, s.sent)
<1> DEFINE p == Pop(m, e)
           f == [p EXCEPT !.st = "FIRST"]
<1>1. /\ Kept(m, p) /\ Sound(p) /\ Hearing(p) /\ p.sent = NoFrame /\ p \in Stations
      /\ p.st = m.st
  BY PoppedKeeps
<1>2. Kept(m, f) /\ f.st = "FIRST"
  <2> HIDE DEF p
  <2> QED
    BY <1>1 DEF Kept, Stations
<1> HIDE DEF p, f
<1>3. ASSUME NEW c, Kept(m, c), Kept(c, s),
             \/ s.sent = NoFrame \/ s.sent = DataSpc(c)
             \/ \E d : s.sent = Data(c, d) /\ slot = c.st
      PROVE  Shifts(m, s) /\ Addressed(m, slot, s.sent)
  BY <1>3, ShiftsTo, NothingAddressed, OwnData
<1>4. CASE s = SendUnicastDataAfterCts(p) /\ slot = m.st
  <2>1. \/ Fails(p, s, "SendUnicastDataAfterCts")
        \/ Still(p, s) /\ s.sent = Data(p, AckSendAndSifs)
    BY <1>1, <1>4, SendUnicastArms DEF Arms
  <2> QED
    BY <1>1, <1>3, <1>4, <2>1 DEF Fails, Still
<1>5. CASE (\E spc \in BOOLEAN : s = SendSpcDataAfterCtsSpc(p, spc)) /\ slot = "FIRST"
  <2>1. \/ Fails(p, s, "SendSpcDataAfterCtsSpc")
        \/ Still(p, s) /\ s.sent = DataSpc(p)
        \/ Still(f, s) /\ s.sent = Data(f, AckSendAndSifs)
    BY <1>1, <1>5, SendSpcArms DEF Arms, f
  <2> QED
    BY <1>1, <1>2, <1>3, <1>5, <2>1 DEF Fails, Still
<1> QED
  BY <1>4, <1>5 DEF p

LEMMA ReplyShifts ==
  ASSUME NEW n, NEW m, NEW h, NEW C \in SUBSET Nat, Behaves(m, n, h, C),
         NEW e \in Due(m), e.k \in ReplyKinds, NEW slot
  PROVE  LET s == StartSend(Pop(m, e), e.arg)
         IN Shifts(m, s) /\ Addressed(m, slot, s.sent)
<1> DEFINE p == Pop(m, e)
           s == StartSend(p, e.arg)
<1>1. Kept(m, p) /\ Sound(p) /\ Hearing(p)
  BY PoppedKeeps
<1>2. e.arg.type \in Answers
  BY Popped
<1> HIDE DEF p
<1>3. Still(p, s) /\ s.sent = e.arg
  BY <1>1, SendStep
<1> HIDE DEF s
<1>4. s.sent.type \notin {"DATA", "DATA_SPC"}
  BY <1>2, <1>3 DEF Answers
<1>5. Shifts(m, s)
  BY <1>1, <1>3, ShiftsTo DEF Still
<1>6. Addressed(m, slot, s.sent)
  BY <1>4, NothingAddressed
<1> QED
  BY <1>5, <1>6 DEF s, p

LEMMA ReceiveOkShifts ==
  ASSUME NEW m, Sound(m), m.st \in SendStates, NEW f \in Frames, NEW num, NEW draw,
         NEW ar, Open(m, ar, f)
  PROVE  LET s == ReceiveOk(m, f, num, draw)
         IN Shifts(m, s) /\ (f.type = "DATA_SPC" => Still(m, s) /\ Sound(s))
<1> DEFINE r == [m EXCEPT !.rxing = FALSE]
           n == Overhear(r, f)
           s == ReceiveOk(m, f, num, draw)
<1>1. Still(m, r) /\ Watch(r) = Watch(m) /\ Defers(r, n)
  BY HeardDefers
<1>2. /\ f.type = "RTS" => s = ReceiveRts(n, f)
      /\ f.type = "CTS" => s = ReceiveCts(n, f)
      /\ f.type = "DATA" => s = ReceiveData(n, f)
      /\ f.type = "RTS_SPC" => s = ReceiveRtsSpc(n, f)
      /\ f.type = "CTS_SPC" => s = ReceiveCtsSpc(n, f)
      /\ f.type = "DATA_SPC" => s = ReceiveDataSpc(n, f, num)
      /\ f.type = "ACK" => s = ReceiveAck(n, f, draw)
  BY DEF ReceiveOk
<1> HIDE DEF r, n, s
<1>3. Sound(n) /\ Still(m, n) /\ Kept(m, n) /\ \A k : Awaiting(n, k) <=> Awaiting(m, k)
  BY <1>1 DEF Defers, Still, Kept, Awaiting
<1>4. n.st = m.st /\ n.addr = m.addr
  BY <1>3 DEF Still
<1>5. CASE f.type \in {"RTS", "DATA", "RTS_SPC", "DATA_SPC"}
  <2>1. Defers(n, s)
    BY <1>2, <1>3, <1>5, AnswersDefer
  <2>2. Still(m, s) /\ Sound(s) /\ Kept(n, s)
    BY <1>3, <2>1 DEF Defers, Still, Kept
  <2> QED
    BY <1>3, <2>2, ShiftsTo DEF s
<1>6. CASE f.type = "CTS"
  <2>1. f.a1 = n.addr => ~Awaiting(n, "SendUnicastDataAfterCts")
    BY <1>3, <1>4, <1>6, WatchedKinds DEF Open, CtsTo
  <2>2. s = n \/ Fails(n, s, "ReceiveCts") \/ Proceeds(n, s, "SendUnicastDataAfterCts")
    BY <1>2, <1>3, <1>6, <2>1, ReceiveCtsProceeds
  <2>3. Kept(n, s)
    BY <2>2 DEF Fails, Proceeds, Still, Kept
  <2> QED
    BY <1>3, <1>6, <2>3, ShiftsTo DEF s
<1>7. CASE f.type = "CTS_SPC"
  <2>1. Awaiting(n, "CtsTimeout") => ~Awaiting(n, "SendSpcDataAfterCtsSpc")
    BY <1>3, <1>7, WatchedKinds DEF Open
  <2> DEFINE o == Counted(n)
  <2>2. s = n \/ s = o \/ Fails(n, s, "ReceiveCtsSpc")
        \/ Proceeds(o, s, "SendSpcDataAfterCtsSpc")
    BY <1>2, <1>3, <1>7, <2>1, ReceiveCtsSpcProceeds
  <2>3. Kept(n, o)
    BY <1>3, CountStep
  <2> HIDE DEF o
  <2>4. Kept(n, s)
    BY <2>2, <2>3 DEF Fails, Proceeds, Still, Kept
  <2> QED
    BY <1>3, <1>7, <2>4, ShiftsTo DEF s
<1>8. CASE f.type = "ACK"
  <2>1. \/ s = n
        \/ \E c : Still(n, c) /\ (Backs(c, s, NoPacket, n.p2) \/ Backs(c, s, n.p1, NoPacket))
    BY <1>2, <1>3, <1>4, <1>8, FrameFields, ReceiveAckBacks
  <2>2. CASE s = n
    BY <1>3, <1>8, <2>2, ShiftsTo DEF s, Kept
  <2>3. CASE s # n
    <3>1. PICK c : Still(n, c) /\ (Backs(c, s, NoPacket, n.p2) \/ Backs(c, s, n.p1, NoPacket))
      BY <2>1, <2>3
    <3>2. Kept(m, c) /\ c.p1 = n.p1 /\ c.p2 = n.p2
      BY <1>3, <3>1 DEF Still, Kept
    <3> QED
      BY <1>8, <3>1, <3>2, ShiftsTo DEF s
  <2> QED
    BY <2>2, <2>3
<1> QED
  BY <1>5, <1>6, <1>7, <1>8, FrameFields DEF FrameTypes, s

LEMMA ReceptionShifts ==
  ASSUME NEW n \in Addrs, NEW m, NEW h, NEW C \in SUBSET Nat, Behaves(m, n, h, C),
         NEW e \in Due(m), e.k = "EndReceive",
         NEW ok1 \in BOOLEAN, NEW ok2 \in BOOLEAN, NEW draw
  PROVE  Shifts(m, EndReceive(Pop(m, e), h.frame, ok1, ok2, draw))
<1> DEFINE p == Pop(m, e)
           f == h.frame
           k == IF ok1 THEN ReceiveOk(p, f, "FIRST", draw) ELSE ReceiveError(p)
           s == EndReceive(p, f, ok1, ok2, draw)
           ar == Ctss(n, C)
<1>1. Kept(m, p) /\ Sound(p) /\ p \in Stations /\ p.addr = n
  BY PoppedKeeps, Popped
<1>2. Open(p, ar, f) /\ f \in Frames
  <2>1. Hears(m, h)
    BY DEF Behaves
  <2>2. e \in m.ev /\ e.arg \in Frames
    BY Popped
  <2>3. e.arg = f
    BY <2>1, <2>2 DEF Hears
  <2> QED
    BY <2>2, <2>3, NothingElse
<1>3. s = IF f.type # "DATA_SPC" THEN k
          ELSE IF ok2 THEN ReceiveOk(k, f, "SECOND", draw) ELSE ReceiveError(k)
  BY DEF EndReceive
<1>4. p.st \in SendStates
  BY <1>1 DEF Stations
<1> HIDE DEF p, f, ar, s
<1>5. ASSUME NEW x, Sound(x)
      PROVE  Kept(x, ReceiveError(x)) /\ Still(x, ReceiveError(x)) /\ Sound(ReceiveError(x))
  <2>1. LET r == [x EXCEPT !.rxing = FALSE] IN Sound(r) /\ Still(x, r)
    BY <1>5, HeardDefers
  <2> QED
    BY <2>1 DEF ReceiveError, Still
<1>6. Shifts(p, k) /\ (f.type = "DATA_SPC" => Still(p, k) /\ Sound(k))
  <2>1. CASE ok1
    BY <1>1, <1>2, <1>4, <2>1, ReceiveOkShifts
  <2>2. CASE ~ok1
    <3>1. Kept(p, p)
      BY DEF Kept
    <3> QED
      BY <1>1, <1>5, <2>2, <3>1, ShiftsTo
  <2> QED
    BY <2>1, <2>2
<1> HIDE DEF k
<1>7. CASE f.type = "DATA_SPC"
  <2>1. Kept(m, k) /\ Sound(k) /\ k.st \in SendStates
    BY <1>1, <1>4, <1>6, <1>7 DEF Still, Kept
  <2>2. Open(k, ar, f)
    BY <1>7 DEF Open, CtsTo
  <2>3. CASE ok2
    <3>1. Shifts(k, s)
      BY <1>2, <1>3, <1>7, <2>1, <2>2, <2>3, ReceiveOkShifts
    <3> QED
      BY <2>1, <3>1, ShiftsTo DEF s, p, f
  <2>4. CASE ~ok2
    <3>1. Kept(k, s)
      BY <1>3, <1>5, <1>7, <2>1, <2>4
    <3> QED
      BY <2>1, <3>1, ShiftsTo DEF s, p, f
  <2> QED
    BY <2>3, <2>4
<1>8. CASE f.type # "DATA_SPC"
  <2>1. Shifts(p, s)
    BY <1>3, <1>6, <1>8
  <2> QED
    BY <1>1, <2>1, ShiftsTo DEF s, p, f
<1> QED
  BY <1>7, <1>8

\* What the application hands over joins what the station has.
LEMMA EnqueueShifts ==
  ASSUME NEW m \in Stations, Sound(m), NEW p \in Packets, NEW draw, NEW i, NEW L,
         Labelled(m, i, L), p \in L
  PROVE  LET s == Enqueue(m, p, draw)
         IN Labelled(s, Noted(i, s), L)
<1> DEFINE q == Queued(m, p)
           s == Enqueue(m, p, draw)
<1>1. /\ q = [m EXCEPT !.q = q.q, !.sent = NoFrame]
      /\ q.q = (IF Len(m.q) = QueueMax THEN m.q ELSE Append(m.q, p))
      /\ Backs(q, s, m.p1, m.p2)
  BY EnqueueBacks
<1> HIDE DEF q, s
<1>2. /\ q.p1 = m.p1 /\ q.p2 = m.p2 /\ q.h1 = m.h1 /\ q.h2 = m.h2
  BY <1>1 DEF Sound
<1>3. q.q \in Seq(Packets) /\ \A j \in DOMAIN q.q : q.q[j] \in L
  <2>1. m.q \in Seq(Packets) /\ \A j \in DOMAIN m.q : m.q[j] \in L
    BY DEF Stations, Labelled
  <2>2. Append(m.q, p) \in Seq(Packets) /\ \A j \in DOMAIN Append(m.q, p) : Append(m.q, p)[j] \in L
    BY <2>1
  <2> QED
    BY <1>1, <2>1, <2>2
<1>4. Labelled(q, i, L)
  BY <1>2, <1>3 DEF Labelled
<1>5. Shifts(q, s)
  BY <1>1, <1>2 DEF Shifts, Backs
<1> QED
  BY <1>3, <1>4, <1>5, LabelledShifts DEF s

-----------------------------------------------------------------------------
(* Nothing goes astray.                                                    *)

\* A signal carries packets of its sender's, to where they go.
Truthful(x) ==
  LET L == Mine(x.from) \cup {NoPacket}
  IN /\ x.from \in Addrs /\ x.to # x.from /\ x.pk1 \in L /\ x.pk2 \in L
     /\ x.frame.type \in {"DATA", "DATA_SPC"} /\ x.pk1 # NoPacket => x.pk1.dst = x.frame.a1
     /\ x.frame.type = "DATA_SPC" /\ x.pk2 # NoPacket => x.pk2.dst = x.frame.a2

\* Packet p has come to the application of d, for which it is.
Came(p, d) == \E n \in Addrs \ {d} : p \in Mine(n) /\ p.dst \in {d, Group}

PlaceInv ==
  /\ \A n \in Addrs : Labelled(macs[n], info[n], Mine(n))
  /\ \A x \in air : Truthful(x)
  /\ \A n \in Addrs : heard[n] # NoSignal => Truthful(heard[n]) /\ heard[n].to = n
  /\ \A p \in Load, n \in Addrs : got[p][n] > 0 => Came(p, n)

LEMMA MineGrows ==
  ASSUME offers' \subseteq offers
  PROVE  /\ \A n : Mine(n) \subseteq Mine(n)'
         /\ \A x : Truthful(x) => Truthful(x)'
         /\ \A p, n : Came(p, n) => Came(p, n)'
<1>1. \A n : Mine(n) \subseteq Mine(n)'
  BY DEF Mine
<1> QED
  BY <1>1 DEF Truthful, Came

\* What a frame carries is what its addresses say.
LEMMA CarriedIsTruthful ==
  ASSUME TypeOK, NEW n \in Addrs, Labelled(macs[n], info[n], Mine(n)),
         NEW f \in Frames \cup {NoFrame}, NEW slot, Addressed(macs[n], slot, f),
         NEW rssi \in Rssi
  PROVE  LET c == Carried(n, f, slot)
         IN \A x \in Copies(n, f, rssi, c[1], c[2]) : Truthful(x)
<1> DEFINE c == Carried(n, f, slot)
           i == info[n]
<1> SUFFICES ASSUME NEW x \in Copies(n, f, rssi, c[1], c[2]) PROVE Truthful(x)
  OBVIOUS
<1>1. i[1] \in Payload /\ i[2] \in Payload /\ NoPacket \in Payload
  <2>1. i \in Payload \X Payload
    BY DEF TypeOK
  <2> QED
    BY <2>1 DEF Payload
<1>2. f # NoFrame
  BY DEF Copies
<1>3. /\ f.type = "DATA_SPC" => c = i
      /\ f.type = "DATA" => c = <<IF slot = "SECOND" THEN i[2] ELSE i[1], NoPacket>>
      /\ f.type \notin {"DATA", "DATA_SPC"} => c = <<NoPacket, NoPacket>>
  BY <1>2 DEF Carried
<1> HIDE DEF c, i
<1>4. c[1] \in {i[1], i[2], NoPacket} /\ c[2] \in {i[1], i[2], NoPacket}
  BY <1>3
<1>5. c[1] \in Payload /\ c[2] \in Payload
  BY <1>1, <1>4
<1>6. /\ x.from = n /\ x.to # n /\ x.pk1 = c[1] /\ x.pk2 = c[2]
      /\ x.frame.type = f.type /\ x.frame.a1 = f.a1
      /\ f.type = "DATA_SPC" => x.frame.a2 = f.a2
  BY <1>5, CopiesAre
<1>7. /\ i[1] # NoPacket => i[1] \in Mine(n) /\ macs[n].h1 = i[1].dst
      /\ i[2] # NoPacket => i[2] \in Mine(n) /\ macs[n].h2 = i[2].dst
  BY DEF Labelled, i
<1>8. x.pk1 \in Mine(n) \cup {NoPacket} /\ x.pk2 \in Mine(n) \cup {NoPacket}
  BY <1>4, <1>6, <1>7
<1>9. CASE f.type = "DATA"
  <2>1. f.a1 = IF slot = "SECOND" THEN macs[n].h2 ELSE macs[n].h1
    BY <1>2, <1>9 DEF Addressed, IsType
  <2>2. x.pk1 # NoPacket => x.pk1.dst = x.frame.a1
    BY <1>3, <1>6, <1>7, <1>9, <2>1
  <2> QED
    BY <1>6, <1>8, <1>9, <2>2 DEF Truthful
<1>10. CASE f.type = "DATA_SPC"
  <2>1. f.a1 = macs[n].h1 /\ f.a2 = macs[n].h2
    BY <1>2, <1>10 DEF Addressed, IsType
  <2>2. /\ x.pk1 # NoPacket => x.pk1.dst = x.frame.a1
        /\ x.pk2 # NoPacket => x.pk2.dst = x.frame.a2
    BY <1>3, <1>6, <1>7, <1>10, <2>1
  <2> QED
    BY <1>6, <1>8, <2>2 DEF Truthful
<1>11. CASE f.type \notin {"DATA", "DATA_SPC"}
  BY <1>6, <1>8, <1>11 DEF Truthful
<1> QED
  BY <1>9, <1>10, <1>11

\* A handler of station n ran that only gave packets up or took them.
LEMMA DoesPlace ==
  ASSUME NetInv, PlaceInv, NEW n \in Addrs, NEW m, m.sent \in Frames \cup {NoFrame},
         NEW slot, NEW rssi \in Rssi, Does(n, m, slot, rssi), offers' \subseteq offers,
         Labelled(m, Noted(info[n], m), Mine(n)'),
         Addressed(macs[n], slot, m.sent)
  PROVE  /\ \A d \in Addrs : Labelled(macs'[d], info'[d], Mine(d)')
         /\ \A x \in air' : Truthful(x)'
<1> DEFINE c == Carried(n, m.sent, slot)
           k == [m EXCEPT !.sent = NoFrame]
           new == Copies(n, m.sent, rssi, c[1], c[2])
<1>1. /\ macs' = [macs EXCEPT ![n] = k] /\ air' = air \cup new
      /\ info' = [info EXCEPT ![n] = Noted(info[n], m)]
  BY DEF Does, Noted
<1>2. TypeOK /\ Labelled(macs[n], info[n], Mine(n)) /\ \A x \in air : Truthful(x)
  BY Before DEF PlaceInv
<1>3. \A x \in new : Truthful(x)
  BY <1>2, CarriedIsTruthful
<1>4. Labelled(k, Noted(info[n], m), Mine(n)')
  <2>1. Kept(m, k)
    BY DEF Kept
  <2> HIDE DEF k
  <2> QED
    BY <2>1, LabelledSame
<1> HIDE DEF new, k
<1>5. \A x \in air' : Truthful(x)'
  BY <1>1, <1>2, <1>3, MineGrows
<1>6. ASSUME NEW d \in Addrs PROVE Labelled(macs'[d], info'[d], Mine(d)')
  <2>1. n \in DOMAIN macs /\ n \in DOMAIN info
    BY <1>2 DEF TypeOK
  <2>2. CASE d = n
    BY <1>1, <1>4, <2>1, <2>2
  <2>3. CASE d # n
    <3>1. macs'[d] = macs[d] /\ info'[d] = info[d]
      BY <1>1, <1>2, <2>3 DEF TypeOK
    <3>2. Labelled(macs[d], info[d], Mine(d)) /\ Mine(d) \subseteq Mine(d)'
      BY MineGrows DEF PlaceInv
    <3> QED
      BY <3>1, <3>2, LabelledMore
  <2> QED
    BY <2>2, <2>3
<1> QED
  BY <1>5, <1>6

LEMMA ShiftsPlace ==
  ASSUME NetInv, PlaceInv, NEW n \in Addrs, NEW m, Shifts(macs[n], m), offers' \subseteq offers
  PROVE  Labelled(m, Noted(info[n], m), Mine(n)')
<1>1. macs[n].q \in Seq(Packets)
  BY Before DEF Stations
<1>2. Labelled(m, Noted(info[n], m), Mine(n))
  BY <1>1, LabelledShifts DEF PlaceInv
<1> QED
  BY <1>2, MineGrows, LabelledMore

\* A handler that sends or waits ran.
LEMMA SendsPlace ==
  ASSUME NetInv, PlaceInv, NEW n \in Addrs, NEW m, NEW slot, NEW rssi \in Rssi,
         Sends(n, m, slot, rssi), m \in Stations,
         Shifts(macs[n], m), Addressed(macs[n], slot, m.sent)
  PROVE  PlaceInv'
<1>1. /\ Does(n, m, slot, rssi) /\ offers' = offers /\ got' = got
      /\ heard' = [heard EXCEPT ![n] = IF m.rxing THEN @ ELSE NoSignal]
  BY DEF Sends
<1>2. /\ \A d \in Addrs : Labelled(macs'[d], info'[d], Mine(d)')
      /\ \A x \in air' : Truthful(x)'
  <2>1. m.sent \in Frames \cup {NoFrame}
    BY DEF Stations
  <2> QED
    BY <1>1, <2>1, ShiftsPlace, DoesPlace
<1>3. \A d \in Addrs : heard'[d] # NoSignal => heard'[d] = heard[d]
  BY <1>1, Before DEF TypeOK
<1>4. (\A d \in Addrs : heard[d] # NoSignal => Truthful(heard[d]) /\ heard[d].to = d)'
  <2> SUFFICES ASSUME NEW d \in Addrs, heard'[d] # NoSignal
               PROVE  (Truthful(heard[d]) /\ heard[d].to = d)'
    OBVIOUS
  <2>1. Truthful(heard[d]) /\ heard[d].to = d /\ heard'[d] = heard[d]
    BY <1>3 DEF PlaceInv
  <2> QED
    BY <1>1, <2>1 DEF Truthful, Mine
<1>5. (\A p \in Load, d \in Addrs : got[p][d] > 0 => Came(p, d))'
  BY <1>1, MineGrows DEF PlaceInv
<1>6. (\A x \in air : Truthful(x))'
  BY <1>2
<1>7. (\A d \in Addrs : Labelled(macs[d], info[d], Mine(d)))'
  BY <1>2 DEF Labelled
<1> QED
  BY <1>4, <1>5, <1>6, <1>7 DEF PlaceInv

LEMMA TimeoutsPlace ==
  ASSUME NetInv, PlaceInv,
         FireBackoffGrantStart \/ FireCtsTimeout \/ FireAckTimeout1 \/ FireAckTimeout2
  PROVE  PlaceInv'
<1> DEFINE Ran(n, e, draw, m) ==
             /\ e \in Due(macs[n]) /\ Sends(n, m, "FIRST", 0)
             /\ \/ e.k = "BackoffGrantStart" /\ m = BackoffGrantStart(Pop(macs[n], e), draw)
                \/ e.k = "CtsTimeout" /\ m = CtsTimeout(Pop(macs[n], e), draw)
                \/ e.k = "AckTimeout1" /\ m = AckTimeout1(Pop(macs[n], e), draw)
                \/ e.k = "AckTimeout2" /\ m = AckTimeout2(Pop(macs[n], e), draw)
<1>1. PICK n \in Addrs, draw \in Draws : \E e \in macs[n].ev : \E m : Ran(n, e, draw, m)
  <2>1. CASE FireBackoffGrantStart
    BY <2>1 DEF FireBackoffGrantStart, Runs
  <2>2. CASE FireCtsTimeout
    BY <2>2 DEF FireCtsTimeout, Runs
  <2>3. CASE FireAckTimeout1
    BY <2>3 DEF FireAckTimeout1, Runs
  <2>4. CASE FireAckTimeout2
    BY <2>4 DEF FireAckTimeout2, Runs
  <2> QED
    BY <2>1, <2>2, <2>3, <2>4
<1>2. PICK e \in macs[n].ev : \E m : Ran(n, e, draw, m)
  BY <1>1
<1>3. PICK m : Ran(n, e, draw, m)
  BY <1>2
<1>4. m \in Stations /\ m.sent = NoFrame
  BY <1>3, Before, TimeoutsMove DEF Moves, Leads
<1>5. Shifts(macs[n], m)
  BY <1>3, Before, TimeoutsShift
<1>6. Addressed(macs[n], "FIRST", m.sent)
  BY <1>4, NothingAddressed
<1> QED
  BY <1>3, <1>4, <1>5, <1>6, Before, SendsPlace

LEMMA BackoffTimeoutPlace ==
  ASSUME NetInv, PlaceInv, FireBackoffTimeout
  PROVE  PlaceInv'
<1>1. PICK n \in Addrs, draw \in Draws : \E e \in macs[n].ev :
        /\ Runs(n, e, "BackoffTimeout")
        /\ Sends(n, BackoffTimeout(Pop(macs[n], e), macs[n].q, draw),
                 SetState(macs[n]).st, 0)
  BY DEF FireBackoffTimeout
<1> DEFINE slot == SetState(macs[n]).st
<1>2. PICK e \in macs[n].ev :
        /\ e \in Due(macs[n]) /\ e.k = "BackoffTimeout"
        /\ Sends(n, BackoffTimeout(Pop(macs[n], e), macs[n].q, draw), slot, 0)
  BY <1>1 DEF Runs
<1> DEFINE m == BackoffTimeout(Pop(macs[n], e), macs[n].q, draw)
<1>3. macs[n].q \in Seq(Packets)
  BY Before DEF Stations
<1>4. m \in Stations
  BY <1>2, <1>3, Before, BackoffTimeoutMoves DEF Moves, Leads
<1>5. Shifts(macs[n], m) /\ Addressed(macs[n], slot, m.sent)
  BY <1>2, Before, BackoffTimeoutShifts
<1>6. Sends(n, m, slot, 0)
  BY <1>2
<1> HIDE DEF m, slot
<1> QED
  BY <1>4, <1>5, <1>6, Before, SendsPlace

LEMMA DataPlace ==
  ASSUME NetInv, PlaceInv, FireSendUnicastDataAfterCts \/ FireSendSpcDataAfterCtsSpc
  PROVE  PlaceInv'
<1> DEFINE Ran(n, e, slot, m) ==
             /\ e \in Due(macs[n]) /\ Sends(n, m, slot, 0)
             /\ \/ /\ e.k = "SendUnicastDataAfterCts" /\ slot = macs[n].st
                   /\ m = SendUnicastDataAfterCts(Pop(macs[n], e))
                \/ /\ e.k = "SendSpcDataAfterCtsSpc" /\ slot = "FIRST"
                   /\ \E spc \in BOOLEAN : m = SendSpcDataAfterCtsSpc(Pop(macs[n], e), spc)
<1>1. PICK n \in Addrs : \E e \in macs[n].ev : \E slot, m : Ran(n, e, slot, m)
  <2>1. CASE FireSendUnicastDataAfterCts
    BY <2>1 DEF FireSendUnicastDataAfterCts, Runs
  <2>2. CASE FireSendSpcDataAfterCtsSpc
    BY <2>2 DEF FireSendSpcDataAfterCtsSpc, Runs
  <2> QED
    BY <2>1, <2>2
<1>2. PICK e \in macs[n].ev : \E slot, m : Ran(n, e, slot, m)
  BY <1>1
<1>3. PICK slot, m : Ran(n, e, slot, m)
  BY <1>2
<1>4. m \in Stations
  BY <1>3, Before, DataMoves DEF Moves, Leads
<1>5. Shifts(macs[n], m) /\ Addressed(macs[n], slot, m.sent)
  BY <1>3, Before, DataShifts
<1> QED
  BY <1>3, <1>4, <1>5, Before, SendsPlace

LEMMA RepliesPlace ==
  ASSUME NetInv, PlaceInv, FireCts \/ FireSendAckAfterData
  PROVE  PlaceInv'
<1>1. PICK n \in Addrs, rssi \in Rssi : \E e \in macs[n].ev :
        /\ e \in Due(macs[n]) /\ e.k \in ReplyKinds
        /\ Sends(n, StartSend(Pop(macs[n], e), e.arg), "FIRST", rssi)
  BY ReplyRuns
<1>2. PICK e \in macs[n].ev :
        /\ e \in Due(macs[n]) /\ e.k \in ReplyKinds
        /\ Sends(n, StartSend(Pop(macs[n], e), e.arg), "FIRST", rssi)
  BY <1>1
<1> DEFINE m == StartSend(Pop(macs[n], e), e.arg)
<1>3. m \in Stations
  BY <1>2, Before, ReplyMoves DEF Moves, Leads
<1>4. Shifts(macs[n], m) /\ Addressed(macs[n], "FIRST", m.sent)
  BY <1>2, Before, ReplyShifts
<1>5. Sends(n, m, "FIRST", rssi)
  BY <1>2
<1> HIDE DEF m
<1> QED
  BY <1>3, <1>4, <1>5, SendsPlace

\* What a station passes up has come to where it goes.
LEMMA DeliveredCame ==
  ASSUME NEW n \in Addrs, NEW s, Truthful(s), s.to = n, NEW ok1, NEW ok2,
         NEW p \in Load, p \in Delivered(n, s, ok1, ok2)
  PROVE  Came(p, n)
<1>1. p # NoPacket
  BY NetworkAssumption, NoPacketAssumption DEF Load
<1>2. s.from \in Addrs \ {n}
  BY DEF Truthful
<1>3. \/ s.frame.type = "DATA" /\ p = s.pk1 /\ s.frame.a1 \in {n, Group}
      \/ s.frame.type = "DATA_SPC" /\ p = s.pk1 /\ s.frame.a1 = n
      \/ s.frame.type = "DATA_SPC" /\ p = s.pk2 /\ s.frame.a2 = n
  BY DEF Delivered
<1>4. p \in Mine(s.from) /\ p.dst \in {n, Group}
  BY <1>1, <1>3 DEF Truthful
<1> QED
  BY <1>2, <1>4 DEF Came

LEMMA EndReceivePlace ==
  ASSUME NetInv, PlaceInv, FireEndReceive
  PROVE  PlaceInv'
<1>1. PICK n \in Addrs, ok1 \in BOOLEAN, ok2 \in BOOLEAN, draw \in Draws :
        \E e \in macs[n].ev : Ends(n, e, ok1, ok2, draw)
  BY ReceptionEnds
<1>2. PICK e \in macs[n].ev : Ends(n, e, ok1, ok2, draw)
  BY <1>1
<1> DEFINE m == Ended(n, e, ok1, ok2, draw)
<1>3. e \in Due(macs[n]) /\ e.k = "EndReceive"
  BY <1>2 DEF Ends, Runs
<1>4. heard[n] # NoSignal /\ m.sent = NoFrame
  BY <1>3, Before, ReceptionMoves DEF Ended
<1>5. Shifts(macs[n], m)
  BY <1>3, Before, ReceptionShifts DEF Ended
<1>6. Does(n, m, "FIRST", 0)
  BY <1>2 DEF Ends
<1> HIDE DEF m
<1>7. /\ \A d \in Addrs : Labelled(macs'[d], info'[d], Mine(d)')
      /\ \A x \in air' : Truthful(x)'
  <2>1. offers' = offers
    BY <1>2 DEF Ends
  <2> QED
    BY <1>4, <1>5, <1>6, <2>1, Before, NothingAddressed, ShiftsPlace, DoesPlace
<1>8. (\A d \in Addrs : Labelled(macs[d], info[d], Mine(d)))'
  BY <1>7 DEF Labelled
<1>9. (\A x \in air : Truthful(x))'
  BY <1>7
<1>10. (\A d \in Addrs : heard[d] # NoSignal => Truthful(heard[d]) /\ heard[d].to = d)'
  <2> SUFFICES ASSUME NEW d \in Addrs, heard'[d] # NoSignal
               PROVE  (Truthful(heard[d]) /\ heard[d].to = d)'
    OBVIOUS
  <2>1. heard \in [Addrs -> Signals \cup {NoSignal}]
    BY Before DEF TypeOK
  <2>2. Truthful(heard[d]) /\ heard[d].to = d /\ heard'[d] = heard[d]
    BY <1>2, <2>1 DEF Ends, PlaceInv
  <2> QED
    BY <1>2, <2>2 DEF Ends, Truthful, Mine
<1>11. (\A p \in Load, d \in Addrs : got[p][d] > 0 => Came(p, d))'
  <2> SUFFICES ASSUME NEW p \in Load, NEW d \in Addrs, got'[p][d] > 0
               PROVE  Came(p, d)'
    OBVIOUS
  <2>1. got \in [Load -> [Addrs -> Nat]]
    BY Before DEF TypeOK
  <2>2. got[p][d] > 0 \/ (d = n /\ p \in Delivered(n, heard[n], ok1, ok2))
    <3>1. got'[p] = IF p \in Delivered(n, heard[n], ok1, ok2)
                      THEN [got[p] EXCEPT ![n] = @ + 1] ELSE got[p]
      BY <1>2 DEF Ends
    <3>2. got[p] \in [Addrs -> Nat]
      BY <2>1
    <3> QED
      BY <3>1, <3>2
  <2>3. Truthful(heard[n]) /\ heard[n].to = n
    BY <1>4 DEF PlaceInv
  <2>4. Came(p, d)
    BY <2>2, <2>3, DeliveredCame DEF PlaceInv
  <2> QED
    BY <1>2, <2>4, MineGrows DEF Ends
<1> QED
  BY <1>8, <1>9, <1>10, <1>11 DEF PlaceInv

LEMMA SendPlace ==
  ASSUME NetInv, PlaceInv, Send
  PROVE  PlaceInv'
<1>1. PICK o \in offers, draw \in Draws :
        /\ Does(o.src, Enqueue(macs[o.src], o.pkt, draw), "FIRST", 0)
        /\ offers' = offers \ {o} /\ heard' = heard /\ got' = got
  BY DEF Send
<1> DEFINE n == o.src
           m == Enqueue(macs[n], o.pkt, draw)
<1>2. o \in Offers /\ n \in Addrs /\ o.pkt \in Packets
  BY Before, NetworkAssumption DEF TypeOK
<1>3. m.sent = NoFrame
  BY <1>2, Before, EnqueueMoves
<1>4. o.pkt \in Mine(n)' /\ Mine(n) \subseteq Mine(n)'
  <2>1. o \in Offers \ offers' /\ offers' \subseteq offers
    BY <1>1, <1>2
  <2> QED
    BY <2>1, MineGrows DEF Mine
<1>5. Labelled(macs[n], info[n], Mine(n)')
  BY <1>2, <1>4, LabelledMore DEF PlaceInv
<1>6. Sound(macs[n]) /\ macs[n] \in Stations
  BY <1>2, Before DEF Behaves, Guarded
<1>7. Labelled(m, Noted(info[n], m), Mine(n)')
  BY <1>2, <1>4, <1>5, <1>6, EnqueueShifts
<1>8. Does(n, m, "FIRST", 0)
  BY <1>1
<1> HIDE DEF n, m
<1>9. /\ \A d \in Addrs : Labelled(macs'[d], info'[d], Mine(d)')
      /\ \A x \in air' : Truthful(x)'
  BY <1>1, <1>2, <1>3, <1>7, <1>8, Before, NothingAddressed, DoesPlace
<1>10. (\A d \in Addrs : Labelled(macs[d], info[d], Mine(d)))'
  BY <1>9 DEF Labelled
<1>11. (\A x \in air : Truthful(x))'
  BY <1>9
<1>12. (\A d \in Addrs : heard[d] # NoSignal => Truthful(heard[d]) /\ heard[d].to = d)'
  BY <1>1 DEF PlaceInv, Truthful, Mine
<1>13. (\A p \in Load, d \in Addrs : got[p][d] > 0 => Came(p, d))'
  BY <1>1, MineGrows DEF PlaceInv
<1> QED
  BY <1>10, <1>11, <1>12, <1>13 DEF PlaceInv

LEMMA ArrivePlace ==
  ASSUME NetInv, PlaceInv, Arrive
  PROVE  PlaceInv'
<1> DEFINE Rx(s) == Power[s.from][s.to] >= Threshold /\ CanReceive(macs[s.to])
           Mac(s) == IF Rx(s) THEN StartReceive(macs[s.to], s.frame)
                     ELSE NotifyMaybeCcaBusyStartNow(macs[s.to], AirTime(s.frame))
           Signal(s) == IF Rx(s) THEN [s EXCEPT !.clear = noise[s.to] <= 0]
                        ELSE IF heard[s.to] = NoSignal THEN heard[s.to]
                        ELSE [heard[s.to] EXCEPT !.clear = FALSE]
<1>1. PICK s \in air :
        /\ macs' = [macs EXCEPT ![s.to] = Mac(s)]
        /\ heard' = [heard EXCEPT ![s.to] = Signal(s)]
        /\ air' = air \ {s}
        /\ info' = info /\ offers' = offers /\ got' = got
  BY DEF Arrive
<1> DEFINE n == s.to
           h == Signal(s)
<1>2. Truthful(s) /\ s \in Signals /\ n \in Addrs
  <2>1. air \in SUBSET Signals
    BY Before DEF TypeOK
  <2> QED
    BY <2>1 DEF PlaceInv, Signals
<1>3. \A x \in Signals : \A b : LET y == [x EXCEPT !.clear = b]
        IN /\ y.from = x.from /\ y.to = x.to /\ y.pk1 = x.pk1 /\ y.pk2 = x.pk2
           /\ y.frame = x.frame
  BY DEF Signals
<1>4. \A x \in Signals : \A b : Truthful(x) => Truthful([x EXCEPT !.clear = b])
  BY <1>3 DEF Truthful
<1>5. heard \in [Addrs -> Signals \cup {NoSignal}]
  BY Before DEF TypeOK
<1>6. h # NoSignal => Truthful(h) /\ h.to = n
  <2>1. CASE Rx(s)
    BY <1>2, <1>3, <1>4, <2>1
  <2>2. CASE ~Rx(s)
    <3>1. heard[n] # NoSignal => /\ heard[n] \in Signals /\ Truthful(heard[n])
                                 /\ heard[n].to = n
      BY <1>2, <1>5 DEF PlaceInv
    <3> QED
      BY <1>3, <1>4, <2>2, <3>1
  <2> QED
    BY <2>1, <2>2
<1>7. heard' = [heard EXCEPT ![n] = h]
  BY <1>1
<1> HIDE DEF h
<1>8. (\A d \in Addrs : heard[d] # NoSignal => Truthful(heard[d]) /\ heard[d].to = d)'
  <2> SUFFICES ASSUME NEW d \in Addrs, heard'[d] # NoSignal
               PROVE  (Truthful(heard[d]) /\ heard[d].to = d)'
    OBVIOUS
  <2>1. Truthful(heard'[d]) /\ heard'[d].to = d
    BY <1>2, <1>5, <1>6, <1>7 DEF PlaceInv
  <2> QED
    BY <1>1, <2>1 DEF Truthful, Mine
<1>9. Kept(macs[n], Mac(s))
  BY <1>2, Before DEF Kept, StartReceive, Schedule, NotifyMaybeCcaBusyStartNow, Stations
<1>10. (\A d \in Addrs : Labelled(macs[d], info[d], Mine(d)))'
  <2> SUFFICES ASSUME NEW d \in Addrs PROVE Labelled(macs'[d], info'[d], Mine(d)')
    BY DEF Labelled
  <2>1. Labelled(macs[d], info[d], Mine(d)) /\ Mine(d) \subseteq Mine(d)'
    BY <1>1, MineGrows DEF PlaceInv
  <2>2. macs'[d] = macs[d] \/ Kept(macs[d], macs'[d])
    <3>1. macs \in [Addrs -> Stations]
      BY Before DEF TypeOK
    <3> HIDE DEF Mac
    <3> QED
      BY <1>1, <1>9, <3>1
  <2>3. Kept(macs[d], macs'[d])
    BY <2>2 DEF Kept
  <2> QED
    BY <1>1, <2>1, <2>3, LabelledSame, LabelledMore
<1>11. (\A x \in air : Truthful(x))'
  BY <1>1, MineGrows DEF PlaceInv
<1>12. (\A p \in Load, d \in Addrs : got[p][d] > 0 => Came(p, d))'
  BY <1>1, MineGrows DEF PlaceInv
<1> QED
  BY <1>8, <1>10, <1>11, <1>12 DEF PlaceInv

LEMMA TickPlace ==
  ASSUME NetInv, PlaceInv, Tick
  PROVE  PlaceInv'
<1>1. /\ macs' = [n \in Addrs |-> Elapse(macs[n])]
      /\ UNCHANGED <<info, air, heard, offers, got>>
  BY DEF Tick
<1>2. (\A d \in Addrs : Labelled(macs[d], info[d], Mine(d)))'
  <2> SUFFICES ASSUME NEW d \in Addrs PROVE Labelled(macs'[d], info'[d], Mine(d)')
    BY DEF Labelled
  <2>1. Kept(macs[d], Elapse(macs[d]))
    BY Before DEF Kept, Elapse, Stations
  <2>2. Labelled(Elapse(macs[d]), info[d], Mine(d)) /\ Mine(d) \subseteq Mine(d)'
    BY <1>1, <2>1, LabelledSame, MineGrows DEF PlaceInv
  <2> QED
    BY <1>1, <2>2, LabelledMore
<1>3. /\ (\A x \in air : Truthful(x))'
      /\ (\A d \in Addrs : heard[d] # NoSignal => Truthful(heard[d]) /\ heard[d].to = d)'
      /\ (\A p \in Load, d \in Addrs : got[p][d] > 0 => Came(p, d))'
  BY <1>1 DEF PlaceInv, Truthful, Came, Mine
<1> QED
  BY <1>2, <1>3 DEF PlaceInv

LEMMA InitPlace == Init => PlaceInv
<1> SUFFICES ASSUME Init PROVE PlaceInv
  OBVIOUS
<1>1. ASSUME NEW n \in Addrs PROVE Labelled(macs[n], info[n], Mine(n))
  <2>1. macs[n] = SpcMacInit(n, "FIRST", FALSE) /\ info[n] = <<NoPacket, NoPacket>>
    BY DEF Init
  <2>2. /\ macs[n].q = <<>> /\ macs[n].p1 = NoPacket /\ macs[n].p2 = NoPacket
        /\ info[n][1] = NoPacket /\ info[n][2] = NoPacket
    BY <2>1 DEF SpcMacInit
  <2> QED
    BY <2>2 DEF Labelled
<1>2. /\ \A x \in air : Truthful(x)
      /\ \A n \in Addrs : heard[n] = NoSignal
      /\ \A p \in Load, n \in Addrs : got[p][n] = 0
  BY DEF Init
<1> QED
  BY <1>1, <1>2 DEF PlaceInv

LEMMA NextPlace ==
  ASSUME NetInv, PlaceInv, [Next]_vars
  PROVE  PlaceInv'
<1>1. CASE Fire
  BY <1>1, TimeoutsPlace, BackoffTimeoutPlace, DataPlace, RepliesPlace, EndReceivePlace
     DEF Fire
<1>2. CASE UNCHANGED vars
  <2>1. UNCHANGED <<macs, info, air, heard, offers, got>>
    BY <1>2 DEF vars, hist
  <2> QED
    BY <2>1 DEF PlaceInv, Labelled, Truthful, Came, Mine
<1> QED
  BY <1>1, <1>2, SendPlace, ArrivePlace, TickPlace DEF Next

\* packetInfo1 and packetInfo2, from which data is made, outlive the packets they
\* are of, and so do the headers it is addressed from; but they change together.
\* So no frame takes a packet to a station or an application it is not for, and
\* no station has one that it was not handed, in whatever order the stations'
\* exchanges interleave, break off and are repeated.
THEOREM NothingGoesAstray == Spec => []NothingAstray
<1>1. Spec => [](NetInv /\ PlaceInv)
  <2>1. Init => NetInv /\ PlaceInv
    BY InitNet, InitPlace
  <2>2. (NetInv /\ PlaceInv) /\ [Next]_vars => (NetInv /\ PlaceInv)'
    BY NextNet, NextPlace
  <2> QED
    BY <2>1, <2>2, PTL DEF Spec
<1>2. NetInv /\ PlaceInv => NothingAstray
  <2> SUFFICES ASSUME NetInv, PlaceInv, NEW o \in Offers, NEW n \in Addrs
               PROVE  /\ o.pkt \in HeldBy(macs[n]) => o \notin offers /\ n = o.src
                      /\ got[o.pkt][n] > 0 =>
                           o \notin offers /\ n # o.src /\ o.pkt.dst \in {n, Group}
    BY DEF NothingAstray
  <2>1. \A d \in Addrs : o.pkt \in Mine(d) => o \notin offers /\ d = o.src
    BY NetworkAssumption DEF Mine
  <2>2. HeldBy(macs[n]) \subseteq Mine(n)
    BY DEF HeldBy, PlaceInv, Labelled
  <2>3. got[o.pkt][n] > 0 => Came(o.pkt, n)
    BY DEF PlaceInv, Load
  <2> QED
    BY <2>1, <2>2, <2>3 DEF Came
<1> QED
  BY <1>1, <1>2, PTL

-----------------------------------------------------------------------------
(* The power that is learned.                                              *)

\* What a slot's address can be.
Where(n) == Peers(n) \cup {Group, NoAddr}

\* The byte that d measures of a frame of n, and that r is this byte, whichever
\* station sends to d.
Level(n, d) == ConvertRssiToDbm(Power[n][d])
Tells(d, r) == \A n \in Addrs : d \in Peers(n) => r = Level(n, d)

\* A signal asks only the stations its sender sends to, and tells the power at
\* which its sender was reached.
Honest(x) ==
  /\ x.frame.type = "RTS" => x.frame.a1 \in Where(x.from)
  /\ x.frame.type = "RTS_SPC" => {x.frame.a1, x.frame.a2} \subseteq Where(x.from)
  /\ x.frame.type = "CTS_SPC" => x.frame.a1 = x.from
  /\ x.frame.type \in {"CTS", "CTS_SPC"} => Tells(x.from, x.rssi)

\* The stations ms hear hs, and the signals sigs have still to arrive: a CTS of
\* d is on its way to n, or the RTS of n that asks d for one.
CtsFrom(ms, sigs, hs, d, n) ==
  \/ \E x \in sigs : \/ x.to = d /\ Calls(x.frame, d, n)
                     \/ x.from = d /\ x.to = n /\ CtsTo(x.frame, n)
  \/ \E t \in Nat : Offered(MarksOf(ms[d]), d, n, t)
  \/ hs[n].from = d /\ \E v \in MarksOf(ms[n]) : v.k = "EndReceive" /\ CtsTo(v.arg, n)

LevelInv ==
  /\ \A n \in Addrs : {macs[n].h1, macs[n].h2} \subseteq Where(n)
  /\ \A n \in Addrs : \A i \in DOMAIN owed[n] : Tells(n, owed[n][i].rssi)
  /\ \A x \in air : Honest(x)
  /\ \A n \in Addrs : heard[n] # NoSignal => Honest(heard[n])
  /\ \A n, d \in Addrs : CtsFrom(macs, air, heard, d, n) => d = CurrentAddr(macs[n])
  /\ \A n, d \in Addrs : table[n][d] # Unknown =>
       d \in Peers(n) /\ table[n][d] = ConvertRssiToW(Level(n, d))

\* A station that is sent a CTS, or is about to be, waits for it.
LEMMA CtsIsAwaited ==
  ASSUME NetInv, NEW n \in Addrs, NEW d \in Addrs, CtsFrom(macs, air, heard, d, n)
  PROVE  AwaitsCts(macs[n])
<1> DEFINE m == macs[n]
           C == CtsIn(macs, air, n)
           ar == Ctss(n, C)
<1>1. Behaves(m, n, heard[n], C) /\ C \in SUBSET Nat
  BY Before
<1> HIDE DEF m, C
<1>2. Guarded(m, ar) /\ m.addr = n /\ Typed(m) /\ Answering(ar) /\ CtsComing(m, ar)
  BY <1>1 DEF Behaves, Guarded
<1>3. ASSUME NEW c \in Coming(m, ar), CtsTo(c.frame, n) PROVE AwaitsCts(m)
  <2>1. PICK t \in Watch(m) : t.k = "CtsTimeout" /\ t.due = c.at + CtsWait
    BY <1>2, <1>3 DEF CtsComing
  <2>2. PICK e \in m.ev : t = View(e)
    BY WatchMembers
  <2>3. c.at \in Nat
    BY <1>2, ComingTypes
  <2>4. e.k = "CtsTimeout" /\ e.due > 0
    BY <2>1, <2>2, <2>3, Times DEF View
  <2> QED
    BY <2>4 DEF AwaitsCts
<1>4. ASSUME NEW t \in C PROVE AwaitsCts(m)
  <2>1. Cts(n, t) \in ar /\ CtsTo(Cts(n, t).frame, n)
    BY <1>1, CtsTypes DEF Ctss
  <2>2. Expected(Cts(n, t)) \in Coming(m, ar) /\ CtsTo(Expected(Cts(n, t)).frame, n)
    BY <1>2, <2>1, ComingTypes
  <2> QED
    BY <1>3, <2>2
<1>5. CASE \E x \in air : x.to = d /\ Calls(x.frame, d, n)
  <2>1. RtsTime + Sifs \in C
    BY <1>5, Times DEF C, CtsIn
  <2> QED
    BY <1>4, <2>1 DEF m
<1>6. CASE \E x \in air : x.to = n /\ CtsTo(x.frame, n)
  <2>1. 0 \in C
    BY <1>6 DEF C, CtsIn
  <2> QED
    BY <1>4, <2>1 DEF m
<1>7. CASE \E t \in Nat : Offered(MarksOf(macs[d]), d, n, t)
  <2>1. PICK t \in Nat : t \in C
    BY <1>7 DEF C, CtsIn
  <2> QED
    BY <1>4, <2>1 DEF m
<1>8. CASE \E v \in MarksOf(m) : v.k = "EndReceive" /\ CtsTo(v.arg, n)
  <2>1. PICK e \in m.ev : e.k = "EndReceive" /\ CtsTo(e.arg, n)
    BY <1>8 DEF MarksOf, View
  <2> DEFINE w == View(e)
  <2>2. w \in Watch(m) /\ w.k = "EndReceive" /\ w.arg = e.arg
    BY <2>1, WatchMembers, WatchedKinds DEF View
  <2> HIDE DEF w
  <2>3. Heard(w) \in Coming(m, ar) /\ Heard(w).frame = w.arg
    BY <1>2, <2>2, ComingTypes
  <2>4. CtsTo(Heard(w).frame, n)
    BY <2>1, <2>2, <2>3
  <2> QED
    BY <1>3, <2>3, <2>4 DEF m
<1> QED
  BY <1>5, <1>6, <1>7, <1>8 DEF CtsFrom, m

\* What KeepsDestination says of a step.
Keeping == \A n \in Addrs : AwaitsCts(macs[n]) =>
  CurrentAddr(macs[n])' = CurrentAddr(macs[n])

\* So who answers a station is whom it means, as long as those that are newly
\* asked are.
LEMMA AnswersAreMeant ==
  ASSUME NetInv, LevelInv, Keeping,
         \A n, d \in Addrs : CtsFrom(macs', air', heard', d, n) =>
           CtsFrom(macs, air, heard, d, n) \/ d = CurrentAddr(macs'[n])
  PROVE  \A n, d \in Addrs : CtsFrom(macs', air', heard', d, n) => d = CurrentAddr(macs'[n])
<1> SUFFICES ASSUME NEW n \in Addrs, NEW d \in Addrs, CtsFrom(macs, air, heard, d, n)
             PROVE  d = CurrentAddr(macs'[n])
  OBVIOUS
<1>1. d = CurrentAddr(macs[n])
  BY DEF LevelInv
<1>2. AwaitsCts(macs[n])
  BY CtsIsAwaited
<1>3. CurrentAddr(macs[n])' = CurrentAddr(macs'[n])
  BY DEF CurrentAddr
<1> QED
  BY <1>1, <1>2, <1>3 DEF Keeping

\* What station n asks, in state m, it asks where its slots' packets go.
AskedFor(m) ==
  /\ IsType(m.sent, "RTS") => m.sent.a1 = CurrentAddr(m)
  /\ IsType(m.sent, "RTS_SPC") => m.sent.a1 = m.h1 /\ m.sent.a2 = m.h2

\* What it answers it answers in its own name, with the power rssi.
Told(n, f, rssi) ==
  /\ IsType(f, "CTS_SPC") => f.a1 = n
  /\ IsType(f, "CTS") \/ IsType(f, "CTS_SPC") => Tells(n, rssi)

\* A handler of station n ran.
LEMMA DoesLevel ==
  ASSUME NetInv, LevelInv, Keeping, NEW n \in Addrs, NEW m, NEW slot, NEW rssi \in Rssi,
         NEW h \in {heard[n], NoSignal},
         Moves(macs[n], n, h, CtsIn(macs, air, n), m),
         Does(n, m, slot, rssi), heard' = [heard EXCEPT ![n] = h],
         {m.h1, m.h2} \subseteq Where(n), AskedFor(m), Told(n, m.sent, rssi)
  PROVE  /\ \A d \in Addrs : {macs'[d].h1, macs'[d].h2} \subseteq Where(d)
         /\ \A x \in air' : Honest(x)
         /\ \A d \in Addrs : heard'[d] # NoSignal => Honest(heard'[d])
         /\ \A k, d \in Addrs : CtsFrom(macs', air', heard', d, k) => d = CurrentAddr(macs'[k])
<1> DEFINE c == Carried(n, m.sent, slot)
           s == [m EXCEPT !.sent = NoFrame]
           new == Copies(n, m.sent, rssi, c[1], c[2])
<1>1. /\ macs' = [macs EXCEPT ![n] = s] /\ air' = air \cup new
  BY DEF Does
<1>2. /\ macs \in [Addrs -> Stations] /\ heard \in [Addrs -> Signals \cup {NoSignal}]
      /\ info[n] \in Payload \X Payload
  BY Before DEF TypeOK
<1>3. m \in Stations /\ m.sent \in Frames \cup {NoFrame}
  BY DEF Moves, Leads, Stations
<1>4. /\ s.h1 = m.h1 /\ s.h2 = m.h2 /\ MarksOf(s) = MarksOf(m)
      /\ CurrentAddr(s) = CurrentAddr(m)
  BY <1>3 DEF Stations, MarksOf, CurrentAddr
<1>5. c[1] \in Payload /\ c[2] \in Payload
  <2>1. NoPacket \in Payload /\ info[n][1] \in Payload /\ info[n][2] \in Payload
    BY <1>2 DEF Payload
  <2>2. c \in {<<NoPacket, NoPacket>>, info[n],
               <<info[n][1], NoPacket>>, <<info[n][2], NoPacket>>}
    BY DEF Carried
  <2> HIDE DEF c
  <2> QED
    BY <2>1, <2>2
<1> HIDE DEF c
<1>6. \A x \in new :
        /\ m.sent # NoFrame /\ x.from = n /\ x.to # n
        /\ x.frame.type = m.sent.type /\ x.frame.a1 = m.sent.a1
        /\ m.sent.type \in {"RTS", "RTS_SPC"} => x.frame.a2 = m.sent.a2
        /\ m.sent.type \in {"CTS", "CTS_SPC"} => x.rssi = rssi
  BY <1>3, <1>5, CopiesAre
<1> HIDE DEF new, s
<1>7. macs'[n] = s /\ \A d \in Addrs \ {n} : macs'[d] = macs[d] /\ heard'[d] = heard[d]
  BY <1>1, <1>2
<1>8. heard'[n] = h
  BY <1>2
<1>9. CurrentAddr(m) \in {m.h1, m.h2}
  BY DEF CurrentAddr
<1>10. ASSUME NEW x \in new PROVE Honest(x)
  <2>1. /\ x.frame.type = "RTS" => x.frame.a1 \in Where(n)
        /\ x.frame.type = "RTS_SPC" => {x.frame.a1, x.frame.a2} \subseteq Where(n)
    BY <1>6, <1>9 DEF AskedFor, IsType
  <2>2. /\ x.frame.type = "CTS_SPC" => x.frame.a1 = n
        /\ x.frame.type \in {"CTS", "CTS_SPC"} => Tells(n, x.rssi)
    BY <1>6 DEF Told, IsType
  <2> QED
    BY <1>6, <2>1, <2>2 DEF Honest
<1>11. ASSUME NEW k \in Addrs, NEW d \in Addrs, CtsFrom(macs', air', heard', d, k)
       PROVE  CtsFrom(macs, air, heard, d, k) \/ d = CurrentAddr(macs'[k])
  <2>1. CASE \E x \in air : \/ x.to = d /\ Calls(x.frame, d, k)
                            \/ x.from = d /\ x.to = k /\ CtsTo(x.frame, k)
    BY <2>1 DEF CtsFrom
  <2>2. CASE \E x \in new : x.to = d /\ Calls(x.frame, d, k)
    <3>1. m.sent # NoFrame /\ m.sent.type = "RTS" /\ m.sent.a1 = d /\ m.sent.a2 = k
      BY <1>6, <2>2 DEF Calls
    <3>2. k = n /\ d = CurrentAddr(m)
      BY <3>1 DEF Moves, AskedFor, IsType
    <3> QED
      BY <1>4, <1>7, <3>2
  <2>3. CASE \E x \in new : x.from = d /\ x.to = k /\ CtsTo(x.frame, k)
    <3>1. d = n /\ m.sent # NoFrame /\ CtsTo(m.sent, k)
      BY <1>6, <2>3 DEF CtsTo
    <3>2. Offered(MarksOf(macs[n]), n, k, 0)
      BY <3>1 DEF Moves, CtsTo
    <3> QED
      BY <3>1, <3>2 DEF CtsFrom
  <2>4. CASE \E t \in Nat : Offered(MarksOf(macs'[d]), d, k, t)
    BY <1>4, <1>7, <2>4 DEF Moves, CtsFrom
  <2>5. CASE /\ heard'[k].from = d
             /\ \E v \in MarksOf(macs'[k]) : v.k = "EndReceive" /\ CtsTo(v.arg, k)
    <3>1. CASE k # n
      BY <1>7, <2>5, <3>1 DEF CtsFrom
    <3>2. CASE k = n
      <4>1. PICK v \in MarksOf(m) : v.k = "EndReceive" /\ CtsTo(v.arg, n)
        BY <1>4, <1>7, <2>5, <3>2
      <4>2. v \in MarksOf(macs[n])
        BY <4>1 DEF Moves
      <4>3. PICK e \in m.ev : v = View(e)
        BY <4>1 DEF MarksOf
      <4>4. e.k = "EndReceive"
        BY <4>1, <4>3 DEF View
      <4>5. h = heard[n]
        BY <4>4 DEF Moves, Hears
      <4> QED
        BY <1>8, <2>5, <3>2, <4>1, <4>2, <4>5 DEF CtsFrom
    <3> QED
      BY <3>1, <3>2
  <2> QED
    BY <1>1, <1>11, <2>1, <2>2, <2>3, <2>4, <2>5 DEF CtsFrom
<1>12. \A d \in Addrs : {macs'[d].h1, macs'[d].h2} \subseteq Where(d)
  BY <1>4, <1>7 DEF LevelInv
<1>13. \A x \in air' : Honest(x)
  BY <1>1, <1>10 DEF LevelInv
<1>14. \A d \in Addrs : heard'[d] # NoSignal => Honest(heard'[d])
  BY <1>7, <1>8 DEF LevelInv
<1> QED
  BY <1>11, <1>12, <1>13, <1>14, AnswersAreMeant

\* The slots' addresses are still where the station sends to.
LEMMA LabelsWhere ==
  ASSUME NEW n, NEW m, m.q \in Seq(Packets), {m.h1, m.h2} \subseteq Where(n),
         NEW s, Shifts(m, s), NEW i, NEW L, Labelled(s, Noted(i, s), L),
         \A p \in L : p.dst \in Where(n)
  PROVE  {s.h1, s.h2} \subseteq Where(n)
<1>1. /\ s.p1 # NoPacket => s.h1 \in Where(n)
      /\ s.p2 # NoPacket => s.h2 \in Where(n)
  BY DEF Labelled, Noted
<1>2. \A r \in Seq(Packets) : r # <<>> => Head(r) # NoPacket /\ Tail(r) \in Seq(Packets)
  BY NoPacketAssumption
<1>3. /\ s.p1 = NoPacket => s.h1 = m.h1
      /\ s.p2 = NoPacket => s.h2 = m.h2
  BY <1>2 DEF Shifts, Goes
<1> QED
  BY <1>1, <1>3

LEMMA MineWhere ==
  ASSUME NEW n \in Addrs
  PROVE  \A p \in Mine(n)' : p.dst \in Where(n)
BY DEF Mine, Where, Peers

\* A handler that sends or waits ran.
LEMMA SendsLevel ==
  ASSUME NetInv, PlaceInv, LevelInv, Keeping, NEW n \in Addrs, NEW m, NEW slot,
         NEW rssi \in Rssi,
         Moves(macs[n], n, IF m.rxing THEN heard[n] ELSE NoSignal, CtsIn(macs, air, n), m),
         Sends(n, m, slot, rssi), Shifts(macs[n], m), AskedFor(m), Told(n, m.sent, rssi),
         \A d \in Addrs : \A i \in DOMAIN owed'[d] : Tells(d, owed'[d][i].rssi)
  PROVE  LevelInv'
<1> DEFINE h == IF m.rxing THEN heard[n] ELSE NoSignal
<1>1. /\ Does(n, m, slot, rssi) /\ heard' = [heard EXCEPT ![n] = h]
      /\ table' = table /\ offers' = offers
  BY DEF Sends
<1>2. h \in {heard[n], NoSignal} /\ Moves(macs[n], n, h, CtsIn(macs, air, n), m)
  OBVIOUS
<1> HIDE DEF h
<1>3. {m.h1, m.h2} \subseteq Where(n)
  <2>1. Labelled(m, Noted(info[n], m), Mine(n)')
    BY <1>1, ShiftsPlace
  <2>2. macs[n].q \in Seq(Packets) /\ {macs[n].h1, macs[n].h2} \subseteq Where(n)
    BY Before DEF Stations, LevelInv
  <2> QED
    BY <2>1, <2>2, MineWhere, LabelsWhere
<1>4. /\ \A d \in Addrs : {macs'[d].h1, macs'[d].h2} \subseteq Where(d)
      /\ \A x \in air' : Honest(x)
      /\ \A d \in Addrs : heard'[d] # NoSignal => Honest(heard'[d])
      /\ \A k, d \in Addrs : CtsFrom(macs', air', heard', d, k) => d = CurrentAddr(macs'[k])
  BY <1>1, <1>2, <1>3, DoesLevel
<1> QED
  BY <1>1, <1>4 DEF LevelInv, CtsFrom, CurrentAddr

\* Data and the answers to it ask nothing.
LEMMA NothingAsked ==
  ASSUME NEW m, m.sent = NoFrame \/ m.sent.type \in {"DATA", "DATA_SPC", "ACK"}
  PROVE  AskedFor(m) /\ \A n, rssi : Told(n, m.sent, rssi)
BY DEF AskedFor, Told, IsType

\* BackoffTimeout asks where the slots' packets go.
LEMMA BackoffTimeoutAsks ==
  ASSUME NEW m, Sound(m), Hearing(m), m.sent = NoFrame, NEW queue, NEW draw
  PROVE  LET s == BackoffTimeout(m, queue, draw)
         IN AskedFor(s) /\ \A n, rssi : Told(n, s.sent, rssi)
<1> DEFINE s == BackoffTimeout(m, queue, draw)
           k == Chosen(m, queue)
<1>1. Sound(k) /\ Hearing(k) /\ k.sent = NoFrame
  <2>1. Rests(m, k)
    BY ChosenStep
  <2> QED
    BY <2>1, RestsHearing DEF Rests
<1>2. \/ Rests(m, s)
      \/ s = SendRtsSpc(k) \/ s = SendRts(k) \/ s = SendUnicastDataNoAck(k, draw)
  BY BackoffTimeoutArms
<1> HIDE DEF s, k
<1>3. \/ s.sent = NoFrame \/ \E x : s.sent = Data(x, 0)
      \/ Still(k, s) /\ s.sent = Rts(k)
      \/ s.h1 = k.h1 /\ s.h2 = k.h2 /\ s.sent = RtsSpc(k)
  <2>1. Rests(m, s) => s.sent = NoFrame
    BY DEF Rests
  <2>2. ASSUME s = SendRtsSpc(k)
        PROVE  s.sent = NoFrame \/ (s.h1 = k.h1 /\ s.h2 = k.h2 /\ s.sent = RtsSpc(k))
    <3>1. Fails(k, s, "SendRtsSpc") \/ (Still(Recounted(k), s) /\ s.sent = RtsSpc(k))
      BY <1>1, <2>2, SendRtsSpcArms DEF Arms
    <3>2. Kept(k, Recounted(k))
      BY <1>1, RecountStep
    <3> QED
      BY <1>1, <3>1, <3>2 DEF Fails, Still, Kept
  <2>3. ASSUME s = SendRts(k)
        PROVE  s.sent = NoFrame \/ (Still(k, s) /\ s.sent = Rts(k))
    BY <1>1, <2>3, SendRtsArms DEF Fails, Arms
  <2>4. ASSUME s = SendUnicastDataNoAck(k, draw) PROVE s.sent = Data(k, 0)
    <3>1. PICK t : /\ t.sent = Data(k, 0)
                   /\ IF k.st = "SECOND" THEN Backs(t, s, k.p1, NoPacket)
                                         ELSE Backs(t, s, NoPacket, k.p2)
      BY <1>1, <2>4, SendNoAckBacks
    <3> QED
      BY <3>1 DEF Backs, Rests
  <2> QED
    BY <1>2, <2>1, <2>2, <2>3, <2>4
<1> DEFINE Fine == AskedFor(s) /\ \A n, rssi : Told(n, s.sent, rssi)
<1>4. ASSUME s.sent = NoFrame \/ \E x : s.sent = Data(x, 0) PROVE Fine
  <2>1. ASSUME NEW x PROVE Data(x, 0).type = "DATA"
    BY DEF Data, Frame
  <2>2. s.sent = NoFrame \/ s.sent.type = "DATA"
    BY <1>4, <2>1
  <2> QED
    BY <2>2, NothingAsked
<1>5. ASSUME Still(k, s), s.sent = Rts(k) PROVE Fine
  <2>1. CurrentAddr(s) = CurrentAddr(k)
    BY <1>5 DEF Still, Kept, CurrentAddr
  <2>2. s.sent.type = "RTS" /\ s.sent.a1 = CurrentAddr(s)
    BY <1>5, <2>1 DEF Rts, Frame
  <2> QED
    BY <2>2 DEF AskedFor, Told, IsType
<1>6. ASSUME s.h1 = k.h1, s.h2 = k.h2, s.sent = RtsSpc(k) PROVE Fine
  <2>1. s.sent.type = "RTS_SPC" /\ s.sent.a1 = s.h1 /\ s.sent.a2 = s.h2
    BY <1>6 DEF RtsSpc, Frame
  <2> QED
    BY <2>1 DEF AskedFor, Told, IsType
<1> QED
  BY <1>3, <1>4, <1>5, <1>6 DEF s

LEMMA TimeoutsLevel ==
  ASSUME NetInv, PlaceInv, LevelInv, Keeping,
         FireBackoffGrantStart \/ FireCtsTimeout \/ FireAckTimeout1 \/ FireAckTimeout2
  PROVE  LevelInv'
<1> DEFINE Ran(n, e, draw, m) ==
             /\ e \in Due(macs[n]) /\ Sends(n, m, "FIRST", 0) /\ UNCHANGED owed
             /\ \/ e.k = "BackoffGrantStart" /\ m = BackoffGrantStart(Pop(macs[n], e), draw)
                \/ e.k = "CtsTimeout" /\ m = CtsTimeout(Pop(macs[n], e), draw)
                \/ e.k = "AckTimeout1" /\ m = AckTimeout1(Pop(macs[n], e), draw)
                \/ e.k = "AckTimeout2" /\ m = AckTimeout2(Pop(macs[n], e), draw)
<1>1. PICK n \in Addrs, draw \in Draws : \E e \in macs[n].ev : \E m : Ran(n, e, draw, m)
  <2>1. CASE FireBackoffGrantStart
    BY <2>1 DEF FireBackoffGrantStart, Runs
  <2>2. CASE FireCtsTimeout
    BY <2>2 DEF FireCtsTimeout, Runs
  <2>3. CASE FireAckTimeout1
    BY <2>3 DEF FireAckTimeout1, Runs
  <2>4. CASE FireAckTimeout2
    BY <2>4 DEF FireAckTimeout2, Runs
  <2> QED
    BY <2>1, <2>2, <2>3, <2>4
<1>2. PICK e \in macs[n].ev : \E m : Ran(n, e, draw, m)
  BY <1>1
<1>3. PICK m : Ran(n, e, draw, m)
  BY <1>2
<1>4. /\ Moves(macs[n], n, IF m.rxing THEN heard[n] ELSE NoSignal, CtsIn(macs, air, n), m)
      /\ m.sent = NoFrame
  BY <1>3, Before, TimeoutsMove
<1>5. Shifts(macs[n], m)
  BY <1>3, Before, TimeoutsShift
<1>6. AskedFor(m) /\ Told(n, m.sent, 0)
  BY <1>4, NothingAsked
<1>7. \A d \in Addrs : \A i \in DOMAIN owed'[d] : Tells(d, owed'[d][i].rssi)
  BY <1>3 DEF LevelInv
<1> QED
  BY <1>3, <1>4, <1>5, <1>6, <1>7, Before, SendsLevel

LEMMA BackoffTimeoutLevel ==
  ASSUME NetInv, PlaceInv, LevelInv, Keeping, FireBackoffTimeout
  PROVE  LevelInv'
<1>1. PICK n \in Addrs, draw \in Draws : \E e \in macs[n].ev :
        /\ Runs(n, e, "BackoffTimeout") /\ UNCHANGED owed
        /\ Sends(n, BackoffTimeout(Pop(macs[n], e), macs[n].q, draw),
                 SetState(macs[n]).st, 0)
  BY DEF FireBackoffTimeout
<1> DEFINE slot == SetState(macs[n]).st
<1>2. PICK e \in macs[n].ev :
        /\ e \in Due(macs[n]) /\ e.k = "BackoffTimeout" /\ UNCHANGED owed
        /\ Sends(n, BackoffTimeout(Pop(macs[n], e), macs[n].q, draw), slot, 0)
  BY <1>1 DEF Runs
<1> DEFINE m == BackoffTimeout(Pop(macs[n], e), macs[n].q, draw)
<1>3. macs[n].q \in Seq(Packets)
  BY Before DEF Stations
<1>4. Moves(macs[n], n, IF m.rxing THEN heard[n] ELSE NoSignal, CtsIn(macs, air, n), m)
  BY <1>2, <1>3, Before, BackoffTimeoutMoves
<1>5. Shifts(macs[n], m)
  BY <1>2, Before, BackoffTimeoutShifts
<1>6. AskedFor(m) /\ Told(n, m.sent, 0)
  <2>1. LET p == Pop(macs[n], e) IN Sound(p) /\ Hearing(p) /\ p.sent = NoFrame
    BY <1>2, Before, PoppedKeeps
  <2> QED
    BY <2>1, BackoffTimeoutAsks
<1>7. Sends(n, m, slot, 0)
  BY <1>2
<1> HIDE DEF m, slot
<1>8. \A d \in Addrs : \A i \in DOMAIN owed'[d] : Tells(d, owed'[d][i].rssi)
  BY <1>2 DEF LevelInv
<1> QED
  BY <1>4, <1>5, <1>6, <1>7, <1>8, Before, SendsLevel

LEMMA DataLevel ==
  ASSUME NetInv, PlaceInv, LevelInv, Keeping,
         FireSendUnicastDataAfterCts \/ FireSendSpcDataAfterCtsSpc
  PROVE  LevelInv'
<1> DEFINE Ran(n, e, slot, m) ==
             /\ e \in Due(macs[n]) /\ Sends(n, m, slot, 0) /\ UNCHANGED owed
             /\ \/ /\ e.k = "SendUnicastDataAfterCts" /\ slot = macs[n].st
                   /\ m = SendUnicastDataAfterCts(Pop(macs[n], e))
                \/ /\ e.k = "SendSpcDataAfterCtsSpc" /\ slot = "FIRST"
                   /\ \E spc \in BOOLEAN : m = SendSpcDataAfterCtsSpc(Pop(macs[n], e), spc)
<1>1. PICK n \in Addrs : \E e \in macs[n].ev : \E slot, m : Ran(n, e, slot, m)
  <2>1. CASE FireSendUnicastDataAfterCts
    BY <2>1 DEF FireSendUnicastDataAfterCts, Runs
  <2>2. CASE FireSendSpcDataAfterCtsSpc
    BY <2>2 DEF FireSendSpcDataAfterCtsSpc, Runs
  <2> QED
    BY <2>1, <2>2
<1>2. PICK e \in macs[n].ev : \E slot, m : Ran(n, e, slot, m)
  BY <1>1
<1>3. PICK slot, m : Ran(n, e, slot, m)
  BY <1>2
<1>4. Moves(macs[n], n, IF m.rxing THEN heard[n] ELSE NoSignal, CtsIn(macs, air, n), m)
  BY <1>3, Before, DataMoves
<1>5. Shifts(macs[n], m)
  BY <1>3, Before, DataShifts
<1>6. AskedFor(m) /\ Told(n, m.sent, 0)
  <2> DEFINE p == Pop(macs[n], e)
  <2>1. Guarded(p, Ctss(n, CtsIn(macs, air, n))) /\ p.sent = NoFrame
    BY <1>3, Before, Popped
  <2>2. \/ m = SendUnicastDataAfterCts(p)
        \/ \E spc \in BOOLEAN : m = SendSpcDataAfterCtsSpc(p, spc)
    BY <1>3
  <2> HIDE DEF p
  <2>3. m.sent = NoFrame \/ m.sent.type \in {"DATA", "DATA_SPC"}
    BY <2>1, <2>2, SendDataGuarded
  <2> QED
    BY <2>3, NothingAsked
<1>7. \A d \in Addrs : \A i \in DOMAIN owed'[d] : Tells(d, owed'[d][i].rssi)
  BY <1>3 DEF LevelInv
<1> QED
  BY <1>3, <1>4, <1>5, <1>6, <1>7, Before, SendsLevel

\* An answer leaves.
LEMMA ReplyLevel ==
  ASSUME NetInv, PlaceInv, LevelInv, Keeping, NEW n \in Addrs, NEW rssi \in Rssi,
         NEW e \in Due(macs[n]), e.k \in ReplyKinds,
         Tells(n, rssi) \/ e.k = "SendAckAfterData",
         Sends(n, StartSend(Pop(macs[n], e), e.arg), "FIRST", rssi),
         \A d \in Addrs : \A i \in DOMAIN owed'[d] : Tells(d, owed'[d][i].rssi)
  PROVE  LevelInv'
<1> DEFINE m == StartSend(Pop(macs[n], e), e.arg)
<1>1. Moves(macs[n], n, IF m.rxing THEN heard[n] ELSE NoSignal, CtsIn(macs, air, n), m)
  BY Before, ReplyMoves
<1>2. Shifts(macs[n], m)
  BY Before, ReplyShifts
<1>3. m.sent = e.arg /\ Replies(e.k, e.arg, n)
  <2>1. LET p == Pop(macs[n], e) IN Sound(p) /\ Hearing(p)
    BY Before, PoppedKeeps
  <2>2. Good(macs[n]) /\ macs[n].addr = n /\ e \in macs[n].ev
    BY Before DEF Behaves, Due
  <2> QED
    BY <2>1, <2>2, SendStep DEF Good, Fresh, ArgsOK
<1>4. AskedFor(m) /\ Told(n, m.sent, rssi)
  BY <1>3 DEF AskedFor, Told, IsType, Replies
<1>5. Sends(n, m, "FIRST", rssi)
  OBVIOUS
<1> HIDE DEF m
<1> QED
  BY <1>1, <1>2, <1>4, <1>5, SendsLevel

LEMMA RepliesLevel ==
  ASSUME NetInv, PlaceInv, LevelInv, Keeping, FireCts \/ FireSendAckAfterData
  PROVE  LevelInv'
<1>1. CASE FireSendAckAfterData
  <2>1. PICK n \in Addrs : \E e \in macs[n].ev :
          /\ Runs(n, e, "SendAckAfterData")
          /\ Sends(n, StartSend(Pop(macs[n], e), e.arg), "FIRST", 0)
          /\ UNCHANGED owed
    BY <1>1 DEF FireSendAckAfterData
  <2>2. PICK e \in macs[n].ev :
          /\ e \in Due(macs[n]) /\ e.k = "SendAckAfterData" /\ UNCHANGED owed
          /\ Sends(n, StartSend(Pop(macs[n], e), e.arg), "FIRST", 0)
    BY <2>1 DEF Runs
  <2>3. \A d \in Addrs : \A i \in DOMAIN owed'[d] : Tells(d, owed'[d][i].rssi)
    BY <2>2 DEF LevelInv
  <2>4. 0 \in Rssi /\ e.k \in ReplyKinds
    BY <2>2 DEF Rssi, ReplyKinds
  <2> QED
    BY <2>2, <2>3, <2>4, ReplyLevel
<1>2. CASE FireCts
  <2>1. PICK n \in Addrs : \E e \in macs[n].ev, i \in DOMAIN owed[n] :
          /\ Runs(n, e, "SendCtsAfterRts") \/ Runs(n, e, "SendCtsSpcAfterRtsSpc")
          /\ Sends(n, StartSend(Pop(macs[n], e), e.arg), "FIRST", owed[n][i].rssi)
          /\ owed' = [owed EXCEPT ![n] = Seqs!RemoveAt(owed[n], i)]
    BY <1>2 DEF FireCts
  <2>2. PICK e \in macs[n].ev, i \in DOMAIN owed[n] :
          /\ Runs(n, e, "SendCtsAfterRts") \/ Runs(n, e, "SendCtsSpcAfterRtsSpc")
          /\ Sends(n, StartSend(Pop(macs[n], e), e.arg), "FIRST", owed[n][i].rssi)
          /\ owed' = [owed EXCEPT ![n] = Seqs!RemoveAt(owed[n], i)]
    BY <2>1
  <2>3. e \in Due(macs[n]) /\ e.k \in ReplyKinds
    BY <2>2 DEF Runs, ReplyKinds
  <2> DEFINE S == {a \in Answer : Tells(n, a.rssi)}
  <2>4. owed \in [Addrs -> Seq(Answer)]
    BY Before DEF TypeOK, Answer
  <2>5. \A j \in DOMAIN owed[n] : owed[n][j] \in S
    <3>1. \A j \in DOMAIN owed[n] : owed[n][j] \in Answer
      BY <2>4
    <3> QED
      BY <3>1 DEF LevelInv
  <2>6. \A a \in S : a.rssi \in Rssi /\ Tells(n, a.rssi)
    BY DEF Answer
  <2> HIDE DEF S
  <2>7. owed[n][i].rssi \in Rssi /\ Tells(n, owed[n][i].rssi)
    BY <2>5, <2>6
  <2>8. Seqs!RemoveAt(owed[n], i) \in Seq(S)
    <3>1. owed[n] \in Seq(S)
      BY <2>4, <2>5
    <3> QED
      BY <3>1, RemovedFrom
  <2>9. \A d \in Addrs : \A j \in DOMAIN owed'[d] : Tells(d, owed'[d][j].rssi)
    <3> SUFFICES ASSUME NEW d \in Addrs, NEW j \in DOMAIN owed'[d]
                 PROVE  Tells(d, owed'[d][j].rssi)
      OBVIOUS
    <3>1. CASE d # n
      BY <2>2, <2>4, <3>1 DEF LevelInv
    <3>2. CASE d = n
      <4>1. owed'[n] \in Seq(S)
        BY <2>2, <2>4, <2>8
      <4>2. owed'[n][j] \in S
        BY <3>2, <4>1
      <4> QED
        BY <2>6, <3>2, <4>2
    <3> QED
      BY <3>1, <3>2
  <2> QED
    BY <2>2, <2>3, <2>7, <2>9, ReplyLevel
<1> QED
  BY <1>1, <1>2

\* What a reception that ends tells station n is true.
LEMMA LearnsLevel ==
  ASSUME NetInv, LevelInv, NEW n \in Addrs, NEW e \in macs[n].ev, e.k = "EndReceive",
         NEW d \in Addrs, d \in Measured(macs[n], heard[n].frame)
  PROVE  d \in Peers(n) /\ heard[n].rssi = Level(n, d)
<1> DEFINE s == heard[n]
<1>1. s # NoSignal /\ e.arg = s.frame /\ macs[n].addr = n
  BY Before DEF Behaves, Hears
<1>2. s.from \in Addrs /\ Honest(s)
  <2>1. s \in Signals
    BY <1>1, Before DEF TypeOK
  <2> QED
    BY <1>1, <2>1 DEF Signals, LevelInv
<1>3. d \in Where(n) => d \in Peers(n)
  BY ValueAssumption DEF Where
<1>4. {macs[n].h1, macs[n].h2} \subseteq Where(n)
  BY DEF LevelInv
<1>5. CASE s.frame.type = "CTS"
  <2>1. s.frame.a1 = n /\ d = CurrentAddr(macs[n])
    BY <1>1, <1>5 DEF Measured
  <2>2. View(e) \in MarksOf(macs[n]) /\ View(e).k = "EndReceive" /\ View(e).arg = e.arg
    BY DEF MarksOf, Marked, View
  <2>3. CtsTo(View(e).arg, n)
    BY <1>1, <1>5, <2>1, <2>2 DEF CtsTo
  <2>4. CtsFrom(macs, air, heard, s.from, n)
    BY <2>2, <2>3 DEF CtsFrom
  <2>5. s.from = d
    BY <1>2, <2>1, <2>4 DEF LevelInv
  <2>6. d \in Peers(n)
    BY <1>3, <1>4, <2>1 DEF CurrentAddr
  <2> QED
    BY <1>2, <1>5, <2>5, <2>6 DEF Honest, Tells
<1>6. CASE s.frame.type = "CTS_SPC"
  <2>1. d = s.frame.a1 /\ d \in {macs[n].h1, macs[n].h2}
    BY <1>6 DEF Measured
  <2>2. s.from = d /\ d \in Peers(n)
    BY <1>2, <1>3, <1>4, <1>6, <2>1 DEF Honest
  <2> QED
    BY <1>2, <1>6, <2>2 DEF Honest, Tells
<1>7. s.frame.type = "CTS" \/ s.frame.type = "CTS_SPC"
  BY DEF Measured
<1> QED
  BY <1>5, <1>6, <1>7

\* What station n will answer, when it was asked, is true for whoever asks it.
LEMMA AnswersTell ==
  ASSUME OneSource, NEW n \in Addrs, NEW s, s.from \in Addrs, Honest(s), Asks(n, s.frame)
  PROVE  Tells(n, ConvertRssiToDbm(Power[s.from][n]))
<1>1. n \in Where(s.from)
  BY DEF Asks, Honest
<1>2. n \in Peers(s.from)
  BY <1>1, ValueAssumption DEF Where
<1>3. ASSUME NEW k \in Addrs, n \in Peers(k) PROVE k = s.from
  BY <1>2, <1>3 DEF OneSource
<1> QED
  BY <1>3 DEF Tells, Level

LEMMA EndReceiveLevel ==
  ASSUME OneSource, NetInv, PlaceInv, LevelInv, Keeping, FireEndReceive
  PROVE  LevelInv'
<1>1. PICK n \in Addrs, ok1 \in BOOLEAN, ok2 \in BOOLEAN, draw \in Draws :
        \E e \in macs[n].ev : Ends(n, e, ok1, ok2, draw)
  BY ReceptionEnds
<1>2. PICK e \in macs[n].ev : Ends(n, e, ok1, ok2, draw)
  BY <1>1
<1> DEFINE m == Ended(n, e, ok1, ok2, draw)
           s == heard[n]
           w == [due |-> CtsDelay(n, s.frame), rssi |-> ConvertRssiToDbm(Power[s.from][n])]
<1>3. e \in Due(macs[n]) /\ e.k = "EndReceive"
  BY <1>2 DEF Ends, Runs
<1>4. /\ s # NoSignal /\ m.sent = NoFrame
      /\ Moves(macs[n], n, NoSignal, CtsIn(macs, air, n), m)
  BY <1>3, Before, ReceptionMoves DEF Ended
<1>5. Shifts(macs[n], m)
  BY <1>3, Before, ReceptionShifts DEF Ended
<1>6. /\ Does(n, m, "FIRST", 0) /\ heard' = [heard EXCEPT ![n] = NoSignal]
      /\ offers' = offers
  BY <1>2 DEF Ends
<1>7. AskedFor(m) /\ Told(n, m.sent, 0)
  BY <1>4, NothingAsked
<1> HIDE DEF m
<1>8. {m.h1, m.h2} \subseteq Where(n)
  <2>1. Labelled(m, Noted(info[n], m), Mine(n)')
    BY <1>5, <1>6, ShiftsPlace
  <2>2. macs[n].q \in Seq(Packets) /\ {macs[n].h1, macs[n].h2} \subseteq Where(n)
    BY Before DEF Stations, LevelInv
  <2> QED
    BY <1>5, <2>1, <2>2, MineWhere, LabelsWhere
<1>9. /\ \A d \in Addrs : {macs'[d].h1, macs'[d].h2} \subseteq Where(d)
      /\ \A x \in air' : Honest(x)
      /\ \A d \in Addrs : heard'[d] # NoSignal => Honest(heard'[d])
      /\ \A k, d \in Addrs : CtsFrom(macs', air', heard', d, k) => d = CurrentAddr(macs'[k])
  BY <1>4, <1>6, <1>7, <1>8, Before, DoesLevel
<1>10. Honest(s) /\ s.from \in Addrs
  <2>1. s \in Signals
    BY <1>4, Before DEF TypeOK
  <2> QED
    BY <1>4, <2>1 DEF LevelInv, Signals
<1>11. \A d \in Addrs : \A i \in DOMAIN owed'[d] : Tells(d, owed'[d][i].rssi)
  <2> SUFFICES ASSUME NEW d \in Addrs, NEW i \in DOMAIN owed'[d]
               PROVE  Tells(d, owed'[d][i].rssi)
    OBVIOUS
  <2>1. owed \in [Addrs -> Seq(Answer)]
    BY Before DEF TypeOK, Answer
  <2>2. \/ owed' = owed
        \/ Asks(n, s.frame) /\ owed' = [owed EXCEPT ![n] = Append(owed[n], w)]
    BY <1>2, <2>1 DEF Ends
  <2>3. Asks(n, s.frame) => Tells(n, w.rssi)
    BY <1>10, AnswersTell
  <2> HIDE DEF w
  <2>4. CASE owed'[d] = owed[d]
    BY <2>4 DEF LevelInv
  <2>5. CASE d = n /\ Tells(n, w.rssi) /\ owed'[n] = Append(owed[n], w)
    <3>1. owed'[n][i] = w \/ (i \in DOMAIN owed[n] /\ owed'[n][i] = owed[n][i])
      BY <2>1, <2>5
    <3> QED
      BY <2>5, <3>1 DEF LevelInv
  <2> QED
    BY <2>1, <2>2, <2>3, <2>4, <2>5
<1>12. ASSUME NEW k \in Addrs, NEW d \in Addrs, table'[k][d] # Unknown
       PROVE  d \in Peers(k) /\ table'[k][d] = ConvertRssiToW(Level(k, d))
  <2>1. table \in [Addrs -> [Addrs -> Int \cup {Unknown}]]
    BY Before DEF TypeOK
  <2>2. CASE k = n /\ d \in Learned(n, ok1)
    <3>1. table'[n][d] = ConvertRssiToW(s.rssi)
      BY <1>2, <2>1, <2>2 DEF Ends
    <3>2. d \in Measured(macs[n], s.frame)
      BY <2>2 DEF Learned
    <3> QED
      BY <1>3, <2>2, <3>1, <3>2, LearnsLevel
  <2>3. CASE ~(k = n /\ d \in Learned(n, ok1))
    <3>1. table'[k][d] = table[k][d]
      BY <1>2, <2>1, <2>3 DEF Ends
    <3> QED
      BY <1>12, <3>1 DEF LevelInv
  <2> QED
    BY <2>2, <2>3
<1> QED
  BY <1>9, <1>11, <1>12 DEF LevelInv, CtsFrom, CurrentAddr

LEMMA SendLevel ==
  ASSUME NetInv, PlaceInv, LevelInv, Keeping, Send
  PROVE  LevelInv'
<1>1. PICK o \in offers, draw \in Draws :
        /\ Does(o.src, Enqueue(macs[o.src], o.pkt, draw), "FIRST", 0)
        /\ offers' = offers \ {o} /\ UNCHANGED <<owed, table, heard>>
  BY DEF Send
<1> DEFINE n == o.src
           m == Enqueue(macs[n], o.pkt, draw)
           q == Queued(macs[n], o.pkt)
<1>2. o \in Offers /\ n \in Addrs /\ o.pkt \in Packets
  BY Before, NetworkAssumption DEF TypeOK
<1>3. m.sent = NoFrame /\ Moves(macs[n], n, heard[n], CtsIn(macs, air, n), m)
  BY <1>2, Before, EnqueueMoves
<1>4. o.pkt \in Mine(n)' /\ Mine(n) \subseteq Mine(n)'
  <2>1. o \in Offers \ offers' /\ offers' \subseteq offers
    BY <1>1, <1>2
  <2> QED
    BY <2>1, MineGrows DEF Mine
<1>5. Labelled(macs[n], info[n], Mine(n)')
  BY <1>2, <1>4, LabelledMore DEF PlaceInv
<1>6. Sound(macs[n]) /\ macs[n] \in Stations
  BY <1>2, Before DEF Behaves, Guarded
<1>7. Labelled(m, Noted(info[n], m), Mine(n)')
  BY <1>2, <1>4, <1>5, <1>6, EnqueueShifts
<1>8. Does(n, m, "FIRST", 0)
  BY <1>1
<1>9. /\ q = [macs[n] EXCEPT !.q = q.q, !.sent = NoFrame]
      /\ q.q = (IF Len(macs[n].q) = QueueMax THEN macs[n].q ELSE Append(macs[n].q, o.pkt))
      /\ Backs(q, m, macs[n].p1, macs[n].p2)
  BY <1>6, EnqueueBacks
<1> HIDE DEF n, m, q
<1>10. {m.h1, m.h2} \subseteq Where(n)
  <2>1. /\ q.p1 = macs[n].p1 /\ q.p2 = macs[n].p2
        /\ q.h1 = macs[n].h1 /\ q.h2 = macs[n].h2
    BY <1>6, <1>9 DEF Sound
  <2>2. q.q \in Seq(Packets)
    <3>1. macs[n].q \in Seq(Packets)
      BY <1>6 DEF Stations
    <3> QED
      BY <1>2, <1>9, <3>1
  <2>3. Shifts(q, m)
    BY <1>9, <2>1 DEF Backs, Shifts
  <2>4. {q.h1, q.h2} \subseteq Where(n)
    BY <1>2, <2>1 DEF LevelInv
  <2> QED
    BY <1>2, <1>7, <2>2, <2>3, <2>4, MineWhere, LabelsWhere
<1>11. AskedFor(m) /\ Told(n, m.sent, 0)
  BY <1>3, NothingAsked
<1>12. heard' = [heard EXCEPT ![n] = heard[n]]
  BY <1>1, <1>2, Before DEF TypeOK
<1>13. 0 \in Rssi
  BY DEF Rssi
<1>14. /\ \A d \in Addrs : {macs'[d].h1, macs'[d].h2} \subseteq Where(d)
       /\ \A x \in air' : Honest(x)
       /\ \A d \in Addrs : heard'[d] # NoSignal => Honest(heard'[d])
       /\ \A k, d \in Addrs : CtsFrom(macs', air', heard', d, k) => d = CurrentAddr(macs'[k])
  BY <1>2, <1>3, <1>8, <1>10, <1>11, <1>12, <1>13, DoesLevel
<1> QED
  BY <1>1, <1>14 DEF LevelInv, CtsFrom, CurrentAddr

\* The marked events of a station that a signal of frame f reaches.
LEMMA ArrivalMarks ==
  ASSUME NEW n, NEW m, NEW h, NEW C \in SUBSET Nat, Behaves(m, n, h, C), NEW f \in Frames
  PROVE  LET new == [k |-> "EndReceive", due |-> AirTime(f), arg |-> f]
         IN /\ MarksOf(StartReceive(m, f)) \subseteq MarksOf(m) \cup {new}
            /\ MarksOf(NotifyMaybeCcaBusyStartNow(m, AirTime(f))) \subseteq MarksOf(m)
<1> DEFINE new == [k |-> "EndReceive", due |-> AirTime(f), arg |-> f]
           B == MarksOf(m) \cup {new}
           s == StartReceive(m, f)
           b == NotifyMaybeCcaBusyStartNow(m, AirTime(f))
<1>1. Deferring(m, MarksOf(m))
  BY DEF Behaves
<1>2. Deferring(m, B) /\ new \in B
  BY <1>1, DeferringMarks
<1>3. Deferring(s, B) /\ Deferring(b, MarksOf(m))
  BY <1>1, <1>2, ReceptionCalm DEF Calm
<1> QED
  BY <1>3, DeferringMarks

LEMMA ArriveLevel ==
  ASSUME NetInv, LevelInv, Arrive
  PROVE  LevelInv'
<1> DEFINE Rx(s) == Power[s.from][s.to] >= Threshold /\ CanReceive(macs[s.to])
           Mac(s) == IF Rx(s) THEN StartReceive(macs[s.to], s.frame)
                     ELSE NotifyMaybeCcaBusyStartNow(macs[s.to], AirTime(s.frame))
           Signal(s) == IF Rx(s) THEN [s EXCEPT !.clear = noise[s.to] <= 0]
                        ELSE IF heard[s.to] = NoSignal THEN heard[s.to]
                        ELSE [heard[s.to] EXCEPT !.clear = FALSE]
<1>1. PICK s \in air :
        /\ macs' = [macs EXCEPT ![s.to] = Mac(s)]
        /\ heard' = [heard EXCEPT ![s.to] = Signal(s)]
        /\ air' = air \ {s} /\ owed' = owed /\ table' = table
  BY DEF Arrive
<1> DEFINE n == s.to
           m == Mac(s)
           h == Signal(s)
           new == [k |-> "EndReceive", due |-> AirTime(s.frame), arg |-> s.frame]
<1>2. /\ s \in Signals /\ n \in Addrs /\ s.from \in Addrs /\ s.frame \in Frames
      /\ macs \in [Addrs -> Stations] /\ heard \in [Addrs -> Signals \cup {NoSignal}]
  <2>1. /\ air \in SUBSET Signals /\ macs \in [Addrs -> Stations]
        /\ heard \in [Addrs -> Signals \cup {NoSignal}]
    BY Before DEF TypeOK
  <2> QED
    BY <2>1 DEF Signals
<1>3. \A x \in Signals : \A c : LET y == [x EXCEPT !.clear = c]
        IN y.from = x.from /\ y.frame = x.frame /\ y.rssi = x.rssi
  BY DEF Signals
<1>4. \A x \in Signals : \A c : Honest(x) => Honest([x EXCEPT !.clear = c])
  BY <1>3 DEF Honest
<1>5. heard[n] # NoSignal => heard[n] \in Signals /\ Honest(heard[n])
  BY <1>2 DEF LevelInv
<1>6. /\ h # NoSignal => Honest(h)
      /\ IF Rx(s) THEN h.from = s.from /\ h.frame = s.frame
                  ELSE h.from = heard[n].from
  <2>1. CASE Rx(s)
    <3>1. h = [s EXCEPT !.clear = noise[n] <= 0] /\ Honest(s)
      BY <2>1 DEF LevelInv
    <3> HIDE DEF h
    <3> QED
      BY <1>2, <1>3, <1>4, <2>1, <3>1
  <2>2. CASE ~Rx(s)
    <3>1. h = IF heard[n] = NoSignal THEN heard[n] ELSE [heard[n] EXCEPT !.clear = FALSE]
      BY <2>2
    <3> HIDE DEF h
    <3> QED
      BY <1>3, <1>4, <1>5, <2>2, <3>1
  <2> QED
    BY <2>1, <2>2
<1>7. /\ m.h1 = macs[n].h1 /\ m.h2 = macs[n].h2 /\ m.st = macs[n].st
  BY <1>2 DEF StartReceive, Schedule, NotifyMaybeCcaBusyStartNow, Stations
<1>8. \A v \in MarksOf(m) : v \in MarksOf(macs[n]) \/ (Rx(s) /\ v = new)
  <2>1. Behaves(macs[n], n, heard[n], CtsIn(macs, air, n)) /\ CtsIn(macs, air, n) \in SUBSET Nat
    BY <1>2, Before
  <2> QED
    BY <1>2, <2>1, ArrivalMarks
<1>9. macs'[n] = m /\ heard'[n] = h
  BY <1>1, <1>2
<1> HIDE DEF m, h
<1>10. \A d \in Addrs \ {n} : macs'[d] = macs[d] /\ heard'[d] = heard[d]
  BY <1>1, <1>2
<1>11. Hears(macs'[n], heard'[n])
  <2>1. (NetInv)'
    BY ArriveNet
  <2> QED
    BY <1>2, <2>1 DEF NetInv, Behaves
<1>12. ASSUME NEW k \in Addrs
       PROVE  /\ macs'[k].h1 = macs[k].h1 /\ macs'[k].h2 = macs[k].h2
              /\ CurrentAddr(macs'[k]) = CurrentAddr(macs[k])
  BY <1>7, <1>9, <1>10 DEF CurrentAddr
<1>13. ASSUME NEW k \in Addrs, NEW d \in Addrs, CtsFrom(macs', air', heard', d, k)
       PROVE  CtsFrom(macs, air, heard, d, k)
  <2>1. CASE \E x \in air' : \/ x.to = d /\ Calls(x.frame, d, k)
                             \/ x.from = d /\ x.to = k /\ CtsTo(x.frame, k)
    BY <1>1, <2>1 DEF CtsFrom
  <2>2. CASE \E t \in Nat : Offered(MarksOf(macs'[d]), d, k, t)
    <3>1. CASE d # n
      BY <1>10, <2>2, <3>1 DEF CtsFrom
    <3>2. CASE d = n
      <4>1. PICK t \in Nat, v \in MarksOf(m) :
              \/ v.k = "EndReceive" /\ Calls(v.arg, d, k) /\ t = v.due + Sifs
              \/ v.k \in ReplyKinds /\ CtsTo(v.arg, k) /\ t = v.due
        BY <1>9, <2>2, <3>2 DEF Offered
      <4>2. CASE v \in MarksOf(macs[n])
        BY <3>2, <4>1, <4>2 DEF CtsFrom, Offered
      <4>3. CASE v = new
        <5>1. v.k = "EndReceive" /\ v.arg = s.frame
          BY <4>3
        <5>2. Calls(s.frame, d, k)
          BY <4>1, <5>1 DEF ReplyKinds
        <5> QED
          BY <3>2, <5>2 DEF CtsFrom
      <4> QED
        BY <1>8, <4>2, <4>3
    <3> QED
      BY <3>1, <3>2
  <2>3. CASE /\ heard'[k].from = d
             /\ \E v \in MarksOf(macs'[k]) : v.k = "EndReceive" /\ CtsTo(v.arg, k)
    <3>1. CASE k # n
      BY <1>10, <2>3, <3>1 DEF CtsFrom
    <3>2. CASE k = n
      <4>1. PICK v \in MarksOf(m) : v.k = "EndReceive" /\ CtsTo(v.arg, n)
        BY <1>9, <2>3, <3>2
      <4>2. CASE Rx(s)
        <5>1. PICK y \in m.ev : v = View(y)
          BY <4>1 DEF MarksOf
        <5>2. y.k = "EndReceive" /\ y.arg = v.arg
          BY <4>1, <5>1 DEF View
        <5>3. v.arg = s.frame /\ s.from = d
          BY <1>6, <1>9, <1>11, <2>3, <3>2, <4>2, <5>2 DEF Hears
        <5> QED
          BY <3>2, <4>1, <5>3 DEF CtsFrom
      <4>3. CASE ~Rx(s)
        <5>1. v \in MarksOf(macs[n]) /\ heard[n].from = d
          BY <1>6, <1>8, <1>9, <2>3, <3>2, <4>3
        <5> QED
          BY <3>2, <4>1, <5>1 DEF CtsFrom
      <4> QED
        BY <4>2, <4>3
    <3> QED
      BY <3>1, <3>2
  <2> QED
    BY <1>13, <2>1, <2>2, <2>3 DEF CtsFrom
<1>14. \A k \in Addrs : {macs'[k].h1, macs'[k].h2} \subseteq Where(k)
  BY <1>12 DEF LevelInv
<1>15. \A k, d \in Addrs : CtsFrom(macs', air', heard', d, k) => d = CurrentAddr(macs'[k])
  BY <1>12, <1>13 DEF LevelInv
<1>16. \A k \in Addrs : heard'[k] # NoSignal => Honest(heard'[k])
  BY <1>6, <1>9, <1>10 DEF LevelInv
<1>17. \A x \in air' : Honest(x)
  BY <1>1 DEF LevelInv
<1> QED
  BY <1>1, <1>14, <1>15, <1>16, <1>17 DEF LevelInv, CtsFrom, CurrentAddr

LEMMA TickLevel ==
  ASSUME NetInv, LevelInv, Tick
  PROVE  LevelInv'
<1>1. /\ air = {} /\ air' = {} /\ heard' = heard /\ table' = table
      /\ macs' = [n \in Addrs |-> Elapse(macs[n])]
      /\ owed' = [n \in Addrs |->
                    [i \in DOMAIN owed[n] |-> [owed[n][i] EXCEPT !.due = @ - 1]]]
  BY DEF Tick
<1>2. ASSUME NEW k \in Addrs
      PROVE  /\ macs'[k].h1 = macs[k].h1 /\ macs'[k].h2 = macs[k].h2
             /\ CurrentAddr(macs'[k]) = CurrentAddr(macs[k])
             /\ macs[k] \in Stations /\ macs'[k] = Elapse(macs[k])
             /\ \A v \in MarksOf(macs'[k]) : \E w \in MarksOf(macs[k]) :
                  v.k = w.k /\ v.arg = w.arg /\ w.due = v.due + 1
  <2>1. macs[k] \in Stations /\ macs'[k] = Elapse(macs[k])
    BY <1>1, Before
  <2>2. /\ Elapse(macs[k]).h1 = macs[k].h1 /\ Elapse(macs[k]).h2 = macs[k].h2
        /\ Elapse(macs[k]).st = macs[k].st
    BY <2>1 DEF Elapse, Stations
  <2> QED
    BY <2>1, <2>2, ElapsedMarks DEF CurrentAddr
<1>3. ASSUME NEW k \in Addrs, NEW d \in Addrs, CtsFrom(macs', air', heard', d, k)
      PROVE  CtsFrom(macs, air, heard, d, k)
  <2>1. CASE \E t \in Nat : Offered(MarksOf(macs'[d]), d, k, t)
    <3>1. PICK t \in Nat : Offered(MarksOf(Elapse(macs[d])), d, k, t)
      BY <1>2, <2>1
    <3>2. t + 1 \in Nat /\ Offered(MarksOf(macs[d]), d, k, t + 1)
      BY <1>2, <3>1, OfferNearer
    <3> QED
      BY <3>2 DEF CtsFrom
  <2>2. CASE /\ heard'[k].from = d
             /\ \E v \in MarksOf(macs'[k]) : v.k = "EndReceive" /\ CtsTo(v.arg, k)
    BY <1>1, <1>2, <2>2 DEF CtsFrom
  <2> QED
    BY <1>1, <1>3, <2>1, <2>2 DEF CtsFrom
<1>4. \A k \in Addrs : {macs'[k].h1, macs'[k].h2} \subseteq Where(k)
  BY <1>2 DEF LevelInv
<1>5. \A k, d \in Addrs : CtsFrom(macs', air', heard', d, k) => d = CurrentAddr(macs'[k])
  BY <1>2, <1>3 DEF LevelInv
<1>6. \A k \in Addrs : \A i \in DOMAIN owed'[k] : Tells(k, owed'[k][i].rssi)
  <2> SUFFICES ASSUME NEW k \in Addrs, NEW i \in DOMAIN owed'[k]
               PROVE  Tells(k, owed'[k][i].rssi)
    OBVIOUS
  <2>1. i \in DOMAIN owed[k] /\ owed'[k][i] = [owed[k][i] EXCEPT !.due = @ - 1]
    BY <1>1
  <2>2. owed[k][i] \in Answer
    <3>1. owed \in [Addrs -> Seq(Answer)]
      BY Before DEF TypeOK, Answer
    <3> QED
      BY <2>1, <3>1
  <2>3. owed'[k][i].rssi = owed[k][i].rssi
    BY <2>1, <2>2 DEF Answer
  <2> QED
    BY <2>1, <2>3 DEF LevelInv
<1> QED
  BY <1>1, <1>4, <1>5, <1>6 DEF LevelInv, CtsFrom, CurrentAddr

LEMMA InitLevel == Init => LevelInv
<1> SUFFICES ASSUME Init PROVE LevelInv
  OBVIOUS
<1>1. ASSUME NEW n \in Addrs
      PROVE  /\ macs[n].h1 = NoAddr /\ macs[n].h2 = NoAddr /\ MarksOf(macs[n]) = {}
             /\ owed[n] = <<>> /\ heard[n] = NoSignal
             /\ \A d \in Addrs : table[n][d] = Unknown
  <2>1. macs[n] = SpcMacInit(n, "FIRST", FALSE)
    BY DEF Init
  <2>2. macs[n].h1 = NoAddr /\ macs[n].h2 = NoAddr /\ macs[n].ev = {}
    BY <2>1 DEF SpcMacInit
  <2> QED
    BY <2>2 DEF MarksOf, Init
<1>2. air = {}
  BY DEF Init
<1>3. \A n, d \in Addrs : ~CtsFrom(macs, air, heard, d, n)
  BY <1>1, <1>2 DEF CtsFrom, Offered
<1> QED
  BY <1>1, <1>2, <1>3 DEF LevelInv, Where

LEMMA NextLevel ==
  ASSUME OneSource, NetInv, PlaceInv, LevelInv, [Next]_vars, [Keeping]_vars
  PROVE  LevelInv'
<1>1. CASE UNCHANGED vars
  <2>1. UNCHANGED <<macs, air, heard, owed, table>>
    BY <1>1 DEF vars
  <2> QED
    BY <2>1 DEF LevelInv, CtsFrom, CurrentAddr
<1>2. CASE Next /\ Keeping
  <2>1. CASE Fire
    BY <1>2, <2>1, TimeoutsLevel, BackoffTimeoutLevel, DataLevel, RepliesLevel,
       EndReceiveLevel DEF Fire
  <2> QED
    BY <1>2, <2>1, SendLevel, ArriveLevel, TickLevel DEF Next
<1> QED
  BY <1>1, <1>2

\* The handler of a CTS files the power it reads under CurrentAddr and that of a
\* CTS_SPC under its sender, and neither knows whose frame it was measured of.
\* As long as no two stations send to the same one, and a station that waits for
\* a CTS goes on meaning the station it asked, what is learned of a station is
\* nevertheless the power at which that one was reached, and is not better than
\* it is and at most 1 dB worse, whatever is lost, repeated or broken off.
THEOREM PowerIsLearned ==
  ASSUME OneSource, InRange
  PROVE  Spec /\ KeepsDestination => []LearnedPower
<1>1. Init => NetInv /\ PlaceInv /\ LevelInv
  BY InitNet, InitPlace, InitLevel
<1>2. (NetInv /\ PlaceInv /\ LevelInv) /\ [Next]_vars /\ [Keeping]_vars =>
        (NetInv /\ PlaceInv /\ LevelInv)'
  BY NextNet, NextPlace, NextLevel
<1>3. NetInv /\ PlaceInv /\ LevelInv => LearnedPower
  <2> SUFFICES ASSUME LevelInv, NEW n \in Addrs, NEW d \in Addrs, table[n][d] # Unknown
               PROVE  table[n][d] < Power[n][d] /\ Power[n][d] - 10 <= table[n][d]
    BY DEF LearnedPower
  <2>1. d \in Peers(n) /\ table[n][d] = ConvertRssiToW(ConvertRssiToDbm(Power[n][d]))
    BY DEF LevelInv, Level
  <2>2. -1270 < Power[n][d] /\ Power[n][d] < 0
    BY <2>1 DEF InRange
  <2>3. Power[n][d] \in Int
    BY NetworkAssumption
  <2> QED
    BY <2>1, <2>2, <2>3, PowerIsNotOverstated
<1>4. KeepsDestination <=> [][Keeping]_vars
  BY PTL DEF KeepsDestination, Keeping
<1> QED
  BY <1>1, <1>2, <1>3, <1>4, PTL DEF Spec
=============================================================================
