---------------------------- MODULE SpcMacHeader ----------------------------
(***************************************************************************)
(* What ns3::SpcMacHeader (src/spc-mac/model/spc-mac-header.cc) puts into a *)
(* frame and reads out of it, and the byte in which a CTS or a CTS_SPC      *)
(* reports the power at which its sender received the RTS                   *)
(* (SpcMac::ConvertRssiToDbm and ConvertRssiToW in spc-mac.cc).             *)
(*                                                                         *)
(* A serialized header is the sequence of the fields written, each of the  *)
(* width the code gives it.  Powers are in tenths of dBW: the level of x W *)
(* is 100 * log10 (x), rounded.                                            *)
(***************************************************************************)
EXTENDS SpcMac

\* TYPE_DATA .. TYPE_ACK
CtrlType == [DATA     |-> 0, RTS     |-> 1, CTS     |-> 2,
             DATA_SPC |-> 3, RTS_SPC |-> 4, CTS_SPC |-> 5, ACK |-> 6]
SpcNumber == [FIRST |-> 0, SECOND |-> 1]

Rssi == 0 .. 255

\* GetFrameControl: three bits of type, one bit of m_spcNum.
GetFrameControl(type, spcNum) == (CtrlType[type] % 8) + 8 * (spcNum % 2)

\* SetFrameControl and GetType
TypeOf(ctrl)   == CHOOSE t \in FrameTypes : CtrlType[t] = ctrl % 8
SpcNumOf(ctrl) == CHOOSE n \in SpcNums : SpcNumber[n] = (ctrl \div 8) % 2

\* junk: m_spcNum is set in an ACK only and any byte before.
SpcNumWritten(f, junk) == IF f.type = "ACK" THEN SpcNumber[f.spc] ELSE junk

\* SetDuration cuts the duration to whole microseconds and asserts that they
\* fit 15 bits.  f.dur is in slots of 9 us, so the cut is below what is told
\* apart here.
Serialize(f, rssi, junk) ==
  LET c == GetFrameControl(f.type, SpcNumWritten(f, junk))
  IN CASE f.type \in {"DATA", "RTS", "RTS_SPC"} -> <<c, f.dur, f.a1, f.a2>>
       [] f.type = "DATA_SPC"        -> <<c, f.dur, f.a1, f.a2, f.a3>>
       [] f.type \in {"CTS", "CTS_SPC"}         -> <<c, f.dur, f.a1, rssi>>
       [] f.type = "ACK"                        -> <<c, f.dur, f.a1>>

\* The header as the receiver sees it.  What it reads of m_spcNum but in an
\* ACK nobody asks for.
Deserialize(w) ==
  LET t == TypeOf(w[1])
  IN Frame(t, w[3],
           IF t \in {"DATA", "RTS", "RTS_SPC", "DATA_SPC"} THEN w[4] ELSE NoAddr,
           IF t = "DATA_SPC" THEN w[5] ELSE NoAddr,
           IF t = "ACK" THEN SpcNumOf(w[1]) ELSE "FIRST", w[2])

GetRtsRssi(w) == w[4]

\* GetSize, in bytes; twice two for the frame control and the duration
GetSize(type) ==
  CASE type \in {"DATA", "RTS", "RTS_SPC"} -> 2 + 2 + 6 + 6
    [] type = "DATA_SPC"                   -> 2 + 2 + 6 + 6 + 6
    [] type \in {"CTS", "CTS_SPC"}         -> 2 + 2 + 1 + 6
    [] type = "ACK"                        -> 2 + 2 + 6

-----------------------------------------------------------------------------
(* The received power.                                                     *)

\* int dbm = 10.0 * log10 (rssi): cut towards zero
ToInt(x) == IF x >= 0 THEN x \div 10 ELSE -((-x) \div 10)

ConvertRssiToDbm(x) ==
  LET dbm == ToInt(x)
  IN CASE dbm >= 127  -> 255
       [] dbm <= -127 -> 0
       [] OTHER       -> dbm + 127 - 1

\* Variant: the offset ConvertRssiToDbm adds.
ConvertRssiToWSameOffset(byte) == 10 * (byte - 126)

ConvertRssiToW(byte) == 10 * (byte - 127)
=============================================================================
