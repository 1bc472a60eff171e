------------------------------ MODULE SelfSync ------------------------------
(***************************************************************************)
(* The self-synchronising framing of secure-channel/self-sync-actors.lisp: *)
(* WRITE-RECORD, which puts one message on the wire, and the state machine *)
(* SSFSM-BEH, which takes bytes off the wire and sends messages on.        *)
(*                                                                         *)
(*   FE FD  version  count  short segment  { count-lo count-hi segment }   *)
(*                                                                         *)
(* What is cut into segments is the checksum, the length and the message;  *)
(* a start sequence FE FD inside of it ends a segment and is left out.     *)
(* The numbers of the code are parameters so that small messages reach the *)
(* cases that matter: counts are below Base (FD in the code), of which the *)
(* short segment holds at most Base - 1 bytes and a long one Base^2 - 1.   *)
(***************************************************************************)
EXTENDS Naturals, Sequences, SequencesExt, FiniteSetsExt

CONSTANTS
  Base,       (* +LONG-COUNT-BASE+                                         *)
  FE, FD,     (* the bytes of the start sequence, no counts                *)
  CrcLen,     (* the bytes of a checksum; the length takes one more        *)
  Crc(_)      (* Crc(s): the checksum of a sequence of bytes               *)

ASSUME FramingAssumption ==
  /\ {Base, FE, FD} \subseteq Nat /\ FE >= Base /\ FD >= Base /\ FE # FD
  /\ CrcLen \in Nat \ {0} /\ CrcLen + 1 < Base

Version   == 1
MaxShort  == Base - 1
MaxLong   == Base * Base - 1
HeaderLen == CrcLen + 1
-----------------------------------------------------------------------------
(* The place of the first start sequence in s from position START on.      *)
FindStartSeq(s, start) ==
  { p \in start .. Len(s) - 1 : s[p] = FE /\ s[p + 1] = FD }

(* Where a segment that begins at START and has MAX bytes at most ends, as *)
(* the position after it; and where the next one begins if there is more:  *)
(* behind the start sequence that ended a segment short of MAX.            *)
SegmentEnd(s, start, max) ==
  Min({start + max, Len(s) + 1} \cup FindStartSeq(s, start))

NextStart(start, end, max) == IF end - start < max THEN end + 2 ELSE end

Bytes(s, start, end) == SubSeq(s, start, end - 1)

LongSegments(s, from) ==
  LET seg[start \in Nat] ==
        LET end == SegmentEnd(s, start, MaxLong)  nb == end - start
        IN <<nb % Base, nb \div Base>> \o Bytes(s, start, end)
             \o (IF end > Len(s) THEN <<>> ELSE seg[NextStart(start, end, MaxLong)])
  IN seg[from]

(* WRITE-RECORD.                                                           *)
Record(m) ==
  LET len == <<Len(m)>>
      s   == Crc(len \o m) \o len \o m
      end == SegmentEnd(s, 1, MaxShort)
  IN <<FE, FD, Version, end - 1>> \o Bytes(s, 1, end)
       \o (IF end > Len(s) THEN <<>> ELSE LongSegments(s, NextStart(1, end, MaxShort)))
-----------------------------------------------------------------------------
(* The state machine: STATE, REMCT, NEED-FEFD, NEL (0 for the -1 of a      *)
(* length not known yet), AOUT and CRCV; SENT are the messages sent on.    *)
FSM ==
  [state : {"start", "check-start-fd", "check-version", "read-short-count",
            "read-segm", "check-segm-fd", "read-long-count", "read-long-count-2",
            "endless", "error"},
   remct : Nat, need : BOOLEAN, nel : Nat, aout : Seq(Nat), crcv : Seq(Nat),
   sent : Seq(Seq(Nat))]

FreshFSM ==
  [state |-> "check-version", remct |-> 0, need |-> FALSE, nel |-> 0,
   aout |-> <<>>, crcv |-> <<>>, sent |-> <<>>]

(* START, and RESTART with a byte that did not fit.                        *)
StartWith(f, b) == [f EXCEPT !.state = IF b = FE THEN "check-start-fd" ELSE "start"]

StufferInit(f, ct) ==
  [f EXCEPT !.state = "read-segm", !.remct = ct, !.need = ct < MaxShort,
            !.nel = 0, !.aout = <<>>]

(* The end of a record: send it on if the checksum is right.               *)
Finish(f) ==
  LET ans == SubSeq(f.aout, HeaderLen + 1, Len(f.aout))
      ok  == Crc(<<f.nel - HeaderLen>> \o ans) = f.crcv
  IN [f EXCEPT !.state = "start", !.sent = IF ok THEN Append(@, ans) ELSE @]

(* CHECK-FINISH at the end of a segment.  The header is taken out of AOUT  *)
(* at the end of the first one; a segment that is too short for it makes   *)
(* SUBSEQ fail, and the Actor with it (state "error").                     *)
WithHeader(f) ==
  IF f.nel = 0 THEN [f EXCEPT !.crcv = SubSeq(f.aout, 1, CrcLen),
                              !.nel  = HeaderLen + f.aout[HeaderLen]]
               ELSE f

Restored(f) ==
  IF f.need /\ Len(f.aout) < f.nel THEN [f EXCEPT !.aout = @ \o <<FE, FD>>] ELSE f

CheckFinish(f) ==
  IF f.remct # 0 THEN f
  ELSE IF f.nel = 0 /\ Len(f.aout) < HeaderLen THEN [f EXCEPT !.state = "error"]
  ELSE LET g == Restored(WithHeader(f))
       IN IF Len(g.aout) < g.nel THEN [g EXCEPT !.state = "read-long-count"] ELSE Finish(g)

(* SEGM-INIT.                                                              *)
SegmInit(f, ct) ==
  CheckFinish([f EXCEPT !.state = "read-segm", !.remct = ct, !.need = ct < MaxLong])

(* STUFF.  REMCT is never 0 here unless the count of the short segment     *)
(* was 0; it then counts down below 0 and no end of the segment is seen.   *)
Stuff(f, b) ==
  IF f.remct = 0 THEN [f EXCEPT !.aout = Append(@, b), !.state = "endless"]
  ELSE CheckFinish([f EXCEPT !.aout = Append(@, b), !.remct = @ - 1])

(* Mutant: an FE at the end of a segment is held back like any other.      *)
ReadSegmWaits(f, b) ==
  IF b = FE THEN [f EXCEPT !.state = "check-segm-fd"] ELSE Stuff(f, b)

ReadSegm(f, b) ==
  IF b = FE /\ f.remct > 1 THEN [f EXCEPT !.state = "check-segm-fd"] ELSE Stuff(f, b)

(* INHALE: one byte.                                                       *)
Inhale(f, b) ==
  CASE f.state = "start" -> StartWith(f, b)
    [] f.state = "check-start-fd" ->
         IF b = FD THEN [f EXCEPT !.state = "check-version"] ELSE StartWith(f, b)
    [] f.state = "check-version" ->
         IF b = Version THEN [f EXCEPT !.state = "read-short-count"] ELSE StartWith(f, b)
    [] f.state = "read-short-count" ->
         IF b < Base THEN StufferInit(f, b) ELSE StartWith(f, b)
    [] f.state = "read-segm" -> ReadSegm(f, b)
    [] f.state = "check-segm-fd" ->
         IF b = FD THEN [f EXCEPT !.state = "check-version"]
         ELSE ReadSegm([Stuff(f, FE) EXCEPT !.state = "read-segm"], b)
    [] f.state = "read-long-count" ->
         IF b < Base THEN [f EXCEPT !.remct = b, !.state = "read-long-count-2"]
                     ELSE StartWith(f, b)
    [] f.state = "read-long-count-2" ->
         IF b < Base THEN SegmInit(f, f.remct + b * Base) ELSE StartWith(f, b)
    [] f.state \in {"endless", "error"} -> f

(* (MAP NIL #'INHALE BUF): what is left to do from byte I on, for a state. *)
InhaleAll(f, buf) ==
  LET from[i \in 1 .. Len(buf) + 1] ==
        [g \in FSM |-> IF i > Len(buf) THEN g ELSE from[i + 1][Inhale(g, buf[i])]]
  IN from[1][f]
=============================================================================
