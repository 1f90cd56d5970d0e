------------------------------ MODULE Records ------------------------------
(***************************************************************************)
(* The records of the second pass: what pes.go, mp2v.go, h264.go, h265.go  *)
(* and scte35.go do with the packets of one elementary PID.  A handler is  *)
(* an operator from a record and a packet to the records it may leave; a   *)
(* fault is a condition under which it panics.                             *)
(*                                                                         *)
(* Of a payload its length matters (in units, so that a PES header is one  *)
(* to MinHeader of them) and, when it opens a PES packet or a section, how *)
(* it begins: `head' tells a PES header apart from a padding stream (0xBE),*)
(* from a start code with another stream id, and from bytes that are no    *)
(* start code; `hlen' is the length of that header, or the length of the   *)
(* section.  Of a time stamp it matters which packet it was read from.     *)
(* `priv' is what comes of parsing a packet's private data, as PrivateData  *)
(* shows: it is read through, or the parser panics, or never ends.          *)
(***************************************************************************)
EXTENDS Integers, Sequences, Absent

CONSTANT MinHeader  \* minPesHeaderLen

ASSUME RecordAssumption == MinHeader \in Nat \ {0}

\* The types CreateRecord makes a record of its own for; H.264 and HEVC
\* records differ in how they name NAL units only.
StreamKind == {"pes", "mp2v", "video", "scte35"}
Heads == {"pes", "padding", "unknown", "raw"}
Privs == {"whole", "short", "endless"}  \* "whole" too if there is no private data

NoPos == -1   \* no packet: a header or a clock that was never seen

\* A PES packet or a splice section: where it starts, the packet whose PCR was
\* the latest then, the packet its header was read from, and its size.
Unit == [pos : Int, clock : Int, hdr : Int, size : Nat]

\* Bytes collected ahead of parsing: WorkaroundPES, CurData.
Bytes == [from : Int, len : Nat, head : Heads, hlen : Nat]

RecordOf(kind) ==
  [kind  |-> kind,
   clock |-> NoPos,   \* PcrTime and PcrPos
   cur   |-> Nil,     \* curpkt; for SCTE-35, CurByte and CurTime
   units |-> <<>>,    \* Pkts; for SCTE-35, BytePos, PcrTime and Sections
   wait  |-> FALSE,   \* WorkaroundPESFlag
   acc   |-> Nil]

Record == [kind : StreamKind, clock : Int, cur : Unit \cup {Nil},
           units : Seq(Unit), wait : BOOLEAN, acc : Bytes \cup {Nil}]

NotifyTime(r, pos) == [r EXCEPT !.clock = pos]

\* The units of r when the current one is pushed.
Pushed(r) == IF r.cur = Nil THEN r.units ELSE Append(r.units, r.cur)

\* PesPkt.Read strips a header, and stamps the unit, for a PES header only.
Stamp(k) == IF k.head = "pes" THEN k.pos ELSE NoPos
Strip(k) == IF k.head = "pes" THEN k.len - k.hlen ELSE k.len

Opened(r, k) == [pos |-> k.pos, clock |-> r.clock, hdr |-> Stamp(k), size |-> Strip(k)]

-----------------------------------------------------------------------------
(* LogAdaptFieldPrivData: all Process methods but that of a splice record begin with it *)

Logs(r) == r.kind # "scte35"
PrivFaults(r, k) == Logs(r) /\ k.priv = "short"
Hangs(r, k) == Logs(r) /\ k.priv = "endless"

-----------------------------------------------------------------------------
(* PesRecord, Mp2vRecord *)

\* The start code is compared, and the header read, without a look at the length.
HeaderCut(k) == k.pusi /\ (k.len = 0 \/ (k.head # "raw" /\ k.len < k.hlen))

Grown(r, n) == [r EXCEPT !.cur.size = @ + n]

PesProcess(r, k) ==
  IF ~k.pusi THEN IF r.cur = Nil THEN r ELSE Grown(r, k.len)
  ELSE [r EXCEPT !.units = Pushed(r),
                 !.cur = IF k.head = "padding" THEN Nil ELSE Opened(r, k)]

Mp2vProcess(r, k) ==
  IF ~k.pusi THEN IF r.cur = Nil THEN r ELSE Grown(r, k.len)
  ELSE [r EXCEPT !.units = Pushed(r), !.cur = Opened(r, k)]

\* ParseMp2vHeaders of the unit that ends: a start code may stand at its end, and
\* what follows it is read all the same.  VideoRecord shows when.
MayEndAmidHeader(r) == r.cur # Nil /\ r.cur.size > 0

-----------------------------------------------------------------------------
(* H264Record, H265Record: a header may be collected over several packets *)

\* The PES packet that starts in k is too short to be parsed at once.
Short(k) == k.len < MinHeader

\* Mutant of Started: WorkaroundPES keeps what was collected before.
NotCleared(r, k) ==
  LET opened == [r EXCEPT !.units = Pushed(r), !.cur = [Opened(r, k) EXCEPT !.size = 0]]
  IN  IF ~Short(k) THEN opened
      ELSE [opened EXCEPT !.cur.hdr = NoPos, !.wait = TRUE,
              !.acc = IF r.acc # Nil THEN r.acc
                      ELSE [from |-> k.pos, len |-> 0, head |-> k.head, hlen |-> k.hlen]]

\* The part of Process under PUSI, and the payload it leaves to the rest of it.
Started(r, k) ==
  LET opened == [r EXCEPT !.units = Pushed(r), !.cur = [Opened(r, k) EXCEPT !.size = 0]]
  IN  IF Short(k)
        THEN [opened EXCEPT !.cur.hdr = NoPos, !.wait = TRUE,
                            !.acc = [from |-> k.pos, len |-> 0, head |-> k.head, hlen |-> k.hlen]]
        ELSE opened
Left(k) == IF k.pusi /\ ~Short(k) THEN Strip(k) ELSE k.len

\* WorkaroundPES with the payload of k behind it.  If k opens a PES packet of its
\* own, the bytes behind its header are appended to what was collected of another,
\* if anything was: the mixture may look like any beginning.
Collected(r, k) ==
  LET grown == [r.acc EXCEPT !.len = @ + Left(k)]
      mixed == [grown EXCEPT !.from = IF r.acc.len = 0 THEN k.pos ELSE @]
  IN  IF ~(k.pusi /\ ~Short(k)) THEN {grown}
      ELSE {[mixed EXCEPT !.head = h] : h \in {"unknown", "raw"}}
             \cup {[mixed EXCEPT !.head = "pes", !.hlen = n] : n \in 1 .. MinHeader}

\* The part of Process under WorkaroundPESFlag: the header goes to the current
\* unit, whichever unit its bytes were collected for.
Resumed(r, acc) ==
  IF acc.len < MinHeader \/ acc.head = "raw" THEN [r EXCEPT !.acc = acc]
  ELSE IF acc.head = "pes"
    THEN [r EXCEPT !.acc = acc, !.wait = FALSE, !.cur.hdr = acc.from,
                   !.cur.size = @ + acc.len - acc.hlen]
    ELSE [r EXCEPT !.acc = acc, !.wait = FALSE, !.cur.size = @ + acc.len]

VideoProcess(r, k) ==
  LET begun == IF k.pusi THEN Started(r, k) ELSE r
  IN  IF begun.wait THEN {Resumed(begun, acc) : acc \in Collected(begun, k)}
      ELSE IF begun.cur = Nil THEN {begun} ELSE {Grown(begun, Left(k))}

-----------------------------------------------------------------------------
(* Scte35Record: CurData is acc, its bytes are parsed when the unit is closed *)

\* Data with no start before it: a unit at position 0, with time 0.
Phantom == [pos |-> 0, clock |-> NoPos, hdr |-> NoPos, size |-> 0]

\* ParseSpliceInfoSection reads the whole section, whatever was collected; what
\* it makes of data that does not begin with a section is anything.
SectionCut(r) == r.acc # Nil /\ r.cur.hdr # NoPos /\ r.acc.len < r.acc.hlen
MayMisread(r) == r.acc # Nil /\ (r.cur.hdr = NoPos \/ SectionCut(r))

ScteProcess(r, k) ==
  IF k.pusi
    THEN [r EXCEPT !.units = Pushed(r),
                   !.cur = [pos |-> k.pos, clock |-> r.clock, hdr |-> k.pos, size |-> k.len],
                   !.acc = [from |-> k.pos, len |-> k.len, head |-> k.head, hlen |-> k.hlen]]
  ELSE IF r.cur # Nil
    THEN [Grown(r, k.len) EXCEPT !.acc.len = @ + k.len]
  ELSE IF k.len = 0 THEN r
    ELSE [r EXCEPT !.cur = [Phantom EXCEPT !.size = k.len],
                   !.acc = [from |-> k.pos, len |-> k.len, head |-> "raw", hlen |-> 0]]

-----------------------------------------------------------------------------
(* Process, Flush: which of them runs is decided by the type of the record *)

Process(r, k) ==
  CASE r.kind = "pes"    -> {PesProcess(r, k)}
    [] r.kind = "mp2v"   -> {Mp2vProcess(r, k)}
    [] r.kind = "video"  -> VideoProcess(r, k)
    [] r.kind = "scte35" -> {ScteProcess(r, k)}

\* Process panics, unless it hangs before it comes to that.
ProcessFaults(r, k) ==
  \/ PrivFaults(r, k)
  \/ r.kind \in {"pes", "mp2v"} /\ HeaderCut(k)
  \/ r.kind = "scte35" /\ k.pusi /\ SectionCut(r)

ProcessMayFault(r, k) ==
  \/ ProcessFaults(r, k)
  \/ r.kind = "scte35" /\ k.pusi /\ MayMisread(r)
  \/ r.kind = "mp2v" /\ k.pusi /\ MayEndAmidHeader(r)

\* Mutant of Flush: a unit without payload is dropped.
NonEmptyOnly(r) ==
  IF r.cur = Nil THEN r ELSE IF r.cur.size = 0 THEN r ELSE [r EXCEPT !.units = Pushed(r)]

Flush(r) == [r EXCEPT !.units = Pushed(r)]
FlushFaults(r) == r.kind = "scte35" /\ SectionCut(r)
FlushMayFault(r) == r.kind = "scte35" /\ MayMisread(r)
=============================================================================
