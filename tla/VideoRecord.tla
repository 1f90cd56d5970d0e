---------------------------- MODULE VideoRecord ----------------------------
(***************************************************************************)
(* The records of video streams down to the bytes: Process and Flush of    *)
(* H264Record, H265Record and Mp2vRecord, the scans for NAL units and for  *)
(* MPEG-2 headers, and the key frame, NAL unit and user data rows.         *)
(*                                                                         *)
(* A PES header is scaled down: its start code, stream id and flags are    *)
(* there, each time stamp is a byte, the fields that are skipped are left   *)
(* out.  MinHeader still is the longest header.  What follows it is as it  *)
(* is in a stream.  Process begins with LogAdaptFieldPrivData, which is left *)
(* out here: it touches none of this, and is in Records and PrivateData.    *)
(***************************************************************************)
EXTENDS Integers, Sequences, SequencesExt, Sums

CONSTANTS Codec,      \* of "h264", "h265", "mp2v"
          Pes,        \* for each codec the PES packets a stream may have
          Cuts,       \* the lengths of transport packet payloads but for the last
          MinHeader,  \* minPesHeaderLen, scaled
          Nil,
          MaxUnits, MaxPkts \* bounds: PES packets, transport packets

R == INSTANCE Records

\* A unit is a PesPkt; hdr is the packet its header was read from.  Held is bytes
\* collected ahead of parsing, and the packet the first of them are from.
Unit == [pos : Int, pts : Int, hdr : Int, data : Seq(Int)]
Held == [from : Int, data : Seq(Int)]

ASSUME VideoAssumption ==
  /\ Codec \subseteq {"h264", "h265", "mp2v"}
  /\ \A c \in Codec : Pes[c] \subseteq Seq(0 .. 255)
  /\ Cuts \subseteq Nat
  /\ MinHeader = 7 /\ MaxUnits \in Nat /\ MaxPkts \in Nat
  /\ Nil \notin Unit \cup Held \cup R!Unit

VARIABLES codec,
          stream,  \* history: the PES packets sent, [pos, first, bytes]: the last of
                   \* them may go on; `first' bytes of it came with its start
          rest,    \* what has not been sent of the last one
          pkt,     \* the last transport packet
          rec,     \* the record
          pc       \* "feeding", "flushed" or "panic"

vars == <<codec, stream, rest, pkt, rec, pc>>

NoPos == R!NoPos
StartCode == <<0, 0, 1>>
IsCode(data) == Len(data) >= 3 /\ SubSeq(data, 1, 3) = StartCode
Drop(data, n) == SubSeq(data, n + 1, Len(data))

-----------------------------------------------------------------------------
(* PesPkt.Read *)

\* Stream ids with a header; of any other the start code counts as payload.
HasHeader(id) == (192 <= id /\ id < 240) \/ id = 189
Stamps(flags) == IF flags = 2 THEN 1 ELSE IF flags = 3 THEN 2 ELSE 0
HeaderLen(data) == IF HasHeader(data[4]) THEN 5 + Stamps(data[5]) ELSE 0

\* Read goes beyond the data, or data[hlen:] does.
Needed(data) ==
  IF Len(data) < 4 THEN 4
  ELSE IF HasHeader(data[4]) /\ Len(data) < 5 THEN 5 ELSE HeaderLen(data)
ReadCut(data) == Len(data) < Needed(data)

NewUnit(pos) == [pos |-> pos, pts |-> 0, hdr |-> NoPos, data |-> <<>>]
ReadInto(u, data, from) ==
  IF ~HasHeader(data[4]) THEN u
  ELSE [u EXCEPT !.hdr = from, !.pts = IF Stamps(data[5]) > 0 THEN data[6] ELSE @]

-----------------------------------------------------------------------------
(* The scans *)

\* The start codes a scan finds: it goes on behind the byte that follows one, and
\* ends `tail' bytes before the data does.
Found(data, tail) ==
  LET from[p \in 0 .. Len(data)] ==
        IF p + tail >= Len(data) THEN <<>>
        ELSE IF SubSeq(data, p + 1, p + 3) = StartCode THEN <<p>> \o from[p + 4]
        ELSE from[p + 1]
  IN  from[0]

\* GetNalUnitType, GetHevcNalUnitType.
NalType(b) ==
  IF codec = "h264" THEN (IF b % 32 < 16 THEN b % 32 ELSE 0) ELSE (b \div 2) % 64
Idr == IF codec = "h264" THEN {5} ELSE {19, 20}
Idrs(nals) == Joined([i \in DOMAIN nals |-> IF nals[i] \in Idr THEN <<nals[i]>> ELSE <<>>], Len(nals))

\* Mutant of NalUnits: the scan ends with the last start code that has a byte.
ToTheEnd(data) == LET at == Found(data, 3) IN [i \in DOMAIN at |-> NalType(data[at[i] + 4])]

NalUnits(data) == LET at == Found(data, 5) IN [i \in DOMAIN at |-> NalType(data[at[i] + 4])]

\* ParseMp2vHeaders: what follows a code, which is read without regard to its end.
Elem(data, p) == Drop(data, p + 4)
Marked(at, data, code) ==
  Joined([i \in DOMAIN at |-> IF data[at[i] + 4] = code THEN <<at[i]>> ELSE <<>>], Len(at))
Headers(data, code) == Marked(Found(data, 4), data, code)
UserCode == 178
PictureCode == 0
GopCode == 184

CodingType(elem) == (elem[2] \div 8) % 8
ClosedGop(elem) == (elem[4] \div 64) % 2 = 1

GA94 == <<71, 65, 57, 52>>
DTG1 == <<68, 84, 71, 49>>
UserData(pos, elem) ==
  LET is(id) == Len(elem) >= 4 /\ SubSeq(elem, 1, 4) = id
  IN  [pos |-> pos,
       caption |-> is(GA94) /\ elem[5] = 3, bar |-> is(GA94) /\ elem[5] = 6,
       afd |-> IF is(DTG1) /\ elem[5] = 65 THEN elem[6] % 16 ELSE -1]

\* The end of the data comes too early for a header that starts before it.  With
\* less than an identifier of user data it depends on the slice's capacity.
Cut(data) ==
  \/ \E p \in Range(Headers(data, PictureCode)) : Len(Elem(data, p)) < 2
  \/ \E p \in Range(Headers(data, GopCode)) : Len(Elem(data, p)) < 4
  \/ \E p \in Range(Headers(data, UserCode)) :
       LET e == Elem(data, p) IN
       \/ e \in {GA94, DTG1}
       \/ e = DTG1 \o <<65>>
MayBeCut(data) ==
  Cut(data) \/ \E p \in Range(Headers(data, UserCode)) : Len(Elem(data, p)) < 4

-----------------------------------------------------------------------------
(* Process *)

NewRecord == [cur |-> Nil, pkts |-> <<>>, nals |-> <<>>, iframes |-> <<>>, user |-> <<>>,
              wait |-> FALSE, acc |-> Nil]

IFrame(u, key) == [pos |-> u.pos, pts |-> u.pts, key |-> key]

\* Mutant of Closed: one row for a unit, however many slices it has.
OneRow(r) ==
  LET nals == NalUnits(r.cur.data) IN
  [r EXCEPT !.nals = Append(@, nals), !.pkts = Append(@, r.cur),
            !.iframes = IF \E i \in DOMAIN nals : nals[i] \in Idr
                        THEN Append(@, IFrame(r.cur, TRUE)) ELSE @]

\* The current unit is done with: H.264 and HEVC log a row for each IDR slice.
Closed(r) ==
  LET nals == NalUnits(r.cur.data) IN
  [r EXCEPT !.nals = Append(@, nals), !.pkts = Append(@, r.cur),
            !.iframes = @ \o [i \in DOMAIN Idrs(nals) |-> IFrame(r.cur, TRUE)]]

\* MPEG-2 logs a row for a unit whose last picture is intra coded.
ClosedMp2v(r) ==
  LET data == r.cur.data
      pics == Headers(data, PictureCode)
      gops == Headers(data, GopCode)
      user == Headers(data, UserCode)
  IN  [r EXCEPT !.pkts = Append(@, r.cur),
         !.user = @ \o [i \in DOMAIN user |-> UserData(r.cur.pos, Elem(data, user[i]))],
         !.iframes = @ \o IF pics # <<>> /\ CodingType(Elem(data, Last(pics))) = 1
                          THEN <<IFrame(r.cur, gops # <<>> /\ ClosedGop(Elem(data, Last(gops))))>>
                          ELSE <<>>]

Close(r) == IF r.cur = Nil THEN r ELSE IF codec = "mp2v" THEN ClosedMp2v(r) ELSE Closed(r)

Short(data) == codec # "mp2v" /\ Len(data) < MinHeader

\* The part of Process under PUSI; its payload goes on behind the header.
Started(r, k) ==
  IF Short(k.data)
    THEN [Close(r) EXCEPT !.cur = NewUnit(k.pos), !.wait = TRUE, !.acc = [from |-> k.pos, data |-> <<>>]]
  ELSE IF IsCode(k.data) THEN [Close(r) EXCEPT !.cur = ReadInto(NewUnit(k.pos), k.data, k.pos)]
  ELSE [Close(r) EXCEPT !.cur = NewUnit(k.pos)]
Left(k) == IF k.pusi /\ ~Short(k.data) /\ IsCode(k.data) THEN Drop(k.data, HeaderLen(k.data)) ELSE k.data

Grown(r, data) == IF r.cur = Nil THEN r ELSE [r EXCEPT !.cur.data = @ \o data]

\* Mutant of Collected: a header is looked for in this packet's payload alone.
Uncollected(r, k) ==
  LET acc == [from |-> k.pos, data |-> Left(k)]
      got == [r EXCEPT !.acc = acc]
  IN  IF Len(acc.data) < MinHeader \/ ~IsCode(acc.data) THEN got
      ELSE Grown([got EXCEPT !.wait = FALSE, !.cur = ReadInto(@, acc.data, acc.from)],
                 Drop(acc.data, HeaderLen(acc.data)))

\* The part of Process under WorkaroundPESFlag, and what is left behind it.
Collected(r, k) ==
  LET acc == [from |-> IF r.acc.data = <<>> THEN (IF k.pusi THEN k.pos ELSE r.acc.from) ELSE r.acc.from,
              data |-> r.acc.data \o Left(k)]
      got == [r EXCEPT !.acc = acc]
  IN  IF Len(acc.data) < MinHeader \/ ~IsCode(acc.data) THEN got
      ELSE Grown([got EXCEPT !.wait = FALSE, !.cur = ReadInto(@, acc.data, acc.from)],
                 Drop(acc.data, HeaderLen(acc.data)))

Process(r, k) ==
  LET begun == IF k.pusi THEN Started(r, k) ELSE r
  IN  IF begun.wait THEN Collected(begun, k) ELSE Grown(begun, Left(k))

\* Mp2vRecord: the start code is compared without a look at the length.
HeaderCut(k) == codec = "mp2v" /\ k.pusi /\ (Len(k.data) < 3 \/ (IsCode(k.data) /\ ReadCut(k.data)))
Scans(k) == codec = "mp2v" /\ k.pusi /\ rec.cur # Nil

\* The last unit gets its NAL row, but no key frame or user data row.
Flush(r) ==
  IF r.cur = Nil THEN r
  ELSE IF codec = "mp2v" THEN [r EXCEPT !.pkts = Append(@, r.cur)]
  ELSE [r EXCEPT !.nals = Append(@, NalUnits(r.cur.data)), !.pkts = Append(@, r.cur)]

-----------------------------------------------------------------------------
(* The stream and its packets *)

Init ==
  /\ codec \in Codec
  /\ stream = <<>> /\ rest = <<>> /\ pkt = [pos |-> NoPos, pusi |-> FALSE, data |-> <<>>]
  /\ rec = NewRecord
  /\ pc = "feeding"

\* One transport packet is handed to the record.
Feed(k) ==
  /\ pkt' = k
  /\ \/ /\ HeaderCut(k) \/ (Scans(k) /\ MayBeCut(rec.cur.data))
        /\ pc' = "panic" /\ UNCHANGED rec
     \/ /\ ~HeaderCut(k) /\ ~(Scans(k) /\ Cut(rec.cur.data))
        /\ rec' = Process(rec, k) /\ UNCHANGED pc
  /\ UNCHANGED codec

Sizes(data) == {n \in Cuts : n < Len(data)} \cup {Len(data)}

\* A PES packet starts, with its first n bytes; or goes on with n more.
StartPes(p, n) ==
  /\ pc = "feeding" /\ rest = <<>>
  /\ Len(stream) < MaxUnits /\ pkt.pos + 1 < MaxPkts
  /\ stream' = Append(stream, [pos |-> pkt.pos + 1, first |-> n, bytes |-> p])
  /\ rest' = Drop(p, n)
  /\ Feed([pos |-> pkt.pos + 1, pusi |-> TRUE, data |-> SubSeq(p, 1, n)])
GoOn(n) ==
  /\ pc = "feeding" /\ n > 0
  /\ n < Len(rest) => pkt.pos + 2 < MaxPkts
  /\ rest' = Drop(rest, n)
  /\ UNCHANGED stream
  /\ Feed([pos |-> pkt.pos + 1, pusi |-> FALSE, data |-> SubSeq(rest, 1, n)])

EndOfFile ==
  /\ pc = "feeding" /\ rest = <<>>
  /\ rec' = Flush(rec)
  /\ pc' = "flushed"
  /\ UNCHANGED <<codec, stream, rest, pkt>>

Ended == pc \in {"flushed", "panic"} /\ UNCHANGED vars

Next ==
  \/ \E p \in Pes[codec] : \E n \in Sizes(p) : StartPes(p, n)
  \/ rest # <<>> /\ \E n \in Sizes(rest) : GoOn(n)
  \/ EndOfFile
  \/ Ended

Spec == Init /\ [][Next]_vars
-----------------------------------------------------------------------------
(* Properties *)

\* No unit before the last was too short for its header to be collected, or came
\* in pieces without one.
Settled(u) == Len(u.bytes) >= MinHeader /\ (u.first >= MinHeader \/ IsCode(u.bytes))
Undisturbed == codec = "mp2v" \/ \A i \in 1 .. Len(stream) - 1 : Settled(stream[i])

Payload(bytes) == IF IsCode(bytes) THEN Drop(bytes, HeaderLen(bytes)) ELSE bytes
Pts(bytes) ==
  IF IsCode(bytes) /\ HasHeader(bytes[4]) /\ Stamps(bytes[5]) > 0 THEN bytes[6] ELSE 0

\* The start codes of a payload that are followed by more than so many bytes.
CodeAt(data, p) == SubSeq(data, p + 1, p + 3) = StartCode
Codes(data, more) ==
  Joined([p \in 1 .. Len(data) |->
            IF p + 3 + more <= Len(data) /\ CodeAt(data, p - 1) THEN <<p - 1>> ELSE <<>>], Len(data))
Types(u) ==
  LET d == Payload(u.bytes)
      at == Codes(d, 2)
  IN  [i \in DOMAIN at |-> NalType(d[at[i] + 4])]

\* No start code begins with the byte that follows another: a scan would miss it.
Apart(data) == \A p \in 0 .. Len(data) - 6 : CodeAt(data, p) => ~CodeAt(data, p + 3)
Parted == \A i \in DOMAIN stream : Apart(stream[i].bytes)

KeyRows(u) ==
  IF codec # "mp2v"
    THEN [i \in DOMAIN Idrs(Types(u)) |-> [pos |-> u.pos, pts |-> Pts(u.bytes), key |-> TRUE]]
  ELSE
    LET d == Payload(u.bytes)
        pics == Marked(Codes(d, 1), d, PictureCode)
        gops == Marked(Codes(d, 1), d, GopCode)
    IN  IF pics = <<>> \/ CodingType(Elem(d, Last(pics))) # 1 THEN <<>>
        ELSE <<[pos |-> u.pos, pts |-> Pts(u.bytes), key |-> gops # <<>> /\ ClosedGop(Elem(d, Last(gops)))]>>

\* The units that have ended, the others having started behind them.
Past == IF stream = <<>> THEN 0 ELSE Len(stream) - 1

\* The iframe report has a row for each IDR slice, or for each MPEG-2 unit that
\* ends with an intra picture, with the unit's own position and time stamp, however
\* the unit was cut into packets; but none for the last unit of the file.
KeyFramesLogged ==
  pc # "panic" /\ Undisturbed /\ Parted =>
    rec.iframes = Joined([i \in 1 .. Past |-> KeyRows(stream[i])], Past)

\* The NAL report has a row for each unit, the last one included, with the types of
\* its NAL units: those of one or two bytes at the very end of a unit are missing.
\* The user data report has those of every unit but the last.
UserRows(u) ==
  LET d == Payload(u.bytes)
      at == Marked(Codes(d, 1), d, UserCode)
  IN  [i \in DOMAIN at |-> UserData(u.pos, Elem(d, at[i]))]
UnitRowsMatch ==
  pc # "panic" /\ Undisturbed /\ Parted =>
    LET n == IF pc = "flushed" THEN Len(stream) ELSE Past IN
    IF codec = "mp2v" THEN rec.user = Joined([i \in 1 .. Past |-> UserRows(stream[i])], Past)
    ELSE rec.nals = [i \in 1 .. n |-> IF i > Past /\ ~Settled(stream[i]) THEN <<>> ELSE Types(stream[i])]

MayStart(data) == \A i \in 1 .. 3 : i <= Len(data) => data[i] = StartCode[i]

\* What Records knows of bytes that have not all been collected.
Looks(data, head, hlen) ==
  CASE head = "raw" -> hlen = 0 /\ ~IsCode(data)
    [] head = "unknown" -> /\ hlen = 0 /\ MayStart(data)
                           /\ Len(data) >= 4 => ~HasHeader(data[4])
    [] head = "pes" -> /\ MayStart(data)
                       /\ Len(data) >= 4 => HasHeader(data[4])
                       /\ IF Len(data) >= 5 THEN hlen = 5 + Stamps(data[5]) ELSE hlen \in 5 .. MinHeader

Heading == {"raw", "unknown", "pes"} \X ({0} \cup 5 .. MinHeader)
AsUnit(u) ==
  IF u = Nil THEN Nil ELSE [pos |-> u.pos, clock |-> NoPos, hdr |-> u.hdr, size |-> Len(u.data)]
AsRecord(r, h) ==
  [kind |-> "video", clock |-> NoPos, cur |-> AsUnit(r.cur),
   units |-> [i \in DOMAIN r.pkts |-> AsUnit(r.pkts[i])], wait |-> r.wait,
   acc |-> IF r.acc = Nil THEN Nil
           ELSE [from |-> r.acc.from, len |-> Len(r.acc.data), head |-> h[1], hlen |-> h[2]]]
AsPacket(k, h) == [pos |-> k.pos, pusi |-> k.pusi, len |-> Len(k.data), head |-> h[1], hlen |-> h[2]]

Headings(r) == {h \in Heading : r.acc # Nil => Looks(r.acc.data, h[1], h[2])}
Openings(k) == {h \in Heading : Looks(k.data, h[1], h[2])}

RecordsStep ==
  codec # "mp2v" =>
    \A h \in Headings(rec') : \E g \in Headings(rec) :
      IF pc' = "flushed" THEN AsRecord(rec', h) = R!Flush(AsRecord(rec, g))
      ELSE \E o \in Openings(pkt') :
             AsRecord(rec', h) \in R!VideoProcess(AsRecord(rec, g), AsPacket(pkt', o))

\* Process and Flush on bytes are what Records says of lengths: whatever a record
\* looks like after a step, it came there by VideoProcess from what it may have
\* looked like before, the mixtures of two units included.
ImplementsRecords == [][RecordsStep]_<<rec, pkt, pc>>
=============================================================================
