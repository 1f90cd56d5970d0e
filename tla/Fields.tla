------------------------------- MODULE Fields -------------------------------
(***************************************************************************)
(* The parsers of internal/ as the calls they make of the bit reader: for  *)
(* each structure the sequences of calls its flags may ask for.  What the  *)
(* fields say is left out; where they are is what matters here.            *)
(***************************************************************************)
EXTENDS Integers, Sequences, Sums

ReadBit(n)  == [op |-> "read", n |-> n]
SkipBit(n)  == [op |-> "bits", n |-> n]
SkipByte(n) == [op |-> "bytes", n |-> n]

\* A parser may skip back: by the 4 bytes of an identifier behind a length below 4.
Calls == [op : {"read", "bits"}, n : Nat] \cup [op : {"bytes"}, n : Int]

\* The bits from the beginning of the first to the end of the last call.
BitsOf(calls) ==
  Total([i \in DOMAIN calls |-> calls[i].n * (IF calls[i].op = "bytes" THEN 8 ELSE 1)], Len(calls))
BytesOf(calls) == BitsOf(calls) \div 8

When(flag, calls) == IF flag THEN calls ELSE <<>>
Twice(calls) == calls \o calls

-----------------------------------------------------------------------------
(* Transport packets and PES headers: common.go, internal/ts/reader.go *)

Pcr == <<ReadBit(33), SkipBit(6), ReadBit(9)>>
Pts == <<ReadBit(4), ReadBit(3), ReadBit(1), ReadBit(15), ReadBit(1), ReadBit(15), ReadBit(1)>>

TsHeader ==
  <<ReadBit(8), SkipBit(1), ReadBit(1), SkipBit(1), ReadBit(13), SkipBit(2), ReadBit(2), ReadBit(4)>>

AdaptField(pcr, opcr, splice, priv) ==
  <<ReadBit(8), ReadBit(8)>>
    \o When(pcr, Pcr) \o When(opcr, Pcr) \o When(splice, <<ReadBit(8)>>) \o When(priv, <<ReadBit(8)>>)

\* ParseTsPkt: without and with an adaptation field, empty or not.
TsPkts ==
  {TsHeader, TsHeader \o <<ReadBit(8)>>}
    \cup {TsHeader \o AdaptField(f[1], f[2], f[3], f[4]) : f \in [1 .. 4 -> BOOLEAN]}

\* Reader.Read of internal/ts reads its flags one by one.
Flags(n) == [i \in 1 .. n |-> ReadBit(1)]
ReaderPkts ==
  LET header == <<ReadBit(8)>> \o Flags(3) \o <<ReadBit(13), ReadBit(2), ReadBit(2), ReadBit(4)>>
  IN  {header, header \o <<ReadBit(8)>>}
        \cup {header \o <<ReadBit(8)>> \o Flags(8) \o When(pcr, Pcr) : pcr \in BOOLEAN}

\* PesPkt.Read, for a padding or unknown stream and with its 0, 1 or 2 time stamps.
PesStart == <<SkipByte(3), ReadBit(8), SkipByte(2)>>
PesPkts ==
  {PesStart}
    \cup {PesStart \o <<SkipByte(1), ReadBit(2), SkipBit(6), SkipByte(1)>> \o stamps :
            stamps \in {<<>>, Pts, Twice(Pts)}}

-----------------------------------------------------------------------------
(* ParseAdaptFieldPrivData: what is read of one field, behind tag and length *)

AuInfo(long, pts, stream, profile) ==
  <<ReadBit(4), ReadBit(4)>>
    \o When(long, <<ReadBit(2), ReadBit(2)>> \o Flags(4))
    \o When(long /\ pts, <<ReadBit(32)>>)
    \o When(long /\ stream, <<SkipBit(4), ReadBit(4)>>)
    \o When(long /\ profile, <<ReadBit(8), ReadBit(8), ReadBit(8)>>)

TimeCode == <<ReadBit(1), ReadBit(5), ReadBit(6), ReadBit(6), ReadBit(6)>>

BroadcastId(major) ==
  <<ReadBit(32), ReadBit(8), SkipByte(14), ReadBit(16)>>
    \o When(major, <<ReadBit(4), ReadBit(10), ReadBit(10)>>)

PreStandardEbp(ext, sap, grouping, time) ==
  Flags(8) \o When(ext, <<ReadBit(8)>>) \o When(sap, <<ReadBit(8)>>)
    \o When(grouping, <<ReadBit(8)>>) \o When(time, <<ReadBit(64)>>)

\* The grouping ids of a CableLabs EBP go on as long as each announces the next.
CableLabEbp(ext, part, sap, groups, time) ==
  <<ReadBit(32)>> \o Flags(8) \o When(ext, <<ReadBit(1), ReadBit(7)>>)
    \o When(sap, <<ReadBit(8)>>) \o [i \in 1 .. 2 * groups |-> ReadBit(IF i % 2 = 1 THEN 1 ELSE 7)]
    \o When(time, <<ReadBit(64)>>) \o When(ext /\ part, <<ReadBit(8)>>)

\* The flags of an AU are read only behind a length that has room for them, an
\* EBP only if it has a length at all; nothing else depends on the length.
PrivCalls(tag, len) ==
  CASE tag = 2    -> {AuInfo(len > 1, f[1], f[2], f[3]) : f \in [1 .. 3 -> BOOLEAN]}
    [] tag = 160  -> {TimeCode}
    [] tag = 173  -> {BroadcastId(major) : major \in BOOLEAN}
    [] tag = 169 /\ len >= 1 -> {PreStandardEbp(f[1], f[2], f[3], f[4]) : f \in [1 .. 4 -> BOOLEAN]}
    [] tag = 223 /\ len >= 1 ->
         {CableLabEbp(f[1], f[2], f[3], g, f[4]) : f \in [1 .. 4 -> BOOLEAN], g \in 0 .. 2}
    [] OTHER -> {<<>>}

\* Mutant of SpliceTime: the reserved bits of a time that is not specified are
\* not read.
NoReserved(specified) == <<ReadBit(1)>> \o When(specified, <<ReadBit(6), ReadBit(33)>>)

PrivTags == {2, 160, 173, 169, 223}
PrivFields == UNION {PrivCalls(tag, len) : tag \in PrivTags, len \in 1 .. 2}
-----------------------------------------------------------------------------
(* ParseSpliceInfoSection: scte35.go *)

\* From table_id to splice_command_type, behind the pointer.
SpliceHeader ==
  <<ReadBit(8), ReadBit(1), ReadBit(1), ReadBit(2), ReadBit(12), ReadBit(8), ReadBit(1), ReadBit(6),
    ReadBit(33), ReadBit(8), ReadBit(12), ReadBit(12), ReadBit(8)>>

SpliceTime(specified) ==
  <<ReadBit(1)>> \o IF specified THEN <<ReadBit(6), ReadBit(33)>> ELSE <<ReadBit(7)>>

BreakDuration == <<ReadBit(1), ReadBit(6), ReadBit(33)>>

\* n components, each with a time of its own unless it is an immediate splice.
Components(n, immediate, specified) ==
  <<ReadBit(8)>>
    \o Joined([i \in 1 .. n |-> <<ReadBit(8)>> \o When(~immediate, SpliceTime(specified))], n)

SpliceInsert(c) ==
  <<ReadBit(32), ReadBit(1), ReadBit(7)>>
    \o When(~c.cancel,
         Flags(4) \o <<ReadBit(4)>>
           \o When(c.program /\ ~c.immediate, SpliceTime(c.specified))
           \o When(~c.program, Components(c.components, c.immediate, c.specified))
           \o When(c.duration, BreakDuration)
           \o <<ReadBit(16), ReadBit(8), ReadBit(8)>>)

Descriptor == <<ReadBit(8), ReadBit(8), ReadBit(32)>>

\* A descriptor of another tag is skipped by its length, less the identifier.
SkippedDescriptor(len) == Descriptor \o <<SkipByte(len - 4)>>

SegmentDescriptor(d) ==
  <<ReadBit(32), ReadBit(1), ReadBit(7)>>
    \o When(~d.cancel,
         Flags(3) \o (IF d.restricted THEN Flags(3) \o <<ReadBit(2)>> ELSE <<ReadBit(5)>>)
           \o When(~d.program, <<ReadBit(8)>>
                \o Joined([i \in 1 .. d.components |-> <<ReadBit(8), ReadBit(7), ReadBit(33)>>], d.components))
           \o When(d.duration, <<SkipBit(7), ReadBit(33)>>)
           \o <<ReadBit(8), ReadBit(8), SkipByte(d.upid), ReadBit(8), ReadBit(8), ReadBit(8)>>)

Inserts ==
  [cancel : BOOLEAN, program : BOOLEAN, immediate : BOOLEAN, specified : BOOLEAN,
   duration : BOOLEAN, components : 0 .. 2]
Segments ==
  [cancel : BOOLEAN, restricted : BOOLEAN, program : BOOLEAN, duration : BOOLEAN,
   components : 0 .. 2, upid : {0, 8}]

-----------------------------------------------------------------------------
(* ParsePat, ParsePmt, ParseStream, BufferData: psi.go *)

PatHeader ==
  <<SkipBit(12), ReadBit(12), ReadBit(16), SkipBit(2), ReadBit(5), ReadBit(1), ReadBit(8), ReadBit(8)>>
PatEntry(number) == <<ReadBit(16)>> \o IF number = 0 THEN <<SkipByte(2)>> ELSE <<SkipBit(3), ReadBit(13)>>
PmtHeader(info) ==
  PatHeader \o <<SkipBit(3), ReadBit(13), SkipBit(4), ReadBit(12), SkipByte(info)>>
\* A stream with descriptors of the lengths lens, whose data are taken unread.
StreamEntry(lens) ==
  <<ReadBit(8), SkipBit(3), ReadBit(13), SkipBit(4), ReadBit(12)>>
    \o Joined([i \in DOMAIN lens |-> <<ReadBit(8), ReadBit(8), SkipByte(lens[i])>>], Len(lens))
Tables ==
  {<<ReadBit(8)>> \o PatHeader \o PatEntry(n) \o PatEntry(1) \o <<ReadBit(32)>> : n \in 0 .. 1}
    \cup {<<ReadBit(8)>> \o PmtHeader(i) \o StreamEntry(lens) \o StreamEntry(<<>>) \o <<ReadBit(32)>> :
            i \in {0, 6}, lens \in {<<>>, <<0, 2>>}}

-----------------------------------------------------------------------------
(* ParseMp2vPicHeader, ParseMp2vGopHeader: mp2v.go.  The only structures that  *)
(* are left amid a byte; each has a reader of its own.                        *)

Mp2vPicHeader == <<ReadBit(10), ReadBit(3)>>
Mp2vGopHeader ==
  <<ReadBit(1), ReadBit(5), ReadBit(6), ReadBit(1), ReadBit(6), ReadBit(6), ReadBit(1)>>
Mp2vHeaders == {Mp2vPicHeader, Mp2vGopHeader}
=============================================================================
