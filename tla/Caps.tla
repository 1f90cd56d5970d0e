-------------------------------- MODULE Caps --------------------------------
(***************************************************************************)
(* caps (cmd/caps/main.go): the payloads of a capture are written to a      *)
(* transport stream file, and with -p a line is printed for every PCR, with *)
(* the index of its packet in that file and the time the muxer gave it.     *)
(*                                                                          *)
(* A payload is its length, the words of its RTP extension, if it has one,  *)
(* and what ParseTsPkt would make of each 188 bytes of its data.            *)
(***************************************************************************)
EXTENDS Integers, Sequences, Sums

CONSTANTS Payload,   \* [len, ext, kinds]; ext is None without an extension
          None,
          MaxPackets \* bound: the packets of the capture

TsPktSize == 188
Hrtp == 1360
SrtHrtp == 1376
Rtp == 1328
MaxUint16 == 65535

\* A packet with a PCR, without, with another sync byte, and one whose adaptation
\* field claims 255 bytes.
Kinds == {"pcr", "plain", "bad", "long"}

ASSUME CapsAssumption ==
  /\ \A p \in Payload : /\ p.len \in Nat /\ p.ext \in 0 .. MaxUint16 \cup {None}
                        /\ p.kinds \in [1 .. p.len \div TsPktSize -> Kinds]
  /\ None \notin Int \cup Payload /\ MaxPackets \in Nat

VARIABLES capture, \* history: the packets dealt with, a payload or None
          index,   \* index
          written, \* history: the bytes of each payload that are in the file
          lines,   \* what is printed: [index, entry], and the packet it is about:
                   \* the `nth' of the capture's payload number `of'
          phase    \* "running", "done" or "panic"

capsVars == <<capture, index, written, lines, phase>>

CapsInit ==
  /\ capture = <<>> /\ index = 0
  /\ written = <<>> /\ lines = <<>>
  /\ phase = "running"

-----------------------------------------------------------------------------
(* parsePacket *)

\* Where the data begins: behind SRT, RTP and extension headers.
SrtLen(p) == IF p.len = SrtHrtp THEN 16 ELSE 0
Extended(p) == p.len \in {SrtHrtp, Hrtp} /\ p.ext # None

Offset(p) ==
  IF p.len % TsPktSize = 0 THEN 0
  ELSE SrtLen(p) + 12 + (IF Extended(p) THEN 4 + 4 * p.ext ELSE 0)

\* By its length a payload is taken for transport packets with such headers, or
\* for something else, and skipped.
Skipped(p) == p.len % TsPktSize # 0 /\ p.len \notin {SrtHrtp, Hrtp, Rtp}

DataLen(p) == IF Skipped(p) THEN 0 ELSE p.len - Offset(p)
Count(p) == DataLen(p) \div TsPktSize

\* The extension, or an adaptation field, claims more than there is.
TooLong(p) ==
  \/ Extended(p) /\ p.len < Offset(p)
  \/ \E i \in 1 .. Count(p) : p.kinds[i] = "long" /\ DataLen(p) - (i - 1) * TsPktSize < 260

-----------------------------------------------------------------------------
(* process *)

Entry(p, i) == IF Extended(p) /\ i <= p.ext THEN i ELSE 0

Line(p, i) == [index |-> index + i - 1, entry |-> Entry(p, i), of |-> Len(capture) + 1, nth |-> i]
Lines(p) ==
  Joined([i \in 1 .. Count(p) |-> IF p.kinds[i] = "pcr" THEN <<Line(p, i)>> ELSE <<>>], Count(p))

\* Mutant of Process: the index counts the PCRs printed.
ByPcrs(p) ==
  /\ ~TooLong(p)
  /\ lines' = lines \o Lines(p)
  /\ index' = index + Len(Lines(p))
  /\ \E n \in {0, DataLen(p) \div 2, DataLen(p)} : written' = Append(written, n)
  /\ capture' = Append(capture, p)
  /\ UNCHANGED phase

\* A payload is parsed, written, and its PCRs are printed.  Nobody looks whether the
\* write succeeds, or how much it wrote; the index goes on by whole packets.
Process(p) ==
  /\ ~TooLong(p)
  /\ lines' = lines \o Lines(p)
  /\ index' = index + Count(p)
  /\ \E n \in {0, DataLen(p) \div 2, DataLen(p)} : written' = Append(written, n)
  /\ capture' = Append(capture, p)
  /\ UNCHANGED phase

\* A packet without an application layer.
NoPayload ==
  /\ capture' = Append(capture, None)
  /\ written' = Append(written, 0)
  /\ UNCHANGED <<index, lines, phase>>

OutOfRange(p) ==
  /\ TooLong(p)
  /\ phase' = "panic"
  /\ UNCHANGED <<capture, index, written, lines>>

EndOfCapture ==
  /\ phase = "running"
  /\ phase' = "done"
  /\ UNCHANGED <<capture, index, written, lines>>

CapsEnded == phase # "running" /\ UNCHANGED capsVars

CapsNext ==
  \/ /\ phase = "running" /\ Len(capture) < MaxPackets
     /\ NoPayload \/ \E p \in Payload : Process(p) \/ OutOfRange(p)
  \/ EndOfCapture
  \/ CapsEnded

CapsSpec == CapsInit /\ [][CapsNext]_capsVars
-----------------------------------------------------------------------------
(* Properties *)

DataOf(i) == IF capture[i] = None THEN 0 ELSE DataLen(capture[i])
Rests == [i \in DOMAIN capture |-> DataOf(i) % TsPktSize]

\* As long as every write went through, the packet a line is about stands in the file
\* where its index says, moved only by the bytes that payloads in front of it have
\* beyond whole packets.
LinesPointIntoTheFile ==
  (\A i \in DOMAIN capture : written[i] = DataOf(i)) =>
    \A j \in DOMAIN lines :
      LET l == lines[j] IN
      /\ Total(written, l.of - 1) + (l.nth - 1) * TsPktSize
           = l.index * TsPktSize + Total(Rests, l.of - 1)
      /\ capture[l.of].kinds[l.nth] = "pcr"
=============================================================================
