--------------------------- MODULE SpliceSection ---------------------------
(***************************************************************************)
(* ParseSpliceInfoSection (scte35.go) on the data collected of a splice    *)
(* section: where the parser stands, and the descriptors it comes to.      *)
(*                                                                         *)
(* A section is what was encoded: a pointer, a command, a loop of          *)
(* descriptors, and the number of bytes that are there.  The parser knows  *)
(* its own position only.  Where the encoder put nothing it reads whatever *)
(* the bytes there look like: the section's `junk'.  What a descriptor says *)
(* is its id.                                                              *)
(***************************************************************************)
EXTENDS Fields, FiniteSetsExt, Absent

CONSTANT Section

\* An element of the loop; segment and id are of use for tag 2 only.
Element == [tag : Nat, len : Nat, segment : Segments, id : Nat]
Command ==
  [type : {5}, len : Nat, insert : Inserts] \cup [type : {6}, len : Nat, specified : BOOLEAN]
    \cup [type : {0, 255}, len : Nat, there : Nat]

ASSUME SpliceAssumption ==
  \A s \in Section : /\ s.pointer \in Nat /\ s.size \in Nat /\ s.cmd \in Command
                     /\ s.loop \in Nat /\ s.elements \in Seq(Element)
                     /\ s.junk.loop \in Nat /\ s.junk.element \in Element

VARIABLES sec,         \* the section
          part,        \* "header", "command", "loop length", "loop", "done" or "panic"
          place,       \* r.Base: a byte, the first being 0
          left,        \* descriptor_loop_length, as it is counted down
          descriptors, \* SpliceDescriptorList
          shown        \* SegmentDescriptor, whose values the row shows

spliceVars == <<sec, part, place, left, descriptors, shown>>

SpliceInit ==
  /\ sec \in Section
  /\ part = "header" /\ place = 0
  /\ left = 0 /\ descriptors = <<>> /\ shown = Nil

\* n bytes are read from where the reader stands, or it panics; skipping is free.
Read(n, then) ==
  IF place + n <= sec.size THEN part' = then /\ place' = place + n
  ELSE part' = "panic" /\ UNCHANGED place

Header ==
  /\ part = "header"
  /\ Read(1 + sec.pointer + BytesOf(SpliceHeader), "command")
  /\ UNCHANGED <<sec, left, descriptors, shown>>

\* The bytes a command was written in.
Written(c) ==
  CASE c.type = 5 -> BytesOf(SpliceInsert(c.insert))
    [] c.type = 6 -> BytesOf(SpliceTime(c.specified))
    [] OTHER      -> c.there

\* Mutant of Taken: splice_command_length is always relied on.
LengthTrusted(c) == c.len

\* What the parser takes a command to be: for all but two types, its length.
Taken(c) == IF c.type \in {5, 6} THEN Written(c) ELSE c.len

SpliceCommand ==
  /\ part = "command"
  /\ IF sec.cmd.type \in {5, 6} THEN Read(Taken(sec.cmd), "loop length")
     ELSE place' = place + Taken(sec.cmd) /\ part' = "loop length"
  /\ UNCHANGED <<sec, left, descriptors, shown>>

\* Where the encoder put the loop's length and its i-th element.
CommandAt == 1 + sec.pointer + BytesOf(SpliceHeader)
LoopAt == CommandAt + Written(sec.cmd)
Taking(elements) == [j \in DOMAIN elements |-> 2 + elements[j].len]
ElementAt(i) == LoopAt + 2 + Total(Taking(sec.elements), i - 1)

LoopLength ==
  /\ part = "loop length"
  /\ Read(2, "loop")
  /\ left' = IF place = LoopAt THEN sec.loop ELSE sec.junk.loop
  /\ UNCHANGED <<sec, descriptors, shown>>

ElementSeen ==
  LET here == {i \in DOMAIN sec.elements : ElementAt(i) = place}
  IN  IF here = {} THEN sec.junk.element ELSE sec.elements[Max(here)]

\* One round of the loop: a segmentation descriptor is read by its flags, whatever
\* its length, any other is skipped; each is counted by its length.
SpliceDescriptor ==
  /\ part = "loop" /\ left > 0
  /\ LET e == ElementSeen
         body == IF e.tag = 2 THEN BytesOf(SegmentDescriptor(e.segment)) ELSE e.len - 4
     IN  IF place + BytesOf(Descriptor) + (IF e.tag = 2 THEN body ELSE 0) > sec.size
           THEN part' = "panic" /\ UNCHANGED <<place, left, descriptors, shown>>
           ELSE /\ place' = place + BytesOf(Descriptor) + body
                /\ descriptors' = Append(descriptors, e)
                /\ shown' = IF e.tag = 2 THEN e ELSE shown
                /\ left' = left - (e.len + 2)
                /\ UNCHANGED part
  /\ UNCHANGED sec

LoopEnds ==
  /\ part = "loop" /\ left <= 0
  /\ part' = "done"
  /\ UNCHANGED <<sec, place, left, descriptors, shown>>

SpliceEnded == part \in {"done", "panic"} /\ UNCHANGED spliceVars

SpliceNext == Header \/ SpliceCommand \/ LoopLength \/ SpliceDescriptor \/ LoopEnds \/ SpliceEnded

SpliceSpec == SpliceInit /\ [][SpliceNext]_spliceVars
-----------------------------------------------------------------------------
(* Properties *)

\* The lengths that are relied on are right; a segmentation descriptor holds what
\* its flags ask for and no more, in particular no sub-segments; and the CRC is
\* there, into which a last descriptor of less than four bytes is read.  The length
\* of an insert or a time signal may be anything, as the 0xFFF of older encoders.
WellEncoded(s) ==
  /\ s.cmd.type \notin {5, 6} => s.cmd.len = s.cmd.there
  /\ \A i \in DOMAIN s.elements : LET e == s.elements[i] IN
       e.tag = 2 => e.len = 4 + BytesOf(SegmentDescriptor(e.segment))
  /\ s.loop = Total(Taking(s.elements), Len(s.elements))
  /\ s.size >= LoopAt + 2 + s.loop + 4

\* A well-formed section is read to its end, with all its descriptors in order:
\* lengths below 4 do not put the reader out.  Of several segmentation descriptors
\* the last is kept, the one GetSpliceDuration and GetSegType take for the row.
SpliceAsEncoded ==
  WellEncoded(sec) =>
    /\ part # "panic"
    /\ part = "done" =>
         /\ descriptors = sec.elements
         /\ LET segs == {i \in DOMAIN sec.elements : sec.elements[i].tag = 2}
            IN  shown = IF segs = {} THEN Nil ELSE sec.elements[Max(segs)]
=============================================================================
