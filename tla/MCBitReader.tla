---------------------------- MODULE MCBitReader ----------------------------
(* The call sequences of the parsers of Fields, in data that holds them, or  *)
(* that ends amid the longer ones.  A skipped descriptor of a length below 4 *)
(* is followed by one that is read from before its end.                      *)
EXTENDS BitReader

MCPrograms ==
  TsPkts \cup ReaderPkts \cup PesPkts \cup PrivFields \cup Tables \cup Mp2vHeaders
    \cup {<<ReadBit(8)>> \o SpliceHeader \o SpliceInsert(c) : c \in Inserts}
    \cup {SpliceHeader \o SpliceTime(s) \o <<ReadBit(16)>> : s \in BOOLEAN}
    \cup {Descriptor \o SegmentDescriptor(d) : d \in Segments}
    \cup {SkippedDescriptor(len) \o Descriptor : len \in {0, 4, 12}}
=============================================================================
