--------------------------- MODULE MCVideoRecord ---------------------------
(* PES packets with key frames and without, with two slices, short NAL units *)
(* at the end, one time stamp, two or none; empty ones, some shorter than a  *)
(* header may be, one of another stream id, some without a start code, one   *)
(* with a start code that begins with the byte behind another, one that has  *)
(* a header behind its header; for MPEG-2 with groups open and closed, two   *)
(* pictures, user data, and headers at the very end.                         *)
EXTENDS VideoRecord

Header(flags, stamps) == <<0, 0, 1, 224, flags>> \o stamps

Nal(b) == <<0, 0, 1, b, 9, 9>>
Video ==
  {Header(2, <<33>>) \o Nal(5) \o Nal(38), Header(3, <<44, 40>>) \o Nal(1),
   Header(0, <<>>) \o Nal(5) \o Nal(5) \o Nal(40) \o <<0, 0, 1, 10>>,
   Header(0, <<>>) \o <<9>>, <<0, 0, 1, 10>> \o Nal(5), Nal(9) \o Nal(1),
   <<>>, Header(0, <<>>) \o Header(2, <<33>>) \o Nal(5),
   <<9, 9>> \o Nal(5), Header(0, <<>>) \o <<0, 0, 1>> \o <<0, 0, 1, 0, 0, 1>> \o Nal(5)}

Picture(type) == <<0, 0, 1, 0, 0, 8 * type>>
Gop(closed) == <<0, 0, 1, 184, 0, 0, 0, 64 * closed>>
User(d) == <<0, 0, 1, 178>> \o d
Mpeg2 ==
  {Header(2, <<33>>) \o Gop(1) \o Picture(1) \o User(GA94 \o <<3>>),
   Header(0, <<>>) \o Gop(0) \o Picture(1), Header(3, <<44, 40>>) \o Picture(1) \o Picture(2),
   Header(2, <<55>>) \o Picture(2) \o Picture(1) \o User(DTG1 \o <<65, 24>>),
   Header(0, <<>>) \o SubSeq(Picture(1), 1, 5), Picture(1) \o User(<<1>>)}

MCPes == [c \in Codec |-> IF c = "mp2v" THEN Mpeg2 ELSE Video]
=============================================================================
