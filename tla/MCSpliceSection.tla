-------------------------- MODULE MCSpliceSection --------------------------
(* Every splice command with few descriptors, and few commands with every   *)
(* loop of two: segmentation descriptors with what their flags ask for, with *)
(* sub-segments behind it or too short, others with lengths around 4.       *)
EXTENDS SpliceSection

Seg(s, extra, id) == [tag |-> 2, len |-> 4 + BytesOf(SegmentDescriptor(s)) + extra, segment |-> s, id |-> id]
Plain == [cancel |-> FALSE, restricted |-> FALSE, program |-> TRUE, duration |-> TRUE,
          components |-> 0, upid |-> 8]
Cancelled == [Plain EXCEPT !.cancel = TRUE]
Other(len) == [tag |-> 0, len |-> len, segment |-> Plain, id |-> 0]

Segmented == {Seg(s, 0, 1) : s \in Segments}
Misfit == {Seg(Plain, 2, 1), Seg(Plain, -1, 1), Seg(Cancelled, 3, 1)}
Others == {Other(0), Other(3), Other(8)}

Cmds ==
  [type : {5}, len : {20, 4095}, insert : Inserts]
    \cup [type : {6}, len : {4095}, specified : BOOLEAN]
    \cup [type : {0, 255}, len : {0, 5, 4095}, there : {0, 5}]

Loops ==
  {<<>>} \cup {<<e>> : e \in Segmented \cup Misfit \cup Others}
    \cup {<<e, f>> : e \in {Seg(Plain, 0, 1), Seg(Cancelled, 0, 1)} \cup Misfit \cup Others,
                     f \in {Other(3), Seg(Plain, 0, 2), Seg(Cancelled, 0, 2)}}
LoopLen(es) == Total(Taking(es), Len(es))

Sec(c, es, p, cut, odd, j) ==
  [pointer |-> p, cmd |-> c, elements |-> es, loop |-> LoopLen(es) + odd,
   size |-> 1 + p + BytesOf(SpliceHeader) + Written(c) + 2 + LoopLen(es) + 4 - cut, junk |-> j]
Junk == {[loop |-> 0, element |-> Other(8)], [loop |-> 30, element |-> Seg(Plain, 0, 3)]}

MCSection ==
  {Sec(c, es, p, cut, 0, j) :
     c \in Cmds, es \in {<<>>, <<Seg(Plain, 0, 1)>>}, p \in 0 .. 1, cut \in {0, 5}, j \in Junk}
  \cup
  {Sec(c, es, 0, cut, odd, j) :
     c \in {[type |-> 6, len |-> 5, specified |-> TRUE], [type |-> 0, len |-> 0, there |-> 0]},
     es \in Loops, cut \in {0, 4, 5}, odd \in 0 .. 1, j \in Junk}
=============================================================================
