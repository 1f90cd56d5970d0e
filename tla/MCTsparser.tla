----------------------------- MODULE MCTsparser -----------------------------
(* All files of at most three packets, and files with a PAT of one packet    *)
(* that announces one program, its PMT of one or two packets, and others in  *)
(* front of, between and behind these: a video stream that carries the PCR, *)
(* a splice stream, private data without end, and a packet the reader panics *)
(* about.                                                                    *)
EXTENDS Tsparser, TLC

CONSTANTS a, v, s

Listing(x, y) == [e \in EsPid |-> IF e = v THEN x ELSE IF e = s THEN y ELSE Nil]

Pat1 == [size |-> 1, programs |-> {a}]
Pmt1 == [size |-> 1, pcr |-> v, streams |-> Listing("video", "scte35")]
Pmt2 == [size |-> 2, pcr |-> v, streams |-> Listing("pes", Nil)]
MCPatSection == {Pat1}
MCPmtSection == {Pmt1, Pmt2}

Pkt(pid, pusi, sec, off, len, head, hlen, pcr, ok) ==
  [pid |-> pid, pusi |-> pusi, sec |-> sec, off |-> off, tail |-> 0, len |-> len,
   head |-> head, hlen |-> hlen, pcr |-> pcr, priv |-> "whole", ok |-> ok]
Psi(pid, sec, off) == Pkt(pid, off = 0, sec, off, 1, "raw", 0, FALSE, TRUE)
Es(pid, pusi, len, pcr) == Pkt(pid, pusi, Nil, 0, len, IF pusi THEN "pes" ELSE "raw",
                               IF pusi THEN 1 ELSE 0, pcr, TRUE)
Endless(k) == [k EXCEPT !.priv = "endless"]

Packets ==
  {Psi(PatPid, Pat1, 0), Psi(a, Pmt1, 0), Psi(a, Pmt2, 0), Psi(a, Pmt2, 1),
   Es(v, TRUE, 2, TRUE), Es(v, FALSE, 1, FALSE), Es(s, TRUE, 1, FALSE), Es(s, FALSE, 1, FALSE),
   Endless(Es(v, FALSE, 1, FALSE)), Pkt(v, FALSE, Nil, 0, 1, "raw", 0, FALSE, FALSE)}

MCFile ==
  UNION {[1 .. n -> Packets] : n \in 0 .. 3}
    \cup {f \in [1 .. 6 -> Packets] :
            \/ /\ f[1].pid \in {v, s} /\ f[1].ok
               /\ f[2] = Psi(PatPid, Pat1, 0) /\ f[4] = Psi(a, Pmt1, 0)
            \/ /\ f[2] = Psi(PatPid, Pat1, 0)
               /\ f[3] = Psi(a, Pmt2, 0) /\ f[5] = Psi(a, Pmt2, 1)}

\* With one program the tables are those of its PMT.
TablesOf(streams, pcr) ==
  [strs |-> streams,
   pcrs |-> [c \in EsPid |-> IF c = pcr THEN {e \in EsPid : streams[e] # Nil} ELSE {}]]
MCRouting == {TablesOf(Listing(Nil, Nil), v)} \cup {TablesOf(t.streams, t.pcr) : t \in MCPmtSection}
=============================================================================
