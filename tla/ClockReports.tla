---------------------------- MODULE ClockReports ----------------------------
(***************************************************************************)
(* What the two programs report about the clocks of one recording:          *)
(* parse-psi (cmd/parse-psi with internal/ts) prints a time for every PAT,  *)
(* interpolated between PCRs, while it reads the file into one buffer; and  *)
(* tsparser lists the PCRs of each PID with their intervals (pcr.go).       *)
(*                                                                         *)
(* A packet is its PID and, if it has one, its PCR.  The file need not end  *)
(* with a whole packet: of the last one some bytes are read, and the buffer *)
(* keeps the rest of the packet before.                                     *)
(***************************************************************************)
EXTENDS Integers, Sequences

CONSTANTS PatPid,
          Packet,      \* packets: [pid, pcr, val], val being 0 without a PCR
          Wrap,        \* the values a PCR can have: 2^33 * 300
          MaxInterval, \* maxInterval: 40 ms
          MaxFile      \* bound: the whole packets of the file

ASSUME ClockAssumption ==
  /\ Packet \subseteq [pid : Nat, pcr : BOOLEAN, val : 0 .. Wrap - 1]
  /\ \A k \in Packet : ~k.pcr => k.val = 0
  /\ PatPid = 0 /\ Wrap \in Nat \ {0}
  /\ MaxInterval \in Nat /\ MaxFile \in Nat

VARIABLES file,     \* history: what was read so far, an incomplete packet as it was seen
          b,        \* b: the buffer
          previous, \* previous_pcr, [pos, val]
          pats,     \* pat_pos_records
          printed,  \* the lines "PAT", [pos, time]
          pc        \* "reading" or "done"

vars == <<file, b, previous, pats, printed, pc>>

Blank == [pid |-> 0, pcr |-> FALSE, val |-> 0]  \* 188 bytes of 0

Init ==
  /\ file = <<>>
  /\ b = Blank
  /\ previous = [pos |-> 0, val |-> 0]
  /\ pats = <<>> /\ printed = <<>>
  /\ pc = "reading"

-----------------------------------------------------------------------------
(* parse-psi *)

\* Go's division of integers.
Quotient(x, y) == IF x < 0 THEN -((-x) \div y) ELSE x \div y

\* Mutant of Interpolated: it goes by the distance to the PCR that has come.
FromTheEnd(p, pcr) ==
  previous.val + Quotient((pcr.pos - p) * (pcr.val - previous.val), pcr.pos - previous.pos)

Interpolated(p, pcr) ==
  previous.val + Quotient((p - previous.pos) * (pcr.val - previous.val), pcr.pos - previous.pos)

\* Mutant of Timed: the PATs are kept; s.init being FALSE they are printed again.
Kept(pcr, found) ==
  /\ printed' = printed \o [i \in DOMAIN found |-> [pos |-> found[i], time |-> Interpolated(found[i], pcr)]]
  /\ pats' = found
  /\ previous' = pcr

\* A PCR has come: the PATs since the one before are printed.  s.init stays FALSE, so
\* those in front of the first PCR are, too, by a PCR of 0 at position 0.
Timed(pcr, found) ==
  /\ printed' = printed \o [i \in DOMAIN found |-> [pos |-> found[i], time |-> Interpolated(found[i], pcr)]]
  /\ pats' = <<>>
  /\ previous' = pcr

\* One round of the loop, with k in the buffer; the first position is 1.
Round(k) ==
  LET pos   == Len(file) + 1
      found == IF k.pid = PatPid THEN Append(pats, pos) ELSE pats
  IN  /\ b' = k /\ file' = Append(file, k)
      /\ IF k.pcr THEN Timed([pos |-> pos, val |-> k.val], found)
         ELSE pats' = found /\ UNCHANGED <<printed, previous>>

ReadPacket(k) ==
  /\ pc = "reading" /\ Len(file) < MaxFile
  /\ Round(k)
  /\ UNCHANGED pc

\* The last bytes of the file hold the first fields of k only.  A field that is cut
\* itself is anything: the PID, the flags behind it, the PCR.
AnyPcr(k) == {<<FALSE, 0>>} \cup {<<TRUE, v>> : v \in {k.val, b.val, 0, Wrap - 1}}
Blends(k) ==
  {[b EXCEPT !.pid = q.pid] : q \in Packet \cup {b}}
    \cup {[pid |-> k.pid, pcr |-> f[1], val |-> f[2]] : f \in AnyPcr(k)}
ReadRest(k) ==
  /\ pc = "reading"
  /\ \E seen \in Blends(k) : Round(seen)
  /\ pc' = "done"

EndOfFile ==
  /\ pc = "reading"
  /\ pc' = "done"
  /\ UNCHANGED <<file, b, previous, pats, printed>>

Ended == pc = "done" /\ UNCHANGED vars

Next == (\E k \in Packet : ReadPacket(k) \/ ReadRest(k)) \/ EndOfFile \/ Ended

Spec == Init /\ [][Next]_vars

-----------------------------------------------------------------------------
(* CheckPcrInterval of tsparser *)

Row(pos, pcr, diff) == [pos |-> pos, pcr |-> pcr, diff |-> diff, err |-> diff > MaxInterval]

NoPcr == -1

\* Mutant of Checked: 0 stands for no PCR seen.
ZeroIsNone(s, k) ==
  LET diff == IF s.prev # 0 /\ s.prev # NoPcr THEN k.val - s.prev ELSE s.diff
  IN  [prev |-> k.val, diff |-> diff, rows |-> Append(s.rows, Row(k.pos, k.val, diff))]

\* One round of the loop over the list.
Checked(s, k) ==
  LET diff == IF s.prev # NoPcr THEN k.val - s.prev ELSE s.diff
  IN  [prev |-> k.val, diff |-> diff, rows |-> Append(s.rows, Row(k.pos, k.val, diff))]

CheckPcrInterval(list) ==
  LET upto[i \in Nat] ==
        IF i = 0 THEN [prev |-> NoPcr, diff |-> 0, rows |-> <<>>]
        ELSE IF i \in DOMAIN list THEN Checked(upto[i - 1], list[i]) ELSE upto[i - 1]
  IN  upto[Len(list)].rows

-----------------------------------------------------------------------------
(* Properties *)

\* s lists the numbers of S, each once, by their size.
Lists(s, S) ==
  /\ {s[i] : i \in DOMAIN s} = S
  /\ \A i, j \in DOMAIN s : i < j => s[i] < s[j]

Pats == {i \in DOMAIN file : file[i].pid = PatPid}
Pcrs == {i \in DOMAIN file : file[i].pcr}
OneClock == \A i, j \in Pcrs : file[i].pid = file[j].pid /\ (i < j => file[i].val <= file[j].val)

\* Every PAT is printed once, in order, or still waits for a PCR behind the last
\* one; what an incomplete packet at the end passes for counts.  As long as all
\* PCRs are of one PID and none is less than those before it, the time of a PAT
\* lies between that of the PCR before, or 0, and the PCR that follows, it is the
\* PCR itself for a packet that has one, and times do not decrease.
PatsAreTimed ==
  /\ Lists([i \in DOMAIN printed |-> printed[i].pos] \o pats, Pats)
  /\ \A i \in DOMAIN pats : pats[i] > previous.pos
  /\ OneClock =>
       /\ \A i \in DOMAIN printed :
            /\ \E j \in Pcrs : /\ j >= printed[i].pos /\ printed[i].time <= file[j].val
                               /\ j = printed[i].pos => printed[i].time = file[j].val
                               /\ \A n \in Pcrs : n < printed[i].pos => file[n].val <= printed[i].time
                               /\ \A n \in Pcrs : n >= printed[i].pos => j <= n
            /\ printed[i].time >= 0
       /\ \A i, j \in DOMAIN printed : i < j => printed[i].time <= printed[j].time

\* The PCR list Demux makes for a PID, and its report.
ListOf(pid) ==
  LET upto[i \in Nat] ==
        IF i = 0 THEN <<>>
        ELSE IF i \in DOMAIN file /\ file[i].pcr /\ file[i].pid = pid
               THEN Append(upto[i - 1], [pos |-> i, val |-> file[i].val])
        ELSE upto[i - 1]
  IN  upto[Len(file)]

\* A row is marked exactly if more than 40 ms of the clock passed since the PCR
\* before it, be that any value, 0 included; but not if the clock wrapped around
\* in between, however long that took, and never the first.
GapsAreMarked ==
  \A pid \in {file[i].pid : i \in DOMAIN file} :
    LET rows == CheckPcrInterval(ListOf(pid))
        elapsed(i) == (rows[i].pcr - rows[i - 1].pcr) % Wrap
        wrapped(i) == rows[i].pcr < rows[i - 1].pcr
    IN  \A i \in DOMAIN rows :
          /\ rows[i].err <=> i > 1 /\ ~wrapped(i) /\ elapsed(i) > MaxInterval
          /\ i > 1 => rows[i].diff % Wrap = elapsed(i)
=============================================================================
