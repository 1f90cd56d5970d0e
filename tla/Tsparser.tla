------------------------------ MODULE Tsparser ------------------------------
(***************************************************************************)
(* parse() of cmd/tsparser/parser.go as it runs: the file is read twice,   *)
(* each time by a goroutine of its own (ParseFile, internal/util.go) that  *)
(* hands its packets to the main goroutine over an unbuffered channel.     *)
(* The first pass feeds PsiParser and breaks off when Parse returns true,  *)
(* leaving its reader behind; the second one feeds Demux to the end.       *)
(*                                                                         *)
(* Where the main goroutine is follows from `status' (first pass, Finish), *)
(* `stage' (second pass, reports) and `hand', the packet it has received   *)
(* and not yet dealt with.                                                 *)
(***************************************************************************)
EXTENDS PsiParser, Demux

CONSTANT File  \* the files: sequences of packets

VARIABLES file,     \* the contents of the file
          psiOnly,  \* the parameter of the same name, which main passes as false
          rd,       \* the two reading goroutines, and what they wait for
          hand      \* pkt of the loop that is running, or Nil

passVars == <<records, progPcr, extraPcr, fed, reported, stage>>
ioVars == <<file, psiOnly, rd, hand>>
vars == <<psiVars, passVars, ioVars>>

FilePacket == UNION {{f[i] : i \in DOMAIN f} : f \in File}

\* What the first pass may publish when it has read the tables t.
RoutesFrom(t) ==
  {r \in [strs : StreamMap,
          pcrs : {[c \in EsPid |-> {e \in EsPid : \E p \in Listers(t, e) : t[p].pcr = c}]}] :
     \A e \in EsPid : IF Listers(t, e) = {} THEN r.strs[e] = Nil
                      ELSE \E p \in Listers(t, e) : r.strs[e] = t[p].streams[e]}

\* Mutant of Numbered: counted before the packet.
CountedEarly(k, pos) ==
  [pos |-> pos + 1, pid |-> k.pid, pusi |-> k.pusi, sec |-> k.sec, off |-> k.off,
   tail |-> k.tail, len |-> k.len, head |-> k.head, hlen |-> k.hlen, pcr |-> k.pcr, priv |-> k.priv]

Numbered(k, pos) ==
  [pos |-> pos, pid |-> k.pid, pusi |-> k.pusi, sec |-> k.sec, off |-> k.off, tail |-> k.tail,
   len |-> k.len, head |-> k.head, hlen |-> k.hlen, pcr |-> k.pcr, priv |-> k.priv]

\* What the first pass looks at.
Piece(k) == [pid |-> k.pid, pusi |-> k.pusi, sec |-> k.sec, off |-> k.off, tail |-> k.tail, len |-> k.len]

\* A packet carries what either pass looks at; `ok' is FALSE when its sync byte
\* is wrong, or its adaptation field or the private data in it is longer than the
\* packet, for any of which the goroutine that reads it panics.  The bytes a file has
\* beyond whole packets are one more packet, with zeros behind them.
ASSUME FileAssumption ==
  /\ Kind \subseteq StreamKind
  /\ PsiPid \subseteq EsPid
  /\ FilePacket \subseteq Packet
  /\ \A t \in [PmtPid -> PmtSection \cup {Nil}] : RoutesFrom(t) \subseteq Routing
  /\ \A f \in File : /\ f \in Seq(FilePacket) /\ Len(f) <= MaxFile
                     /\ \A i \in DOMAIN f : /\ f[i].ok \in BOOLEAN
                                            /\ Numbered(f[i], i - 1) # Nil
                                            /\ f[i].pid \in PsiPid => Piece(f[i]) \in PsiPacket

Reader == [pc : {"off", "read", "send", "closed", "panic"}, n : 0 .. MaxFile]

TypeOK ==
  /\ PsiTypeOK
  /\ DemuxTypeOK
  /\ file \in File /\ psiOnly \in BOOLEAN
  /\ rd \in [1 .. 2 -> Reader]
  /\ hand # Nil => hand.pos \in 0 .. MaxFile

Init ==
  /\ PsiInit
  /\ DemuxInit
  /\ file \in File /\ psiOnly \in BOOLEAN
  /\ rd = [i \in 1 .. 2 |-> [pc |-> IF i = 1 THEN "read" ELSE "off", n |-> 0]]
  /\ hand = Nil

Crashed == status = "panic" \/ stage = "panic" \/ \E i \in 1 .. 2 : rd[i].pc = "panic"
Exited == stage = "done" \/ (psiOnly /\ status = "reported")
Running == ~Crashed /\ ~Exited

-----------------------------------------------------------------------------
(* ParseFile: the goroutine that reads, and the channel *)

\* Mutants of Read: a wrong sync byte ends the file; the end of the file is
\* tried again and again.
BadEndsFile(i) ==
  /\ Running
  /\ rd[i].pc = "read"
  /\ rd' = [rd EXCEPT ![i].pc = IF rd[i].n = Len(file) THEN "closed"
                               ELSE IF file[rd[i].n + 1].ok THEN "send" ELSE "closed"]
  /\ UNCHANGED <<psiVars, passVars, file, psiOnly, hand>>
NeverClosed(i) ==
  /\ Running
  /\ rd[i].pc = "read"
  /\ rd' = [rd EXCEPT ![i].pc = IF rd[i].n = Len(file) THEN "read"
                               ELSE IF file[rd[i].n + 1].ok THEN "send" ELSE "panic"]
  /\ UNCHANGED <<psiVars, passVars, file, psiOnly, hand>>

\* io.ReadFull and ParseTsPkt: the end of the file, a packet to panic about, or
\* a packet to send.
Read(i) ==
  /\ Running
  /\ rd[i].pc = "read"
  /\ rd' = [rd EXCEPT ![i].pc = IF rd[i].n = Len(file) THEN "closed"
                               ELSE IF file[rd[i].n + 1].ok THEN "send" ELSE "panic"]
  /\ UNCHANGED <<psiVars, passVars, file, psiOnly, hand>>

\* os.Open fails, or io.ReadFull with an error that is not the end of the file and
\* before it has got a byte.
Unreadable(i) ==
  /\ Running
  /\ rd[i].pc = "read"
  /\ rd' = [rd EXCEPT ![i].pc = "panic"]
  /\ UNCHANGED <<psiVars, passVars, file, psiOnly, hand>>

\* pkts <- pkt meets range pkts: sender and receiver take this step together.
Receive(i) ==
  /\ Running
  /\ hand = Nil
  /\ rd[i].pc = "send"
  /\ hand' = Numbered(file[rd[i].n + 1], rd[i].n)
  /\ rd' = [rd EXCEPT ![i] = [pc |-> "read", n |-> @.n + 1]]
  /\ UNCHANGED <<psiVars, passVars, file, psiOnly>>

-----------------------------------------------------------------------------
(* The main goroutine *)

Receive1 == status = "parsing" /\ Receive(1)

Parse1 ==
  /\ Running
  /\ hand # Nil /\ Parse(hand)
  /\ hand' = Nil
  /\ UNCHANGED <<passVars, file, psiOnly, rd>>

Closed1 ==
  /\ Running
  /\ hand = Nil /\ rd[1].pc = "closed"
  /\ EndOfPackets
  /\ UNCHANGED <<passVars, ioVars>>

\* Mutant of FinishPsi: a run with psiOnly returns ahead of the report.
Unreported ==
  /\ Running
  /\ IF psiOnly THEN /\ status = "done" /\ status' = "reported"
                     /\ UNCHANGED <<tableVars, routeVars, info>>
                ELSE Finish
  /\ UNCHANGED <<passVars, ioVars>>

FinishPsi == Running /\ Finish /\ UNCHANGED <<passVars, ioVars>>

\* Mutants of Setup2: the file is not opened again, but read on; the second pass
\* does not wait for the first.
ReadOn ==
  /\ Running
  /\ status = "reported" /\ Setup
  /\ rd' = [rd EXCEPT ![2] = [pc |-> "read", n |-> rd[1].n]]
  /\ UNCHANGED <<tableVars, info, status, file, psiOnly, hand>>
Hasty ==
  /\ Running
  /\ Setup
  /\ rd' = [rd EXCEPT ![2].pc = "read"]
  /\ UNCHANGED <<tableVars, info, status, file, psiOnly, hand>>

\* The records are made and the file is opened again.
Setup2 ==
  /\ Running
  /\ status = "reported" /\ Setup
  /\ rd' = [rd EXCEPT ![2].pc = "read"]
  /\ UNCHANGED <<tableVars, info, status, file, psiOnly, hand>>

Receive2 == stage = "feeding" /\ Receive(2)

Feed2 ==
  /\ Running
  /\ stage = "feeding" /\ hand # Nil
  /\ Feed(At(hand, hand.pos))
  /\ hand' = Nil
  /\ UNCHANGED <<tableVars, info, status, file, psiOnly, rd>>

Closed2 ==
  /\ Running
  /\ hand = Nil /\ rd[2].pc = "closed"
  /\ FileEnds
  /\ UNCHANGED <<tableVars, info, status, ioVars>>

Report2 ==
  /\ Running
  /\ ReportPcrs \/ (\E e \in EsPid : ReportRecord(e)) \/ AllReported
  /\ UNCHANGED <<tableVars, info, status, ioVars>>

Main == Receive1 \/ Parse1 \/ Closed1 \/ FinishPsi \/ Setup2 \/ Receive2 \/ Feed2
          \/ Closed2 \/ Report2

\* The process is gone, or the main goroutine goes round over private data.
Ended == (~Running \/ stage = "hung") /\ UNCHANGED vars

Next == Main \/ (\E i \in 1 .. 2 : Read(i) \/ Unreadable(i)) \/ Ended

Spec == Init /\ [][Next]_vars

\* The Go scheduler runs every goroutine that can run; files need not be unreadable.
FairSpec == Spec /\ WF_vars(Main) /\ \A i \in 1 .. 2 : WF_vars(Read(i))
-----------------------------------------------------------------------------
(* Properties *)

\* The second pass sees each packet of the file once, in order, at its position.
FedInOrder ==
  /\ rd[2].n = Len(fed) + (IF stage = "feeding" /\ hand # Nil THEN 1 ELSE 0)
  /\ \A i \in DOMAIN fed : fed[i] = At(file[i], i - 1)

\* A run that writes its reports has read the whole file, and so none of its
\* packets was one the reader panics about; a run with psiOnly may exit before the
\* goroutine it left behind gets to the packet it would panic about.
ReportsNeedTheWholeFile ==
  stage \in {"pcr", "reporting", "done"} =>
    Len(fed) = Len(file) /\ \A i \in DOMAIN file : file[i].ok

\* The report of a stream has a row for every start in the file, those before
\* the PAT and the PMT included, at its place in the file.
RowsOfTheWholeFile ==
  stage = "done" =>
    \A e \in EsPid : strs[e] # Nil =>
      {Rows(e)[i].pos : i \in Genuine(e)} =
        {j - 1 : j \in {i \in DOMAIN file : Opens(file[i], e)}}

\* Every run comes to an end, by its reports or by a panic and whatever became of the
\* goroutine left behind; but for one whose second pass has received endless private
\* data in a packet of a stream that logs it, and never gets beyond that packet.
Stuck ==
  /\ stage = "hung" /\ fed # <<>>
  /\ LET k == Last(fed) IN k.priv = "endless" /\ strs[k.pid] \notin {Nil, "scte35"}
Terminates == <>(Crashed \/ Exited \/ Stuck)

\* Each pass, seen by itself, is the component it is composed of.
ImplementsPsiParser == PsiSpec
ImplementsDemux == DemuxSpec
=============================================================================
