--------------------------- MODULE TsparserProofs ---------------------------
(* parse() with its two readers, for all files and all their interleavings:  *)
(* the first pass is the PSI parser of PsiParser, the second one is Demux,   *)
(* and sees the file once and in order.                                      *)
EXTENDS Tsparser, PsiParserProofs, DemuxProofs

-----------------------------------------------------------------------------
(* The first pass *)

\* Parse looks at no more of a packet than its piece.
LEMMA ParsesPieces ==
  ASSUME NEW k, Parse(k)
  PROVE  Parse(Piece(k))
<1> DEFINE q == Piece(k)
<1>1. /\ q.pid = k.pid /\ q.pusi = k.pusi /\ q.sec = k.sec
      /\ q.off = k.off /\ q.tail = k.tail /\ q.len = k.len
  BY DEF Piece
<1> HIDE DEF q
<1>2. ASSUME NEW buf, NEW S PROVE Buffered(q, buf, S) = Buffered(k, buf, S)
  BY <1>1 DEF Buffered, AppendData, Continues
<1>3. ASSUME NEW buf, NEW new
      PROVE  /\ Faults(q, buf, new) <=> Faults(k, buf, new)
             /\ MayFault(q, buf, new) <=> MayFault(k, buf, new)
             /\ Complete(q, buf, new) = Complete(k, buf, new)
  BY <1>1 DEF Faults, MayFault, HeaderFault, Complete, Early
<1>4. CASE Skip(k)
  BY <1>1, <1>4 DEF Parse, Skip, q
<1>5. CASE PatFragment(k)
  <2>1. PICK new \in Buffered(q, patData, PatSection) :
          \/ MayFault(k, patData, new) /\ Panic
          \/ ~Faults(k, patData, new) /\ PatBuffered(k, new)
    BY <1>2, <1>5 DEF PatFragment
  <2>2. PatBuffered(k, new) => PatBuffered(q, new)
    BY <1>3 DEF PatBuffered
  <2>3. PatFragment(q)
    BY <1>1, <1>3, <1>5, <2>1, <2>2 DEF PatFragment
  <2> QED
    BY <2>3 DEF Parse, q
<1>6. CASE PmtFragment(k)
  <2> DEFINE buf == pmtData[k.pid]
  <2>1. PICK new \in Buffered(q, buf, PmtSection) :
          \/ MayFault(k, buf, new) /\ Panic
          \/ ~Faults(k, buf, new) /\ PmtBuffered(k, new)
    BY <1>2, <1>6 DEF PmtFragment
  <2>2. PmtBuffered(k, new) => PmtBuffered(q, new)
    BY <1>1, <1>3 DEF PmtBuffered
  <2>3. PmtFragment(q)
    BY <1>1, <1>3, <1>6, <2>1, <2>2 DEF PmtFragment
  <2> QED
    BY <2>3 DEF Parse, q
<1> QED
  BY <1>4, <1>5, <1>6 DEF Parse

\* How far a reader is: what it has read were packets it does not panic about,
\* it only sends what there is, and it closes the channel at the end of the file.
Progress(r) ==
  /\ r.n <= Len(file)
  /\ r.pc = "send" => r.n < Len(file) /\ file[r.n + 1].ok
  /\ r.pc = "closed" => r.n = Len(file)
  /\ \A j \in 1 .. r.n : file[j].ok

ReaderState == [pc : {"off", "read", "send", "closed", "panic"}, n : Nat]

\* Inductive: what either pass has in hand is a packet of the file.
HandInv ==
  /\ PsiTypeOK
  /\ file \in File /\ file \in Seq(FilePacket)
  /\ rd \in [1 .. 2 -> ReaderState]
  /\ \A i \in 1 .. 2 : Progress(rd[i])
  /\ hand # Nil => \E i \in DOMAIN file : hand = Numbered(file[i], i - 1)

LEMMA HandInit == Init => HandInv
<1> SUFFICES ASSUME Init PROVE HandInv
  OBVIOUS
<1>1. PsiTypeOK /\ file \in File /\ hand = Nil
  BY InitType DEF Init
<1>2. file \in Seq(FilePacket)
  BY <1>1, FileAssumption
<1>3. ASSUME NEW i \in 1 .. 2
      PROVE  rd[i] \in ReaderState /\ rd[i].pc \in {"read", "off"} /\ rd[i].n = 0
  BY DEF Init, ReaderState
<1>4. rd \in [1 .. 2 -> ReaderState]
  BY <1>3 DEF Init
<1>5. Len(file) \in Nat
  BY <1>2
<1>6. \A i \in 1 .. 2 : Progress(rd[i])
  BY <1>3, <1>5 DEF Progress
<1> QED
  BY <1>1, <1>2, <1>4, <1>6 DEF HandInv

\* Of the file's packets the parser takes those of its PIDs for what they carry,
\* and skips the others.
LEMMA ParsesTheFile ==
  ASSUME PsiTypeOK, file \in File, NEW i \in DOMAIN file, Parse(Numbered(file[i], i - 1))
  PROVE  [PsiNext]_psiVars
<1> DEFINE k == Numbered(file[i], i - 1)
<1>1. Piece(k) = Piece(file[i]) /\ k.pid = file[i].pid
  BY DEF Piece, Numbered
<1>2. Parse(Piece(k))
  BY ParsesPieces
<1>3. CASE k.pid \in PsiPid
  <2>1. Piece(k) \in PsiPacket
    BY <1>1, <1>3, FileAssumption
  <2> QED
    BY <1>2, <2>1 DEF PsiNext
<1>4. CASE k.pid \notin PsiPid
  <2>1. pat # Nil => pat.programs \subseteq PmtPid
    BY PsiAssumption DEF PsiTypeOK, Section
  <2>2. ~PatFragment(k) /\ ~PmtFragment(k)
    BY <1>4, <2>1 DEF PatFragment, PmtFragment, PsiPid
  <2>3. Skip(k)
    BY <2>2 DEF Parse
  <2> QED
    BY <2>3 DEF Skip
<1> QED
  BY <1>3, <1>4

\* Each step of parse() is a step of the PSI parser or leaves it alone.
LEMMA StepsOfTheParser == HandInv /\ [Next]_vars => [PsiNext]_psiVars
<1> SUFFICES ASSUME HandInv, [Next]_vars PROVE [PsiNext]_psiVars
  OBVIOUS
<1>1. CASE Receive1 \/ Receive2 \/ \E i \in 1 .. 2 : Read(i) \/ Unreadable(i)
  BY <1>1 DEF Receive1, Receive2, Receive, Read, Unreadable
<1>2. CASE Parse1
  <2>1. hand # Nil /\ Parse(hand)
    BY <1>2 DEF Parse1
  <2>2. PICK i \in DOMAIN file : hand = Numbered(file[i], i - 1)
    BY <2>1 DEF HandInv
  <2> QED
    BY <2>1, <2>2, ParsesTheFile DEF HandInv
<1>3. CASE Closed1
  BY <1>3 DEF Closed1, PsiNext
<1>4. CASE FinishPsi
  BY <1>4 DEF FinishPsi, PsiNext
<1>5. CASE Setup2
  BY <1>5 DEF Setup2, Setup, routes, psiVars, routeVars
<1>6. CASE Feed2
  BY <1>6 DEF Feed2, Feed, DemuxPanic, Stops, routes, psiVars, routeVars
<1>7. CASE Closed2
  BY <1>7 DEF Closed2, FileEnds, routes, psiVars, routeVars
<1>8. CASE Report2
  BY <1>8 DEF Report2, ReportPcrs, ReportRecord, AllReported, DemuxPanic, Stops, routes,
              psiVars, routeVars
<1>9. CASE UNCHANGED vars
  BY <1>9 DEF vars
<1> QED
  BY <1>1, <1>2, <1>3, <1>4, <1>5, <1>6, <1>7, <1>8, <1>9 DEF Next, Main, Ended

\* Reading moves a reader on to its next packet, the end, or a panic.
LEMMA ReadKeeps ==
  ASSUME HandInv, NEW i \in 1 .. 2, Read(i)
  PROVE  HandInv' /\ rd'[i].n = rd[i].n
<1>1. UNCHANGED <<psiVars, file, hand>> /\ rd[i].pc = "read"
  BY DEF Read
<1> DEFINE pc == IF rd[i].n = Len(file) THEN "closed"
                 ELSE IF file[rd[i].n + 1].ok THEN "send" ELSE "panic"
<1>2. rd' = [rd EXCEPT ![i] = [pc |-> pc, n |-> rd[i].n]]
  <2>1. rd' = [rd EXCEPT ![i].pc = pc]
    BY DEF Read
  <2>2. [rd[i] EXCEPT !.pc = pc] = [pc |-> pc, n |-> rd[i].n]
    BY DEF HandInv, ReaderState
  <2> QED
    BY <2>1, <2>2
<1>3. Len(file) \in Nat /\ rd[i].n \in Nat
  BY DEF HandInv, ReaderState
<1>4. \A j \in 1 .. 2 : j # i => rd'[j] = rd[j]
  BY <1>2 DEF HandInv
<1>5. rd'[i] = [pc |-> pc, n |-> rd[i].n]
  BY <1>2 DEF HandInv
<1>6. Progress(rd[i]) /\ UNCHANGED file
  BY <1>1 DEF HandInv
<1>7. Progress(rd[i])'
  BY <1>2, <1>3, <1>5, <1>6 DEF Progress
<1>8. \A j \in 1 .. 2 : Progress(rd[j])'
  BY <1>1, <1>4, <1>7 DEF HandInv, Progress
<1>9. rd' \in [1 .. 2 -> ReaderState]
  BY <1>2, <1>3 DEF HandInv, ReaderState
<1>10. PsiTypeOK'
  BY <1>1, StepType DEF HandInv
<1> QED
  BY <1>1, <1>5, <1>8, <1>9, <1>10 DEF HandInv

\* A file that cannot be read stops its reader where it is.
LEMMA UnreadableKeeps ==
  ASSUME HandInv, NEW i \in 1 .. 2, Unreadable(i)
  PROVE  HandInv' /\ rd'[i].n = rd[i].n
<1>1. UNCHANGED <<psiVars, file, hand>> /\ rd[i] \in ReaderState
  BY DEF Unreadable, HandInv
<1>2. rd' = [rd EXCEPT ![i] = [pc |-> "panic", n |-> rd[i].n]]
  <2>1. [rd[i] EXCEPT !.pc = "panic"] = [pc |-> "panic", n |-> rd[i].n]
    BY <1>1 DEF ReaderState
  <2> QED
    BY <2>1 DEF Unreadable
<1>3. rd'[i] = [pc |-> "panic", n |-> rd[i].n] /\ \A j \in 1 .. 2 : j # i => rd'[j] = rd[j]
  BY <1>2 DEF HandInv
<1>4. \A j \in 1 .. 2 : Progress(rd[j])'
  BY <1>1, <1>3 DEF HandInv, Progress
<1>5. rd' \in [1 .. 2 -> ReaderState]
  BY <1>1, <1>2 DEF HandInv, ReaderState
<1>6. PsiTypeOK'
  BY <1>1, StepType DEF HandInv
<1> QED
  BY <1>1, <1>3, <1>4, <1>5, <1>6 DEF HandInv

\* What is received is the packet the reader stands before.
LEMMA ReceiveKeeps ==
  ASSUME HandInv, NEW i \in 1 .. 2, Receive(i)
  PROVE  /\ HandInv' /\ hand' # Nil
         /\ rd'[i].n = rd[i].n + 1 /\ \A j \in 1 .. 2 : j # i => rd'[j] = rd[j]
         /\ rd[i].n + 1 \in DOMAIN file
         /\ hand' = Numbered(file[rd[i].n + 1], rd[i].n)
<1>1. UNCHANGED <<psiVars, file>> /\ rd[i].pc = "send"
      /\ hand' = Numbered(file[rd[i].n + 1], rd[i].n)
      /\ rd' = [rd EXCEPT ![i] = [pc |-> "read", n |-> rd[i].n + 1]]
  BY DEF Receive
<1>2. Len(file) \in Nat /\ rd[i].n \in Nat /\ Progress(rd[i])
  BY DEF HandInv, ReaderState
<1>3. rd'[i] = [pc |-> "read", n |-> rd[i].n + 1] /\ \A j \in 1 .. 2 : j # i => rd'[j] = rd[j]
  BY <1>1 DEF HandInv
<1>4. rd[i].n + 1 \in DOMAIN file /\ rd[i].n = (rd[i].n + 1) - 1
  BY <1>1, <1>2 DEF Progress, HandInv
<1>5. hand' # Nil
  BY <1>1, <1>4, FileAssumption DEF HandInv
<1>6. \E j \in DOMAIN file : hand' = Numbered(file[j], j - 1)
  BY <1>1, <1>4
<1>7. Progress(rd[i])'
  BY <1>1, <1>2, <1>3 DEF Progress
<1>8. \A j \in 1 .. 2 : Progress(rd[j])'
  BY <1>1, <1>3, <1>7 DEF HandInv, Progress
<1>9. rd' \in [1 .. 2 -> ReaderState]
  BY <1>1, <1>2 DEF HandInv, ReaderState
<1>10. PsiTypeOK'
  BY <1>1, StepType DEF HandInv
<1>11. HandInv'
  BY <1>1, <1>6, <1>8, <1>9, <1>10 DEF HandInv
<1> QED
  BY <1>1, <1>3, <1>4, <1>5, <1>11

\* The second reader is started at the beginning of the file.
LEMMA SetupKeeps ==
  ASSUME HandInv, Setup2
  PROVE  /\ HandInv'
         /\ rd'[1] = rd[1] /\ rd'[2].n = rd[2].n
         /\ stage = "waiting" /\ stage' = "feeding" /\ status = "reported"
         /\ UNCHANGED <<status, fed, file, hand>>
<1>1. /\ rd' = [rd EXCEPT ![2].pc = "read"]
      /\ stage = "waiting" /\ stage' = "feeding" /\ status = "reported"
      /\ UNCHANGED <<status, fed, file, hand>>
  BY DEF Setup2, Setup
<1>2. rd'[2] = [pc |-> "read", n |-> rd[2].n] /\ rd'[1] = rd[1] /\ rd[2].n \in Nat
  BY <1>1 DEF HandInv, ReaderState
<1>3. \A j \in 1 .. 2 : Progress(rd[j])'
  BY <1>1, <1>2 DEF HandInv, Progress
<1>4. rd' \in [1 .. 2 -> ReaderState]
  BY <1>1, <1>2 DEF HandInv, ReaderState
<1>5. PsiTypeOK'
  BY StepsOfTheParser, StepType DEF HandInv, Next, Main
<1>6. HandInv'
  BY <1>1, <1>3, <1>4, <1>5 DEF HandInv
<1> QED
  BY <1>1, <1>2, <1>6

\* The other steps leave file and readers alone, and take nothing in hand.
LEMMA OthersKeep ==
  ASSUME HandInv, [Next]_vars,
         Parse1 \/ Closed1 \/ FinishPsi \/ Feed2 \/ Closed2 \/ Report2 \/ UNCHANGED vars
  PROVE  HandInv' /\ UNCHANGED <<file, rd>> /\ hand' \in {hand, Nil}
<1>1. UNCHANGED <<file, rd>> /\ hand' \in {hand, Nil}
  BY DEF Parse1, Closed1, FinishPsi, Feed2, Closed2, Report2, vars, ioVars
<1>2. PsiTypeOK'
  BY StepsOfTheParser, StepType DEF HandInv
<1> QED
  BY <1>1, <1>2 DEF HandInv, Progress

LEMMA HandStep == HandInv /\ [Next]_vars => HandInv'
<1> SUFFICES ASSUME HandInv, [Next]_vars PROVE HandInv'
  OBVIOUS
<1>1. ASSUME NEW i \in 1 .. 2, Read(i) \/ Unreadable(i) PROVE HandInv'
  BY <1>1, ReadKeeps, UnreadableKeeps
<1>2. ASSUME NEW i \in 1 .. 2, Receive(i) PROVE HandInv'
  BY <1>2, ReceiveKeeps
<1>3. CASE Setup2
  BY <1>3, SetupKeeps
<1>4. CASE Parse1 \/ Closed1 \/ FinishPsi \/ Feed2 \/ Closed2 \/ Report2 \/ UNCHANGED vars
  BY <1>4, OthersKeep
<1> QED
  BY <1>1, <1>2, <1>3, <1>4 DEF Next, Main, Ended, Receive1, Receive2

\* The first pass of parse() is the PSI parser: whatever is shown of PsiParser
\* holds in the composition, with the readers running beside it.
THEOREM FirstPassIsTheParser == Spec => ImplementsPsiParser
<1>1. Init => PsiInit
  BY DEF Init
<1> QED
  BY <1>1, HandInit, HandStep, StepsOfTheParser, PTL DEF Spec, ImplementsPsiParser, PsiSpec

-----------------------------------------------------------------------------
(* The second pass *)

FedPacket == UNION {{At(f[i], i - 1) : i \in DOMAIN f} : f \in File}

\* Inductive: where the main goroutine is, and what the second reader has done
\* by then.
PassInv ==
  /\ HandInv
  /\ stage \in {"waiting", "feeding", "pcr", "reporting", "done", "panic", "hung"}
  /\ fed \in Seq(FedPacket)
  /\ stage = "waiting" => rd[2].pc = "off" /\ rd[2].n = 0 /\ fed = <<>>
  /\ stage # "waiting" => status = "reported"
  /\ stage \in {"pcr", "reporting", "done"} => rd[2].pc = "closed"
  /\ hand # Nil => \/ stage = "waiting" /\ status = "parsing"
                   \/ /\ stage = "feeding"
                      /\ rd[2].n \in DOMAIN file /\ hand = Numbered(file[rd[2].n], rd[2].n - 1)
  /\ FedInOrder

\* The main goroutine deals with a packet, or the end of the file, in one pass only.
LEMMA MainIsInOnePass ==
  /\ Parse1 => status = "parsing" /\ UNCHANGED <<stage, fed>> /\ hand' = Nil
  /\ Closed1 => status = "parsing" /\ UNCHANGED <<stage, fed, hand>> /\ hand = Nil
  /\ FinishPsi => status = "done" /\ UNCHANGED <<stage, fed, hand>>
  /\ Feed2 => /\ stage = "feeding" /\ stage' \in {"feeding", "panic", "hung"} /\ UNCHANGED status
              /\ hand # Nil /\ hand' = Nil /\ fed' = Append(fed, At(hand, hand.pos))
  /\ Closed2 => /\ stage = "feeding" /\ stage' = "pcr" /\ rd[2].pc = "closed"
                /\ hand = Nil /\ UNCHANGED <<status, fed, hand>>
  /\ Report2 => /\ stage \in {"pcr", "reporting"} /\ stage' \in {"reporting", "done", "panic"}
                /\ UNCHANGED <<status, fed, hand>>
<1>1. Parse1 => status = "parsing" /\ UNCHANGED <<stage, fed>> /\ hand' = Nil
  BY DEF Parse1, Parse, passVars
<1>2. Closed1 => status = "parsing" /\ UNCHANGED <<stage, fed, hand>> /\ hand = Nil
  BY DEF Closed1, EndOfPackets, passVars, ioVars
<1>3. FinishPsi => status = "done" /\ UNCHANGED <<stage, fed, hand>>
  BY DEF FinishPsi, Finish, passVars, ioVars
<1>4. Feed2 => /\ stage = "feeding" /\ stage' \in {"feeding", "panic", "hung"} /\ UNCHANGED status
               /\ hand # Nil /\ hand' = Nil /\ fed' = Append(fed, At(hand, hand.pos))
  BY DEF Feed2, Feed, DemuxPanic, Stops
<1>5. Closed2 => /\ stage = "feeding" /\ stage' = "pcr" /\ rd[2].pc = "closed"
                 /\ hand = Nil /\ UNCHANGED <<status, fed, hand>>
  BY DEF Closed2, FileEnds, ioVars
<1>6. Report2 => /\ stage \in {"pcr", "reporting"} /\ stage' \in {"reporting", "done", "panic"}
                 /\ UNCHANGED <<status, fed, hand>>
  BY DEF Report2, ReportPcrs, ReportRecord, AllReported, DemuxPanic, Stops, ioVars
<1> QED
  BY <1>1, <1>2, <1>3, <1>4, <1>5, <1>6

\* The number of a packet is its position: what the second pass makes of a packet
\* in hand is what it makes of the packet of the file.
LEMMA NumberIsPosition ==
  ASSUME NEW k, NEW n
  PROVE  At(Numbered(k, n), Numbered(k, n).pos) = At(k, n)
BY DEF At, Numbered

LEMMA PassInit == Init => PassInv
<1> SUFFICES ASSUME Init PROVE PassInv
  OBVIOUS
<1>1. /\ HandInv /\ hand = Nil
      /\ stage = "waiting" /\ fed = <<>>
      /\ rd[2].pc = "off" /\ rd[2].n = 0
  BY HandInit DEF Init, DemuxInit
<1>2. FedInOrder
  BY <1>1 DEF FedInOrder
<1> QED
  BY <1>1, <1>2 DEF PassInv

\* The packet in hand is the next one to be fed.
LEMMA FeedKeeps ==
  ASSUME PassInv, [Next]_vars, Feed2
  PROVE  FedInOrder' /\ fed' \in Seq(FedPacket)
<1>1. /\ stage = "feeding" /\ hand # Nil /\ hand' = Nil
      /\ fed' = Append(fed, At(hand, hand.pos))
      /\ UNCHANGED <<file, rd>>
  BY MainIsInOnePass, OthersKeep DEF PassInv
<1> DEFINE n == rd[2].n
<1>2. n \in DOMAIN file /\ hand = Numbered(file[n], n - 1)
  BY <1>1 DEF PassInv
<1>3. At(hand, hand.pos) = At(file[n], n - 1)
  BY <1>2, NumberIsPosition
<1>4. n = Len(fed) + 1 /\ \A i \in DOMAIN fed : fed[i] = At(file[i], i - 1)
  BY <1>1 DEF PassInv, FedInOrder
<1>5. At(file[n], n - 1) \in FedPacket
  BY <1>2 DEF PassInv, HandInv, FedPacket
<1> HIDE DEF n
<1>6. fed \in Seq(FedPacket)
  BY DEF PassInv
<1>7. /\ fed' \in Seq(FedPacket) /\ Len(fed') = n
      /\ \A i \in DOMAIN fed' : fed'[i] = At(file[i], i - 1)
  BY <1>1, <1>3, <1>4, <1>5, <1>6
<1> QED
  BY <1>1, <1>7 DEF FedInOrder, n

LEMMA PassStep == PassInv /\ [Next]_vars => PassInv'
<1> SUFFICES ASSUME PassInv, [Next]_vars PROVE PassInv'
  OBVIOUS
<1>0. HandInv'
  BY HandStep DEF PassInv
<1>1. ASSUME NEW i \in 1 .. 2, Read(i) \/ Unreadable(i) PROVE PassInv'
  <2>1. UNCHANGED <<stage, fed, status, hand, file>> /\ rd[i].pc = "read"
        /\ \A j \in 1 .. 2 : rd'[j].n = rd[j].n /\ (j # i => rd'[j] = rd[j])
    BY <1>1, ReadKeeps, UnreadableKeeps DEF Read, Unreadable, psiVars, passVars, PassInv, HandInv
  <2>2. FedInOrder'
    BY <2>1 DEF PassInv, FedInOrder
  <2>3. stage = "waiting" => rd'[2].pc = "off" /\ rd'[2].n = 0
    BY <2>1 DEF PassInv
  <2>4. stage \in {"pcr", "reporting", "done"} => rd'[2].pc = "closed"
    BY <2>1 DEF PassInv
  <2> QED
    BY <1>0, <2>1, <2>2, <2>3, <2>4 DEF PassInv
<1>2. CASE Receive1
  <2>1. UNCHANGED <<stage, fed, status, file>> /\ status = "parsing" /\ rd'[2] = rd[2]
    BY <1>2, ReceiveKeeps DEF Receive1, Receive, psiVars, passVars, PassInv
  <2>2. stage = "waiting"
    BY <2>1 DEF PassInv
  <2>3. FedInOrder'
    BY <2>1, <2>2 DEF PassInv, FedInOrder
  <2> QED
    BY <1>0, <2>1, <2>2, <2>3 DEF PassInv
<1>3. CASE Receive2
  <2>1. UNCHANGED <<stage, fed, status, file>> /\ stage = "feeding" /\ hand = Nil
    BY <1>3 DEF Receive2, Receive, psiVars, passVars
  <2>2. /\ hand' # Nil /\ rd'[2].n = rd[2].n + 1 /\ rd[2].n + 1 \in DOMAIN file
        /\ hand' = Numbered(file[rd[2].n + 1], rd[2].n)
    BY <1>3, ReceiveKeeps DEF Receive2, PassInv
  <2>3. Len(fed) \in Nat /\ rd[2].n = Len(fed)
    BY <2>1 DEF PassInv, FedInOrder
  <2>4. rd[2].n = rd'[2].n - 1
    BY <2>2, <2>3
  <2>5. FedInOrder'
    BY <2>1, <2>2, <2>3 DEF PassInv, FedInOrder
  <2> QED
    BY <1>0, <2>1, <2>2, <2>4, <2>5 DEF PassInv
<1>4. CASE Setup2
  <2>1. /\ rd'[2].n = rd[2].n /\ status = "reported"
        /\ stage = "waiting" /\ stage' = "feeding" /\ UNCHANGED <<status, fed, file, hand>>
    BY <1>4, SetupKeeps DEF PassInv
  <2>2. hand = Nil /\ rd[2].n = 0 /\ fed = <<>>
    BY <2>1 DEF PassInv
  <2>3. FedInOrder'
    BY <2>1, <2>2 DEF FedInOrder
  <2> QED
    BY <1>0, <2>1, <2>2, <2>3 DEF PassInv
<1>5. CASE Parse1 \/ Closed1 \/ FinishPsi
  <2>1. UNCHANGED <<file, rd>>
    BY <1>5, OthersKeep DEF PassInv
  <2>2. status \in {"parsing", "done"} /\ UNCHANGED <<stage, fed>>
    BY <1>5, MainIsInOnePass
  <2>3. stage = "waiting"
    BY <2>2 DEF PassInv
  <2>4. hand' = Nil
    BY <1>5, <2>3, MainIsInOnePass DEF PassInv
  <2>5. FedInOrder'
    BY <2>1, <2>2, <2>3 DEF PassInv, FedInOrder
  <2> QED
    BY <1>0, <2>1, <2>2, <2>3, <2>4, <2>5 DEF PassInv
<1>6. CASE Feed2
  BY <1>0, <1>6, FeedKeeps, MainIsInOnePass, OthersKeep DEF PassInv
<1>7. CASE Closed2 \/ Report2
  <2>1. UNCHANGED <<file, rd, fed, status, hand>>
    BY <1>7, OthersKeep, MainIsInOnePass DEF PassInv
  <2>2. /\ stage \in {"feeding", "pcr", "reporting"} /\ rd[2].pc = "closed"
        /\ stage' \in {"pcr", "reporting", "done", "panic"}
    BY <1>7, MainIsInOnePass DEF PassInv
  <2>3. hand = Nil
    BY <1>7, MainIsInOnePass DEF PassInv
  <2>4. FedInOrder'
    BY <2>1, <2>3 DEF PassInv, FedInOrder
  <2> QED
    BY <1>0, <2>1, <2>2, <2>3, <2>4 DEF PassInv
<1>8. CASE UNCHANGED vars
  BY <1>0, <1>8 DEF vars, psiVars, passVars, ioVars, PassInv, FedInOrder
<1> QED
  BY <1>1, <1>2, <1>3, <1>4, <1>5, <1>6, <1>7, <1>8 DEF Next, Main, Ended

\* The second pass sees each packet once, in order and at its position, however
\* its reader and the one left behind are scheduled.
THEOREM SecondPassInOrder == Spec => []FedInOrder
<1>1. PassInv => FedInOrder
  BY DEF PassInv
<1> QED
  BY <1>1, PassInit, PassStep, PTL DEF Spec

\* Reports are about the whole file: the main goroutine gets there only through a
\* channel that was closed at the end of it.
THEOREM ReportsAreComplete == Spec => []ReportsNeedTheWholeFile
<1>1. PassInv => ReportsNeedTheWholeFile
  <2> SUFFICES ASSUME PassInv, stage \in {"pcr", "reporting", "done"}
               PROVE  Len(fed) = Len(file) /\ \A i \in DOMAIN file : file[i].ok
    BY DEF ReportsNeedTheWholeFile
  <2>1. rd[2].pc = "closed" /\ Progress(rd[2])
    BY DEF PassInv, HandInv
  <2>2. Len(fed) = rd[2].n /\ rd[2].n = Len(file)
    BY <2>1 DEF PassInv, FedInOrder, Progress
  <2>3. \A i \in DOMAIN file : file[i].ok
    BY <2>1, <2>2 DEF PassInv, HandInv, Progress
  <2> QED
    BY <2>2, <2>3
<1> QED
  BY <1>1, PassInit, PassStep, PTL DEF Spec

-----------------------------------------------------------------------------
(* Refinement of the second pass *)

\* The routes change in one step only, from nothing to those of tables.
LEMMA RoutesChange ==
  ASSUME RouteInv, [PsiNext]_psiVars
  PROVE  UNCHANGED routeVars \/ (status = "parsing" /\ [strs |-> strs', pcrs |-> pcrs'] \in Routing)
<1>1. UNCHANGED routeVars \/ (status = "parsing" /\ status' = "done")
  <2>1. ASSUME NEW pkt \in PsiPacket, Parse(pkt)
        PROVE  UNCHANGED routeVars \/ (status = "parsing" /\ status' = "done")
    BY <2>1 DEF Parse, Skip, PatFragment, PatBuffered, PmtFragment, PmtBuffered, Panic, ParseDone, psiVars
  <2>2. CASE EndOfPackets \/ Finish \/ PsiEnded \/ UNCHANGED psiVars
    BY <2>2 DEF EndOfPackets, Finish, PsiEnded, Panic, ParseDone, psiVars
  <2> QED
    BY <2>1, <2>2 DEF PsiNext
<1>2. CASE status = "parsing" /\ status' = "done"
  <2>1. RouteInv'
    BY RouteStep
  <2>2. RoutesOf(pmts', strs', pcrs') /\ PsiTypeOK'
    BY <1>2, <2>1 DEF RouteInv, TablesInv
  <2>3. pmts' \in [PmtPid -> PmtSection \cup {Nil}] /\ strs' \in StreamMap
    BY <2>2 DEF PsiTypeOK
  <2>4. [strs |-> strs', pcrs |-> pcrs'] \in RoutesFrom(pmts')
    BY <2>2, <2>3 DEF RoutesOf, RoutesFrom
  <2> QED
    BY <1>2, <2>3, <2>4, FileAssumption
<1> QED
  BY <1>1, <1>2

\* A packet in hand is the next one of the file to be fed.
LEMMA FeedIsNext ==
  ASSUME PassInv, Feed2
  PROVE  FeedAny
<1> DEFINE n == rd[2].n
<1>1. n \in DOMAIN file /\ hand = Numbered(file[n], n - 1) /\ stage = "feeding" /\ hand # Nil
  BY DEF PassInv, Feed2
<1>2. n = Len(fed) + 1 /\ Len(fed) \in Nat /\ Len(file) \in Nat
  BY <1>1 DEF PassInv, HandInv, FedInOrder
<1>3. n <= Len(file) /\ Len(file) <= MaxFile /\ MaxFile \in Nat
  BY <1>1, FileAssumption, DemuxAssumption DEF PassInv, HandInv
<1>4. file[n] \in Packet
  <2>1. file[n] \in FilePacket
    BY <1>1 DEF PassInv, HandInv
  <2> QED
    BY <2>1, FileAssumption
<1>5. n - 1 = Len(fed)
  BY <1>2
<1>6. Feed(At(hand, hand.pos))
  BY DEF Feed2
<1>7. At(hand, hand.pos) = At(file[n], Len(fed))
  BY <1>1, <1>5, NumberIsPosition
<1>8. Feed(At(file[n], Len(fed)))
  BY <1>6, <1>7
<1> QED
  BY <1>2, <1>3, <1>4, <1>8 DEF FeedAny

\* Each step of parse() is a step of the second pass, its environment publishing
\* the routes, or leaves it alone.
LEMMA StepsOfThePass ==
  ASSUME PassInv, RouteInv, [Next]_vars
  PROVE  [DemuxNext]_demuxVars
<1>1. UNCHANGED routeVars \/ (status = "parsing" /\ [strs |-> strs', pcrs |-> pcrs'] \in Routing)
  BY StepsOfTheParser, RoutesChange DEF PassInv
<1>2. CASE UNCHANGED passVars
  <2>1. CASE UNCHANGED routeVars
    BY <1>2, <2>1 DEF passVars, routeVars, demuxVars, routes, lists
  <2>2. CASE status = "parsing" /\ [strs |-> strs', pcrs |-> pcrs'] \in Routing
    <3>1. stage = "waiting"
      BY <2>2 DEF PassInv
    <3>2. \E r \in Routing : strs' = r.strs /\ pcrs' = r.pcrs
      BY <2>2
    <3>3. Published
      BY <1>2, <3>1, <3>2 DEF Published, lists, passVars
    <3> QED
      BY <3>3 DEF DemuxNext
  <2> QED
    BY <1>1, <2>1, <2>2
<1>3. CASE Setup2
  BY <1>3 DEF Setup2, DemuxNext
<1>4. CASE Feed2
  BY <1>4, FeedIsNext DEF DemuxNext
<1>5. CASE Closed2 \/ Report2
  BY <1>5 DEF Closed2, Report2, DemuxNext
<1>6. Receive1 \/ Parse1 \/ Closed1 \/ FinishPsi \/ Receive2 \/ UNCHANGED vars
      \/ (\E i \in 1 .. 2 : Read(i) \/ Unreadable(i)) => UNCHANGED passVars
  BY DEF Receive1, Receive2, Receive, Parse1, Closed1, FinishPsi, Read, Unreadable, vars
<1> QED
  BY <1>2, <1>3, <1>4, <1>5, <1>6 DEF Next, Main, Ended

\* The second pass of parse() is the component Demux: it waits for the routes of
\* the first pass, and then deals with the packets of the file.
THEOREM SecondPassIsTheDemux == Spec => ImplementsDemux
<1>1. Init => DemuxInit
  BY DEF Init
<1>2. Init => RouteInv
  BY RouteInit DEF Init
<1>3. RouteInv /\ PassInv /\ [Next]_vars => RouteInv'
  BY RouteStep, StepsOfTheParser DEF PassInv
<1>4. RouteInv /\ PassInv /\ [Next]_vars => [DemuxNext]_demuxVars
  BY StepsOfThePass
<1> QED
  BY <1>1, <1>2, <1>3, <1>4, PassInit, PassStep, PTL DEF Spec, ImplementsDemux, DemuxSpec

-----------------------------------------------------------------------------
(* The rows of the whole file *)

\* What a run reports is what the second pass made of the whole file.
LEMMA WholeFile ==
  PassInv /\ DemuxInv /\ RowInv /\ ReportsNeedTheWholeFile => RowsOfTheWholeFile
<1> SUFFICES ASSUME PassInv, DemuxInv, RowInv, ReportsNeedTheWholeFile, stage = "done",
                    NEW e \in EsPid, strs[e] # Nil
             PROVE  {Rows(e)[i].pos : i \in Genuine(e)} =
                      {j - 1 : j \in {i \in DOMAIN file : Opens(file[i], e)}}
  BY DEF RowsOfTheWholeFile
<1>1. records[e] # Nil
  BY HasType DEF DemuxInv
<1>2. {Rows(e)[i].pos : i \in Genuine(e)} = {j - 1 : j \in {n \in DOMAIN fed : Opens(fed[n], e)}}
  BY <1>1 DEF RowInv, StartsHaveRows, Shown, Going
<1>3. DOMAIN fed = DOMAIN file
  BY DEF PassInv, HandInv, ReportsNeedTheWholeFile
<1>4. ASSUME NEW n \in DOMAIN file PROVE Opens(fed[n], e) <=> Opens(file[n], e)
  <2>1. fed[n] = At(file[n], n - 1)
    BY <1>3 DEF PassInv, FedInOrder
  <2> QED
    BY <2>1 DEF Opens, At
<1>5. {n \in DOMAIN fed : Opens(fed[n], e)} = {i \in DOMAIN file : Opens(file[i], e)}
  BY <1>3, <1>4
<1> QED
  BY <1>2, <1>5

\* Of every file, and however its readers are scheduled, a run that comes to its
\* reports writes a row for each start of a stream, from the first packet on.
THEOREM EveryStartIsReported == Spec => []RowsOfTheWholeFile
<1> DEFINE Inv == PassInv /\ RouteInv /\ DemuxInv /\ RowInv
<1>1. Init => Inv
  <2>1. Init => DemuxInit /\ PsiInit
    BY DEF Init
  <2> QED
    BY <2>1, PassInit, RouteInit, DemuxInitInv, RowInit
<1>2. Inv /\ [Next]_vars => Inv'
  BY PassStep, StepsOfTheParser, RouteStep, StepsOfThePass, DemuxStep, RowStep DEF PassInv
<1>3. Inv /\ ReportsNeedTheWholeFile => RowsOfTheWholeFile
  BY WholeFile
<1>4. Init /\ [][Next]_vars => []Inv
  <2> HIDE DEF Inv
  <2> QED
    BY <1>1, <1>2, PTL
<1> QED
  BY <1>3, <1>4, ReportsAreComplete, PTL DEF Spec
=============================================================================
