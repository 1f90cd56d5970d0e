--------------------------- MODULE DeliveryProofs ---------------------------
(***************************************************************************)
(* What comes of a stream that does not arrive as it was sent: when the    *)
(* first pass panics, for every set of programs and sections and every     *)
(* packet size (PsiMux); and what the sender sends and the dump receives,  *)
(* for every bit rate, file and network (Relay).  The two models share     *)
(* nothing.                                                                *)
(***************************************************************************)
EXTENDS PsiMux, PsiParserProofs, Relay, SequenceTheorems, TLAPS

USE DEF HeaderLen

-----------------------------------------------------------------------------
(* The stream is one the parser can be given *)

\* A position of a carousel is a position in a section of its PID.
LEMMA FromType ==
  ASSUME NEW p \in PsiPid, NEW s \in SectionOf(p), NEW i \in Nat,
         NEW f \in From(s, i, p)
  PROVE  /\ f \in [sec : Section, off : 0 .. MaxLen]
         /\ f.sec \in SectionOf(p) /\ f.off < f.sec.size
<1>1. \A t \in SectionOf(p) : t \in Section /\ t.size \in 1 .. MaxLen
  BY PsiAssumption DEF SectionOf, Section
<1>2. CASE i < s.size
  <2>1. f = [sec |-> s, off |-> i]
    BY <1>2 DEF From
  <2> QED
    BY <1>1, <1>2, <2>1, PsiAssumption
<1>3. CASE ~(i < s.size)
  <2>1. PICK t \in SectionOf(p) : f = [sec |-> t, off |-> 0]
    BY <1>3 DEF From
  <2> QED
    BY <1>1, <2>1, PsiAssumption
<1> QED
  BY <1>2, <1>3

\* Both kinds of packet are fragments of sections of their PID.
LEMMA PacketType ==
  ASSUME MuxTypeOK, NEW p \in PsiPid
  PROVE  PacketOf(p) \in Fragment(p, SectionOf(p))
<1>1. feed[p].sec \in SectionOf(p) /\ feed[p].off \in 0 .. MaxLen
  BY DEF MuxTypeOK
<1>2. Payload \in 0 .. MaxLen /\ MaxLen \in Nat
  BY MuxAssumption, PsiAssumption
<1>3. 0 + feed[p].sec.size <= MaxLen
  BY <1>1, PsiAssumption DEF SectionOf, Section
<1> DEFINE first == feed[p].off = 0
           i == feed[p].off
           s == feed[p].sec
<1>4. first \in BOOLEAN /\ (first => i = 0)
  OBVIOUS
<1>5. PacketOf(p) = [pid |-> p, pusi |-> first, sec |-> s, off |-> i, tail |-> 0, len |-> Payload]
  BY DEF PacketOf
<1> HIDE DEF first, i, s
<1>6. /\ s \in SectionOf(p) /\ i \in 0 .. MaxLen /\ 0 \in 0 .. MaxLen
      /\ 0 + s.size <= MaxLen
  BY <1>1, <1>2, <1>3 DEF i, s
<1> QED
  BY <1>2, <1>4, <1>5, <1>6 DEF Fragment

LEMMA SharedType ==
  ASSUME NEW p \in PsiPid, NEW s \in SectionOf(p), NEW rest \in Nat, rest < Payload
  PROVE  [pid |-> p, pusi |-> TRUE, sec |-> s, off |-> 0, tail |-> rest, len |-> Payload]
           \in Fragment(p, SectionOf(p))
<1>1. Payload \in 0 .. MaxLen /\ MaxLen \in Nat
  BY MuxAssumption, PsiAssumption
<1>2. rest + s.size <= MaxLen /\ rest \in 0 .. MaxLen
  BY <1>1, MuxAssumption, PsiAssumption DEF SectionOf, Section
<1> QED
  BY <1>1, <1>2 DEF Fragment

LEMMA FragmentIsPacket ==
  ASSUME NEW p \in PsiPid, NEW k \in Fragment(p, SectionOf(p))
  PROVE  k \in PsiPacket
BY DEF PsiPid, PsiPacket, SectionOf

\* What is left of a section in a carousel.
LEMMA RestType ==
  ASSUME MuxTypeOK, NEW p \in PsiPid
  PROVE  feed[p].sec.size - feed[p].off \in Nat
BY PsiAssumption DEF MuxTypeOK, SectionOf, Section

LEMMA MuxInitType == MuxInit => MuxTypeOK
<1> SUFFICES ASSUME MuxInit PROVE MuxTypeOK
  OBVIOUS
<1>1. ASSUME NEW p \in PsiPid
      PROVE  /\ feed[p] \in [sec : Section, off : 0 .. MaxLen]
             /\ feed[p].sec \in SectionOf(p) /\ feed[p].off < feed[p].sec.size
  <2>1. PICK s \in Section : feed[p] \in [sec : {s}, off : Cuts(s)]
    BY <1>1 DEF MuxInit
  <2>2. feed[p].sec = s /\ feed[p].off \in Cuts(s)
    BY <2>1
  <2>3. s.size \in 1 .. MaxLen /\ MaxLen \in Nat /\ Payload \in Nat
    BY PsiAssumption, MuxAssumption
  <2>4. Cuts(s) \subseteq 0 .. s.size - 1
    BY <2>3 DEF Cuts
  <2>5. feed[p].off \in 0 .. MaxLen /\ feed[p].off < s.size
    BY <2>2, <2>3, <2>4
  <2> QED
    BY <1>1, <2>1, <2>2, <2>5 DEF MuxInit
<1>2. feed \in [PsiPid -> [sec : Section, off : 0 .. MaxLen]]
  BY <1>1 DEF MuxInit
<1> QED
  BY <1>1, <1>2 DEF MuxInit, MuxTypeOK, PsiPid

\* Every step of the composition is a step of the parser, or none of its variables changes.
LEMMA MuxStepsParser == MuxTypeOK /\ [MuxNext]_vars => [PsiNext]_psiVars
<1> SUFFICES ASSUME MuxTypeOK, [MuxNext]_vars PROVE [PsiNext]_psiVars
  OBVIOUS
<1>1. ASSUME NEW p \in PsiPid, Deliver(p) PROVE PsiNext
  BY <1>1, PacketType, FragmentIsPacket DEF Deliver, PsiNext
<1>2. ASSUME NEW p \in PsiPid, Lose(p) PROVE UNCHANGED psiVars
  BY <1>2 DEF Lose
<1>3. ASSUME NEW p \in PsiPid, DeliverShared(p) PROVE PsiNext
  <2> DEFINE rest == feed[p].sec.size - feed[p].off
  <2>1. rest \in Nat /\ rest < Payload
    BY <1>3, RestType DEF DeliverShared
  <2>2. PICK s \in SectionOf(p) :
          Parse([pid |-> p, pusi |-> TRUE, sec |-> s, off |-> 0, tail |-> rest, len |-> Payload])
    BY <1>3 DEF DeliverShared
  <2> QED
    BY <2>1, <2>2, SharedType, FragmentIsPacket DEF PsiNext
<1>4. CASE StreamEnds \/ MuxFinish \/ MuxEnded
  BY <1>4 DEF StreamEnds, MuxFinish, MuxEnded, PsiNext
<1>5. CASE UNCHANGED vars
  BY <1>5 DEF vars
<1> QED
  BY <1>1, <1>2, <1>3, <1>4, <1>5 DEF MuxNext

-----------------------------------------------------------------------------
(* The parser keeps in step with an undisturbed carousel *)

BufOf(p) == IF p = PatPid THEN patData ELSE pmtData[p]

\* The parser takes the packets of p.
Listening(p) == IF pat = Nil THEN p = PatPid ELSE p \in pat.programs

\* buf ends where the carousel at f goes on; a whole buffer may stay behind.
InStep(buf, f) ==
  IF buf = Nil THEN f.off = 0
  ELSE /\ buf.tail = 0 /\ ~buf.torn /\ buf.len >= HeaderLen
       /\ ~Whole(buf) => f.off > 0 /\ buf.sec = f.sec /\ buf.len = f.off

LEMMA PacketFields ==
  ASSUME NEW p
  PROVE  /\ PacketOf(p).pid = p
         /\ PacketOf(p).pusi <=> feed[p].off = 0
         /\ PacketOf(p).sec = feed[p].sec /\ PacketOf(p).off = feed[p].off
         /\ PacketOf(p).tail = 0 /\ PacketOf(p).len = Payload
BY DEF PacketOf

\* The next packet of a carousel the buffer is in step with is read without a
\* fault, and leaves the two in step.
LEMMA StepStaysInStep ==
  ASSUME MuxTypeOK, NEW p \in PsiPid,
         NEW buf \in Buffer(SectionOf(p)) \cup {Nil}, InStep(buf, feed[p]),
         NEW new \in Buffered(PacketOf(p), buf, SectionOf(p)),
         NEW f \in From(feed[p].sec, feed[p].off + Payload, p)
  PROVE  ~MayFault(PacketOf(p), buf, new) /\ InStep(new, f)
<1> DEFINE k == PacketOf(p)
           S == SectionOf(p)
<1>k. /\ k.pusi <=> feed[p].off = 0
      /\ k.sec = feed[p].sec /\ k.off = feed[p].off /\ k.tail = 0 /\ k.len = Payload
  BY PacketFields
<1> HIDE DEF k
<1>s. S \subseteq Section
  BY DEF SectionOf, Section
<1>f. /\ feed[p].sec \in S /\ feed[p].sec.size \in 1 .. MaxLen
      /\ feed[p].off \in 0 .. MaxLen /\ feed[p].off < feed[p].sec.size
      /\ Payload \in 1 .. MaxLen /\ MaxLen \in Nat
      /\ Payload + feed[p].sec.size <= MaxLen
  BY <1>s, PsiAssumption, MuxAssumption DEF MuxTypeOK
<1>g. feed[p].off + Payload < feed[p].sec.size =>
        f = [sec |-> feed[p].sec, off |-> feed[p].off + Payload]
  BY DEF From
<1>1. CASE feed[p].off = 0 /\ buf = Nil
  <2>1. new = [sec |-> feed[p].sec, tail |-> 0, len |-> Payload, torn |-> FALSE]
    BY <1>1, <1>k DEF Buffered, k
  <2>2. new.sec = feed[p].sec /\ new.tail = 0 /\ new.len = Payload /\ ~new.torn
    BY <2>1
  <2>3. new # Nil
    <3>1. new \in Buffer(Section)
      BY <1>f, <1>s, <2>1 DEF Buffer
    <3> QED
      BY <3>1, PsiAssumption
  <2>4. Whole(new) <=> Payload >= feed[p].sec.size
    BY <1>f, <2>2 DEF Whole, Expected
  <2>5. InStep(new, f)
    BY <1>1, <1>f, <1>g, <2>2, <2>3, <2>4 DEF InStep
  <2>6. ~MayFault(k, buf, new)
    BY <1>1, <1>f, <2>2, <2>3 DEF MayFault, Faults, HeaderFault, Complete, Early
  <2> QED
    BY <2>5, <2>6 DEF k
<1>2. CASE feed[p].off = 0 /\ buf # Nil
  <2>1. new = buf
    BY <1>2, <1>k DEF Buffered, k
  <2>2. Whole(buf)
    BY <1>2 DEF InStep
  <2>3. ~MayFault(k, buf, new)
    BY <1>2, <1>k, <2>1, <2>2 DEF MayFault, Faults, HeaderFault, Early, InStep
  <2> QED
    BY <1>2, <2>1, <2>2, <2>3 DEF InStep, k
<1>3. CASE feed[p].off # 0
  <2>0. buf # Nil /\ buf \in Buffer(S)
    BY <1>3 DEF InStep
  <2>1. new \in AppendData(k, buf, S)
    BY <1>3, <1>k, <2>0 DEF Buffered, k
  <2>2. ~Whole(buf) => Continues(k, buf)
    BY <1>k, <1>f, <2>0 DEF InStep, Continues, Buffer
  <2>3. new = [buf EXCEPT !.len = Capped(buf.len + Payload)]
    BY <1>k, <2>1, <2>2 DEF AppendData
  <2>4. /\ Capped(buf.len + Payload) \in 0 .. MaxLen
        /\ Capped(buf.len + Payload) >= buf.len
    BY <1>f, <2>0, CappedIsBounded DEF Buffer
  <2>5. /\ new.sec = buf.sec /\ new.tail = 0 /\ ~new.torn
        /\ new.len = Capped(buf.len + Payload) /\ new.len >= HeaderLen
    BY <1>f, <2>0, <2>3, <2>4 DEF InStep, Buffer
  <2>6. new # Nil
    BY <2>0, <2>3, <2>4, <1>s, PsiAssumption DEF Buffer
  <2>9. ~Early(k, buf) /\ ~HeaderFault(k, buf, new)
    <3>1. ~Early(k, buf)
      BY <1>k, <1>3 DEF Early
    <3>2. ~(new.len < new.tail + HeaderLen)
      BY <1>f, <2>0, <2>4, <2>5 DEF Buffer
    <3> QED
      BY <2>6, <3>1, <3>2 DEF HeaderFault
  <2>7. CASE Whole(buf)
    <3>1. Whole(new)
      BY <1>f, <1>s, <2>0, <2>4, <2>5, <2>7, PsiAssumption DEF Whole, Expected, InStep, Buffer
    <3> QED
      BY <2>5, <2>6, <2>9, <3>1 DEF MayFault, Faults, InStep, k
  <2>8. CASE ~Whole(buf)
    <3>1. buf.len = feed[p].off /\ buf.sec = feed[p].sec
      BY <2>0, <2>8 DEF InStep
    <3>2. new.len = feed[p].off + Payload
      BY <1>f, <2>5, <3>1 DEF Capped
    <3>3. Whole(new) <=> feed[p].off + Payload >= feed[p].sec.size
      BY <1>f, <2>5, <3>1, <3>2 DEF Whole, Expected
    <3>4. InStep(new, f)
      BY <1>f, <1>g, <2>5, <2>6, <3>1, <3>2, <3>3 DEF InStep
    <3>5. ~MayFault(k, buf, new)
      BY <2>5, <2>9 DEF MayFault, Faults, Complete
    <3> QED
      BY <3>4, <3>5 DEF k
  <2> QED
    BY <2>7, <2>8
<1> QED
  BY <1>1, <1>2, <1>3

-----------------------------------------------------------------------------
(* The invariant *)

\* Every undisturbed PID the parser listens to is in step with its carousel.
Aligned == \A p \in PsiPid \ hurt : Listening(p) => InStep(BufOf(p), feed[p])

MuxInv ==
  /\ MuxTypeOK /\ TablesInv
  /\ Aligned /\ UndisturbedIsUntorn

LEMMA BufOfType ==
  ASSUME PsiTypeOK, NEW p \in PsiPid
  PROVE  BufOf(p) \in Buffer(SectionOf(p)) \cup {Nil}
BY DEF PsiTypeOK, PsiPid, BufOf, SectionOf

\* One packet is skipped, kills the process, or changes the buffer of its PID only.
LEMMA ParseOutcome ==
  ASSUME TablesInv, NEW p \in PsiPid, NEW k \in Fragment(p, SectionOf(p)), Parse(k)
  PROVE  \/ ~Listening(p) /\ UNCHANGED psiVars
         \/ /\ Listening(p)
            /\ \E new \in Buffered(k, BufOf(p), SectionOf(p)) :
                 \/ MayFault(k, BufOf(p), new) /\ Panic
                 \/ /\ BufOf(p)' = new
                    /\ \A q \in PsiPid \ {p} : BufOf(q)' = BufOf(q)
                    /\ status' # "panic"
                    /\ pat' = pat \/ pat = Nil
<1>0. k.pid = p /\ k \in PsiPacket
  BY FragmentFields, FragmentIsPacket
<1>t. /\ pat # Nil => pat.programs \subseteq PmtPid
      /\ status = "parsing"
  BY PsiAssumption DEF TablesInv, PsiTypeOK, Parse
<1>1. CASE Skip(k)
  BY <1>0, <1>1 DEF Skip, Listening
<1>2. CASE PatFragment(k)
  <2>1. p = PatPid /\ pat = Nil /\ Listening(p) /\ BufOf(p) = patData /\ SectionOf(p) = PatSection
    BY <1>0, <1>2 DEF PatFragment, Listening, BufOf, SectionOf
  <2>2. PICK new \in Buffered(k, patData, PatSection) :
          \/ MayFault(k, patData, new) /\ Panic
          \/ ~Faults(k, patData, new) /\ PatBuffered(k, new)
    BY <1>2 DEF PatFragment
  <2>3. CASE PatBuffered(k, new)
    <3>1. patData' = new /\ pmtData' = pmtData /\ status' = status
      BY <2>3 DEF PatBuffered
    <3> QED
      BY <1>t, <2>1, <2>2, <3>1 DEF BufOf
  <2> QED
    BY <2>1, <2>2, <2>3
<1>3. CASE PmtFragment(k)
  <2>1. /\ pat # Nil /\ Listening(p) /\ p \in pat.programs /\ p \in PmtPid
        /\ BufOf(p) = pmtData[p] /\ SectionOf(p) = PmtSection
    BY <1>0, <1>3, <1>t, PsiAssumption DEF PmtFragment, Listening, BufOf, SectionOf
  <2>2. PICK new \in Buffered(k, pmtData[p], PmtSection) :
          \/ MayFault(k, pmtData[p], new) /\ Panic
          \/ ~Faults(k, pmtData[p], new) /\ PmtBuffered(k, new)
    BY <1>0, <1>3 DEF PmtFragment
  <2>3. CASE ~Faults(k, pmtData[p], new) /\ PmtBuffered(k, new)
    <3>1. /\ pmtData'[p] = new
          /\ \A q \in PmtPid \ {p} : pmtData'[q] = pmtData[q]
      BY <1>0, <2>1, <2>2, <2>3, PmtStep
    <3>2. pat' = pat /\ patData' = patData /\ status' # "panic"
      BY <1>t, <2>3 DEF PmtBuffered, ParseDone
    <3> QED
      BY <2>1, <2>2, <3>1, <3>2, PsiAssumption DEF BufOf, PsiPid
  <2> QED
    BY <2>1, <2>2, <2>3
<1> QED
  BY <1>1, <1>2, <1>3 DEF Parse

\* A delivered packet keeps the invariant if it can be read without a fault,
\* and leaves its PID in step, wherever that PID is undisturbed.
LEMMA DeliveredStep ==
  ASSUME MuxInv, NEW p \in PsiPid, NEW k \in Fragment(p, SectionOf(p)), Parse(k),
         NEW f, feed' = [feed EXCEPT ![p] = f],
         NEW H \in SUBSET PsiPid, hurt' = hurt \cup H \cup JoinedAmid,
         MuxTypeOK', TablesInv',
         p \notin hurt \cup H /\ Listening(p) =>
           \A new \in Buffered(k, BufOf(p), SectionOf(p)) :
             ~MayFault(k, BufOf(p), new) /\ InStep(new, f)
  PROVE  MuxInv'
<1>f. /\ feed'[p] = f
      /\ \A q \in PsiPid \ {p} : feed'[q] = feed[q]
  BY DEF MuxInv, MuxTypeOK
<1>h. hurt \subseteq hurt' /\ H \subseteq hurt'
  OBVIOUS
<1>a. \A q \in PsiPid \ hurt : Listening(q) => InStep(BufOf(q), feed[q])
  BY DEF MuxInv, Aligned
<1>u. \A q \in PsiPid \ hurt : BufOf(q) # Nil => ~BufOf(q).torn /\ BufOf(q).tail = 0
  BY PsiAssumption DEF MuxInv, UndisturbedIsUntorn, BufOf, PsiPid
<1>1. CASE ~Listening(p) /\ UNCHANGED psiVars
  <2>1. UNCHANGED <<pat, patData, pmtData>>
    BY <1>1 DEF psiVars, tableVars
  <2>2. Aligned'
    BY <1>1, <1>a, <1>f, <1>h, <2>1 DEF Aligned, Listening, BufOf
  <2>3. UndisturbedIsUntorn'
    BY <1>h, <2>1 DEF MuxInv, UndisturbedIsUntorn
  <2> QED
    BY <2>2, <2>3 DEF MuxInv
<1>2. ASSUME Listening(p), NEW new \in Buffered(k, BufOf(p), SectionOf(p)),
             MayFault(k, BufOf(p), new), Panic
      PROVE  MuxInv'
  <2>1. p \in hurt \cup H
    BY <1>2
  <2>2. UNCHANGED <<pat, patData, pmtData>>
    BY <1>2 DEF Panic, tableVars
  <2>3. Aligned'
    BY <1>a, <1>f, <1>h, <2>1, <2>2 DEF Aligned, Listening, BufOf
  <2>4. UndisturbedIsUntorn'
    BY <1>h, <2>2 DEF MuxInv, UndisturbedIsUntorn
  <2> QED
    BY <2>3, <2>4 DEF MuxInv
<1>3. ASSUME Listening(p), NEW new \in Buffered(k, BufOf(p), SectionOf(p)),
             BufOf(p)' = new,
             \A q \in PsiPid \ {p} : BufOf(q)' = BufOf(q),
             status' # "panic", pat' = pat \/ pat = Nil
      PROVE  MuxInv'
  <2>1. ASSUME NEW q \in PsiPid \ hurt', Listening(q)'
        PROVE  InStep(BufOf(q)', feed'[q])
    <3>1. CASE pat' = pat
      <4>1. Listening(q)
        BY <2>1, <3>1 DEF Listening
      <4>2. CASE q = p
        BY <1>3, <1>f, <1>h, <2>1, <4>2
      <4>3. CASE q # p
        BY <1>3, <1>a, <1>f, <1>h, <2>1, <4>1, <4>3
      <4> QED
        BY <4>2, <4>3
    <3>2. CASE pat' # pat
      <4>1. pat = Nil /\ pat' # Nil
        BY <1>3, <3>2
      <4>2. p = PatPid /\ q \in pat'.programs /\ q \in PmtPid
        BY <1>3, <2>1, <4>1, PsiAssumption DEF Listening, TablesInv, PsiTypeOK
      <4>3. feed'[q].off = 0
        BY <2>1, <4>1, <4>2 DEF JoinedAmid
      <4>4. BufOf(q)' = Nil
        <5>1. BufOf(q) = Nil
          BY <4>1, <4>2, PsiAssumption DEF MuxInv, TablesInv, TablesOfPrograms, BufOf
        <5> QED
          BY <1>3, <4>2, <5>1, PsiAssumption DEF PsiPid
      <4> QED
        BY <4>3, <4>4 DEF InStep
    <3> QED
      BY <3>1, <3>2
  <2>2. Aligned'
    BY <2>1 DEF Aligned
  <2>3. ASSUME NEW q \in PsiPid \ hurt', BufOf(q)' # Nil
        PROVE  ~BufOf(q)'.torn /\ BufOf(q)'.tail = 0
    <3>1. CASE q = p
      BY <1>3, <1>h, <2>3, <3>1 DEF InStep
    <3>2. CASE q # p
      BY <1>3, <1>h, <1>u, <2>3, <3>2
    <3> QED
      BY <3>1, <3>2
  <2>4. UndisturbedIsUntorn'
    <3>1. PatPid \notin hurt' /\ patData' # Nil => ~patData'.torn /\ patData'.tail = 0
      BY <2>3 DEF BufOf, PsiPid
    <3>2. ASSUME NEW q \in PmtPid \ hurt', pmtData'[q] # Nil
          PROVE  ~pmtData'[q].torn /\ pmtData'[q].tail = 0
      BY <2>3, <3>2, PsiAssumption DEF BufOf, PsiPid
    <3> QED
      BY <3>1, <3>2 DEF UndisturbedIsUntorn
  <2> QED
    BY <2>2, <2>4 DEF MuxInv
<1>4. TablesInv
  BY DEF MuxInv
<1> QED
  BY <1>1, <1>2, <1>3, <1>4, ParseOutcome

LEMMA MuxTypeStep == MuxTypeOK /\ TablesInv' /\ [MuxNext]_vars => MuxTypeOK'
<1> SUFFICES ASSUME MuxTypeOK, TablesInv', [MuxNext]_vars PROVE MuxTypeOK'
  OBVIOUS
<1>j. JoinedAmid \subseteq PsiPid
  BY PsiAssumption DEF JoinedAmid, PsiPid, TablesInv, PsiTypeOK
<1>a. ASSUME NEW p \in PsiPid, NEW s \in SectionOf(p), NEW i \in Nat,
             NEW f \in From(s, i, p), feed' = [feed EXCEPT ![p] = f],
             onAir' = onAir, hurt' \subseteq PsiPid
      PROVE  MuxTypeOK'
  BY <1>a, FromType DEF MuxTypeOK
<1>p. Payload \in Nat
  BY MuxAssumption, PsiAssumption
<1>1. ASSUME NEW p \in PsiPid, Advance(p), onAir' = onAir, hurt' \subseteq PsiPid
      PROVE  MuxTypeOK'
  <2>1. feed[p].sec \in SectionOf(p) /\ feed[p].off + Payload \in Nat
    BY <1>p, PsiAssumption DEF MuxTypeOK
  <2> QED
    BY <1>a, <1>1, <2>1 DEF Advance
<1>2. ASSUME NEW p \in PsiPid, Deliver(p) PROVE MuxTypeOK'
  BY <1>j, <1>1, <1>2 DEF Deliver, MuxTypeOK
<1>3. ASSUME NEW p \in PsiPid, Lose(p) PROVE MuxTypeOK'
  BY <1>1, <1>3 DEF Lose, MuxTypeOK
<1>4. ASSUME NEW p \in PsiPid, DeliverShared(p) PROVE MuxTypeOK'
  <2> DEFINE rest == feed[p].sec.size - feed[p].off
  <2>1. rest \in Nat /\ rest < Payload
    BY <1>4, RestType DEF DeliverShared
  <2>2. PICK s \in SectionOf(p) :
          \E f \in From(s, Payload - rest, p) : feed' = [feed EXCEPT ![p] = f]
    BY <1>4 DEF DeliverShared
  <2>3. Payload - rest \in Nat
    BY <1>p, <2>1
  <2>4. onAir' = onAir /\ hurt' \subseteq PsiPid
    BY <1>j, <1>4 DEF DeliverShared, MuxTypeOK
  <2> QED
    BY <1>a, <2>2, <2>3, <2>4
<1>5. CASE StreamEnds \/ MuxFinish \/ MuxEnded \/ UNCHANGED vars
  BY <1>5 DEF StreamEnds, MuxFinish, MuxEnded, vars, muxVars, MuxTypeOK
<1> QED
  BY <1>2, <1>3, <1>4, <1>5 DEF MuxNext

LEMMA MuxInvInit == MuxInit => MuxInv
<1> SUFFICES ASSUME MuxInit PROVE MuxInv
  OBVIOUS
<1>1. MuxTypeOK /\ TablesInv
  BY MuxInitType, TablesInit DEF MuxInit
<1>2. Aligned
  BY DEF MuxInit, PsiInit, Aligned, Listening, InStep, BufOf
<1>3. UndisturbedIsUntorn
  BY DEF MuxInit, PsiInit, UndisturbedIsUntorn
<1> QED
  BY <1>1, <1>2, <1>3 DEF MuxInv

LEMMA MuxInvStep == MuxInv /\ [MuxNext]_vars => MuxInv'
<1> SUFFICES ASSUME MuxInv, [MuxNext]_vars PROVE MuxInv'
  OBVIOUS
<1>t. TablesInv' /\ MuxTypeOK'
  BY MuxStepsParser, TablesStep, MuxTypeStep DEF MuxInv
<1>b. MuxTypeOK /\ TablesInv /\ PsiTypeOK
  BY DEF MuxInv, TablesInv
<1>1. ASSUME NEW p \in PsiPid, Deliver(p) PROVE MuxInv'
  <2> DEFINE k == PacketOf(p)
  <2>1. PICK f \in From(feed[p].sec, feed[p].off + Payload, p) :
          feed' = [feed EXCEPT ![p] = f]
    BY <1>1 DEF Deliver, Advance
  <2>2. k \in Fragment(p, SectionOf(p))
    BY <1>b, PacketType
  <2>3. ASSUME p \notin hurt \cup {}, Listening(p),
               NEW new \in Buffered(k, BufOf(p), SectionOf(p))
        PROVE  ~MayFault(k, BufOf(p), new) /\ InStep(new, f)
    <3>1. InStep(BufOf(p), feed[p])
      BY <2>3 DEF MuxInv, Aligned
    <3> QED
      BY <1>b, <2>3, <3>1, BufOfType, StepStaysInStep
  <2>4. Parse(k) /\ hurt' = hurt \cup {} \cup JoinedAmid /\ {} \in SUBSET PsiPid
    BY <1>1 DEF Deliver
  <2> HIDE DEF k
  <2> QED
    BY <1>t, <2>1, <2>2, <2>3, <2>4, DeliveredStep
<1>2. ASSUME NEW p \in PsiPid, Lose(p) PROVE MuxInv'
  <2>1. UNCHANGED <<pat, patData, pmtData, status>> /\ status = "parsing"
    BY <1>2 DEF Lose, psiVars, tableVars
  <2>2. hurt' = hurt \cup {p} /\ \A q \in PsiPid \ {p} : feed'[q] = feed[q]
    BY <1>2, <1>b DEF Lose, Advance, MuxTypeOK
  <2>3. Aligned'
    BY <2>1, <2>2 DEF MuxInv, Aligned, Listening, BufOf
  <2>4. UndisturbedIsUntorn'
    BY <2>1, <2>2 DEF MuxInv, UndisturbedIsUntorn
  <2> QED
    BY <1>t, <2>3, <2>4 DEF MuxInv
<1>3. ASSUME NEW p \in PsiPid, DeliverShared(p) PROVE MuxInv'
  <2> DEFINE rest == feed[p].sec.size - feed[p].off
             k(s) == [pid |-> p, pusi |-> TRUE, sec |-> s, off |-> 0,
                      tail |-> rest, len |-> Payload]
  <2>1. rest \in Nat /\ rest < Payload
    BY <1>b, <1>3, RestType DEF DeliverShared
  <2>2. PICK s \in SectionOf(p) :
          Parse(k(s)) /\ \E f \in From(s, Payload - rest, p) : feed' = [feed EXCEPT ![p] = f]
    BY <1>3 DEF DeliverShared
  <2>3. PICK f : feed' = [feed EXCEPT ![p] = f]
    BY <2>2
  <2>4. k(s) \in Fragment(p, SectionOf(p))
    BY <2>1, <2>2, SharedType
  <2>5. hurt' = hurt \cup {p} \cup JoinedAmid
    BY <1>3 DEF DeliverShared
  <2> HIDE DEF k
  <2> QED
    BY <1>t, <2>2, <2>3, <2>4, <2>5, DeliveredStep
<1>4. CASE StreamEnds
  <2>1. UNCHANGED <<pat, patData, pmtData, feed, hurt>> /\ status' = "done"
    BY <1>4 DEF StreamEnds, EndOfPackets, ParseDone, tableVars, muxVars
  <2> QED
    BY <1>t, <2>1
    DEF MuxInv, Aligned, Listening, BufOf, UndisturbedIsUntorn
<1>5. CASE MuxFinish
  <2>1. UNCHANGED <<pat, patData, pmtData, feed, hurt>>
    BY <1>5 DEF MuxFinish, Finish, Panic, tableVars, muxVars
  <2> QED
    BY <1>t, <2>1
    DEF MuxInv, Aligned, Listening, BufOf, UndisturbedIsUntorn
<1>6. CASE MuxEnded \/ UNCHANGED vars
  <2>1. UNCHANGED <<pat, patData, pmtData, status, feed, hurt>>
    BY <1>6 DEF MuxEnded, PsiEnded, vars, psiVars, tableVars, muxVars
  <2> QED
    BY <1>t, <2>1
    DEF MuxInv, Aligned, Listening, BufOf, UndisturbedIsUntorn
<1> QED
  BY <1>1, <1>2, <1>3, <1>4, <1>5, <1>6 DEF MuxNext

\* A packet of an undisturbed PID is skipped or read.
LEMMA UndisturbedIsRead ==
  ASSUME MuxInv, NEW p \in PsiPid, p \notin hurt, Deliver(p)
  PROVE  status' # "panic"
<1> DEFINE k == PacketOf(p)
<1>1. PICK f \in From(feed[p].sec, feed[p].off + Payload, p) : feed' = [feed EXCEPT ![p] = f]
  BY DEF Deliver, Advance
<1>2. MuxTypeOK /\ TablesInv /\ PsiTypeOK
  BY DEF MuxInv, TablesInv
<1>3. k \in Fragment(p, SectionOf(p)) /\ Parse(k) /\ status = "parsing"
  BY <1>2, PacketType DEF Deliver, Parse
<1>4. ASSUME Listening(p), NEW new \in Buffered(k, BufOf(p), SectionOf(p))
      PROVE  ~MayFault(k, BufOf(p), new)
  <2>1. InStep(BufOf(p), feed[p])
    BY <1>4 DEF MuxInv, Aligned
  <2> QED
    BY <1>1, <1>2, <1>4, <2>1, BufOfType, StepStaysInStep
<1> HIDE DEF k
<1>5. UNCHANGED psiVars => status' = "parsing"
  BY <1>3 DEF psiVars
<1> QED
  BY <1>2, <1>3, <1>4, <1>5, ParseOutcome

\* The action PanicNeedsDisturbance is about.
PanicExplained ==
  status # "panic" /\ status' = "panic" =>
    \/ status = "parsing" /\ \A p \in PsiPid \ hurt' : ~Deliver(p) /\ ~DeliverShared(p)
    \/ status = "done" /\ pat = Nil

LEMMA PanicStepIsExplained == MuxInv /\ [MuxNext]_vars => [PanicExplained]_vars
<1> SUFFICES ASSUME MuxInv, MuxNext, status # "panic", status' = "panic" PROVE PanicExplained
  BY DEF PanicExplained, vars, psiVars
<1>1. CASE status = "parsing"
  <2>1. ASSUME NEW p \in PsiPid \ hurt', Deliver(p) PROVE FALSE
    <3>1. hurt \subseteq hurt'
      BY <2>1 DEF Deliver
    <3> QED
      BY <2>1, <3>1, UndisturbedIsRead
  <2>2. ASSUME NEW p \in PsiPid, DeliverShared(p) PROVE p \in hurt'
    BY <2>2 DEF DeliverShared
  <2> QED
    BY <1>1, <2>1, <2>2 DEF PanicExplained
<1>2. CASE status # "parsing"
  <2>1. ASSUME NEW p \in PsiPid PROVE ~Deliver(p) /\ ~Lose(p) /\ ~DeliverShared(p)
    BY <1>2 DEF Deliver, Lose, DeliverShared, Parse
  <2>2. MuxFinish
    BY <1>2, <2>1 DEF MuxNext, StreamEnds, EndOfPackets, MuxEnded, PsiEnded, psiVars
  <2>3. status = "done" /\ pat = Nil
    BY <2>2 DEF MuxFinish, Finish
  <2> QED
    BY <2>3 DEF PanicExplained
<1> QED
  BY <1>1, <1>2

\* Whatever is lost, shared or joined amid, the parser panics about packets of those
\* PIDs only, and in Finish for want of a PAT.
THEOREM PanicIsExplained == MuxSpec => PanicNeedsDisturbance
<1>1. MuxInv /\ [MuxNext]_vars => [PanicExplained]_vars
  BY PanicStepIsExplained
<1> QED
  BY <1>1, MuxInvInit, MuxInvStep, PTL DEF MuxSpec, PanicNeedsDisturbance, PanicExplained

\* What is buffered of an undisturbed PID is one section, read from its start.
THEOREM UndisturbedSections == MuxSpec => []UndisturbedIsUntorn
<1>1. MuxInv => UndisturbedIsUntorn
  BY DEF MuxInv
<1> QED
  BY <1>1, MuxInvInit, MuxInvStep, PTL DEF MuxSpec

-----------------------------------------------------------------------------
(* Streams whose sections fit a packet *)

\* Inductive, for such streams: no carousel is ever amid a section, and a
\* buffer is whole as soon as it is there.
SinglesInv ==
  /\ MuxTypeOK /\ TablesInv
  /\ \A p \in PsiPid : feed[p].off = 0
  /\ \A p \in PsiPid : BufOf(p) # Nil => Whole(BufOf(p)) /\ ~BufOf(p).torn

LEMMA SinglesInit == OnePacketSections /\ MuxInit => SinglesInv
<1> SUFFICES ASSUME OnePacketSections, MuxInit PROVE SinglesInv
  OBVIOUS
<1>1. MuxTypeOK /\ TablesInv
  BY MuxInitType, TablesInit DEF MuxInit
<1>2. ASSUME NEW p \in PsiPid PROVE feed[p].off = 0
  <2>1. PICK s \in Section : feed[p] \in [sec : {s}, off : Cuts(s)]
    BY <1>2 DEF MuxInit
  <2>2. feed[p].off \in Cuts(s) /\ s.size <= Payload
    BY <2>1 DEF OnePacketSections
  <2>3. s.size \in Nat /\ Payload \in Nat
    BY PsiAssumption, MuxAssumption
  <2>4. Payload .. s.size - 1 = {}
    BY <2>2, <2>3
  <2> QED
    BY <2>2, <2>4 DEF Cuts
<1>3. \A p \in PsiPid : BufOf(p) = Nil
  BY DEF BufOf, MuxInit, PsiInit, PsiPid
<1> QED
  BY <1>1, <1>2, <1>3 DEF SinglesInv

\* The action OnePacketNeverPanics is about.
ReadsOn == status = "parsing" => status' # "panic"

LEMMA SinglesStep == OnePacketSections /\ SinglesInv /\ [MuxNext]_vars => SinglesInv' /\ ReadsOn
<1> SUFFICES ASSUME OnePacketSections, SinglesInv, [MuxNext]_vars PROVE SinglesInv' /\ ReadsOn
  OBVIOUS
<1>b. MuxTypeOK /\ TablesInv /\ PsiTypeOK
  BY DEF SinglesInv, TablesInv
<1>t. TablesInv' /\ MuxTypeOK'
  BY <1>b, MuxStepsParser, TablesStep, MuxTypeStep
<1>a. ASSUME NEW p \in PsiPid, Advance(p) PROVE \A q \in PsiPid : feed'[q].off = 0
  <2>1. PICK f \in From(feed[p].sec, feed[p].off + Payload, p) : feed' = [feed EXCEPT ![p] = f]
    BY <1>a DEF Advance
  <2>2. /\ feed[p].sec \in Section /\ feed[p].sec.size <= Payload
        /\ feed[p].off = 0 /\ Payload \in Nat /\ feed[p].sec.size \in Nat
    BY <1>b, PsiAssumption, MuxAssumption DEF SinglesInv, MuxTypeOK, OnePacketSections
  <2>3. f.off = 0
    BY <2>2 DEF From
  <2> QED
    BY <1>b, <2>1, <2>3 DEF SinglesInv, MuxTypeOK
<1>1. ASSUME NEW p \in PsiPid, Deliver(p) PROVE SinglesInv' /\ ReadsOn
  <2> DEFINE k == PacketOf(p)
  <2>1. k \in Fragment(p, SectionOf(p)) /\ Parse(k)
    BY <1>1, <1>b, PacketType DEF Deliver
  <2>2. k.pusi /\ k.tail = 0 /\ k.sec = feed[p].sec /\ k.len = Payload
    BY PacketFields DEF SinglesInv
  <2>s. status = "parsing"
    BY <2>1 DEF Parse
  <2> HIDE DEF k
  <2>3. ASSUME NEW new \in Buffered(k, BufOf(p), SectionOf(p))
        PROVE  new # Nil /\ Whole(new) /\ ~new.torn /\ ~MayFault(k, BufOf(p), new)
    <3>1. CASE BufOf(p) # Nil
      <4>1. new = BufOf(p)
        BY <2>2, <3>1 DEF Buffered
      <4>2. Whole(new) /\ ~new.torn
        BY <3>1, <4>1 DEF SinglesInv
      <4>3. Early(k, BufOf(p))
        BY <2>2, <3>1 DEF Early
      <4> QED
        BY <3>1, <4>1, <4>2, <4>3 DEF MayFault, Faults, HeaderFault
    <3>2. CASE BufOf(p) = Nil
      <4>1. new = [sec |-> feed[p].sec, tail |-> 0, len |-> Payload, torn |-> FALSE]
        BY <2>2, <3>2 DEF Buffered
      <4>2. /\ feed[p].sec \in Section /\ feed[p].sec.size \in 1 .. MaxLen
            /\ feed[p].sec.size <= Payload /\ Payload \in 1 .. MaxLen /\ MaxLen \in Nat
        BY <1>b, PsiAssumption, MuxAssumption DEF MuxTypeOK, OnePacketSections
      <4>3. new.sec = feed[p].sec /\ new.tail = 0 /\ new.len = Payload /\ ~new.torn
        BY <4>1
      <4>4. Whole(new)
        BY <4>2, <4>3 DEF Whole, Expected
      <4>5. new # Nil
        <5>1. new \in Buffer(Section)
          BY <4>1, <4>2 DEF Buffer
        <5> QED
          BY <5>1, PsiAssumption
      <4>6. ~HeaderFault(k, BufOf(p), new)
        BY <4>2, <4>3, <4>5 DEF HeaderFault
      <4> QED
        BY <4>3, <4>4, <4>5, <4>6 DEF MayFault, Faults
    <3> QED
      BY <3>1, <3>2
  <2>4. \A q \in PsiPid : feed'[q].off = 0
    BY <1>1, <1>a DEF Deliver
  <2>5. CASE UNCHANGED psiVars
    BY <1>t, <2>s, <2>4, <2>5 DEF SinglesInv, ReadsOn, BufOf, psiVars, tableVars
  <2>6. ASSUME NEW new \in Buffered(k, BufOf(p), SectionOf(p)),
               BufOf(p)' = new, \A q \in PsiPid \ {p} : BufOf(q)' = BufOf(q),
               status' # "panic"
        PROVE  SinglesInv' /\ ReadsOn
    <3>1. ASSUME NEW q \in PsiPid, BufOf(q)' # Nil
          PROVE  Whole(BufOf(q)') /\ ~BufOf(q)'.torn
      <4>1. CASE q = p
        BY <2>3, <2>6, <4>1
      <4>2. CASE q # p
        BY <2>6, <3>1, <4>2 DEF SinglesInv
      <4> QED
        BY <4>1, <4>2
    <3>2. \A q \in PsiPid : BufOf(q)' # Nil => Whole(BufOf(q))' /\ ~BufOf(q)'.torn
      BY <3>1 DEF Whole, Expected
    <3> QED
      BY <1>t, <2>4, <2>6, <3>2 DEF SinglesInv, ReadsOn
  <2> QED
    BY <1>b, <2>1, <2>3, <2>5, <2>6, ParseOutcome
<1>2. ASSUME NEW p \in PsiPid, Lose(p) PROVE SinglesInv' /\ ReadsOn
  <2>1. UNCHANGED psiVars /\ \A q \in PsiPid : feed'[q].off = 0
    BY <1>2, <1>a DEF Lose
  <2> QED
    BY <1>t, <2>1 DEF SinglesInv, ReadsOn, BufOf, psiVars, tableVars
<1>3. ASSUME NEW p \in PsiPid, DeliverShared(p) PROVE FALSE
  BY <1>3 DEF DeliverShared, OnePacketSections
<1>4. CASE StreamEnds
  <2>1. UNCHANGED <<pat, patData, pmtData, feed>> /\ status' = "done"
    BY <1>4 DEF StreamEnds, EndOfPackets, ParseDone, tableVars, muxVars
  <2> QED
    BY <1>t, <2>1 DEF SinglesInv, ReadsOn, BufOf
<1>5. CASE MuxFinish
  <2>1. UNCHANGED <<pat, patData, pmtData, feed>> /\ status = "done"
    BY <1>5 DEF MuxFinish, Finish, Panic, tableVars, muxVars
  <2> QED
    BY <1>t, <2>1 DEF SinglesInv, ReadsOn, BufOf
<1>6. CASE MuxEnded \/ UNCHANGED vars
  <2>1. UNCHANGED <<pat, patData, pmtData, status, feed>>
    BY <1>6 DEF MuxEnded, PsiEnded, vars, psiVars, tableVars, muxVars
  <2> QED
    BY <1>t, <2>1 DEF SinglesInv, ReadsOn, BufOf
<1> QED
  BY <1>1, <1>2, <1>3, <1>4, <1>5, <1>6 DEF MuxNext

\* With sections of one packet, and no shared packet, Parse never panics, wherever the
\* file starts and whatever it lost.
THEOREM SinglesNeverPanic == MuxSpec => OnePacketNeverPanics
<1>1. OnePacketSections /\ MuxInit => OnePacketSections /\ SinglesInv
  BY SinglesInit
<1>2. OnePacketSections /\ SinglesInv /\ [MuxNext]_vars => SinglesInv' /\ [OnePacketSections => ReadsOn]_vars
  BY SinglesStep
<1>3. OnePacketNeverPanics <=> [][OnePacketSections => ReadsOn]_vars
  <2>1. (OnePacketSections => ReadsOn) <=> (OnePacketSections /\ status = "parsing" => status' # "panic")
    BY DEF ReadsOn
  <2> QED
    BY <2>1, PTL DEF OnePacketNeverPanics
<1>4. CASE OnePacketSections
  <2>1. MuxInit => SinglesInv
    BY <1>1, <1>4
  <2>2. SinglesInv /\ [MuxNext]_vars => SinglesInv' /\ [OnePacketSections => ReadsOn]_vars
    BY <1>2, <1>4
  <2> QED
    BY <1>3, <2>1, <2>2, PTL DEF MuxSpec
<1>5. CASE ~OnePacketSections
  <2>1. [MuxNext]_vars => [OnePacketSections => ReadsOn]_vars
    BY <1>5
  <2> QED
    BY <1>3, <2>1, PTL DEF MuxSpec
<1> QED
  BY <1>4, <1>5

-----------------------------------------------------------------------------
(* Sender and receiver *)

\* An integer division by a positive number is monotone.
LEMMA DivMonotone ==
  ASSUME NEW a \in Nat, NEW b \in Nat, NEW d \in Nat \ {0}, a <= b
  PROVE  a \div d <= b \div d /\ a \div d \in Nat
<1> DEFINE q == a \div d
           r == b \div d
<1>1. q \in Int /\ r \in Int
  OBVIOUS
<1>2. d * q <= a /\ a < d * q + d
  OBVIOUS
<1>3. d * r <= b /\ b < d * r + d
  OBVIOUS
<1> QED
  BY <1>1, <1>2, <1>3

-----------------------------------------------------------------------------
(* The bit rate *)

\* Inductive: the sender moves within the file, and is not ahead of its time.
PaceInv ==
  /\ size \in Nat /\ bitrate \in Nat /\ now \in Nat
  /\ off \in 0 .. size /\ acc \in Nat
  /\ OnPace

LEMMA ChunkLen ==
  ASSUME size \in Nat, off \in 0 .. size
  PROVE  Len(Chunk) \in 0 .. UdpSize /\ off + Len(Chunk) <= size
BY RelayAssumption DEF Chunk

LEMMA BudgetGrows ==
  ASSUME bitrate \in Nat, now \in Nat
  PROVE  /\ Budget(now) \in Nat /\ Budget(now + 1) \in Nat
         /\ Budget(now) <= Budget(now + 1)
<1>1. bitrate * now \in Nat /\ bitrate * (now + 1) \in Nat
  OBVIOUS
<1>2. bitrate * now <= bitrate * (now + 1)
  OBVIOUS
<1>3. Second \in Nat \ {0}
  BY RelayAssumption
<1>4. now + 1 \in Nat
  OBVIOUS
<1> QED
  BY <1>1, <1>2, <1>3, DivMonotone DEF Budget

LEMMA PaceInit == Init => PaceInv
<1> SUFFICES ASSUME Init PROVE PaceInv
  OBVIOUS
<1>1. /\ size \in Nat /\ bitrate \in Nat /\ now = 0 /\ off = 0 /\ acc = 0
  BY RelayAssumption DEF Init
<1>2. Budget(now) \in Nat
  BY <1>1, BudgetGrows
<1> QED
  BY <1>1, <1>2, RelayAssumption DEF PaceInv, OnPace

LEMMA PaceStep == PaceInv /\ [Next]_relayVars => PaceInv'
<1> SUFFICES ASSUME PaceInv, [Next]_relayVars PROVE PaceInv'
  OBVIOUS
<1>b. Budget(now) \in Nat /\ Budget(now + 1) \in Nat /\ Budget(now) <= Budget(now + 1)
  BY BudgetGrows DEF PaceInv
<1>u. UdpSize \in Nat \ {0}
  BY RelayAssumption
<1>1. CASE Pass
  <2>1. /\ now' = now + 1
        /\ UNCHANGED <<size, bitrate, off, acc>>
    BY <1>1 DEF Pass, params, sender
  <2>2. Budget(now)' = Budget(now + 1)
    BY <2>1 DEF Budget
  <2> QED
    BY <1>b, <1>u, <2>1, <2>2 DEF PaceInv, OnPace
<1>2. CASE SendNext \/ WriteFails
  <2>1. /\ Behind
        /\ off' = off + Len(Chunk) /\ acc' = acc + Len(Chunk)
        /\ UNCHANGED <<size, bitrate, now>>
    BY <1>2 DEF SendNext, WriteFails, params, clock
  <2>2. Len(Chunk) \in 0 .. UdpSize /\ off + Len(Chunk) <= size
    BY ChunkLen DEF PaceInv
  <2>3. Budget(now)' = Budget(now)
    BY <2>1 DEF Budget
  <2> QED
    BY <1>b, <1>u, <2>1, <2>2, <2>3 DEF PaceInv, OnPace, Behind
<1>3. CASE EndOfFile
  <2>1. /\ off' = 0 \/ off' = off
        /\ UNCHANGED <<size, bitrate, now, acc>>
    BY <1>3 DEF EndOfFile, params, clock
  <2>2. Budget(now)' = Budget(now)
    BY <2>1 DEF Budget
  <2> QED
    BY <2>1, <2>2 DEF PaceInv, OnPace
<1>4. CASE Wake \/ CaughtUp \/ Disturb \/ Listen \/ Receive \/ UNCHANGED relayVars
  <2>1. UNCHANGED <<size, bitrate, now, off, acc>>
    BY <1>4 DEF Wake, CaughtUp, Disturb, Listen, Receive, relayVars, params, clock, sender
  <2>2. Budget(now)' = Budget(now)
    BY <2>1 DEF Budget
  <2> QED
    BY <2>1, <2>2 DEF PaceInv, OnPace
<1> QED
  BY <1>1, <1>2, <1>3, <1>4 DEF Next, Send

\* The sender is never ahead of its bit rate by a datagram or more.
THEOREM NeverAhead == Spec => []OnPace
<1>1. PaceInv => OnPace
  BY DEF PaceInv
<1> QED
  BY <1>1, PaceInit, PaceStep, PTL DEF Spec

-----------------------------------------------------------------------------
(* The datagrams of a file that fills them *)

\* Inductive: of such a file the sender only reads whole datagrams.
FullInv ==
  /\ PaceInv
  /\ hdr \in Nat
  /\ net \in Seq(Seq(Int))
  /\ Filled =>
       /\ off % UdpSize = 0
       /\ \A i \in DOMAIN net : Len(net[i]) = hdr + UdpSize
       /\ dump # "panic"

\* The multiples of a number: zero, those behind it, and how far they are apart.
LEMMA MultipleOf ==
  ASSUME NEW n \in Nat, NEW d \in Nat \ {0}, n % d = 0
  PROVE  n \div d \in Nat /\ n = d * (n \div d)
OBVIOUS

LEMMA NextMultiple ==
  ASSUME NEW n \in Nat, NEW d \in Nat \ {0}, n % d = 0
  PROVE  (n + d) % d = 0
<1> DEFINE q == n \div d
<1>1. q \in Nat /\ n = d * q
  BY MultipleOf
<1> HIDE DEF q
<1>2. ASSUME NEW r \in Nat PROVE (d * r) % d = 0
  OBVIOUS
<1>3. n + d = d * (q + 1) /\ q + 1 \in Nat
  BY <1>1
<1> QED
  BY <1>2, <1>3

LEMMA MultiplesApart ==
  ASSUME NEW m \in Nat, NEW n \in Nat, NEW d \in Nat \ {0},
         m % d = 0, n % d = 0, m < n
  PROVE  m + d <= n
<1> DEFINE q == m \div d
           r == n \div d
<1>1. q \in Nat /\ m = d * q /\ r \in Nat /\ n = d * r
  BY MultipleOf
<1> HIDE DEF q, r
<1>2. d * q < d * r
  BY <1>1
<1>3. q < r
  BY <1>1, <1>2
<1>4. d * (q + 1) <= d * r
  BY <1>1, <1>3
<1> QED
  BY <1>1, <1>4

\* Of a file that fills its datagrams the next one is full.
LEMMA NextIsFull ==
  ASSUME FullInv, Filled, off < size
  PROVE  Len(Chunk) = UdpSize /\ (off + Len(Chunk)) % UdpSize = 0
<1>1. /\ size \in Nat /\ off \in Nat /\ UdpSize \in Nat \ {0}
      /\ off % UdpSize = 0 /\ size % UdpSize = 0
  BY RelayAssumption DEF FullInv, PaceInv, Filled
<1>2. off + UdpSize <= size
  BY <1>1, MultiplesApart
<1>3. Len(Chunk) = UdpSize
  BY <1>1, <1>2 DEF Chunk
<1> QED
  BY <1>1, <1>3, NextMultiple

LEMMA FullInit == Init => FullInv
<1> SUFFICES ASSUME Init PROVE FullInv
  OBVIOUS
<1>1. PaceInv
  BY PaceInit
<1>2. /\ hdr \in Nat /\ net = <<>> /\ off = 0 /\ dump = "off" /\ UdpSize \in Nat \ {0}
  BY RelayAssumption DEF Init
<1> QED
  BY <1>1, <1>2 DEF FullInv

\* A sequence without one of its elements keeps the others, in their order.
LEMMA Removed ==
  ASSUME NEW S, NEW s \in Seq(S), NEW i \in DOMAIN s
  PROVE  /\ RemoveAt(s, i) \in Seq(S) /\ Len(RemoveAt(s, i)) = Len(s) - 1
         /\ \A j \in 1 .. Len(s) - 1 : RemoveAt(s, i)[j] = IF j < i THEN s[j] ELSE s[j + 1]
<1> DEFINE front == SubSeq(s, 1, i - 1)
           back == SubSeq(s, i + 1, Len(s))
<1>1. /\ front \in Seq(S) /\ back \in Seq(S)
      /\ Len(front) = i - 1 /\ Len(back) = Len(s) - i
  OBVIOUS
<1>2. \A j \in 1 .. i - 1 : front[j] = s[j]
  OBVIOUS
<1>3. \A j \in 1 .. Len(s) - i : back[j] = s[j + i]
  OBVIOUS
<1>4. RemoveAt(s, i) = front \o back
  BY DEF RemoveAt
<1>5. i \in Nat /\ Len(s) \in Nat /\ i >= 1 /\ i <= Len(s)
  OBVIOUS
<1> HIDE DEF front, back
<1>6. /\ front \o back \in Seq(S)
      /\ Len(front \o back) = Len(front) + Len(back)
      /\ \A j \in 1 .. Len(front) + Len(back) :
           (front \o back)[j] = IF j <= Len(front) THEN front[j] ELSE back[j - Len(front)]
  BY <1>1, ConcatProperties
<1>7. /\ RemoveAt(s, i) \in Seq(S)
      /\ Len(RemoveAt(s, i)) = Len(s) - 1
      /\ \A j \in 1 .. Len(s) - 1 :
           RemoveAt(s, i)[j] = IF j <= i - 1 THEN front[j] ELSE back[j - (i - 1)]
  <2>1. Len(front) + Len(back) = Len(s) - 1
    BY <1>1, <1>5
  <2> QED
    BY <1>1, <1>4, <1>6, <2>1
<1>8. ASSUME NEW j \in 1 .. Len(s) - 1
      PROVE  RemoveAt(s, i)[j] = IF j < i THEN s[j] ELSE s[j + 1]
  <2>1. CASE j < i
    BY <1>2, <1>5, <1>7, <2>1
  <2>2. CASE ~(j < i)
    <3>1. j - (i - 1) \in 1 .. Len(s) - i /\ (j - (i - 1)) + i = j + 1
      BY <1>5, <2>2
    <3>2. RemoveAt(s, i)[j] = back[j - (i - 1)]
      BY <1>5, <1>7, <2>2
    <3>3. back[j - (i - 1)] = s[(j - (i - 1)) + i]
      BY <1>3, <3>1
    <3> QED
      BY <2>2, <3>1, <3>2, <3>3
  <2> QED
    BY <2>1, <2>2
<1> QED
  BY <1>7, <1>8

\* The datagram the sender sends next, as it arrives.
ToSend == [i \in 1 .. hdr |-> Header] \o Chunk

LEMMA SentIs ==
  ASSUME PaceInv, hdr \in Nat
  PROVE  /\ ToSend \in Seq(Int) /\ Len(ToSend) = hdr + Len(Chunk)
         /\ \A j \in 1 .. Len(Chunk) : ToSend[hdr + j] = off + j - 1
<1>1. size \in Nat /\ off \in 0 .. size /\ UdpSize \in Nat \ {0}
  BY RelayAssumption DEF PaceInv
<1>2. Chunk \in Seq(Int) /\ Len(Chunk) \in Nat
  BY <1>1, ChunkLen DEF Chunk
<1>3. \A j \in 1 .. Len(Chunk) : Chunk[j] = off + j - 1
  BY <1>1 DEF Chunk
<1> DEFINE h == [i \in 1 .. hdr |-> Header]
<1>4. h \in Seq(Int) /\ Len(h) = hdr
  BY DEF Header
<1>5. ToSend = h \o Chunk
  BY DEF ToSend
<1> HIDE DEF h
<1>6. /\ ToSend \in Seq(Int) /\ Len(ToSend) = hdr + Len(Chunk)
      /\ \A j \in 1 .. hdr + Len(Chunk) :
           ToSend[j] = IF j <= hdr THEN h[j] ELSE Chunk[j - hdr]
  BY <1>2, <1>4, <1>5, ConcatProperties
<1>7. ASSUME NEW j \in 1 .. Len(Chunk) PROVE ToSend[hdr + j] = off + j - 1
  <2>1. hdr + j \in 1 .. hdr + Len(Chunk) /\ ~(hdr + j <= hdr) /\ (hdr + j) - hdr = j
    BY <1>2
  <2> QED
    BY <1>3, <1>6, <2>1
<1> QED
  BY <1>6, <1>7

\* Receiving takes the first datagram, and the others move up.
LEMMA TailIs ==
  ASSUME net \in Seq(Seq(Int)), Receive
  PROVE  /\ net' \in Seq(Seq(Int))
         /\ \A j \in DOMAIN net' : j \in Nat /\ j + 1 \in DOMAIN net /\ net'[j] = net[j + 1]
<1>1. net # <<>> /\ net' = Tail(net)
  BY DEF Receive
<1>2. /\ net' \in Seq(Seq(Int)) /\ Len(net') = Len(net) - 1
      /\ \A j \in 1 .. Len(net') : net'[j] = net[j + 1]
  BY <1>1, HeadTailProperties
<1>3. DOMAIN net' = 1 .. Len(net) - 1 /\ DOMAIN net = 1 .. Len(net) /\ Len(net) \in Nat
  BY <1>2
<1>4. ASSUME NEW j \in DOMAIN net' PROVE j \in Nat /\ j + 1 \in DOMAIN net
  BY <1>3
<1> QED
  BY <1>2, <1>3, <1>4

\* What is under way after a step was so before, or has been sent by it.
Old(d) == \E k \in DOMAIN net : d = net[k]

LEMMA NetFollows ==
  ASSUME PaceInv, hdr \in Nat, net \in Seq(Seq(Int)), [Next]_relayVars
  PROVE  /\ net' \in Seq(Seq(Int))
         /\ \A i \in DOMAIN net' : Old(net'[i]) \/ (SendNext /\ net'[i] = ToSend)
<1>n. DOMAIN net = 1 .. Len(net) /\ Len(net) \in Nat
  OBVIOUS
<1>1. CASE SendNext
  <2>1. net' = Carried(ToSend)
    BY <1>1 DEF SendNext, ToSend
  <2>2. ToSend \in Seq(Int)
    BY SentIs
  <2> QED
    BY <1>1, <2>1, <2>2 DEF Carried, Old
<1>2. CASE Disturb
  <2>1. PICK i \in DOMAIN net : LoseDatagram(i) \/ Duplicate(i) \/ Overtake(i)
    BY <1>2 DEF Disturb
  <2>2. net[i] \in Seq(Int)
    BY <2>1
  <2> DEFINE rest == RemoveAt(net, i)
  <2>3. /\ rest \in Seq(Seq(Int)) /\ Len(rest) = Len(net) - 1
        /\ \A j \in 1 .. Len(net) - 1 : rest[j] = IF j < i THEN net[j] ELSE net[j + 1]
    BY <2>1, Removed
  <2> HIDE DEF rest
  <2>4. ASSUME NEW j \in DOMAIN rest PROVE Old(rest[j])
    <3>1. j \in 1 .. Len(net) - 1 /\ j \in DOMAIN net /\ j + 1 \in DOMAIN net
      BY <1>n, <2>3
    <3> QED
      BY <2>3, <3>1 DEF Old
  <2>5. CASE LoseDatagram(i)
    BY <2>3, <2>4, <2>5 DEF LoseDatagram, rest
  <2>6. CASE Duplicate(i)
    <3>1. net' = Append(net, net[i])
      BY <2>6 DEF Duplicate
    <3>2. /\ net' \in Seq(Seq(Int)) /\ Len(net') = Len(net) + 1
          /\ \A j \in 1 .. Len(net) : net'[j] = net[j]
          /\ net'[Len(net) + 1] = net[i]
      BY <2>2, <3>1, AppendProperties
    <3>3. ASSUME NEW j \in DOMAIN net' PROVE Old(net'[j])
      <4>1. j \in DOMAIN net \/ j = Len(net) + 1
        BY <1>n, <3>2
      <4> QED
        BY <1>n, <2>1, <3>2, <4>1 DEF Old
    <3> QED
      BY <3>2, <3>3
  <2>7. CASE Overtake(i)
    <3>1. net' = <<net[i]>> \o rest
      BY <2>7 DEF Overtake, rest
    <3>2. /\ net' \in Seq(Seq(Int))
          /\ \A j \in DOMAIN net' : net'[j] = net[i] \/ \E k \in DOMAIN rest : net'[j] = rest[k]
      BY <2>2, <2>3, <3>1
    <3> QED
      BY <2>1, <2>4, <3>2 DEF Old
  <2> QED
    BY <2>1, <2>5, <2>6, <2>7
<1>3. CASE Receive
  BY <1>3, TailIs DEF Old
<1>4. CASE UNCHANGED net
  BY <1>4 DEF Old
<1>5. Pass \/ Wake \/ CaughtUp \/ WriteFails \/ EndOfFile \/ Listen \/ UNCHANGED relayVars => UNCHANGED net
  BY DEF Pass, Wake, CaughtUp, WriteFails, EndOfFile, Listen, relayVars
<1> QED
  BY <1>1, <1>2, <1>3, <1>4, <1>5 DEF Next, Send

LEMMA FullStep == FullInv /\ [Next]_relayVars => FullInv'
<1> SUFFICES ASSUME FullInv, [Next]_relayVars PROVE FullInv'
  OBVIOUS
<1>p. PaceInv /\ PaceInv'
  BY PaceStep DEF FullInv
<1>t. size \in Nat /\ off \in 0 .. size /\ hdr \in Nat /\ net \in Seq(Seq(Int))
  BY DEF FullInv, PaceInv
<1>u. UdpSize \in Nat \ {0} /\ MtuSize \in Nat /\ UdpSize <= MtuSize
  BY RelayAssumption
<1>c. UNCHANGED <<size, hdr>>
  BY DEF Next, Send, Pass, Wake, CaughtUp, SendNext, WriteFails, EndOfFile, Disturb, Listen,
         Receive, relayVars, params
<1>n. /\ net' \in Seq(Seq(Int))
      /\ \A i \in DOMAIN net' : Old(net'[i]) \/ (SendNext /\ net'[i] = ToSend)
  BY <1>p, <1>t, NetFollows
<1>1. ASSUME Filled, NEW i \in DOMAIN net' PROVE Len(net'[i]) = hdr + UdpSize
  <2>1. CASE Old(net'[i])
    BY <1>1, <2>1 DEF Old, FullInv
  <2>2. CASE SendNext /\ net'[i] = ToSend
    BY <1>1, <1>p, <1>t, <2>2, SentIs, NextIsFull DEF SendNext
  <2> QED
    BY <1>n, <2>1, <2>2
<1>2. ASSUME Filled PROVE off' % UdpSize = 0
  <2>1. CASE SendNext \/ WriteFails
    BY <1>2, <2>1, NextIsFull DEF SendNext, WriteFails
  <2>2. CASE off' \in {off, 0}
    BY <1>2, <1>u, <2>2 DEF FullInv
  <2> QED
    BY <2>1, <2>2 DEF Next, Send, Pass, Wake, CaughtUp, EndOfFile, Disturb, Listen, Receive,
                      relayVars, sender
<1>3. ASSUME Filled PROVE dump' # "panic"
  <2>1. CASE Receive
    <3>1. Head(net) \in Seq(Int) /\ Head(net) = net[1] /\ 1 \in DOMAIN net
      BY <1>t, <2>1 DEF Receive
    <3>2. Len(Head(net)) = hdr + UdpSize
      BY <1>3, <3>1 DEF FullInv
    <3>3. Len(Received(Head(net))) >= UdpSize
      BY <1>t, <1>u, <3>1, <3>2 DEF Received
    <3> QED
      BY <1>3, <1>u, <2>1, <3>1, <3>3 DEF Receive, Received, FullInv
  <2>2. CASE dump' \in {dump, "listening"}
    BY <1>3, <2>2 DEF FullInv
  <2> QED
    BY <2>1, <2>2 DEF Next, Send, Pass, Wake, CaughtUp, SendNext, WriteFails, EndOfFile, Disturb,
                      Listen, relayVars, receiver
<1>4. Filled' <=> Filled
  BY <1>c DEF Filled
<1> QED
  BY <1>p, <1>t, <1>c, <1>n, <1>1, <1>2, <1>3, <1>4 DEF FullInv

\* A dump survives whatever a sender sends of a file that fills its datagrams.
THEOREM FullDatagramsSurvive == Spec => []SurvivesFullDatagrams
<1>1. FullInv => SurvivesFullDatagrams
  BY DEF FullInv, SurvivesFullDatagrams
<1> QED
  BY <1>1, FullInit, FullStep, PTL DEF Spec

-----------------------------------------------------------------------------
(* What is sent is the file *)

\* The remainder of a multiple and what is less than the divisor.
LEMMA RemainderIs ==
  ASSUME NEW q \in Nat, NEW d \in Nat \ {0}, NEW r \in 0 .. d - 1
  PROVE  (d * q + r) % d = r
<1> DEFINE n == d * q + r
<1>1. d * q \in Nat /\ n \in Nat /\ n = d * q + r
  OBVIOUS
<1> HIDE DEF n
<1> DEFINE p == n \div d
<1>2. p \in Nat /\ n % d \in 0 .. d - 1 /\ n = d * p + (n % d)
  BY <1>1
<1>3. d * p + (n % d) = d * q + r /\ d * p \in Nat
  BY <1>1, <1>2
<1> HIDE DEF p
<1>4. CASE p = q
  BY <1>1, <1>2, <1>3, <1>4 DEF n
<1>5. CASE p >= q + 1
  <2>1. d * p >= d * (q + 1) /\ d * (q + 1) = d * q + d
    BY <1>2, <1>5
  <2>2. d * q \in Nat /\ r < d /\ n % d \in Nat
    BY <1>1, <1>2
  <2> QED
    BY <1>3, <2>1, <2>2
<1>6. CASE q >= p + 1
  <2>1. d * q >= d * (p + 1) /\ d * (p + 1) = d * p + d
    BY <1>2, <1>6
  <2>2. d * q \in Nat /\ r \in Nat /\ n % d \in Nat /\ n % d < d
    BY <1>1, <1>2
  <2> QED
    BY <1>3, <2>1, <2>2
<1>7. p = q \/ p >= q + 1 \/ q >= p + 1
  BY <1>2
<1> QED
  BY <1>4, <1>5, <1>6, <1>7

\* Inductive, with the property: what was sent is so many rounds and the part of
\* the file before the offset, and of a file that is not looped the first round.
InRound(k) == Len(sent) = size * k + off /\ (loop \/ k = 0)

PlayInv ==
  /\ PaceInv
  /\ loop \in BOOLEAN
  /\ sent \in Seq(Nat)
  /\ PlaysTheFile
  /\ at # "fatal" => \E k \in Nat : InRound(k)

LEMMA PlayInit == Init => PlayInv
<1> SUFFICES ASSUME Init PROVE PlayInv
  OBVIOUS
<1>1. PaceInv /\ sent = <<>> /\ off = 0 /\ acc = 0 /\ loop \in BOOLEAN /\ size \in Nat
  BY PaceInit DEF Init, PaceInv
<1>2. InRound(0)
  BY <1>1 DEF InRound
<1>3. PlaysTheFile
  BY <1>1 DEF PlaysTheFile
<1> QED
  BY <1>1, <1>2, <1>3 DEF PlayInv

\* The next units are the next ones of the round.
LEMMA PlaysOn ==
  ASSUME PlayInv, PaceInv', SendNext
  PROVE  PlayInv'
<1>1. /\ off < size /\ off' = off + Len(Chunk) /\ acc' = acc + Len(Chunk)
      /\ sent' = sent \o Chunk /\ at = "pacing" /\ UNCHANGED <<size, loop, at>>
  BY DEF SendNext, params
<1>2. size \in Nat \ {0} /\ off \in Nat /\ sent \in Seq(Nat) /\ acc \in Nat
  BY <1>1 DEF PlayInv, PaceInv
<1>3. Chunk \in Seq(Nat) /\ Len(Chunk) \in Nat /\ off + Len(Chunk) <= size
      /\ \A j \in 1 .. Len(Chunk) : Chunk[j] = off + j - 1
  BY <1>2, ChunkLen, RelayAssumption DEF PlayInv, PaceInv, Chunk
<1>4. /\ sent' \in Seq(Nat) /\ Len(sent') = Len(sent) + Len(Chunk)
      /\ \A i \in 1 .. Len(sent) + Len(Chunk) :
           sent'[i] = IF i <= Len(sent) THEN sent[i] ELSE Chunk[i - Len(sent)]
  BY <1>1, <1>2, <1>3, ConcatProperties
<1>5. PICK k \in Nat : InRound(k)
  BY <1>1 DEF PlayInv
<1>6. size * k \in Nat /\ Len(sent) = size * k + off /\ Len(sent) \in Nat
  BY <1>2, <1>5 DEF InRound
<1>7. ASSUME NEW i \in DOMAIN sent' PROVE sent'[i] = (i - 1) % size
  <2>1. i \in 1 .. Len(sent) + Len(Chunk)
    BY <1>4
  <2>2. CASE i <= Len(sent)
    <3>1. i \in DOMAIN sent
      BY <1>2, <2>1, <2>2
    <3> QED
      BY <1>4, <2>1, <2>2, <3>1 DEF PlayInv, PlaysTheFile
  <2>3. CASE ~(i <= Len(sent))
    <3> DEFINE r == off + (i - Len(sent)) - 1
    <3>1. i - Len(sent) \in 1 .. Len(Chunk)
      BY <1>3, <1>6, <2>1, <2>3
    <3>2. sent'[i] = r
      BY <1>3, <1>4, <2>1, <2>3, <3>1
    <3>3. r \in 0 .. size - 1 /\ i - 1 = size * k + r
      <4> DEFINE m == size * k
      <4>1. m \in Nat /\ Len(sent) = m + off /\ i \in Nat
        BY <1>3, <1>6, <2>1
      <4> HIDE DEF m
      <4>2. size \in Nat /\ off \in Nat /\ Len(Chunk) \in Nat /\ off + Len(Chunk) <= size
        BY <1>2, <1>3
      <4>3. r = (i - m) - 1 /\ i - m \in off + 1 .. off + Len(Chunk)
        BY <3>1, <4>1, <4>2
      <4>4. r \in 0 .. size - 1 /\ i - 1 = m + r
        BY <4>1, <4>2, <4>3
      <4> QED
        BY <4>4 DEF m
    <3> HIDE DEF r
    <3>4. (size * k + r) % size = r
      BY <1>2, <3>3, RemainderIs
    <3> QED
      BY <3>2, <3>3, <3>4
  <2> QED
    BY <2>2, <2>3
<1>8. InRound(k)'
  BY <1>1, <1>2, <1>3, <1>4, <1>5, <1>6 DEF InRound
<1>9. Len(sent') = acc'
  BY <1>1, <1>2, <1>3, <1>4 DEF PlayInv, PlaysTheFile
<1>10. ~loop => Len(sent') <= size
  <2> SUFFICES ASSUME ~loop PROVE Len(sent') <= size
    OBVIOUS
  <2>1. k = 0
    BY <1>5 DEF InRound
  <2>2. size * k = 0
    BY <1>2, <2>1
  <2> QED
    BY <1>2, <1>3, <1>4, <1>6, <2>2
<1>11. PlaysTheFile'
  BY <1>1, <1>7, <1>9, <1>10 DEF PlaysTheFile
<1> QED
  BY <1>1, <1>4, <1>8, <1>11 DEF PlayInv

LEMMA PlayStep == PlayInv /\ [Next]_relayVars => PlayInv'
<1> SUFFICES ASSUME PlayInv, [Next]_relayVars PROVE PlayInv'
  OBVIOUS
<1>p. PaceInv'
  BY PaceStep DEF PlayInv
<1>1. CASE SendNext
  BY <1>1, <1>p, PlaysOn
<1>2. CASE WriteFails
  <2>1. at' = "fatal" /\ UNCHANGED <<size, loop, sent>>
    BY <1>2 DEF WriteFails, params
  <2> QED
    BY <1>p, <2>1 DEF PlayInv, PlaysTheFile
<1>3. CASE EndOfFile
  <2>1. off = size /\ at = "pacing" /\ UNCHANGED <<size, loop, sent, acc>>
        /\ IF loop THEN off' = 0 /\ UNCHANGED at ELSE at' = "done" /\ UNCHANGED off
    BY <1>3 DEF EndOfFile, params
  <2>2. PICK k \in Nat : InRound(k)
    BY <2>1 DEF PlayInv
  <2>3. size \in Nat
    BY DEF PlayInv, PaceInv
  <2>4. \E j \in Nat : InRound(j)'
    <3>1. CASE loop
      <4>1. size * (k + 1) = size * k + size /\ size * k \in Nat
        BY <2>3
      <4>2. Len(sent) = size * (k + 1) + 0
        BY <2>1, <2>2, <2>3, <4>1 DEF InRound
      <4>3. k + 1 \in Nat /\ InRound(k + 1)'
        BY <2>1, <3>1, <4>2 DEF InRound
      <4> QED
        BY <4>3
    <3>2. CASE ~loop
      <4>1. InRound(k)'
        BY <2>1, <2>2, <3>2 DEF InRound
      <4> QED
        BY <4>1
    <3> QED
      BY <3>1, <3>2
  <2>5. PlaysTheFile'
    BY <2>1 DEF PlayInv, PlaysTheFile
  <2> QED
    BY <1>p, <2>1, <2>4, <2>5 DEF PlayInv
<1>4. CASE UNCHANGED <<size, loop, off, acc, sent>> /\ (at' = "fatal" <=> at = "fatal")
  <2>1. PlaysTheFile'
    BY <1>4 DEF PlayInv, PlaysTheFile
  <2>2. at # "fatal" => \E k \in Nat : InRound(k)'
    BY <1>4 DEF PlayInv, InRound
  <2> QED
    BY <1>p, <1>4, <2>1, <2>2 DEF PlayInv
<1> QED
  BY <1>1, <1>2, <1>3, <1>4 DEF Next, Send, Pass, Wake, CaughtUp, Disturb, Listen, Receive,
                                relayVars, params, sender

\* What is sent is the file from its first unit on, round after round, or once.
THEOREM FileIsPlayed == Spec => []PlaysTheFile
<1>1. PlayInv => PlaysTheFile
  BY DEF PlayInv
<1> QED
  BY <1>1, PlayInit, PlayStep, PTL DEF Spec

-----------------------------------------------------------------------------
(* What is received is whole datagrams of the file *)

\* The first unit of the file in a datagram, and a datagram of a full chunk.
First(d) == d[hdr + 1]
InFull(d) ==
  /\ Len(d) = hdr + UdpSize
  /\ First(d) \in Nat /\ First(d) % UdpSize = 0
  /\ \A j \in 0 .. UdpSize - 1 : d[hdr + 1 + j] = First(d) + j

Fits == Filled /\ hdr + UdpSize <= MtuSize

\* Inductive, with the property: such are the datagrams under way.
WholeInv ==
  /\ FullInv
  /\ out \in Seq(Int)
  /\ Filled => \A i \in DOMAIN net : InFull(net[i])
  /\ WholeDatagrams

LEMMA WholeInit == Init => WholeInv
<1> SUFFICES ASSUME Init PROVE WholeInv
  OBVIOUS
<1>1. FullInv /\ net = <<>> /\ out = <<>> /\ UdpSize \in Nat \ {0}
  BY FullInit, RelayAssumption DEF Init
<1>2. WholeDatagrams
  BY <1>1 DEF WholeDatagrams, Chunks
<1> QED
  BY <1>1, <1>2 DEF WholeInv

\* A full chunk is sent from a multiple of its size on.
LEMMA SentIsWhole ==
  ASSUME FullInv, Filled, SendNext
  PROVE  InFull(ToSend) /\ First(ToSend) = off /\ off' = off + UdpSize
<1>1. /\ hdr \in Nat /\ off \in Nat /\ UdpSize \in Nat \ {0} /\ off < size
      /\ off' = off + Len(Chunk) /\ off % UdpSize = 0
  BY RelayAssumption DEF FullInv, PaceInv, SendNext
<1>2. Len(Chunk) = UdpSize
  BY <1>1, NextIsFull
<1>3. /\ Len(ToSend) = hdr + UdpSize
      /\ \A j \in 1 .. UdpSize : ToSend[hdr + j] = off + j - 1
  BY <1>1, <1>2, SentIs DEF FullInv
<1>4. First(ToSend) = off
  BY <1>1, <1>3 DEF First
<1>5. ASSUME NEW j \in 0 .. UdpSize - 1 PROVE ToSend[hdr + 1 + j] = off + j
  <2>1. j + 1 \in 1 .. UdpSize /\ hdr + (j + 1) = hdr + 1 + j /\ off + (j + 1) - 1 = off + j
    BY <1>1
  <2> QED
    BY <1>3, <2>1
<1> QED
  BY <1>1, <1>2, <1>3, <1>4, <1>5 DEF InFull

\* What is written of a whole datagram is its chunk of the file.
LEMMA WrittenIsChunk ==
  ASSUME FullInv, hdr + UdpSize <= MtuSize, NEW d \in Seq(Int), InFull(d)
  PROVE  LET w == Written(Received(d)) IN
         /\ w \in Seq(Int) /\ Len(w) = UdpSize
         /\ \A j \in 1 .. UdpSize : w[j] = First(d) + j - 1
<1> DEFINE w == Written(Received(d))
<1>1. /\ hdr \in Nat /\ UdpSize \in Nat \ {0} /\ MtuSize \in Nat
      /\ Len(d) = hdr + UdpSize /\ First(d) \in Nat
      /\ \A j \in 0 .. UdpSize - 1 : d[hdr + 1 + j] = First(d) + j
  BY RelayAssumption DEF FullInv, InFull
<1>2. Received(d) = d
  BY <1>1 DEF Received
<1>3. w = SubSeq(d, hdr + 1, hdr + UdpSize)
  <2>1. Len(d) - UdpSize + 1 = hdr + 1
    BY <1>1
  <2> QED
    BY <1>1, <1>2, <2>1 DEF Written
<1> HIDE DEF w
<1>4. /\ w \in Seq(Int) /\ Len(w) = UdpSize
      /\ \A j \in 1 .. UdpSize : w[j] = d[hdr + 1 + j - 1]
  BY <1>1, <1>3
<1>5. ASSUME NEW j \in 1 .. UdpSize PROVE w[j] = First(d) + j - 1
  <2>1. j - 1 \in 0 .. UdpSize - 1 /\ hdr + 1 + (j - 1) = hdr + 1 + j - 1
        /\ First(d) + (j - 1) = First(d) + j - 1
    BY <1>1
  <2> QED
    BY <1>1, <1>4, <2>1
<1> QED
  BY <1>4, <1>5 DEF w

\* A step that writes appends the chunk of the first datagram under way.
LEMMA OutFollows ==
  ASSUME WholeInv, [Next]_relayVars, Fits
  PROVE  \/ UNCHANGED out
         \/ \E w \in Seq(Int) :
              /\ Receive /\ 1 \in DOMAIN net /\ InFull(net[1])
              /\ out' = out \o w /\ Len(w) = UdpSize
              /\ \A j \in 1 .. UdpSize : w[j] = First(net[1]) + j - 1
<1>1. CASE Receive /\ out' # out
  <2>1. net \in Seq(Seq(Int)) /\ Head(net) = net[1] /\ 1 \in DOMAIN net /\ net[1] \in Seq(Int)
    BY <1>1 DEF Receive, WholeInv, FullInv
  <2>2. out' = out \o Written(Received(net[1]))
    BY <1>1, <2>1 DEF Receive
  <2>3. InFull(net[1])
    BY <2>1 DEF WholeInv, Fits
  <2> QED
    BY <1>1, <2>1, <2>2, <2>3, WrittenIsChunk DEF WholeInv, Fits
<1>2. CASE ~Receive
  BY <1>2 DEF Next, Send, Pass, Wake, CaughtUp, SendNext, WriteFails, EndOfFile, Disturb,
              Listen, relayVars, receiver
<1> QED
  BY <1>1, <1>2

\* Equal remainders differ by a multiple.
LEMMA SameRemainder ==
  ASSUME NEW d \in Nat \ {0}, NEW i \in Nat \ {0}, i % d = 1 % d
  PROVE  (i - 1) % d = 0
<1>1. CASE d = 1
  BY <1>1
<1>2. CASE d > 1
  <2>1. 1 % d = 1
    <3>1. d * 0 + 1 = 1
      OBVIOUS
    <3> QED
      BY <1>2, <3>1, RemainderIs
  <2> DEFINE q == i \div d
  <2>2. q \in Nat /\ i = d * q + (i % d)
    OBVIOUS
  <2> HIDE DEF q
  <2>3. d * q \in Nat /\ i - 1 = d * q + 0
    BY <2>1, <2>2
  <2>4. (d * q + 0) % d = 0
    BY <2>2, RemainderIs
  <2> QED
    BY <2>3, <2>4
<1> QED
  BY <1>1, <1>2

\* Chunks follow each other without a gap.
LEMMA ChunkAppended ==
  ASSUME out \in Seq(Int), NEW w \in Seq(Int), Len(w) = UdpSize, out' = out \o w,
         Len(out) % UdpSize = 0
  PROVE  /\ out' \in Seq(Int) /\ Len(out') = Len(out) + UdpSize /\ Len(out') % UdpSize = 0
         /\ \A i \in 1 .. Len(out) : out'[i] = out[i]
         /\ \A j \in 1 .. UdpSize : out'[Len(out) + j] = w[j]
         /\ \A i \in Chunks : i + UdpSize - 1 <= Len(out)
         /\ \A i \in Chunks' : i \in Chunks \/ i = Len(out) + 1
<1> DEFINE L == Len(out)
<1>1. UdpSize \in Nat \ {0} /\ L \in Nat
  BY RelayAssumption
<1>2. /\ out' \in Seq(Int) /\ Len(out') = L + UdpSize
      /\ \A i \in 1 .. L + UdpSize : out'[i] = IF i <= L THEN out[i] ELSE w[i - L]
  BY ConcatProperties
<1>3. DOMAIN out = 1 .. L /\ DOMAIN out' = 1 .. L + UdpSize
  BY <1>2
<1>4. L % UdpSize = 0
  OBVIOUS
<1> HIDE DEF L
<1>5. (L + UdpSize) % UdpSize = 0
  BY <1>1, <1>4, NextMultiple
<1>6. ASSUME NEW i \in 1 .. L PROVE out'[i] = out[i]
  BY <1>1, <1>2
<1>7. ASSUME NEW j \in 1 .. UdpSize PROVE out'[L + j] = w[j]
  BY <1>1, <1>2
<1>8. ASSUME NEW i \in Chunks PROVE i + UdpSize - 1 <= L
  <2>1. i \in 1 .. L /\ (i - 1) % UdpSize = 0
    BY <1>1, <1>3, SameRemainder DEF Chunks
  <2>2. i - 1 \in Nat /\ i - 1 < L
    BY <1>1, <2>1
  <2>3. (i - 1) + UdpSize <= L
    BY <1>1, <1>4, <2>1, <2>2, MultiplesApart
  <2> QED
    BY <1>1, <2>1, <2>3
<1>9. ASSUME NEW i \in Chunks' PROVE i \in Chunks \/ i = L + 1
  <2>1. i \in 1 .. L + UdpSize /\ i % UdpSize = 1 % UdpSize
    BY <1>3 DEF Chunks
  <2>2. CASE i <= L
    BY <1>1, <1>3, <2>1, <2>2 DEF Chunks
  <2>3. CASE L < i - 1
    <3>1. i - 1 \in Nat /\ (i - 1) % UdpSize = 0
      BY <1>1, <2>1, SameRemainder
    <3>2. L + UdpSize <= i - 1
      BY <1>1, <1>4, <2>3, <3>1, MultiplesApart
    <3> QED
      BY <1>1, <2>1, <3>2
  <2> QED
    BY <1>1, <2>1, <2>2, <2>3
<1> QED
  BY <1>2, <1>5, <1>6, <1>7, <1>8, <1>9 DEF L

LEMMA WholeStep == WholeInv /\ [Next]_relayVars => WholeInv'
<1> SUFFICES ASSUME WholeInv, [Next]_relayVars PROVE WholeInv'
  OBVIOUS
<1>t. FullInv /\ FullInv' /\ PaceInv /\ hdr \in Nat /\ net \in Seq(Seq(Int)) /\ out \in Seq(Int)
      /\ UdpSize \in Nat \ {0}
  BY FullStep, RelayAssumption DEF WholeInv, FullInv
<1>c. UNCHANGED <<size, hdr>> /\ (Filled' <=> Filled) /\ (Fits' <=> Fits)
  BY DEF Next, Send, Pass, Wake, CaughtUp, SendNext, WriteFails, EndOfFile, Disturb, Listen,
         Receive, relayVars, params, Filled, Fits
<1>1. ASSUME Filled, NEW i \in DOMAIN net' PROVE InFull(net[i])'
  <2>1. Old(net'[i]) \/ (SendNext /\ net'[i] = ToSend)
    BY <1>t, NetFollows
  <2>2. InFull(net'[i])
    <3>1. CASE Old(net'[i])
      BY <1>1, <3>1 DEF Old, WholeInv
    <3>2. CASE SendNext /\ net'[i] = ToSend
      BY <1>1, <1>t, <3>2, SentIsWhole
    <3> QED
      BY <2>1, <3>1, <3>2
  <2> QED
    BY <1>c, <2>2 DEF InFull, First
<1>2. out' \in Seq(Int)
  <2>1. CASE Receive
    <3>1. net[1] \in Seq(Int) /\ Head(net) = net[1]
      BY <1>t, <2>1 DEF Receive
    <3>2. net[1] = <<>> \/ Len(net[1]) \in Nat
      BY <3>1
    <3> DEFINE b == Received(net[1])
               w == Written(b)
    <3>3. b \in Seq(Int)
      BY <3>1, RelayAssumption DEF Received
    <3>4. UNCHANGED out \/ (Len(b) >= UdpSize /\ out' = out \o w)
      BY <1>t, <2>1, <3>1, <3>3 DEF Receive
    <3>5. Len(b) >= UdpSize => w \in Seq(Int)
      BY <1>t, <3>3 DEF Written
    <3> HIDE DEF b, w
    <3>6. w \in Seq(Int) => out \o w \in Seq(Int)
      BY <1>t, ConcatProperties
    <3> QED
      BY <1>t, <3>4, <3>5, <3>6
  <2>2. CASE UNCHANGED out
    BY <1>t, <2>2
  <2> QED
    BY <2>1, <2>2 DEF Next, Send, Pass, Wake, CaughtUp, SendNext, WriteFails, EndOfFile, Disturb,
                      Listen, relayVars, receiver
<1>3. ASSUME Fits PROVE WholeDatagrams'
  <2>0. /\ Len(out) % UdpSize = 0
        /\ \A i \in Chunks : /\ out[i] % UdpSize = 0
                             /\ \A j \in 0 .. UdpSize - 1 : out[i + j] = out[i] + j
    BY <1>3 DEF WholeInv, WholeDatagrams, Fits
  <2>1. CASE UNCHANGED out
    BY <2>0, <2>1 DEF WholeDatagrams, Chunks
  <2>2. ASSUME NEW w \in Seq(Int), 1 \in DOMAIN net, InFull(net[1]),
               out' = out \o w, Len(w) = UdpSize,
               \A j \in 1 .. UdpSize : w[j] = First(net[1]) + j - 1
        PROVE  WholeDatagrams'
    <3>1. /\ Len(out') % UdpSize = 0
          /\ \A i \in 1 .. Len(out) : out'[i] = out[i]
          /\ \A j \in 1 .. UdpSize : out'[Len(out) + j] = w[j]
          /\ \A i \in Chunks : i + UdpSize - 1 <= Len(out)
          /\ \A i \in Chunks' : i \in Chunks \/ i = Len(out) + 1
      BY <1>t, <2>0, <2>2, ChunkAppended
    <3>2. Len(out) \in Nat /\ DOMAIN out = 1 .. Len(out)
      BY <1>t
    <3>3. ASSUME NEW i \in Chunks'
          PROVE  /\ out'[i] % UdpSize = 0
                 /\ \A j \in 0 .. UdpSize - 1 : out'[i + j] = out'[i] + j
      <4>1. CASE i \in Chunks
        <5>1. i \in 1 .. Len(out) /\ i + UdpSize - 1 <= Len(out)
          BY <3>1, <3>2, <4>1 DEF Chunks
        <5>2. ASSUME NEW j \in 0 .. UdpSize - 1 PROVE i + j \in 1 .. Len(out)
          BY <1>t, <3>2, <5>1
        <5>3. out'[i] = out[i]
          BY <3>1, <5>1
        <5>4. ASSUME NEW j \in 0 .. UdpSize - 1 PROVE out'[i + j] = out'[i] + j
          BY <2>0, <3>1, <4>1, <5>2, <5>3
        <5> QED
          BY <2>0, <4>1, <5>3, <5>4
      <4>2. CASE i = Len(out) + 1
        <5> DEFINE f == First(net[1])
        <5>1. f \in Nat /\ f % UdpSize = 0
          BY <2>2 DEF InFull
        <5>2. \A j \in 1 .. UdpSize : out'[Len(out) + j] = f + j - 1
          BY <2>2, <3>1
        <5> HIDE DEF f
        <5>3. 1 \in 1 .. UdpSize
          BY <1>t
        <5>4. out'[i] = f
          BY <4>2, <5>1, <5>2, <5>3
        <5>5. ASSUME NEW j \in 0 .. UdpSize - 1 PROVE out'[i + j] = f + j
          <6>1. j + 1 \in 1 .. UdpSize /\ Len(out) + (j + 1) = i + j /\ f + (j + 1) - 1 = f + j
            BY <1>t, <3>2, <4>2, <5>1
          <6> QED
            BY <5>2, <6>1
        <5> QED
          BY <5>1, <5>4, <5>5
      <4> QED
        BY <3>1, <4>1, <4>2
    <3> QED
      BY <3>1, <3>3 DEF WholeDatagrams
  <2> QED
    BY <1>3, <2>1, <2>2, OutFollows
<1>4. WholeDatagrams'
  <2>1. CASE Fits
    BY <1>3, <2>1
  <2>2. CASE ~Fits
    BY <1>c, <2>2 DEF WholeDatagrams, Fits
  <2> QED
    BY <2>1, <2>2
<1> QED
  BY <1>t, <1>c, <1>1, <1>2, <1>4 DEF WholeInv

\* Of a file that fills its datagrams the output is whole datagrams, whatever the
\* network loses, repeats or reorders, and whatever header it puts in front.
THEOREM DatagramsAreWhole == Spec => []WholeDatagrams
<1>1. WholeInv => WholeDatagrams
  BY DEF WholeInv
<1> QED
  BY <1>1, WholeInit, WholeStep, PTL DEF Spec

-----------------------------------------------------------------------------
(* The order of what is received *)

Once == ~loop /\ faults \subseteq {"loss"} /\ Fits

\* Of two datagrams under way the first one is of an earlier part of the file, and
\* none is of a part not read yet.
NetInOrder ==
  /\ \A i, j \in DOMAIN net : i < j => First(net[i]) + UdpSize <= First(net[j])
  /\ \A i \in DOMAIN net : First(net[i]) + UdpSize <= off

\* What is written is of an earlier part of the file than what is under way.
OutInOrder ==
  /\ \A i, j \in DOMAIN out : i < j => out[i] < out[j]
  /\ \A i \in DOMAIN out : out[i] < off
  /\ \A i \in DOMAIN out : \A j \in DOMAIN net : out[i] < First(net[j])

\* Inductive, with the property.
OrderInv ==
  /\ WholeInv
  /\ Once => NetInOrder /\ OutInOrder

LEMMA OrderInit == Init => OrderInv
<1> SUFFICES ASSUME Init PROVE OrderInv
  OBVIOUS
<1>1. WholeInv /\ net = <<>> /\ out = <<>>
  BY WholeInit DEF Init
<1> QED
  BY <1>1 DEF OrderInv, NetInOrder, OutInOrder

\* A network that only loses datagrams keeps the others in their order: the
\* datagrams under way after a step were under way before, in the same order, but
\* for one that was sent by it, the last.
Before(i, j) == \E k, m \in DOMAIN net : k < m /\ net'[i] = net[k] /\ net'[j] = net[m]

LEMMA OrderFollows ==
  ASSUME OrderInv, Once, [Next]_relayVars
  PROVE  /\ \A i \in DOMAIN net' : Old(net'[i]) \/ (SendNext /\ net'[i] = ToSend)
         /\ \A i, j \in DOMAIN net' : i < j =>
              Before(i, j) \/ (SendNext /\ Old(net'[i]) /\ net'[j] = ToSend)
<1>t. PaceInv /\ hdr \in Nat /\ net \in Seq(Seq(Int)) /\ Len(net) \in Nat /\ DOMAIN net = 1 .. Len(net)
  BY DEF OrderInv, WholeInv, FullInv
<1>n. \A i \in DOMAIN net' : Old(net'[i]) \/ (SendNext /\ net'[i] = ToSend)
  BY <1>t, NetFollows
<1>1. CASE SendNext
  <2>1. net' = net \/ net' = Append(net, ToSend)
    BY <1>1 DEF SendNext, Carried, ToSend
  <2>2. CASE net' = net
    BY <1>n, <2>2 DEF Before
  <2>3. CASE net' = Append(net, ToSend)
    <3>1. /\ Len(net') = Len(net) + 1 /\ DOMAIN net' = 1 .. Len(net) + 1
          /\ \A j \in 1 .. Len(net) : net'[j] = net[j]
          /\ net'[Len(net) + 1] = ToSend
      BY <1>t, <2>3, SentIs, AppendProperties
    <3>2. ASSUME NEW i \in DOMAIN net', NEW j \in DOMAIN net', i < j
          PROVE  Before(i, j) \/ (SendNext /\ Old(net'[i]) /\ net'[j] = ToSend)
      <4>1. i \in DOMAIN net /\ net'[i] = net[i]
        BY <1>t, <3>1, <3>2
      <4>2. CASE j = Len(net) + 1
        BY <1>1, <3>1, <4>1, <4>2 DEF Old
      <4>3. CASE j # Len(net) + 1
        <5>1. j \in DOMAIN net /\ net'[j] = net[j]
          BY <1>t, <3>1, <4>3
        <5> QED
          BY <3>2, <4>1, <5>1 DEF Before
      <4> QED
        BY <4>2, <4>3
    <3> QED
      BY <1>n, <3>2
  <2> QED
    BY <2>1, <2>2, <2>3
<1>2. CASE Disturb
  <2>1. PICK l \in DOMAIN net : net' = RemoveAt(net, l)
    BY <1>2 DEF Disturb, LoseDatagram, Duplicate, Overtake, Once
  <2>2. /\ Len(net') = Len(net) - 1 /\ net' \in Seq(Seq(Int))
        /\ \A j \in 1 .. Len(net) - 1 : net'[j] = IF j < l THEN net[j] ELSE net[j + 1]
    BY <1>t, <2>1, Removed
  <2> DEFINE f(j) == IF j < l THEN j ELSE j + 1
  <2>3. DOMAIN net' = 1 .. Len(net) - 1
    BY <2>2
  <2>4. ASSUME NEW j \in DOMAIN net' PROVE f(j) \in DOMAIN net /\ net'[j] = net[f(j)]
    <3>1. j \in 1 .. Len(net) - 1 /\ l \in 1 .. Len(net)
      BY <1>t, <2>3
    <3>2. f(j) \in 1 .. Len(net)
      BY <1>t, <3>1
    <3>3. net'[j] = net[f(j)]
      BY <2>2, <3>1
    <3> QED
      BY <1>t, <3>2, <3>3
  <2>5. ASSUME NEW i \in DOMAIN net', NEW j \in DOMAIN net', i < j PROVE Before(i, j)
    <3>1. f(i) < f(j)
      BY <1>t, <2>1, <2>3, <2>5
    <3> HIDE DEF f
    <3> QED
      BY <2>4, <2>5, <3>1 DEF Before
  <2> QED
    BY <1>n, <2>5
<1>3. CASE Receive
  <2>1. ASSUME NEW j \in DOMAIN net'
        PROVE  j \in Nat /\ j + 1 \in DOMAIN net /\ net'[j] = net[j + 1]
    BY <1>t, <1>3, TailIs
  <2>2. ASSUME NEW i \in DOMAIN net', NEW j \in DOMAIN net', i < j PROVE Before(i, j)
    <3>1. i + 1 < j + 1
      BY <2>1, <2>2
    <3> QED
      BY <2>1, <3>1 DEF Before
  <2> QED
    BY <1>n, <2>2
<1>4. CASE UNCHANGED net
  BY <1>n, <1>4 DEF Before
<1>5. Pass \/ Wake \/ CaughtUp \/ WriteFails \/ EndOfFile \/ Listen \/ UNCHANGED relayVars => UNCHANGED net
  BY DEF Pass, Wake, CaughtUp, WriteFails, EndOfFile, Listen, relayVars
<1> QED
  BY <1>1, <1>2, <1>3, <1>4, <1>5 DEF Next, Send

LEMMA OrderStep == OrderInv /\ [Next]_relayVars => OrderInv'
<1> SUFFICES ASSUME OrderInv, [Next]_relayVars, Once' PROVE (NetInOrder /\ OutInOrder)'
  BY WholeStep DEF OrderInv
<1>c. UNCHANGED <<size, hdr, loop, faults>>
  BY DEF Next, Send, Pass, Wake, CaughtUp, SendNext, WriteFails, EndOfFile, Disturb, Listen,
         Receive, relayVars, params
<1>o. Once
  BY <1>c DEF Once, Fits, Filled
<1>t. /\ WholeInv /\ FullInv /\ PaceInv /\ Filled /\ Fits
      /\ UdpSize \in Nat \ {0} /\ off \in Nat /\ hdr \in Nat /\ net \in Seq(Seq(Int))
      /\ out \in Seq(Int)
  BY <1>o, RelayAssumption DEF OrderInv, WholeInv, FullInv, PaceInv, Once, Fits
<1>i. NetInOrder /\ OutInOrder
  BY <1>o DEF OrderInv
<1>w. \A i \in DOMAIN net : First(net[i]) \in Nat
  BY <1>t DEF WholeInv, InFull
<1>v. \A i \in DOMAIN out : out[i] \in Int
  BY <1>t
<1>f. ASSUME NEW i \in DOMAIN net' PROVE First(net[i])' = First(net'[i])
  BY <1>c DEF First
<1>n. /\ \A i \in DOMAIN net' : Old(net'[i]) \/ (SendNext /\ net'[i] = ToSend)
      /\ \A i, j \in DOMAIN net' : i < j =>
           Before(i, j) \/ (SendNext /\ Old(net'[i]) /\ net'[j] = ToSend)
  BY <1>o, OrderFollows
<1>s. SendNext => First(ToSend) = off /\ off' = off + UdpSize
  BY <1>t, SentIsWhole
<1>l. off' \in Nat /\ off <= off'
  <2>1. CASE SendNext
    BY <1>t, <1>s, <2>1
  <2>2. CASE WriteFails
    BY <1>t, <2>2, ChunkLen DEF WriteFails, FullInv, PaceInv
  <2>3. CASE EndOfFile
    BY <1>o, <1>t, <2>3 DEF EndOfFile, Once
  <2>4. CASE UNCHANGED off
    BY <1>t, <2>4
  <2> QED
    BY <2>1, <2>2, <2>3, <2>4 DEF Next, Send, Pass, Wake, CaughtUp, Disturb, Listen, Receive,
                                  relayVars, sender
<1>1. ASSUME NEW d, Old(d) PROVE First(d) \in Nat /\ First(d) + UdpSize <= off
  BY <1>1, <1>i, <1>w DEF Old, NetInOrder
<1>2. ASSUME NEW i \in DOMAIN net' PROVE First(net'[i]) + UdpSize <= off'
  BY <1>1, <1>l, <1>n, <1>s, <1>t
<1>3. ASSUME NEW i \in DOMAIN net', NEW j \in DOMAIN net', i < j
      PROVE  First(net'[i]) + UdpSize <= First(net'[j])
  <2>1. CASE Before(i, j)
    BY <1>i, <2>1 DEF Before, NetInOrder
  <2>2. CASE SendNext /\ Old(net'[i]) /\ net'[j] = ToSend
    BY <1>1, <1>s, <2>2
  <2> QED
    BY <1>3, <1>n, <2>1, <2>2
<1>4. NetInOrder'
  BY <1>2, <1>3, <1>c, <1>f DEF NetInOrder
<1>5. CASE UNCHANGED out
  <2>1. ASSUME NEW i \in DOMAIN out PROVE out[i] < off'
    BY <1>i, <1>l, <1>t, <1>v DEF OutInOrder
  <2>2. ASSUME NEW i \in DOMAIN out, NEW j \in DOMAIN net' PROVE out[i] < First(net'[j])
    <3>1. CASE Old(net'[j])
      BY <1>i, <3>1 DEF Old, OutInOrder
    <3>2. CASE SendNext /\ net'[j] = ToSend
      BY <1>i, <1>s, <3>2 DEF OutInOrder
    <3> QED
      BY <1>n, <3>1, <3>2
  <2>3. OutInOrder'
    BY <1>5, <1>f, <1>i, <2>1, <2>2 DEF OutInOrder
  <2> QED
    BY <1>4, <2>3
<1>6. ASSUME NEW w \in Seq(Int), Receive, 1 \in DOMAIN net, InFull(net[1]),
             out' = out \o w, Len(w) = UdpSize,
             \A j \in 1 .. UdpSize : w[j] = First(net[1]) + j - 1
      PROVE  OutInOrder'
  <2> DEFINE f == First(net[1])
  <2>1. f \in Nat /\ f + UdpSize <= off /\ \A i \in DOMAIN out : out[i] < f
    BY <1>6, <1>i, <1>w DEF NetInOrder, OutInOrder
  <2>2. \A j \in 1 .. UdpSize : w[j] = f + j - 1
    BY <1>6
  <2> HIDE DEF f
  <2>3. /\ DOMAIN out = 1 .. Len(out) /\ Len(out) \in Nat
        /\ DOMAIN out' = 1 .. Len(out) + UdpSize
        /\ \A i \in 1 .. Len(out) + UdpSize :
             out'[i] = IF i <= Len(out) THEN out[i] ELSE w[i - Len(out)]
    <3>1. out' = out \o w /\ Len(w) = UdpSize /\ UdpSize \in Nat
      BY <1>6, <1>t
    <3>2. /\ out \o w \in Seq(Int) /\ Len(out \o w) = Len(out) + UdpSize
          /\ \A i \in 1 .. Len(out) + UdpSize :
               (out \o w)[i] = IF i <= Len(out) THEN out[i] ELSE w[i - Len(out)]
      BY <1>t, <3>1, ConcatProperties
    <3>3. DOMAIN out = 1 .. Len(out) /\ Len(out) \in Nat
          /\ DOMAIN (out \o w) = 1 .. Len(out) + UdpSize
      BY <1>t, <3>2
    <3> QED
      BY <3>1, <3>2, <3>3
  <2>4. ASSUME NEW i \in DOMAIN out'
        PROVE  \/ i \in DOMAIN out /\ out'[i] = out[i]
               \/ i > Len(out) /\ out'[i] = f + (i - Len(out)) - 1 /\ i - Len(out) \in 1 .. UdpSize
    <3>1. CASE i <= Len(out)
      BY <2>3, <3>1
    <3>2. CASE i > Len(out)
      <4>1. i - Len(out) \in 1 .. UdpSize
        BY <1>t, <2>3, <3>2
      <4> QED
        BY <2>2, <2>3, <3>2, <4>1
    <3> QED
      BY <2>3, <3>1, <3>2
  <2>5. ASSUME NEW i \in DOMAIN out', NEW j \in DOMAIN out', i < j PROVE out'[i] < out'[j]
    <3>1. i \in Nat /\ j \in Nat
      BY <2>3
    <3>2. CASE j \in DOMAIN out /\ out'[j] = out[j]
      <4>1. i \in DOMAIN out /\ ~(i > Len(out))
        BY <2>3, <2>5, <3>1, <3>2
      <4>2. out'[i] = out[i]
        BY <2>4, <4>1
      <4> QED
        BY <1>i, <2>5, <3>2, <4>1, <4>2 DEF OutInOrder
    <3>3. CASE j > Len(out) /\ out'[j] = f + (j - Len(out)) - 1 /\ j - Len(out) \in 1 .. UdpSize
      <4>1. CASE i \in DOMAIN out /\ out'[i] = out[i]
        <5>1. out[i] < f /\ out[i] \in Int
          BY <1>v, <2>1, <4>1
        <5>2. f <= out'[j]
          BY <2>1, <2>3, <3>1, <3>3
        <5> QED
          BY <1>t, <2>1, <2>3, <3>1, <3>3, <4>1, <5>1, <5>2
      <4>2. CASE i > Len(out) /\ out'[i] = f + (i - Len(out)) - 1
        BY <2>1, <2>3, <2>5, <3>1, <3>3, <4>2
      <4> QED
        BY <2>4, <4>1, <4>2
    <3> QED
      BY <2>4, <3>2, <3>3
  <2>6. ASSUME NEW i \in DOMAIN out' PROVE out'[i] \in Int /\ out'[i] < f + UdpSize
    <3>1. CASE i \in DOMAIN out /\ out'[i] = out[i]
      BY <1>t, <1>v, <2>1, <3>1
    <3>2. CASE i > Len(out) /\ out'[i] = f + (i - Len(out)) - 1 /\ i - Len(out) \in 1 .. UdpSize
      BY <1>t, <2>1, <3>2
    <3> QED
      BY <2>4, <3>1, <3>2
  <2>7. ASSUME NEW j \in DOMAIN net' PROVE f + UdpSize <= First(net'[j]) /\ First(net'[j]) \in Nat
    <3>1. j \in Nat /\ j + 1 \in DOMAIN net /\ net'[j] = net[j + 1] /\ 1 <= j
      BY <1>6, <1>t, TailIs
    <3>2. 1 < j + 1
      BY <3>1
    <3>3. First(net[1]) + UdpSize <= First(net[j + 1])
      BY <1>6, <1>i, <3>1, <3>2 DEF NetInOrder
    <3> QED
      BY <1>w, <3>1, <3>3 DEF f
  <2>8. ASSUME NEW i \in DOMAIN out' PROVE out'[i] < off'
    BY <1>l, <1>t, <2>1, <2>6
  <2>9. ASSUME NEW i \in DOMAIN out', NEW j \in DOMAIN net' PROVE out'[i] < First(net'[j])
    BY <1>t, <2>1, <2>6, <2>7
  <2> QED
    BY <1>f, <2>5, <2>8, <2>9 DEF OutInOrder
<1>7. UNCHANGED out \/ OutInOrder'
  BY <1>6, <1>t, OutFollows
<1> QED
  BY <1>4, <1>5, <1>7

\* Of a file that is sent once a network that only loses datagrams delivers the
\* rest in its order, and no unit twice.
THEOREM LossKeepsOrder == Spec => []OrderKept
<1>1. OrderInv => OrderKept
  BY DEF OrderInv, OutInOrder, OrderKept, Once, Fits
<1> QED
  BY <1>1, OrderInit, OrderStep, PTL DEF Spec
=============================================================================
