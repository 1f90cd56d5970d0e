-------------------------- MODULE PsiParserProofs --------------------------
(***************************************************************************)
(* Theorems about PsiParser, for every set of PIDs, stream types and       *)
(* sections that satisfies PsiAssumption.                                  *)
(***************************************************************************)
EXTENDS PsiParser, FiniteSetTheorems, TLAPS

USE DEF HeaderLen

-----------------------------------------------------------------------------
(* The operators of BufferData *)

\* Lengths stay within the bound, and a capped length is never less than a
\* length that already counted.
LEMMA CappedIsBounded ==
  ASSUME NEW m \in 0 .. MaxLen, NEW n \in Nat
  PROVE  /\ Capped(m + n) \in 0 .. MaxLen
         /\ Capped(m + n) >= m
BY PsiAssumption DEF Capped

\* The fields of a packet that carries a piece of one of the sections S.
LEMMA FragmentFields ==
  ASSUME NEW S, NEW pid, NEW pkt \in Fragment(pid, S)
  PROVE  /\ pkt.pid = pid /\ pkt.pusi \in BOOLEAN /\ pkt.sec \in S
         /\ pkt.off \in 0 .. MaxLen /\ pkt.tail \in 0 .. MaxLen /\ pkt.len \in 0 .. MaxLen
         /\ pkt.pusi => pkt.tail + pkt.sec.size <= MaxLen
BY DEF Fragment

\* What BufferData leaves in a buffer is a buffer again.
LEMMA BufferedType ==
  ASSUME NEW S, S \subseteq Section,
         NEW pid, NEW pkt \in Fragment(pid, S),
         NEW buf \in Buffer(S) \cup {Nil},
         NEW new \in Buffered(pkt, buf, S)
  PROVE  new \in Buffer(S) \cup {Nil}
<1>1. CASE pkt.pusi /\ buf # Nil
  BY <1>1 DEF Buffered
<1>2. CASE pkt.pusi /\ buf = Nil
  <2>1. new = [sec |-> pkt.sec, tail |-> pkt.tail, len |-> pkt.len, torn |-> FALSE]
    BY <1>2 DEF Buffered
  <2>2. pkt.sec \in S /\ pkt.tail \in 0 .. MaxLen /\ pkt.len \in 0 .. MaxLen
    BY FragmentFields
  <2> QED
    BY <2>1, <2>2 DEF Buffer
<1>3. CASE ~pkt.pusi /\ buf = Nil
  BY <1>3 DEF Buffered
<1>4. CASE ~pkt.pusi /\ buf # Nil
  <2>1. new \in AppendData(pkt, buf, S)
    BY <1>4 DEF Buffered
  <2>2. buf \in Buffer(S)
    BY <1>4
  <2>3. Capped(buf.len + pkt.len) \in 0 .. MaxLen
    BY <2>2, CappedIsBounded, PsiAssumption, FragmentFields DEF Buffer
  <2> QED
    BY <2>1, <2>2, <2>3 DEF AppendData, Buffer
<1> QED
  BY <1>1, <1>2, <1>3, <1>4

\* Unless the header of the section could not be read, there is a buffer.
LEMMA HeaderReadFromBuffer ==
  ASSUME NEW S, S \subseteq Section,
         NEW pid, NEW pkt \in Fragment(pid, S),
         NEW buf \in Buffer(S) \cup {Nil},
         NEW new \in Buffered(pkt, buf, S),
         ~HeaderFault(pkt, buf, new)
  PROVE  new \in Buffer(S) /\ new # Nil
<1>1. new \in Buffer(S) \cup {Nil}
  BY BufferedType
<1>2. new # Nil
  BY DEF HeaderFault, Early, Buffered
<1> QED
  BY <1>1, <1>2

\* The PID of a packet tells which sections its payload is a piece of.
LEMMA PacketOfPid ==
  ASSUME NEW pkt \in PsiPacket
  PROVE  /\ pkt.pid = PatPid => pkt \in Fragment(PatPid, PatSection)
         /\ pkt.pid \in PmtPid => pkt \in Fragment(pkt.pid, PmtSection)
<1>1. CASE pkt \in Fragment(PatPid, PatSection)
  BY <1>1, FragmentFields, PsiAssumption
<1>2. CASE \E p \in PmtPid : pkt \in Fragment(p, PmtSection)
  <2>1. PICK p \in PmtPid : pkt \in Fragment(p, PmtSection)
    BY <1>2
  <2>2. pkt.pid = p
    BY <2>1, FragmentFields
  <2> QED
    BY <2>1, <2>2, PsiAssumption
<1> QED
  BY <1>1, <1>2 DEF PsiPacket

-----------------------------------------------------------------------------
(* Type correctness *)

LEMMA ParseDoneType ==
  ASSUME PsiTypeOK, NEW tables \in [PmtPid -> PmtSection \cup {Nil}], ParseDone(tables)
  PROVE  /\ strs' \in StreamMap
         /\ pcrs' \in [EsPid -> SUBSET EsPid]
         /\ status' = "done"
<1>1. strs' \in StreamMap
  BY DEF ParseDone
<1>2. pcrs' \in [EsPid -> SUBSET EsPid]
  BY DEF ParseDone, PsiTypeOK
<1> QED
  BY <1>1, <1>2 DEF ParseDone

\* Each program's streams as psi.json lists them.
LEMMA StreamsType ==
  ASSUME NEW tables \in [PmtPid -> PmtSection \cup {Nil}], NEW p \in PmtPid
  PROVE  (IF tables[p] = Nil THEN NoStreams ELSE tables[p].streams) \in StreamMap
<1>1. NoStreams \in StreamMap
  BY DEF NoStreams, StreamMap
<1>2. ASSUME tables[p] # Nil PROVE tables[p].streams \in StreamMap
  BY <1>2, PsiAssumption
<1> QED
  BY <1>1, <1>2

LEMMA InitType == PsiInit => PsiTypeOK
BY DEF PsiInit, PsiTypeOK, StreamMap

LEMMA ParseType ==
  ASSUME PsiTypeOK, NEW pkt \in PsiPacket, Parse(pkt)
  PROVE  PsiTypeOK'
<1>p. PatSection \subseteq Section /\ PmtSection \subseteq Section
  BY DEF Section
<1>1. CASE Skip(pkt)
  BY <1>1 DEF Skip, psiVars, tableVars, routeVars, PsiTypeOK
<1>2. CASE Panic
  BY <1>2 DEF Panic, tableVars, routeVars, PsiTypeOK
<1>3. ASSUME pkt.pid = PatPid,
             NEW new \in Buffered(pkt, patData, PatSection),
             ~Faults(pkt, patData, new), PatBuffered(pkt, new)
      PROVE  PsiTypeOK'
  <2>1. new \in Buffer(PatSection)
    BY <1>p, <1>3, PacketOfPid, HeaderReadFromBuffer DEF Faults, PsiTypeOK
  <2>2. new.sec \in PatSection
    BY <2>1 DEF Buffer
  <2> QED
    BY <1>3, <2>1, <2>2 DEF PatBuffered, routeVars, PsiTypeOK
<1>4. ASSUME pat # Nil, pkt.pid \in pat.programs,
             NEW new \in Buffered(pkt, pmtData[pkt.pid], PmtSection),
             ~Faults(pkt, pmtData[pkt.pid], new), PmtBuffered(pkt, new)
      PROVE  PsiTypeOK'
  <2>0. pkt.pid \in PmtPid
    BY <1>4, PsiAssumption DEF PsiTypeOK
  <2>1. new \in Buffer(PmtSection)
    BY <1>p, <1>4, <2>0, PacketOfPid, HeaderReadFromBuffer DEF Faults, PsiTypeOK
  <2>2. new.sec \in PmtSection
    BY <2>1 DEF Buffer
  <2>3. pmtData' \in [PmtPid -> Buffer(PmtSection) \cup {Nil}]
    BY <1>4, <2>1 DEF PmtBuffered, PsiTypeOK
  <2>4. pmts' \in [PmtPid -> PmtSection \cup {Nil}]
    BY <1>4, <2>2 DEF PmtBuffered, PsiTypeOK
  <2>5. /\ strs' \in StreamMap /\ pcrs' \in [EsPid -> SUBSET EsPid]
        /\ status' \in {"parsing", "done", "reported", "panic"}
    <3>1. CASE ParseDone(pmts')
      BY <3>1, <2>4, ParseDoneType
    <3>2. CASE UNCHANGED <<routeVars, status>>
      BY <3>2 DEF routeVars, PsiTypeOK
    <3> QED
      BY <1>4, <3>1, <3>2 DEF PmtBuffered
  <2> QED
    BY <1>4, <2>3, <2>4, <2>5 DEF PmtBuffered, PsiTypeOK
<1> QED
  BY <1>1, <1>2, <1>3, <1>4 DEF Parse, PatFragment, PmtFragment

LEMMA StepType == PsiTypeOK /\ [PsiNext]_psiVars => PsiTypeOK'
<1> SUFFICES ASSUME PsiTypeOK, [PsiNext]_psiVars PROVE PsiTypeOK'
  OBVIOUS
<1>1. ASSUME NEW pkt \in PsiPacket, Parse(pkt) PROVE PsiTypeOK'
  BY <1>1, ParseType
<1>2. CASE EndOfPackets
  <2>1. pmts \in [PmtPid -> PmtSection \cup {Nil}]
    BY DEF PsiTypeOK
  <2> QED
    BY <1>2, <2>1, ParseDoneType DEF EndOfPackets, tableVars, PsiTypeOK
<1>3. CASE Finish
  <2>1. CASE pat = Nil
    BY <1>3, <2>1 DEF Finish, Panic, tableVars, routeVars, PsiTypeOK
  <2>2. CASE pat # Nil
    <3>1. info' \in [PmtPid -> StreamMap \cup {Nil}]
      BY <1>3, <2>2, StreamsType DEF Finish, PsiTypeOK
    <3> QED
      BY <1>3, <2>2, <3>1 DEF Finish, tableVars, routeVars, PsiTypeOK
  <2> QED
    BY <2>1, <2>2
<1>4. CASE PsiEnded
  BY <1>4 DEF PsiEnded, psiVars, tableVars, routeVars, PsiTypeOK
<1>5. CASE UNCHANGED psiVars
  BY <1>5 DEF psiVars, tableVars, routeVars, PsiTypeOK
<1> QED
  BY <1>1, <1>2, <1>3, <1>4, <1>5 DEF PsiNext

\* The tables, buffers and routes of the parser always have their types: psi.json
\* and the records are made from sections, whatever packets came.
THEOREM TypeCorrect == PsiSpec => []PsiTypeOK
BY InitType, StepType, PTL DEF PsiSpec

-----------------------------------------------------------------------------
(* Buffers and tables *)

\* A whole buffer stays whole and keeps its section, whatever BufferData does.
LEMMA WholeIsKept ==
  ASSUME NEW S, S \subseteq Section,
         NEW pid, NEW pkt \in Fragment(pid, S),
         NEW buf \in Buffer(S), buf # Nil, Whole(buf),
         NEW new \in Buffered(pkt, buf, S)
  PROVE  new # Nil /\ Whole(new) /\ new.sec = buf.sec
<1>1. CASE pkt.pusi
  BY <1>1 DEF Buffered
<1>2. CASE ~pkt.pusi
  <2>1. new = [buf EXCEPT !.len = Capped(buf.len + pkt.len)]
    BY <1>2 DEF Buffered, AppendData
  <2>2. Capped(buf.len + pkt.len) \in 0 .. MaxLen /\ Capped(buf.len + pkt.len) >= buf.len
    BY CappedIsBounded, FragmentFields, PsiAssumption DEF Buffer
  <2>3. /\ new.len \in 0 .. MaxLen /\ new.len >= buf.len
        /\ new.sec = buf.sec /\ new.tail = buf.tail
    BY <2>1, <2>2 DEF Buffer
  <2>4. buf.tail \in Nat /\ buf.sec.size \in Nat /\ buf.len \in Nat
    BY PsiAssumption DEF Buffer
  <2>5. new # Nil
    BY <2>1, <2>2, PsiAssumption DEF Buffer
  <2> QED
    BY <2>3, <2>4, <2>5, PsiAssumption DEF Whole, Expected
<1> QED
  BY <1>1, <1>2 DEF Fragment

\* Inductive: what is known was read from a whole buffer of a PID listened to.
TablesInv == PsiTypeOK /\ WholeSectionsOnly /\ TablesOfPrograms

LEMMA PmtStep ==
  ASSUME TablesInv, NEW pkt \in PsiPacket, pat # Nil, pkt.pid \in pat.programs,
         NEW new \in Buffered(pkt, pmtData[pkt.pid], PmtSection),
         ~Faults(pkt, pmtData[pkt.pid], new), PmtBuffered(pkt, new)
  PROVE  /\ pkt.pid \in PmtPid
         /\ pmtData'[pkt.pid] = new /\ new # Nil
         /\ pmts'[pkt.pid] # Nil => Whole(new) /\ pmts'[pkt.pid] = new.sec
         /\ pmts[pkt.pid] # Nil => pmts'[pkt.pid] = pmts[pkt.pid]
         /\ \A q \in PmtPid \ {pkt.pid} : pmtData'[q] = pmtData[q] /\ pmts'[q] = pmts[q]
<1> DEFINE p == pkt.pid
<1> DEFINE old == pmtData[p]
<1>s. PmtSection \subseteq Section
  BY DEF Section
<1>0. p \in PmtPid
  BY PsiAssumption DEF TablesInv, PsiTypeOK
<1>1. new \in Buffer(PmtSection) /\ new # Nil
  BY <1>s, <1>0, PacketOfPid, HeaderReadFromBuffer DEF Faults, TablesInv, PsiTypeOK
<1>2. /\ pmtData'[p] = new
      /\ \A q \in PmtPid \ {p} : pmtData'[q] = pmtData[q] /\ pmts'[q] = pmts[q]
  BY <1>0 DEF PmtBuffered, TablesInv, PsiTypeOK
<1>3. pmts'[p] = IF Complete(pkt, old, new) THEN new.sec ELSE pmts[p]
  BY <1>0 DEF PmtBuffered, TablesInv, PsiTypeOK
<1>4. Complete(pkt, old, new) => Whole(new)
  BY DEF Faults
<1>5. ASSUME pmts[p] # Nil PROVE Whole(new) /\ pmts[p] = new.sec
  <2>1. old # Nil /\ Whole(old) /\ pmts[p] = old.sec
    BY <1>0, <1>5 DEF TablesInv, WholeSectionsOnly, Known
  <2>2. old \in Buffer(PmtSection)
    BY <1>0, <2>1 DEF TablesInv, PsiTypeOK
  <2>3. Whole(new) /\ new.sec = old.sec
    BY <1>s, <1>0, <2>1, <2>2, PacketOfPid, WholeIsKept
  <2> QED
    BY <2>1, <2>3
<1> QED
  BY <1>0, <1>1, <1>2, <1>3, <1>4, <1>5

LEMMA TablesStep == TablesInv /\ [PsiNext]_psiVars => TablesInv'
<1> SUFFICES ASSUME TablesInv, [PsiNext]_psiVars PROVE TablesInv'
  OBVIOUS
<1>t. PsiTypeOK'
  BY StepType DEF TablesInv
<1>u. ASSUME UNCHANGED tableVars PROVE TablesInv'
  BY <1>t, <1>u DEF tableVars, TablesInv, WholeSectionsOnly, TablesOfPrograms, Known
<1>1. ASSUME NEW pkt \in PsiPacket, Parse(pkt) PROVE TablesInv'
  <2>1. CASE Skip(pkt) \/ Panic
    BY <1>u, <2>1 DEF Skip, Panic, psiVars
  <2>2. ASSUME pat = Nil, pkt.pid = PatPid,
               NEW new \in Buffered(pkt, patData, PatSection),
               ~Faults(pkt, patData, new), PatBuffered(pkt, new)
        PROVE  TablesInv'
    <3>1. new # Nil
      BY <2>2, PacketOfPid, HeaderReadFromBuffer DEF Faults, TablesInv, PsiTypeOK, Section
    <3>2. pat' # Nil => Whole(new) /\ pat' = new.sec
      BY <2>2 DEF PatBuffered, Faults
    <3>3. /\ patData' = new
          /\ \A p \in PmtPid : pmtData'[p] = Nil /\ pmts'[p] = Nil
      BY <2>2 DEF PatBuffered, TablesInv, TablesOfPrograms
    <3> QED
      BY <1>t, <3>1, <3>2, <3>3 DEF TablesInv, WholeSectionsOnly, TablesOfPrograms, Known
  <2>3. ASSUME pat # Nil, pkt.pid \in pat.programs,
               NEW new \in Buffered(pkt, pmtData[pkt.pid], PmtSection),
               ~Faults(pkt, pmtData[pkt.pid], new), PmtBuffered(pkt, new)
        PROVE  TablesInv'
    <3>1. pat' = pat /\ patData' = patData
      BY <2>3 DEF PmtBuffered
    <3>2. WholeSectionsOnly'
      BY <2>3, <3>1, PmtStep DEF TablesInv, WholeSectionsOnly, Known
    <3>3. TablesOfPrograms'
      BY <2>3, <3>1, PmtStep DEF TablesInv, TablesOfPrograms
    <3> QED
      BY <1>t, <3>2, <3>3 DEF TablesInv
  <2> QED
    BY <1>1, <2>1, <2>2, <2>3 DEF Parse, PatFragment, PmtFragment
<1>2. CASE EndOfPackets \/ Finish \/ PsiEnded
  BY <1>u, <1>2 DEF EndOfPackets, Finish, PsiEnded, Panic, psiVars
<1>3. CASE UNCHANGED psiVars
  BY <1>u, <1>3 DEF psiVars
<1> QED
  BY <1>1, <1>2, <1>3 DEF PsiNext

LEMMA TablesInit == PsiInit => TablesInv
BY InitType DEF PsiInit, TablesInv, WholeSectionsOnly, TablesOfPrograms, Known

\* ParsePat and ParsePmt never answer from a part of a section, although
\* BufferData reports a buffer complete whenever another start arrives.
THEOREM TablesAreWhole == PsiSpec => []WholeSectionsOnly
<1>1. TablesInv => WholeSectionsOnly
  BY DEF TablesInv
<1> QED
  BY <1>1, TablesInit, TablesStep, PTL DEF PsiSpec

\* Buffers and tables belong to programs of the PAT, so that the comparison of
\* two map lengths in Parse is a comparison of sets.
THEOREM TablesBelongToPrograms == PsiSpec => []TablesOfPrograms
<1>1. TablesInv => TablesOfPrograms
  BY DEF TablesInv
<1> QED
  BY <1>1, TablesInit, TablesStep, PTL DEF PsiSpec

\* A table is read once and for all: the buffer of a PID is never reset.
THEOREM TablesNeverChange == PsiSpec => FirstTableWins
<1> DEFINE Kept == /\ pat # Nil => pat' = pat
                   /\ \A p \in PmtPid : pmts[p] # Nil => pmts'[p] = pmts[p]
<1>1. ASSUME TablesInv, [PsiNext]_psiVars PROVE Kept
  <2>1. ASSUME NEW pkt \in PsiPacket, Parse(pkt) PROVE Kept
    <3>1. CASE Skip(pkt) \/ Panic
      BY <3>1 DEF Skip, Panic, psiVars, tableVars
    <3>2. ASSUME NEW new, pat = Nil, PatBuffered(pkt, new) PROVE Kept
      BY <3>2 DEF PatBuffered
    <3>3. ASSUME pat # Nil, pkt.pid \in pat.programs,
                 NEW new \in Buffered(pkt, pmtData[pkt.pid], PmtSection),
                 ~Faults(pkt, pmtData[pkt.pid], new), PmtBuffered(pkt, new)
          PROVE  Kept
      BY <1>1, <3>3, PmtStep DEF PmtBuffered
    <3> QED
      BY <2>1, <3>1, <3>2, <3>3 DEF Parse, PatFragment, PmtFragment
  <2>2. CASE EndOfPackets \/ Finish \/ PsiEnded \/ UNCHANGED psiVars
    BY <2>2 DEF EndOfPackets, Finish, PsiEnded, Panic, psiVars, tableVars
  <2> QED
    BY <1>1, <2>1, <2>2 DEF PsiNext
<1>2. TablesInv /\ [PsiNext]_psiVars => [Kept]_psiVars
  BY <1>1
<1> QED
  BY <1>2, TablesInit, TablesStep, PTL DEF PsiSpec, FirstTableWins

-----------------------------------------------------------------------------
(* The routing tables *)

\* ss and cc are the routes ParseDone makes of the tables t, in some order.
RoutesOf(t, ss, cc) ==
  /\ \A e \in EsPid :
       IF Listers(t, e) = {} THEN ss[e] = Nil
       ELSE \E p \in Listers(t, e) : ss[e] = t[p].streams[e]
  /\ cc = [c \in EsPid |-> {e \in EsPid : \E p \in Listers(t, e) : t[p].pcr = c}]

Unrouted == (\A e \in EsPid : strs[e] = Nil) /\ (\A c \in EsPid : pcrs[c] = {})

LEMMA ParseDoneRoutes ==
  ASSUME PsiTypeOK, Unrouted, NEW t \in [PmtPid -> PmtSection \cup {Nil}], ParseDone(t)
  PROVE  RoutesOf(t, strs', pcrs')
<1>1. ASSUME NEW e \in EsPid
      PROVE  IF Listers(t, e) = {} THEN strs'[e] = Nil
             ELSE \E p \in Listers(t, e) : strs'[e] = t[p].streams[e]
  <2>1. \/ Listers(t, e) = {} /\ strs'[e] = strs[e]
        \/ \E p \in PmtPid : p \in Listers(t, e) /\ strs'[e] = t[p].streams[e]
    BY DEF ParseDone, LastOf
  <2> QED
    BY <2>1 DEF Unrouted
<1>2. pcrs' = [c \in EsPid |-> {e \in EsPid : \E p \in Listers(t, e) : t[p].pcr = c}]
  BY DEF ParseDone, Unrouted
<1> QED
  BY <1>1, <1>2 DEF RoutesOf

\* A PID some table lists has a stream and a clock; any other PID has neither.
LEMMA RoutesMatch ==
  ASSUME NEW t \in [PmtPid -> PmtSection \cup {Nil}], NEW ss, NEW cc, RoutesOf(t, ss, cc),
         NEW e \in EsPid
  PROVE  ss[e] # Nil <=> \E c \in EsPid : e \in cc[c]
<1>1. CASE Listers(t, e) = {}
  BY <1>1 DEF RoutesOf
<1>2. CASE Listers(t, e) # {}
  <2>1. PICK p \in Listers(t, e) : ss[e] = t[p].streams[e]
    BY <1>2 DEF RoutesOf
  <2>2. p \in PmtPid /\ t[p] # Nil /\ t[p].streams[e] # Nil
    BY <2>1 DEF Listers, Known
  <2>3. t[p].pcr \in EsPid
    BY <2>2, PsiAssumption
  <2>4. e \in cc[t[p].pcr]
    BY <2>1, <2>3 DEF RoutesOf
  <2> QED
    BY <2>1, <2>2, <2>3, <2>4
<1> QED
  BY <1>1, <1>2

\* len(p.Pat.programs) == len(p.Pmts) says that every program has its table.
LEMMA LengthsDecide ==
  ASSUME TablesInv, pat # Nil,
         NEW t \in [PmtPid -> PmtSection \cup {Nil}], Known(t) \subseteq pat.programs
  PROVE  AllKnown(t) <=> Known(t) = pat.programs
<1>1. pat.programs \subseteq PmtPid
  BY PsiAssumption DEF TablesInv, PsiTypeOK
<1>2. IsFiniteSet(pat.programs)
  BY <1>1, FS_Subset, PsiAssumption
<1>3. Cardinality(pat.programs) = Cardinality(Known(t)) => pat.programs = Known(t)
  BY <1>2, FS_Subset
<1> QED
  BY <1>3 DEF AllKnown

\* Inductive: the routes are empty, or those of the tables, and psi.json is
\* made of the same tables; a table is still missing while packets are parsed.
RouteInv ==
  /\ TablesInv
  /\ status = "parsing" => Unrouted
  /\ status \in {"done", "reported"} => RoutesOf(pmts, strs, pcrs)
  /\ RoutesMatchStreams
  /\ status = "reported" =>
       /\ pat # Nil
       /\ info = [p \in PmtPid |-> IF p \notin pat.programs THEN Nil
                    ELSE IF pmts[p] = Nil THEN NoStreams ELSE pmts[p].streams]
  /\ status = "parsing" /\ pat # Nil /\ pat.programs # {} => Known(pmts) # pat.programs

LEMMA RouteInit == PsiInit => RouteInv
BY TablesInit DEF PsiInit, RouteInv, Unrouted, RoutesMatchStreams

\* Publishing the routes of complete tables establishes what holds of routes.
LEMMA PublishedRoutes ==
  ASSUME RouteInv, TablesInv', status = "parsing", status' = "done",
         ParseDone(pmts')
  PROVE  RouteInv'
<1>1. pmts' \in [PmtPid -> PmtSection \cup {Nil}]
  BY DEF TablesInv, PsiTypeOK
<1>2. RoutesOf(pmts', strs', pcrs')
  BY <1>1, ParseDoneRoutes DEF RouteInv, TablesInv
<1>3. RoutesMatchStreams'
  BY <1>1, <1>2, RoutesMatch DEF RoutesMatchStreams
<1> QED
  BY <1>2, <1>3 DEF RouteInv

LEMMA RouteStep == RouteInv /\ [PsiNext]_psiVars => RouteInv'
<1> SUFFICES ASSUME RouteInv, [PsiNext]_psiVars PROVE RouteInv'
  OBVIOUS
<1>t. TablesInv'
  BY TablesStep DEF RouteInv
<1>0. ASSUME UNCHANGED psiVars PROVE RouteInv'
  BY <1>0, <1>t DEF psiVars, tableVars, routeVars, RouteInv, Unrouted, RoutesMatchStreams
<1>1. ASSUME NEW pkt \in PsiPacket, Parse(pkt) PROVE RouteInv'
  <2>0. status = "parsing" /\ Unrouted
    BY <1>1 DEF Parse, RouteInv
  <2>1. CASE Skip(pkt)
    BY <1>0, <2>1 DEF Skip
  <2>2. CASE Panic
    BY <1>t, <2>0, <2>2 DEF Panic, routeVars, RouteInv, RoutesMatchStreams
  <2>3. ASSUME NEW new, pat = Nil, PatBuffered(pkt, new) PROVE RouteInv'
    <3>1. UNCHANGED <<strs, pcrs, info, status, pmts>>
      BY <2>3 DEF PatBuffered, routeVars
    <3>2. Known(pmts') = {}
      BY <2>3, <3>1 DEF RouteInv, TablesInv, TablesOfPrograms, Known
    <3> QED
      BY <1>t, <2>0, <3>1, <3>2 DEF RouteInv, Unrouted, RoutesMatchStreams
  <2>4. ASSUME pat # Nil, pkt.pid \in pat.programs,
               NEW new \in Buffered(pkt, pmtData[pkt.pid], PmtSection),
               ~Faults(pkt, pmtData[pkt.pid], new), PmtBuffered(pkt, new)
        PROVE  RouteInv'
    <3>1. CASE AllKnown(pmts')
      BY <1>t, <2>0, <2>4, <3>1, PublishedRoutes DEF PmtBuffered, ParseDone
    <3>2. CASE ~AllKnown(pmts')
      <4>1. UNCHANGED <<pat, strs, pcrs, status>>
        BY <2>4, <3>2 DEF PmtBuffered, routeVars
      <4>2. pmts' \in [PmtPid -> PmtSection \cup {Nil}]
        BY <1>t DEF TablesInv, PsiTypeOK
      <4>3. Known(pmts') \subseteq pat.programs
        BY <1>t, <2>4, <4>1 DEF TablesInv, TablesOfPrograms, Known
      <4>4. Known(pmts') # pat.programs
        BY <2>4, <3>2, <4>2, <4>3, LengthsDecide DEF RouteInv
      <4> QED
        BY <1>t, <2>0, <4>1, <4>4 DEF RouteInv, Unrouted, RoutesMatchStreams
    <3> QED
      BY <3>1, <3>2
  <2> QED
    BY <1>1, <2>1, <2>2, <2>3, <2>4 DEF Parse, PatFragment, PmtFragment
<1>2. CASE EndOfPackets
  <2>1. pmts' = pmts /\ status = "parsing" /\ status' = "done" /\ ParseDone(pmts)
    BY <1>2 DEF EndOfPackets, ParseDone, tableVars
  <2>2. ParseDone(pmts')
    BY <2>1 DEF ParseDone
  <2> QED
    BY <1>t, <2>1, <2>2, PublishedRoutes
<1>3. CASE Finish
  <2>1. CASE pat = Nil
    BY <1>3, <1>t, <2>1 DEF Finish, Panic, tableVars, routeVars, RouteInv, RoutesMatchStreams
  <2>2. CASE pat # Nil
    BY <1>3, <1>t, <2>2 DEF Finish, tableVars, routeVars, RouteInv, RoutesMatchStreams
  <2> QED
    BY <2>1, <2>2
<1>4. CASE PsiEnded
  BY <1>0, <1>4 DEF PsiEnded
<1> QED
  BY <1>0, <1>1, <1>2, <1>3, <1>4 DEF PsiNext

\* The second pass never notifies a record that does not exist, and has a clock
\* for every stream.
THEOREM RoutesAreMatched == PsiSpec => []RoutesMatchStreams
<1>1. RouteInv => RoutesMatchStreams
  BY DEF RouteInv
<1> QED
  BY <1>1, RouteInit, RouteStep, PTL DEF PsiSpec

\* psi.json and the records agree on the streams, in whatever order Go visited
\* the PMTs.
THEOREM ReportAgrees == PsiSpec => []ReportAgreesWithRecords
<1>1. RouteInv => ReportAgreesWithRecords
  <2> SUFFICES ASSUME RouteInv, status = "reported", NEW e \in EsPid
               PROVE  LET said == {info[p][e] : p \in {q \in PmtPid : info[q] # Nil}} \ {Nil}
                      IN  IF strs[e] = Nil THEN said = {} ELSE strs[e] \in said
    BY DEF ReportAgreesWithRecords
  <2> DEFINE said == {info[p][e] : p \in {q \in PmtPid : info[q] # Nil}} \ {Nil}
  <2>1. pmts \in [PmtPid -> PmtSection \cup {Nil}]
    BY DEF RouteInv, TablesInv, PsiTypeOK
  <2>2. ASSUME NEW p \in PmtPid
        PROVE  (info[p] # Nil /\ info[p][e] # Nil) <=> p \in Listers(pmts, e)
    <3>1. CASE p \notin pat.programs
      BY <3>1 DEF RouteInv, TablesInv, TablesOfPrograms, Listers, Known
    <3>2. CASE p \in pat.programs /\ pmts[p] = Nil
      BY <3>2 DEF RouteInv, NoStreams, Listers, Known
    <3>3. CASE p \in pat.programs /\ pmts[p] # Nil
      <4>1. pmts[p].streams # Nil
        BY <2>1, <3>3, PsiAssumption
      <4> QED
        BY <3>3, <4>1 DEF RouteInv, Listers, Known
    <3> QED
      BY <3>1, <3>2, <3>3
  <2>3. ASSUME NEW p \in Listers(pmts, e)
        PROVE  p \in PmtPid /\ info[p] # Nil /\ info[p][e] = pmts[p].streams[e]
    <3>1. p \in PmtPid /\ pmts[p] # Nil
      BY <2>3 DEF Listers, Known
    <3>2. p \in pat.programs
      BY <3>1 DEF RouteInv, TablesInv, TablesOfPrograms
    <3> QED
      BY <2>2, <2>3, <3>1, <3>2 DEF RouteInv
  <2>4. CASE Listers(pmts, e) = {}
    BY <2>2, <2>4 DEF RouteInv, RoutesOf
  <2>5. CASE Listers(pmts, e) # {}
    <3>1. PICK p \in Listers(pmts, e) : strs[e] = pmts[p].streams[e]
      BY <2>5 DEF RouteInv, RoutesOf
    <3>2. strs[e] # Nil
      BY <3>1 DEF Listers
    <3>3. strs[e] \in said
      BY <2>3, <3>1, <3>2
    <3> QED
      BY <3>2, <3>3
  <2> QED
    BY <2>4, <2>5
<1> QED
  BY <1>1, RouteInit, RouteStep, PTL DEF PsiSpec

\* After a PMT packet that left the parser in its loop or published, the map
\* lengths told whether every program has its table.
LEMMA PmtDecides ==
  ASSUME RouteInv, NEW pkt \in PsiPacket, pat # Nil, pkt.pid \in pat.programs,
         NEW new \in Buffered(pkt, pmtData[pkt.pid], PmtSection),
         ~Faults(pkt, pmtData[pkt.pid], new), PmtBuffered(pkt, new)
  PROVE  AllKnown(pmts') <=> Known(pmts') = pat.programs
<1>0. TablesInv
  BY DEF RouteInv
<1>1. /\ pkt.pid \in PmtPid
      /\ \A q \in PmtPid \ {pkt.pid} : pmts'[q] = pmts[q]
  BY <1>0, PmtStep
<1>2. Known(pmts') \subseteq pat.programs
  BY <1>0, <1>1 DEF Known, TablesInv, TablesOfPrograms
<1>3. pmts' \in [PmtPid -> PmtSection \cup {Nil}]
  <2>1. new \in Buffer(PmtSection)
    BY <1>0, <1>1, PacketOfPid, HeaderReadFromBuffer DEF Faults, TablesInv, PsiTypeOK, Section
  <2>2. new.sec \in PmtSection
    BY <2>1 DEF Buffer
  <2> QED
    BY <1>0, <2>2 DEF PmtBuffered, TablesInv, PsiTypeOK
<1> QED
  BY <1>0, <1>2, <1>3, LengthsDecide

\* The routes are published in one step, and before the end of the file only
\* with the last of the tables.
THEOREM PublishedOnce == PsiSpec => RoutesPublishedOnce
<1> DEFINE Once == status' = "done" /\ status = "parsing" =>
                     \/ pat # Nil /\ Known(pmts') = pat.programs /\ pat.programs # {}
                     \/ UNCHANGED tableVars
<1>1. ASSUME RouteInv, [PsiNext]_psiVars PROVE Once
  <2>1. ASSUME NEW pkt \in PsiPacket, Parse(pkt) PROVE Once
    <3>1. CASE Skip(pkt) \/ Panic
      BY <3>1 DEF Skip, Panic, psiVars
    <3>2. ASSUME NEW new, PatBuffered(pkt, new) PROVE Once
      BY <3>2 DEF PatBuffered
    <3>3. ASSUME pat # Nil, pkt.pid \in pat.programs,
                 NEW new \in Buffered(pkt, pmtData[pkt.pid], PmtSection),
                 ~Faults(pkt, pmtData[pkt.pid], new), PmtBuffered(pkt, new)
          PROVE  Once
      <4>1. CASE AllKnown(pmts')
        BY <1>1, <3>3, <4>1, PmtDecides
      <4>2. CASE ~AllKnown(pmts')
        BY <3>3, <4>2 DEF PmtBuffered
      <4> QED
        BY <4>1, <4>2
    <3> QED
      BY <2>1, <3>1, <3>2, <3>3 DEF Parse, PatFragment, PmtFragment
  <2>2. CASE EndOfPackets \/ Finish \/ PsiEnded \/ UNCHANGED psiVars
    BY <2>2 DEF EndOfPackets, Finish, Panic, PsiEnded, psiVars
  <2> QED
    BY <1>1, <2>1, <2>2 DEF PsiNext
<1>2. RouteInv /\ [PsiNext]_psiVars => [Once]_psiVars
  BY <1>1
<1> QED
  BY <1>2, RouteInit, RouteStep, PTL DEF PsiSpec, RoutesPublishedOnce

-----------------------------------------------------------------------------
(* PsiParser implements PsiTables *)

LEMMA KnownIsLearnt ==
  ASSUME NEW t \in [PmtPid -> PmtSection \cup {Nil}]
  PROVE  Known(t) = Tables!Learnt(t)
BY DEF Known, Tables!Learnt

\* ParseDone publishes what the abstract parser publishes.
LEMMA ParseDonePublishes ==
  ASSUME PsiTypeOK, Unrouted, NEW t \in [PmtPid -> PmtSection \cup {Nil}], ParseDone(t)
  PROVE  Tables!Publish(t)
<1>1. RoutesOf(t, strs', pcrs')
  BY ParseDoneRoutes
<1>2. ASSUME NEW e \in EsPid
      PROVE  IF Tables!Offers(t, e) = {} THEN strs'[e] = Nil
             ELSE strs'[e] \in Tables!Offers(t, e)
  <2>1. CASE Listers(t, e) = {}
    <3>1. Tables!Offers(t, e) = {}
      BY <2>1 DEF Listers, Known, Tables!Offers, Tables!Learnt
    <3> QED
      BY <1>1, <2>1, <3>1 DEF RoutesOf
  <2>2. CASE Listers(t, e) # {}
    <3>1. PICK p \in Listers(t, e) : strs'[e] = t[p].streams[e]
      BY <1>1, <2>2 DEF RoutesOf
    <3>2. strs'[e] \in Tables!Offers(t, e)
      BY <3>1 DEF Listers, Known, Tables!Offers, Tables!Learnt
    <3> QED
      BY <3>2
  <2> QED
    BY <2>1, <2>2
<1>3. ASSUME NEW c \in EsPid
      PROVE  {e \in EsPid : \E p \in Listers(t, e) : t[p].pcr = c} =
             {e \in EsPid : \E p \in Tables!Learnt(t) : t[p].pcr = c /\ t[p].streams[e] # Nil}
  BY DEF Listers, Known, Tables!Learnt
<1>4. pcrs' = [c \in EsPid |-> {e \in EsPid : \E p \in Tables!Learnt(t) :
                                t[p].pcr = c /\ t[p].streams[e] # Nil}]
  BY <1>1, <1>3 DEF RoutesOf
<1>5. strs' \in [EsPid -> Kind \cup {Nil}] /\ status' = "done"
  BY DEF ParseDone, StreamMap
<1> QED
  BY <1>2, <1>4, <1>5 DEF Tables!Publish

LEMMA ParseRefines ==
  ASSUME RouteInv, NEW pkt \in PsiPacket, Parse(pkt)
  PROVE  [Tables!Next]_Tables!vars
<1>0. status = "parsing" /\ Unrouted /\ TablesInv /\ PsiTypeOK
  BY DEF Parse, RouteInv, TablesInv
<1>1. CASE Skip(pkt)
  BY <1>1 DEF Skip, psiVars, tableVars, routeVars, Tables!vars
<1>2. CASE Panic
  BY <1>0, <1>2 DEF Panic, tableVars, routeVars, Tables!Next, Tables!Die
<1>3. ASSUME pat = Nil, pkt.pid = PatPid,
             NEW new \in Buffered(pkt, patData, PatSection),
             ~Faults(pkt, patData, new), PatBuffered(pkt, new)
      PROVE  [Tables!Next]_Tables!vars
  <2>1. new \in Buffer(PatSection)
    BY <1>0, <1>3, PacketOfPid, HeaderReadFromBuffer DEF Faults, PsiTypeOK, Section
  <2>2. new.sec \in PatSection
    BY <2>1 DEF Buffer
  <2>3. CASE Complete(pkt, patData, new)
    BY <1>0, <1>3, <2>2, <2>3 DEF PatBuffered, routeVars, Tables!Next, Tables!LearnPat
  <2>4. CASE ~Complete(pkt, patData, new)
    BY <1>3, <2>4 DEF PatBuffered, routeVars, Tables!vars
  <2> QED
    BY <2>3, <2>4
<1>4. ASSUME pat # Nil, pkt.pid \in pat.programs,
             NEW new \in Buffered(pkt, pmtData[pkt.pid], PmtSection),
             ~Faults(pkt, pmtData[pkt.pid], new), PmtBuffered(pkt, new)
      PROVE  [Tables!Next]_Tables!vars
  <2> DEFINE p == pkt.pid
  <2>1. /\ p \in PmtPid
        /\ pmts[p] # Nil => pmts'[p] = pmts[p]
        /\ \A q \in PmtPid \ {p} : pmts'[q] = pmts[q]
    BY <1>0, <1>4, PmtStep
  <2>2. AllKnown(pmts') <=> Known(pmts') = pat.programs
    BY <1>4, PmtDecides
  <2>3. /\ pmts' \in [PmtPid -> PmtSection \cup {Nil}]
        /\ pmts \in [PmtPid -> PmtSection \cup {Nil}]
    <3>1. new \in Buffer(PmtSection)
      BY <1>0, <1>4, <2>1, PacketOfPid, HeaderReadFromBuffer DEF Faults, PsiTypeOK, Section
    <3>2. new.sec \in PmtSection
      BY <3>1 DEF Buffer
    <3> QED
      BY <1>0, <1>4, <3>2 DEF PmtBuffered, PsiTypeOK
  <2>4. CASE pmts' = pmts
    <3>1. ~AllKnown(pmts')
      BY <1>0, <1>4, <2>2, <2>4 DEF RouteInv
    <3> QED
      BY <1>4, <2>4, <3>1 DEF PmtBuffered, routeVars, Tables!vars
  <2>5. CASE pmts' # pmts
    <3>1. pmts[p] = Nil
      BY <2>1, <2>3, <2>5
    <3>2. pmts' = [pmts EXCEPT ![p] = new.sec]
      BY <1>4, <2>5 DEF PmtBuffered
    <3>3. \E t \in PmtSection : pmts' = [pmts EXCEPT ![p] = t]
      <4>1. new.sec \in PmtSection
        <5>1. new \in Buffer(PmtSection)
          BY <1>0, <1>4, <2>1, PacketOfPid, HeaderReadFromBuffer DEF Faults, PsiTypeOK, Section
        <5> QED
          BY <5>1 DEF Buffer
      <4> QED
        BY <3>2, <4>1
    <3>4. IF Tables!Learnt(pmts') = pat.programs THEN Tables!Publish(pmts')
                                                 ELSE UNCHANGED <<strs, pcrs, status>>
      <4>1. Tables!Learnt(pmts') = Known(pmts')
        BY <2>3, KnownIsLearnt
      <4>2. CASE AllKnown(pmts')
        <5>1. ParseDone(pmts')
          BY <1>4, <4>2 DEF PmtBuffered
        <5> QED
          BY <1>0, <2>2, <2>3, <4>1, <4>2, <5>1, ParseDonePublishes
      <4>3. CASE ~AllKnown(pmts')
        BY <1>4, <2>2, <4>1, <4>3 DEF PmtBuffered, routeVars
      <4> QED
        BY <4>2, <4>3
    <3>5. UNCHANGED <<pat, info>>
      BY <1>4 DEF PmtBuffered
    <3>6. Tables!LearnPmt(p)
      BY <1>0, <1>4, <3>1, <3>3, <3>4, <3>5 DEF Tables!LearnPmt
    <3> QED
      BY <2>1, <3>6 DEF Tables!Next
  <2> QED
    BY <2>4, <2>5
<1> QED
  BY <1>1, <1>2, <1>3, <1>4 DEF Parse, PatFragment, PmtFragment

\* What the second pass and the reader of psi.json see of the parser is the
\* abstract parser of PsiTables: tables learnt once, routes published at once.
THEOREM ParserImplementsTables == PsiSpec => ImplementsTables
<1>1. PsiInit => Tables!Init
  BY DEF PsiInit, Tables!Init
<1>2. RouteInv /\ [PsiNext]_psiVars => [Tables!Next]_Tables!vars
  <2> SUFFICES ASSUME RouteInv, [PsiNext]_psiVars PROVE [Tables!Next]_Tables!vars
    OBVIOUS
  <2>1. ASSUME NEW pkt \in PsiPacket, Parse(pkt) PROVE [Tables!Next]_Tables!vars
    BY <2>1, ParseRefines
  <2>2. CASE EndOfPackets
    <3>1. Tables!Publish(pmts)
      BY <2>2, ParseDonePublishes DEF EndOfPackets, RouteInv, TablesInv, PsiTypeOK
    <3> QED
      BY <2>2, <3>1 DEF EndOfPackets, tableVars, Tables!Next, Tables!EndOfFile
  <2>3. CASE Finish
    <3>1. CASE pat = Nil
      BY <2>3, <3>1 DEF Finish, Panic, tableVars, routeVars, Tables!Next, Tables!Die
    <3>2. CASE pat # Nil
      BY <2>3, <3>2 DEF Finish, NoStreams, tableVars, routeVars, Tables!Next, Tables!Report
    <3> QED
      BY <3>1, <3>2
  <2>4. CASE PsiEnded \/ UNCHANGED psiVars
    BY <2>4 DEF PsiEnded, psiVars, tableVars, routeVars, Tables!vars
  <2> QED
    BY <2>1, <2>2, <2>3, <2>4 DEF PsiNext
<1> QED
  BY <1>1, <1>2, RouteInit, RouteStep, PTL DEF PsiSpec, ImplementsTables, Tables!Spec
=============================================================================
