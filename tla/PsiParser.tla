----------------------------- MODULE PsiParser -----------------------------
(***************************************************************************)
(* The PSI parser of internal/psi.go: it assembles the first PAT section   *)
(* and the first PMT section of every program from the packets of the      *)
(* first pass, turns them into the routing tables Strs and Pcrs the second *)
(* pass works from, and publishes psi.json.                                *)
(*                                                                         *)
(* A section is a record whose `size' is the number of length units from   *)
(* its pointer field to its CRC; a buffer remembers which section its      *)
(* first bytes start (`sec'), how many bytes the pointer field skips       *)
(* (`tail'), how much was collected (`len') and whether bytes of another   *)
(* place were appended inside the section (`torn').  Every comparison the  *)
(* code makes on a length is against the length of a section, so lengths   *)
(* above MaxLen are all alike and are not told apart.                      *)
(***************************************************************************)
EXTENDS Integers, FiniteSets, Routes

CONSTANTS PatPid,      \* PID 0
          PmtPid,      \* the PIDs a PAT entry may name
          Kind,        \* the stream types CreateRecord tells apart
          PatSection,  \* PAT sections: [size, programs]
          PmtSection,  \* PMT sections: [size, pcr, streams]
          MaxLen       \* lengths from here on are not told apart

\* The pointer field and the 24 bits read for section_length, in length units.
HeaderLen == 1

PsiPid == {PatPid} \cup PmtPid
Section == PatSection \cup PmtSection
StreamMap == [EsPid -> Kind \cup {Nil}]
Buffer(S) == [sec : S, tail : 0 .. MaxLen, len : 0 .. MaxLen, torn : BOOLEAN]

ASSUME PsiAssumption ==
  /\ MaxLen \in Nat
  /\ PatPid \notin PmtPid
  /\ IsFiniteSet(PmtPid)
  /\ Nil \notin Kind /\ Nil \notin Section /\ Nil \notin Buffer(Section)
  /\ Nil \notin StreamMap
  /\ PatSection \cap PmtSection = {}
  /\ \A s \in Section : s.size \in HeaderLen .. MaxLen
  /\ \A s \in PatSection : s.programs \subseteq PmtPid
  /\ \A s \in PmtSection : s.pcr \in EsPid /\ s.streams \in StreamMap

\* What the parser can tell of a packet: `sec' is the section its payload
\* carries a piece of, from offset `off' on; `tail' is the pointer field of a
\* packet that starts a section.
Fragment(p, S) ==
  {k \in [pid : {p}, pusi : BOOLEAN, sec : S,
          off : 0 .. MaxLen, tail : 0 .. MaxLen, len : 0 .. MaxLen] :
     /\ k.pusi => k.off = 0 /\ k.tail + k.sec.size <= MaxLen
     /\ ~k.pusi => k.tail = 0}

PsiPacket == Fragment(PatPid, PatSection)
               \cup UNION {Fragment(p, PmtSection) : p \in PmtPid}

VARIABLES pat,      \* PsiParser.Pat
          patData,  \* PsiParser.PatData
          pmtData,  \* PsiParser.PmtData
          pmts,     \* PsiParser.Pmts
          info,     \* PsiParser.Info.Programs, the contents of psi.json
          status    \* where parse() is in its first pass

tableVars == <<pat, patData, pmtData, pmts>>
routeVars == <<strs, pcrs>>
psiVars == <<tableVars, routeVars, info, status>>

PsiTypeOK ==
  /\ pat \in PatSection \cup {Nil}
  /\ patData \in Buffer(PatSection) \cup {Nil}
  /\ pmtData \in [PmtPid -> Buffer(PmtSection) \cup {Nil}]
  /\ pmts \in [PmtPid -> PmtSection \cup {Nil}]
  /\ strs \in StreamMap
  /\ pcrs \in [EsPid -> SUBSET EsPid]
  /\ info \in [PmtPid -> StreamMap \cup {Nil}] \cup {Nil}
  /\ status \in {"parsing", "done", "reported", "panic"}

PsiInit ==
  /\ pat = Nil /\ patData = Nil
  /\ pmtData = [p \in PmtPid |-> Nil]
  /\ pmts = [p \in PmtPid |-> Nil]
  /\ strs = [e \in EsPid |-> Nil]
  /\ pcrs = [e \in EsPid |-> {}]
  /\ info = Nil
  /\ status = "parsing"

-----------------------------------------------------------------------------
(* BufferData *)

Capped(n) == IF n > MaxLen THEN MaxLen ELSE n

Expected(buf) == buf.tail + buf.sec.size        \* explen
Whole(buf) == buf.len >= Expected(buf)          \* actlen >= explen

\* pkt continues the section of buf exactly where buf ends.
Continues(pkt, buf) ==
  pkt.sec = buf.sec /\ pkt.off = buf.len - buf.tail /\ ~buf.torn

\* append(*buf, pkt.Data...): bytes that belong elsewhere change what an
\* unfinished section says, though not the length its header declared.
AppendData(pkt, buf, S) ==
  LET len == Capped(buf.len + pkt.len) IN
  IF Whole(buf) \/ Continues(pkt, buf) \/ pkt.len = 0
    THEN {[buf EXCEPT !.len = len]}
    ELSE {[buf EXCEPT !.len = len, !.torn = TRUE, !.sec = s] :
            s \in {t \in S : t.size = buf.sec.size}}

\* Mutant of Buffered: a start begins the buffer anew.
Restarted(pkt, buf, S) ==
  IF pkt.pusi
    THEN {[sec |-> pkt.sec, tail |-> pkt.tail, len |-> pkt.len, torn |-> FALSE]}
    ELSE IF buf # Nil THEN AppendData(pkt, buf, S) ELSE {Nil}

\* The contents *buf may have after the call.
Buffered(pkt, buf, S) ==
  IF pkt.pusi
    THEN IF buf # Nil THEN {buf}
         ELSE {[sec |-> pkt.sec, tail |-> pkt.tail, len |-> pkt.len, torn |-> FALSE]}
    ELSE IF buf # Nil THEN AppendData(pkt, buf, S) ELSE {Nil}

\* A start while a buffer is there reports it complete without a look at its length.
Early(pkt, buf) == pkt.pusi /\ buf # Nil

\* Reading the section header runs off the buffer: a continuation with nothing
\* buffered, or a start whose packet ends before section_length.
HeaderFault(pkt, buf, new) ==
  ~Early(pkt, buf) /\ (new = Nil \/ new.len < new.tail + HeaderLen)

\* What BufferData returns.
Complete(pkt, buf, new) == Early(pkt, buf) \/ Whole(new)

\* Mutant of Faults: the bit reader reads zeros behind the end of its data.
ZeroPadded(pkt, buf, new) == HeaderFault(pkt, buf, new)

\* ParsePat and ParsePmt read up to the CRC, whatever was collected; the loops
\* over the entries of a torn section may follow lengths that lead past its end.
Faults(pkt, buf, new) ==
  HeaderFault(pkt, buf, new) \/ (Complete(pkt, buf, new) /\ ~Whole(new))
MayFault(pkt, buf, new) ==
  IF Faults(pkt, buf, new) THEN TRUE ELSE Complete(pkt, buf, new) /\ new.torn

Panic ==
  /\ status' = "panic"
  /\ UNCHANGED <<tableVars, routeVars, info>>

-----------------------------------------------------------------------------
(* Parse, ParseDone, Finish *)

Known(tables) == {p \in PmtPid : tables[p] # Nil}
Listers(tables, e) == {p \in Known(tables) : tables[p].streams[e] # Nil}

\* A PID listed by two PMTs keeps the entry of the PMT visited last, and the
\* order in which Go ranges over a map is any.
Orders == {o \in [PmtPid -> 1 .. Cardinality(PmtPid)] :
             \A p, q \in PmtPid : o[p] = o[q] => p = q}

LastOf(o, S, p) == p \in S /\ \A q \in S : o[q] <= o[p]

\* Mutant of ParseDone: the stream that carries the PCR is not told of it.
OwnClockForgotten(tables) ==
  /\ \E o \in Orders :
       strs' \in {s \in StreamMap : \A e \in EsPid :
                    \/ Listers(tables, e) = {} /\ s[e] = strs[e]
                    \/ \E p \in PmtPid : /\ LastOf(o, Listers(tables, e), p)
                                         /\ s[e] = tables[p].streams[e]}
  /\ pcrs' = [c \in EsPid |-> pcrs[c] \cup
                {e \in EsPid \ {c} : \E p \in Listers(tables, e) : tables[p].pcr = c}]
  /\ status' = "done"

ParseDone(tables) ==
  /\ \E o \in Orders :
       strs' \in {s \in StreamMap : \A e \in EsPid :
                    \/ Listers(tables, e) = {} /\ s[e] = strs[e]
                    \/ \E p \in PmtPid : /\ LastOf(o, Listers(tables, e), p)
                                         /\ s[e] = tables[p].streams[e]}
  /\ pcrs' = [c \in EsPid |-> pcrs[c] \cup
                {e \in EsPid : \E p \in Listers(tables, e) : tables[p].pcr = c}]
  /\ status' = "done"

Skip(pkt) ==
  /\ IF pat = Nil THEN pkt.pid # PatPid ELSE pkt.pid \notin pat.programs
  /\ UNCHANGED psiVars

PatBuffered(pkt, new) ==
  /\ patData' = new
  /\ pat' = IF Complete(pkt, patData, new) THEN new.sec ELSE pat
  /\ UNCHANGED <<pmtData, pmts, routeVars, info, status>>

PatFragment(pkt) ==
  /\ pat = Nil /\ pkt.pid = PatPid
  /\ \E new \in Buffered(pkt, patData, PatSection) :
       \/ MayFault(pkt, patData, new) /\ Panic
       \/ ~Faults(pkt, patData, new) /\ PatBuffered(pkt, new)

\* Mutant of AllKnown: one more is waited for.
OneMore(tables) == Cardinality(pat.programs) < Cardinality(Known(tables))

\* All the programs of the PAT have a table: the two maps are compared by length.
AllKnown(tables) == Cardinality(pat.programs) = Cardinality(Known(tables))

\* Mutants of PmtBuffered: the routes are made before the last table is stored;
\* all programs share one buffer.
LastTableForgotten(pkt, new) ==
  /\ pmtData' = [pmtData EXCEPT ![pkt.pid] = new]
  /\ pmts' = IF Complete(pkt, pmtData[pkt.pid], new)
               THEN [pmts EXCEPT ![pkt.pid] = new.sec] ELSE pmts
  /\ IF AllKnown(pmts') THEN ParseDone(pmts) ELSE UNCHANGED <<routeVars, status>>
  /\ UNCHANGED <<pat, patData, info>>
OneBuffer(pkt, new) ==
  /\ pmtData' = [p \in PmtPid |-> IF p \in pat.programs THEN new ELSE Nil]
  /\ pmts' = IF Complete(pkt, pmtData[pkt.pid], new)
               THEN [pmts EXCEPT ![pkt.pid] = new.sec] ELSE pmts
  /\ IF AllKnown(pmts') THEN ParseDone(pmts') ELSE UNCHANGED <<routeVars, status>>
  /\ UNCHANGED <<pat, patData, info>>

PmtBuffered(pkt, new) ==
  /\ pmtData' = [pmtData EXCEPT ![pkt.pid] = new]
  /\ pmts' = IF Complete(pkt, pmtData[pkt.pid], new)
               THEN [pmts EXCEPT ![pkt.pid] = new.sec] ELSE pmts
  /\ IF AllKnown(pmts') THEN ParseDone(pmts') ELSE UNCHANGED <<routeVars, status>>
  /\ UNCHANGED <<pat, patData, info>>

\* Mutants of PmtFragment: packets are not selected by the programs of the PAT;
\* the buffer is handed over by value, so that ParsePmt gets nil.
AnyPmt(pkt) ==
  /\ pat # Nil /\ pkt.pid \in PmtPid
  /\ \E new \in Buffered(pkt, pmtData[pkt.pid], PmtSection) :
       \/ MayFault(pkt, pmtData[pkt.pid], new) /\ Panic
       \/ ~Faults(pkt, pmtData[pkt.pid], new) /\ PmtBuffered(pkt, new)

ByValue(pkt) ==
  /\ pat # Nil /\ pkt.pid \in pat.programs
  /\ \E new \in Buffered(pkt, pmtData[pkt.pid], PmtSection) :
       IF Complete(pkt, pmtData[pkt.pid], new) THEN Panic ELSE UNCHANGED psiVars

PmtFragment(pkt) ==
  /\ pat # Nil /\ pkt.pid \in pat.programs
  /\ \E new \in Buffered(pkt, pmtData[pkt.pid], PmtSection) :
       \/ MayFault(pkt, pmtData[pkt.pid], new) /\ Panic
       \/ ~Faults(pkt, pmtData[pkt.pid], new) /\ PmtBuffered(pkt, new)

\* One call of PsiParser.Parse by the first pass; it stops once Parse returned true.
Parse(pkt) ==
  /\ status = "parsing"
  /\ Skip(pkt) \/ PatFragment(pkt) \/ PmtFragment(pkt)

\* The file ended before every table was there: parse() calls ParseDone itself.
EndOfPackets ==
  /\ status = "parsing"
  /\ ParseDone(pmts)
  /\ UNCHANGED <<tableVars, info>>

NoStreams == [e \in EsPid |-> Nil]

\* Mutant of Finish: programs without a table are left out of psi.json.
KnownOnly ==
  /\ status = "done"
  /\ IF pat = Nil THEN Panic
     ELSE /\ info' = [p \in PmtPid |-> IF pmts[p] = Nil THEN Nil ELSE pmts[p].streams]
          /\ status' = "reported"
          /\ UNCHANGED <<tableVars, routeVars>>

\* Finish and Report; Finish ranges over the programs of a PAT that may be nil.
Finish ==
  /\ status = "done"
  /\ IF pat = Nil THEN Panic
     ELSE /\ info' = [p \in PmtPid |->
                        IF p \notin pat.programs THEN Nil
                        ELSE IF pmts[p] = Nil THEN NoStreams ELSE pmts[p].streams]
          /\ status' = "reported"
          /\ UNCHANGED <<tableVars, routeVars>>

\* The process has ended, one way or the other.
PsiEnded == status \in {"reported", "panic"} /\ UNCHANGED psiVars

PsiNext ==
  \/ \E pkt \in PsiPacket : Parse(pkt)
  \/ EndOfPackets
  \/ Finish
  \/ PsiEnded

PsiSpec == PsiInit /\ [][PsiNext]_psiVars
-----------------------------------------------------------------------------
(* Properties *)

\* A published table was read from a buffer that holds its whole section, and
\* an untorn one says what the buffer says; the early "complete" of BufferData
\* never lets ParsePat or ParsePmt answer from a part of a section.
WholeSectionsOnly ==
  /\ pat # Nil => patData # Nil /\ Whole(patData) /\ pat = patData.sec
  /\ \A p \in Known(pmts) :
       pmtData[p] # Nil /\ Whole(pmtData[p]) /\ pmts[p] = pmtData[p].sec

\* Only the programs of the PAT have buffers and tables, so that the comparison
\* of the two map lengths in Parse can only succeed when every program is there.
TablesOfPrograms ==
  /\ pat = Nil => \A p \in PmtPid : pmtData[p] = Nil /\ pmts[p] = Nil
  /\ pat # Nil => \A p \in PmtPid \ pat.programs : pmtData[p] = Nil /\ pmts[p] = Nil

\* Each PID a PCR is distributed to has a stream, hence a record, so that the
\* second pass never notifies a nil record; and each stream has a clock.
RoutesMatchStreams ==
  \A e \in EsPid : strs[e] # Nil <=> \E c \in EsPid : e \in pcrs[c]

\* psi.json lists exactly the PIDs that get a record, and the type a record was
\* created from is one that some program of psi.json gives the PID, whatever the
\* order in which the PMTs were visited.
ReportAgreesWithRecords ==
  status = "reported" =>
    \A e \in EsPid :
      LET said == {info[p][e] : p \in {q \in PmtPid : info[q] # Nil}} \ {Nil}
      IN  IF strs[e] = Nil THEN said = {} ELSE strs[e] \in said

\* Once read, a table is never read differently: the buffer it came from is
\* kept, and a later version of the section is not looked at.
FirstTableWins ==
  [][ /\ pat # Nil => pat' = pat
      /\ \A p \in PmtPid : pmts[p] # Nil => pmts'[p] = pmts[p] ]_psiVars

\* The routing tables are filled in one step, and by a packet only when it
\* completed the last table the PAT announced.
RoutesPublishedOnce ==
  [][ status' = "done" /\ status = "parsing" =>
        \/ pat # Nil /\ Known(pmts') = pat.programs /\ pat.programs # {}
        \/ UNCHANGED tableVars ]_psiVars

\* Without its buffers the parser is the one PsiTables describes.
Tables ==
  INSTANCE PsiTables WITH pat <- pat, pmts <- pmts, strs <- strs, pcrs <- pcrs, info <- info, status <- status
ImplementsTables == Tables!Spec
=============================================================================
