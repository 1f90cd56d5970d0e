------------------------------- MODULE Demux -------------------------------
(***************************************************************************)
(* The second pass of parse() in cmd/tsparser/parser.go: every packet of   *)
(* the file, in order, has its PCR distributed to the records of the       *)
(* streams that PCR PID clocks and is then handed to the record of its own *)
(* PID; at the end of the file the PCR lists are written, and every record *)
(* is flushed and reported, in the order Go ranges over the map.           *)
(*                                                                         *)
(* The routing tables are the PSI parser's: here they are published once,  *)
(* by the environment, before the pass begins.                             *)
(***************************************************************************)
EXTENDS Records, Routes, Sums, FiniteSets, SequencesExt

CONSTANTS Packet,   \* packets, without their position: [pid, pusi, pcr, len, head, hlen, priv]
          Routing,  \* what the PSI parser may publish: [strs, pcrs]
          MaxFile   \* bound: no file has more packets

ASSUME DemuxAssumption ==
  /\ \A k \in Packet : /\ k.pid \in EsPid /\ k.pusi \in BOOLEAN /\ k.pcr \in BOOLEAN
                       /\ k.len \in Nat /\ k.head \in Heads /\ k.hlen \in Nat
                       /\ k.priv \in Privs
                       /\ k.head = "pes" => k.hlen <= MinHeader
  /\ \A r \in Routing : /\ r.strs \in [EsPid -> StreamKind \cup {Nil}]
                        /\ r.pcrs \in [EsPid -> SUBSET EsPid]
                        /\ \A c \in EsPid : \A e \in r.pcrs[c] : r.strs[e] # Nil
  /\ Nil \notin StreamKind \cup Unit \cup Bytes \cup Record
  /\ MaxFile \in Nat

VARIABLES records,     \* records: one for every stream
          progPcr,     \* progPcrList: positions of the PCRs of the programs
          extraPcr,    \* extraPcrList: positions of all other PCRs
          fed,         \* history: the packets received so far; the last of them has
                       \* not been dealt with if the pass panicked or hangs there
          reported,    \* the streams whose record has been reported
          stage

routes == <<strs, pcrs>>
lists == <<progPcr, extraPcr>>
demuxVars == <<routes, records, lists, fed, reported, stage>>

Pos == -1 .. MaxFile

DemuxTypeOK ==
  /\ strs \in [EsPid -> StreamKind \cup {Nil}]
  /\ pcrs \in [EsPid -> SUBSET EsPid]
  /\ \A e \in EsPid : records[e] # Nil => records[e] \in Record
  /\ progPcr \in [EsPid -> Seq(Pos)]
  /\ extraPcr \in [EsPid -> Seq(Pos)]
  /\ reported \subseteq EsPid
  /\ stage \in {"waiting", "feeding", "pcr", "reporting", "done", "panic", "hung"}

DemuxInit ==
  /\ strs = [e \in EsPid |-> Nil]
  /\ pcrs = [e \in EsPid |-> {}]
  /\ records = [e \in EsPid |-> Nil]
  /\ progPcr = [e \in EsPid |-> <<>>]
  /\ extraPcr = [e \in EsPid |-> <<>>]
  /\ fed = <<>>
  /\ reported = {}
  /\ stage = "waiting"

\* The environment: the first pass publishes the tables.
Published ==
  /\ stage = "waiting"
  /\ \E r \in Routing : strs' = r.strs /\ pcrs' = r.pcrs
  /\ UNCHANGED <<records, lists, fed, reported, stage>>

\* Mutant of Setup: a stream of no particular type gets no record.
TypedOnly ==
  /\ stage = "waiting"
  /\ records' = [e \in EsPid |-> IF strs[e] \in {Nil, "pes"} THEN Nil ELSE RecordOf(strs[e])]
  /\ stage' = "feeding"
  /\ UNCHANGED <<routes, lists, fed, reported>>

\* A record for every stream.
Setup ==
  /\ stage = "waiting"
  /\ records' = [e \in EsPid |-> IF strs[e] = Nil THEN Nil ELSE RecordOf(strs[e])]
  /\ stage' = "feeding"
  /\ UNCHANGED <<routes, lists, fed, reported>>

\* The goroutine panics, or goes round in a loop from here on: what it has done to
\* the records and lists since it received the packet is nothing anyone gets to see.
Stops(how) ==
  /\ stage' = how
  /\ UNCHANGED <<routes, records, lists, reported>>
DemuxPanic == Stops("panic")

\* Mutants of Listed and Clocked: the list is made anew for each PCR; a PCR is
\* told to the other streams of the program only.
LastOnly(list, k) == [list EXCEPT ![k.pid] = <<k.pos>>]
OthersOnly(k) == IF k.pcr THEN pcrs[k.pid] \ {k.pid} ELSE {}

\* The PCR of k, if it has one: listed, and told to the records it clocks.
Listed(list, k) == [list EXCEPT ![k.pid] = Append(@, k.pos)]
Clocked(k) == IF k.pcr THEN pcrs[k.pid] ELSE {}
Notified(k) ==
  [e \in EsPid |-> IF e \in Clocked(k) THEN NotifyTime(records[e], k.pos) ELSE records[e]]

\* One iteration of the second loop: the PCR first, then the payload.
Feed(k) ==
  /\ stage = "feeding"
  /\ LET told == Notified(k)
         mine == told[k.pid]
     IN  \/ /\ \/ \E e \in Clocked(k) : records[e] = Nil
               \/ mine # Nil /\ ~Hangs(mine, k) /\ ProcessMayFault(mine, k)
            /\ DemuxPanic /\ fed' = Append(fed, k)
         \/ /\ \A e \in Clocked(k) : records[e] # Nil
            /\ mine # Nil /\ Hangs(mine, k)
            /\ Stops("hung") /\ fed' = Append(fed, k)
         \/ /\ \A e \in Clocked(k) : records[e] # Nil
            /\ mine # Nil => ~Hangs(mine, k) /\ ~ProcessFaults(mine, k)
            /\ IF ~k.pcr THEN UNCHANGED lists
               ELSE IF pcrs[k.pid] # {}
                      THEN progPcr' = Listed(progPcr, k) /\ UNCHANGED extraPcr
                      ELSE extraPcr' = Listed(extraPcr, k) /\ UNCHANGED progPcr
            /\ IF mine = Nil THEN records' = told
               ELSE \E r \in Process(mine, k) : records' = [told EXCEPT ![k.pid] = r]
            /\ fed' = Append(fed, k)
            /\ UNCHANGED <<routes, reported, stage>>

At(k, pos) == [pos |-> pos, pid |-> k.pid, pusi |-> k.pusi, pcr |-> k.pcr,
               len |-> k.len, head |-> k.head, hlen |-> k.hlen, priv |-> k.priv]

FeedAny ==
  /\ Len(fed) < MaxFile
  /\ \E k \in Packet : Feed(At(k, Len(fed)))

\* The channel was closed.
FileEnds ==
  /\ stage = "feeding"
  /\ stage' = "pcr"
  /\ UNCHANGED <<routes, records, lists, fed, reported>>

\* CheckPcrInterval for every list of either map.
ReportPcrs ==
  /\ stage = "pcr"
  /\ stage' = "reporting"
  /\ UNCHANGED <<routes, records, lists, fed, reported>>

\* Flush and Report of one record.
ReportRecord(e) ==
  /\ stage = "reporting"
  /\ records[e] # Nil /\ e \notin reported
  /\ \/ FlushMayFault(records[e]) /\ DemuxPanic /\ UNCHANGED fed
     \/ /\ ~FlushFaults(records[e])
        /\ records' = [records EXCEPT ![e] = Flush(@)]
        /\ reported' = reported \cup {e}
        /\ UNCHANGED <<routes, lists, fed, stage>>

AllReported ==
  /\ stage = "reporting"
  /\ \A e \in EsPid : records[e] # Nil => e \in reported
  /\ stage' = "done"
  /\ UNCHANGED <<routes, records, lists, fed, reported>>

\* Nothing is left to do, or the loop over private data goes round once more.
DemuxEnded == stage \in {"done", "panic", "hung"} /\ UNCHANGED demuxVars

DemuxNext ==
  \/ Published \/ Setup
  \/ FeedAny \/ FileEnds
  \/ ReportPcrs
  \/ \E e \in EsPid : ReportRecord(e)
  \/ AllReported
  \/ DemuxEnded

DemuxSpec == DemuxInit /\ [][DemuxNext]_demuxVars
-----------------------------------------------------------------------------
(* Properties *)

\* The packets of the file that start a unit of e, and those of them a row is made
\* for: a padding stream has none in a record of its PES packets.
Starts(e) == {j \in DOMAIN fed : fed[j].pid = e /\ fed[j].pusi}
Opens(k, e) == k.pid = e /\ k.pusi /\ ~(k.head = "padding" /\ strs[e] = "pes")

\* Reports can be seen, and rows can still become reports, as long as the pass goes
\* on; once it has panicked or hangs there are those that were written before.
Going == stage \notin {"panic", "hung"}
Seen(e) == records[e] # Nil /\ (Going \/ e \in reported)

\* The rows a report of e would have: its units and, before the flush, the open one.
Rows(e) == IF e \in reported THEN records[e].units ELSE Pushed(records[e])
IsPhantom(u, e) == strs[e] = "scte35" /\ u.hdr = NoPos
Genuine(e) == {i \in DOMAIN Rows(e) : ~IsPhantom(Rows(e)[i], e)}

\* Every start of a PES packet or section is one row of the report of its PID,
\* in file order, none twice and none dropped by the flush; a SCTE-35 report may
\* have one row more, in front, for data that came before the first start.  The same
\* is true of the reports that were written before another record panicked in its flush.
EveryStartHasItsRow ==
  \A e \in EsPid : Seen(e) =>
    /\ {Rows(e)[i].pos : i \in Genuine(e)} = {j - 1 : j \in {n \in DOMAIN fed : Opens(fed[n], e)}}
    /\ \A i, j \in Genuine(e) : i < j => Rows(e)[i].pos < Rows(e)[j].pos
    /\ \A i \in DOMAIN Rows(e) \ Genuine(e) : i = 1

\* The clock of a row is the last PCR, up to and including the packet that opens
\* the row, of the PIDs its stream is clocked by.
IsLatestPcr(clock, e, pos) ==
  LET before == {i \in 1 .. pos + 1 : fed[i].pcr /\ e \in pcrs[fed[i].pid]}
  IN  IF before = {} THEN clock = NoPos
      ELSE clock + 1 \in before /\ \A i \in before : i <= clock + 1
ClockIsTheLatest ==
  \A e \in EsPid : Seen(e) =>
    \A i \in Genuine(e) : IsLatestPcr(Rows(e)[i].clock, e, Rows(e)[i].pos)

\* Every PCR of the file is in one list, at its place, and its PID decides which:
\* the tables cannot change in mid-pass.
Lists(list, js) ==
  /\ {list[i] : i \in DOMAIN list} = {j - 1 : j \in js}
  /\ \A i, j \in DOMAIN list : i < j => list[i] < list[j]
EachPcrListedOnce ==
  Going => \A e \in EsPid :
    LET seen == {j \in DOMAIN fed : fed[j].pid = e /\ fed[j].pcr}
    IN  /\ Lists(progPcr[e], IF pcrs[e] # {} THEN seen ELSE {})
        /\ Lists(extraPcr[e], IF pcrs[e] # {} THEN {} ELSE seen)

\* The payload of e in the first n packets; in the packets from the i-th, a start,
\* up to the next start of e; and that without the header it begins with.
Received(e, n) == Total([j \in DOMAIN fed |-> IF fed[j].pid = e THEN fed[j].len ELSE 0], n)
UnitEnd(e, i) ==
  LET later == {j \in Starts(e) : j > i}
  IN  IF later = {} THEN Len(fed) ELSE Min(later) - 1
Payload(e, i) == Received(e, UnitEnd(e, i)) - Received(e, i - 1)
Content(e, i) == Payload(e, i) - (IF fed[i].head = "pes" THEN fed[i].hlen ELSE 0)

IsLastStart(e, i) == i \in Starts(e) /\ \A j \in Starts(e) : j <= i

\* No video PES packet of e ended before its header could be collected, and all
\* of those that came in small pieces began with a start code.
Collectable(e) ==
  \A i \in Starts(e) : Short(fed[i]) =>
    fed[i].head # "raw" /\ (Payload(e, i) >= MinHeader \/ IsLastStart(e, i))

\* The header a row shows is its own, and its size is the payload between its
\* start and the next less that header, as long as no video PES packet was
\* shorter than minPesHeaderLen; an open one whose header is still being
\* collected has neither.
HeaderAndSizeAreItsOwn ==
  \A e \in EsPid :
    /\ Seen(e)
    /\ strs[e] \in {"pes", "mp2v"} \/ (strs[e] = "video" /\ Collectable(e))
    =>
      \A i \in DOMAIN Rows(e) :
        LET u == Rows(e)[i]
            n == u.pos + 1
        IN  IF strs[e] = "video" /\ Payload(e, n) < MinHeader
              THEN u.hdr = NoPos /\ u.size = 0
              ELSE u.hdr = Stamp(fed[n]) /\ u.size = Content(e, n)

\* What is collected of the splice section of e that is not closed yet is less than
\* the section, or has no start.
SpliceCut(e) ==
  /\ strs[e] = "scte35"
  /\ IF Starts(e) = {} THEN Received(e, Len(fed)) > 0
     ELSE \E i \in Starts(e) : IsLastStart(e, i) /\ Payload(e, i) < fed[i].hlen

\* As long as its output files can be created, the second pass panics about nothing
\* but the file: private data too short for its fields, in any stream but a splice
\* stream; a start without its whole PES header in an audio, private or MPEG-2 stream;
\* an MPEG-2 unit that ends amid its headers; or a splice section that is cut off when
\* the next one starts or the file ends.  In particular no PCR is distributed to a
\* stream without a record.  And it hangs about nothing but endless private data.
PanicHasItsCause ==
  /\ [][ stage = "feeding" /\ stage' = "panic" =>
           LET k == Last(fed') IN
             \/ k.priv = "short" /\ strs[k.pid] \in StreamKind \ {"scte35"}
             \/ strs[k.pid] \in {"pes", "mp2v"} /\ HeaderCut(k)
             \/ k.pusi /\ SpliceCut(k.pid)
             \/ k.pusi /\ strs[k.pid] = "mp2v"
                  /\ \E i \in Starts(k.pid) : IsLastStart(k.pid, i) /\ Content(k.pid, i) > 0 ]_demuxVars
  /\ [][ stage = "reporting" /\ stage' = "panic" =>
           \E e \in EsPid \ reported : SpliceCut(e) ]_demuxVars
  /\ [][ stage' = "hung" =>
           LET k == Last(fed') IN k.priv = "endless" /\ strs[k.pid] \in StreamKind \ {"scte35"} ]_demuxVars
=============================================================================
