---------------------------- MODULE DemuxProofs ----------------------------
(***************************************************************************)
(* The second pass, for all files and tables: what the handlers make of a  *)
(* record is a record, so that none is lost on the way to its report; what *)
(* a packet does to the rows of a record; and so that every row is that of *)
(* its own start, with its clock, its header and its size.                 *)
(***************************************************************************)
EXTENDS Demux, SumProofs, SequenceTheorems, TLAPS

\* A packet at its position.
Placed == {At(k, n) : k \in Packet, n \in Nat}

LEMMA PlacedType ==
  ASSUME NEW k \in Placed
  PROVE  /\ k.pos \in Nat /\ k.pid \in EsPid /\ k.pusi \in BOOLEAN /\ k.pcr \in BOOLEAN
         /\ k.len \in Nat /\ k.head \in Heads /\ k.hlen \in Nat
         /\ k.head = "pes" => k.hlen <= MinHeader
         /\ k.priv \in Privs
BY DemuxAssumption DEF Placed, At

\* Inductive for each record: collected bytes that begin with a PES header begin
\* with one of at most MinHeader, and there is a unit that they are collected for.
RecordInv(r) ==
  /\ r \in Record
  /\ r.acc # Nil /\ r.acc.head = "pes" => r.acc.hlen <= MinHeader
  /\ r.kind = "video" /\ r.wait => r.cur # Nil /\ r.acc # Nil
  /\ r.kind = "scte35" /\ r.cur # Nil => r.acc # Nil

-----------------------------------------------------------------------------
(* The handlers *)

\* A record by its fields.
LEMMA RecordFields ==
  ASSUME NEW r \in Record
  PROVE  /\ r.kind \in StreamKind /\ r.clock \in Int /\ r.cur \in Unit \cup {Nil}
         /\ r.units \in Seq(Unit) /\ r.wait \in BOOLEAN /\ r.acc \in Bytes \cup {Nil}
BY DEF Record

LEMMA PushedType ==
  ASSUME NEW r \in Record
  PROVE  Pushed(r) \in Seq(Unit)
<1>1. CASE r.cur = Nil
  BY <1>1, RecordFields DEF Pushed
<1>2. CASE r.cur # Nil
  BY <1>2, RecordFields, AppendProperties DEF Pushed
<1> QED
  BY <1>1, <1>2

LEMMA OpenedType ==
  ASSUME NEW r \in Record, NEW k \in Placed, k.head = "pes" => k.hlen <= k.len
  PROVE  Opened(r, k) \in Unit /\ Opened(r, k) # Nil
<1>1. Strip(k) \in Nat /\ Stamp(k) \in Int
  BY PlacedType DEF Strip, Stamp, NoPos
<1>2. Opened(r, k) \in Unit
  BY <1>1, PlacedType, RecordFields DEF Opened, Unit
<1> QED
  BY <1>2, DemuxAssumption

LEMMA GrownType ==
  ASSUME NEW r, RecordInv(r), r.cur # Nil, NEW n \in Nat
  PROVE  RecordInv(Grown(r, n)) /\ Grown(r, n).kind = r.kind /\ Grown(r, n).cur # Nil
         /\ Grown(r, n).acc = r.acc
<1>1. r.cur \in Unit
  BY RecordFields DEF RecordInv
<1>2. [r.cur EXCEPT !.size = r.cur.size + n] \in Unit
  BY <1>1 DEF Unit
<1>3. [r.cur EXCEPT !.size = r.cur.size + n] # Nil
  BY <1>2, DemuxAssumption
<1> DEFINE c == [r.cur EXCEPT !.size = r.cur.size + n]
<1>4. Grown(r, n) = [r EXCEPT !.cur = c]
  BY DEF Grown
<1> HIDE DEF c
<1>5. Grown(r, n) \in Record /\ Grown(r, n).kind = r.kind /\ Grown(r, n).cur = c
      /\ Grown(r, n).acc = r.acc /\ Grown(r, n).wait = r.wait
  BY <1>2, <1>4 DEF RecordInv, Record, c
<1> QED
  BY <1>3, <1>5 DEF RecordInv, c

LEMMA NotifyType ==
  ASSUME NEW r, RecordInv(r), NEW pos \in Nat
  PROVE  RecordInv(NotifyTime(r, pos)) /\ NotifyTime(r, pos).kind = r.kind
BY DEF NotifyTime, RecordInv, Record

LEMMA FlushType ==
  ASSUME NEW r, RecordInv(r)
  PROVE  RecordInv(Flush(r)) /\ Flush(r).kind = r.kind
BY PushedType DEF Flush, RecordInv, Record

LEMMA RecordOfType ==
  ASSUME NEW s \in StreamKind
  PROVE  RecordInv(RecordOf(s)) /\ RecordOf(s).kind = s
BY DEF RecordOf, RecordInv, Record, NoPos

LEMMA PesType ==
  ASSUME NEW r, RecordInv(r), r.kind \in {"pes", "mp2v"}, NEW k \in Placed, ~HeaderCut(k)
  PROVE  /\ RecordInv(PesProcess(r, k)) /\ PesProcess(r, k).kind = r.kind
         /\ RecordInv(Mp2vProcess(r, k)) /\ Mp2vProcess(r, k).kind = r.kind
<1>1. CASE ~k.pusi
  BY <1>1, GrownType, PlacedType DEF PesProcess, Mp2vProcess
<1>2. CASE k.pusi
  <2>1. Opened(r, k) \in Unit
    BY <1>2, PlacedType, OpenedType DEF HeaderCut, RecordInv, Heads
  <2>2. \A c \in Unit \cup {Nil} :
          LET q == [r EXCEPT !.units = Pushed(r), !.cur = c]
          IN  RecordInv(q) /\ q.kind = r.kind
    BY PushedType DEF RecordInv, Record
  <2> QED
    BY <1>2, <2>1, <2>2 DEF PesProcess, Mp2vProcess
<1> QED
  BY <1>1, <1>2, PlacedType

LEMMA ScteType ==
  ASSUME NEW r, RecordInv(r), r.kind = "scte35", NEW k \in Placed
  PROVE  RecordInv(ScteProcess(r, k)) /\ ScteProcess(r, k).kind = r.kind
<1>0. r \in Record /\ k.pos \in Nat /\ k.len \in Nat /\ k.head \in Heads /\ k.hlen \in Nat
      /\ (k.head = "pes" => k.hlen <= MinHeader)
  BY PlacedType DEF RecordInv
<1>1. CASE k.pusi
  <2> DEFINE c == [pos |-> k.pos, clock |-> r.clock, hdr |-> k.pos, size |-> k.len]
             a == [from |-> k.pos, len |-> k.len, head |-> k.head, hlen |-> k.hlen]
  <2>1. c \in Unit /\ a \in Bytes /\ a # Nil
    BY <1>0, RecordFields, DemuxAssumption DEF Unit, Bytes
  <2>2. ScteProcess(r, k) = [r EXCEPT !.units = Pushed(r), !.cur = c, !.acc = a]
    BY <1>1 DEF ScteProcess
  <2>3. a.head = "pes" => a.hlen <= MinHeader
    BY <1>0
  <2> HIDE DEF a, c
  <2> QED
    BY <1>0, <2>1, <2>2, <2>3, PushedType DEF RecordInv, Record
<1>2. CASE ~k.pusi /\ r.cur # Nil
  <2> DEFINE g == Grown(r, k.len)
             a == [r.acc EXCEPT !.len = r.acc.len + k.len]
  <2>1. RecordInv(g) /\ g.kind = r.kind /\ g.cur # Nil /\ g.acc = r.acc /\ r.acc \in Bytes
    BY <1>0, <1>2, GrownType, RecordFields DEF RecordInv
  <2>2. a \in Bytes /\ a # Nil /\ a.head = r.acc.head /\ a.hlen = r.acc.hlen
    BY <1>0, <2>1, DemuxAssumption DEF Bytes
  <2>3. ScteProcess(r, k) = [g EXCEPT !.acc = a]
    BY <1>2, <2>1 DEF ScteProcess
  <2> HIDE DEF a, g
  <2> QED
    BY <2>1, <2>2, <2>3 DEF RecordInv, Record
<1>3. CASE ~k.pusi /\ r.cur = Nil /\ k.len # 0
  <2> DEFINE c == [Phantom EXCEPT !.size = k.len]
             a == [from |-> k.pos, len |-> k.len, head |-> "raw", hlen |-> 0]
  <2>1. c \in Unit /\ a \in Bytes /\ a # Nil /\ a.head = "raw"
    BY <1>0, DemuxAssumption DEF Unit, Bytes, Phantom, NoPos, Heads
  <2>2. ScteProcess(r, k) = [r EXCEPT !.cur = c, !.acc = a]
    BY <1>3 DEF ScteProcess
  <2> HIDE DEF a, c
  <2> QED
    BY <1>0, <2>1, <2>2 DEF RecordInv, Record
<1>4. CASE ~k.pusi /\ r.cur = Nil /\ k.len = 0
  BY <1>4 DEF ScteProcess
<1> QED
  BY <1>1, <1>2, <1>3, <1>4

LEMMA StartedType ==
  ASSUME NEW r, RecordInv(r), r.kind = "video", NEW k \in Placed
  PROVE  RecordInv(Started(r, k)) /\ Started(r, k).kind = "video" /\ Started(r, k).cur # Nil
<1> DEFINE c == [Opened(r, k) EXCEPT !.size = 0]
           d == [c EXCEPT !.hdr = NoPos]
           a == [from |-> k.pos, len |-> 0, head |-> k.head, hlen |-> k.hlen]
<1>1. r \in Record /\ Pushed(r) \in Seq(Unit)
  BY PushedType DEF RecordInv
<1>2. c \in Unit /\ d \in Unit /\ c # Nil /\ d # Nil
  <2>1. c = [pos |-> k.pos, clock |-> r.clock, hdr |-> Stamp(k), size |-> 0]
    BY DEF Opened
  <2>2. Stamp(k) \in Int /\ NoPos \in Int
    BY PlacedType DEF Stamp, NoPos
  <2> HIDE DEF c
  <2>3. k.pos \in Int /\ r.clock \in Int
    BY <1>1, PlacedType, RecordFields
  <2>4. c \in Unit
    BY <2>1, <2>2, <2>3 DEF Unit
  <2>5. d \in Unit
    BY <2>2, <2>4 DEF Unit
  <2> QED
    BY <2>4, <2>5, DemuxAssumption
<1>3. a \in Bytes /\ a # Nil /\ (a.head = "pes" => a.hlen <= MinHeader)
  BY PlacedType, DemuxAssumption DEF Bytes
<1>4. CASE Short(k)
  <2>1. Started(r, k) = [r EXCEPT !.units = Pushed(r), !.cur = d, !.wait = TRUE, !.acc = a]
    BY <1>1, <1>4 DEF Started, Record
  <2> HIDE DEF a, c, d
  <2> QED
    BY <1>1, <1>2, <1>3, <2>1 DEF RecordInv, Record
<1>5. CASE ~Short(k)
  <2>1. Started(r, k) = [r EXCEPT !.units = Pushed(r), !.cur = c]
    BY <1>5 DEF Started
  <2> HIDE DEF a, c, d
  <2> QED
    BY <1>1, <1>2, <2>1 DEF RecordInv, Record
<1> QED
  BY <1>4, <1>5

LEMMA LeftType ==
  ASSUME NEW k \in Placed
  PROVE  Left(k) \in Nat
BY PlacedType, RecordAssumption DEF Left, Strip, Short

LEMMA CollectedType ==
  ASSUME NEW r, RecordInv(r), r.acc # Nil, NEW k \in Placed, NEW acc \in Collected(r, k)
  PROVE  acc \in Bytes /\ acc # Nil /\ (acc.head = "pes" => acc.hlen <= MinHeader)
<1> DEFINE g == [r.acc EXCEPT !.len = @ + Left(k)]
           m == [g EXCEPT !.from = IF r.acc.len = 0 THEN k.pos ELSE @]
<1>1. r.acc \in Bytes /\ Left(k) \in Nat /\ k.pos \in Int
  BY LeftType, RecordFields, PlacedType DEF RecordInv
<1>2. g \in Bytes /\ g.head = r.acc.head /\ g.hlen = r.acc.hlen
  BY <1>1 DEF Bytes
<1>3. m \in Bytes
  <2> HIDE DEF g
  <2> QED
    BY <1>1, <1>2 DEF Bytes
<1>4. \/ acc = g
      \/ \E h \in {"unknown", "raw"} : acc = [m EXCEPT !.head = h]
      \/ \E n \in 1 .. MinHeader : acc = [m EXCEPT !.head = "pes", !.hlen = n]
  BY DEF Collected
<1> HIDE DEF g, m
<1>5. acc \in Bytes /\ (acc.head = "pes" => acc.hlen <= MinHeader)
  <2>1. CASE acc = g
    BY <1>2, <2>1 DEF RecordInv
  <2>2. ASSUME NEW h \in {"unknown", "raw"}, acc = [m EXCEPT !.head = h]
        PROVE  acc \in Bytes /\ acc.head # "pes"
    BY <1>3, <2>2 DEF Bytes, Heads
  <2>3. ASSUME NEW n \in 1 .. MinHeader, acc = [m EXCEPT !.head = "pes", !.hlen = n]
        PROVE  acc \in Bytes /\ acc.hlen <= MinHeader
    <3>1. "pes" \in Heads /\ n \in Nat /\ n <= MinHeader
      BY RecordAssumption DEF Heads
    <3> QED
      BY <1>3, <2>3, <3>1 DEF Bytes
  <2> QED
    BY <1>4, <2>1, <2>2, <2>3
<1> QED
  BY <1>5, DemuxAssumption

\* The size of a unit never becomes negative: a header is only stripped of bytes
\* that hold it.
LEMMA ResumedType ==
  ASSUME NEW r, RecordInv(r), r.kind = "video", r.cur # Nil,
         NEW acc \in Bytes, acc # Nil, acc.head = "pes" => acc.hlen <= MinHeader
  PROVE  RecordInv(Resumed(r, acc)) /\ Resumed(r, acc).kind = "video" /\ Resumed(r, acc).cur # Nil
<1>1. r \in Record /\ r.cur \in Unit
  BY RecordFields DEF RecordInv
<1>2. CASE acc.len < MinHeader \/ acc.head = "raw"
  BY <1>1, <1>2 DEF Resumed, RecordInv, Record
<1>3. CASE ~(acc.len < MinHeader \/ acc.head = "raw") /\ acc.head = "pes"
  <2> DEFINE c == [r.cur EXCEPT !.hdr = acc.from, !.size = r.cur.size + acc.len - acc.hlen]
  <2>1. acc.len - acc.hlen \in Nat
    BY <1>3, RecordAssumption DEF Bytes
  <2>2. r.cur.size + acc.len - acc.hlen \in Nat
    BY <1>1, <2>1 DEF Bytes, Unit
  <2>3. c \in Unit /\ c # Nil
    BY <1>1, <2>2, DemuxAssumption DEF Bytes, Unit
  <2>4. Resumed(r, acc) = [r EXCEPT !.acc = acc, !.wait = FALSE, !.cur = c]
    BY <1>1, <1>3 DEF Resumed, Record
  <2> HIDE DEF c
  <2> QED
    BY <1>1, <2>3, <2>4 DEF RecordInv, Record
<1>4. CASE ~(acc.len < MinHeader \/ acc.head = "raw") /\ acc.head # "pes"
  <2> DEFINE c == [r.cur EXCEPT !.size = r.cur.size + acc.len]
  <2>1. c \in Unit /\ c # Nil
    BY <1>1, DemuxAssumption DEF Bytes, Unit
  <2>2. Resumed(r, acc) = [r EXCEPT !.acc = acc, !.wait = FALSE, !.cur = c]
    BY <1>1, <1>4 DEF Resumed, Record
  <2> HIDE DEF c
  <2> QED
    BY <1>1, <2>1, <2>2 DEF RecordInv, Record
<1> QED
  BY <1>2, <1>3, <1>4

LEMMA VideoType ==
  ASSUME NEW r, RecordInv(r), r.kind = "video", NEW k \in Placed, NEW q \in VideoProcess(r, k)
  PROVE  RecordInv(q) /\ q.kind = "video"
<1> DEFINE begun == IF k.pusi THEN Started(r, k) ELSE r
<1>1. RecordInv(begun) /\ begun.kind = "video"
  BY StartedType
<1>2. CASE begun.wait
  <2>1. begun.cur # Nil /\ begun.acc # Nil
    BY <1>1, <1>2 DEF RecordInv
  <2>2. PICK acc \in Collected(begun, k) : q = Resumed(begun, acc)
    BY <1>2 DEF VideoProcess
  <2> HIDE DEF begun
  <2>3. acc \in Bytes /\ acc # Nil /\ (acc.head = "pes" => acc.hlen <= MinHeader)
    BY <1>1, <2>1, CollectedType
  <2> QED
    BY <1>1, <2>1, <2>2, <2>3, ResumedType
<1>3. CASE ~begun.wait /\ begun.cur = Nil
  BY <1>1, <1>3 DEF VideoProcess
<1>4. CASE ~begun.wait /\ begun.cur # Nil
  <2>1. q = Grown(begun, Left(k))
    BY <1>4 DEF VideoProcess
  <2> HIDE DEF begun
  <2> QED
    BY <1>1, <1>4, <2>1, GrownType, LeftType
<1> QED
  BY <1>2, <1>3, <1>4

\* What Process makes of a record, unless it panics, is a record of the same type.
LEMMA ProcessType ==
  ASSUME NEW r, RecordInv(r), NEW k \in Placed, ~ProcessFaults(r, k), NEW q \in Process(r, k)
  PROVE  RecordInv(q) /\ q.kind = r.kind
<1>1. r.kind \in StreamKind
  BY RecordFields DEF RecordInv
<1>2. CASE r.kind \in {"pes", "mp2v"}
  <2>1. ~HeaderCut(k)
    BY <1>2 DEF ProcessFaults
  <2>2. q = PesProcess(r, k) \/ q = Mp2vProcess(r, k)
    BY <1>2 DEF Process
  <2> QED
    BY <1>2, <2>1, <2>2, PesType
<1>3. CASE r.kind = "video"
  BY <1>3, VideoType DEF Process
<1>4. CASE r.kind = "scte35"
  BY <1>4, ScteType DEF Process
<1> QED
  BY <1>1, <1>2, <1>3, <1>4 DEF StreamKind

-----------------------------------------------------------------------------
(* The pass *)

\* A stream has a record of its type, any other PID has none.
Has(e, r) == IF strs[e] = Nil THEN r = Nil ELSE RecordInv(r) /\ r.kind = strs[e]

\* Inductive: past Setup each stream has its record; nothing is reported before
\* the PCR lists are; and PCRs are distributed to streams only.
DemuxInv ==
  /\ strs \in [EsPid -> StreamKind \cup {Nil}]
  /\ pcrs \in [EsPid -> SUBSET EsPid]
  /\ \A c \in EsPid : \A e \in pcrs[c] : strs[e] # Nil
  /\ records \in [EsPid -> Record \cup {Nil}]
  /\ \A e \in EsPid : IF stage = "waiting" THEN records[e] = Nil ELSE Has(e, records[e])
  /\ progPcr \in [EsPid -> Seq(Pos)] /\ extraPcr \in [EsPid -> Seq(Pos)]
  /\ fed \in Seq(Placed)
  /\ reported \subseteq EsPid
  /\ stage \in {"waiting", "feeding", "pcr"} => reported = {}
  /\ stage \in {"waiting", "feeding", "pcr", "reporting", "done", "panic", "hung"}

\* Every PCR is distributed to records: NotifyTime is never called on nil.
ClocksHaveRecords ==
  stage = "feeding" => \A c \in EsPid : \A e \in pcrs[c] : records[e] # Nil

LEMMA RecordIsNotNil ==
  ASSUME NEW r, RecordInv(r)
  PROVE  r \in Record /\ r # Nil
BY DemuxAssumption DEF RecordInv

LEMMA HasType ==
  ASSUME NEW e, NEW r, Has(e, r)
  PROVE  r \in Record \cup {Nil} /\ (r = Nil <=> strs[e] = Nil)
BY RecordIsNotNil DEF Has

LEMMA DemuxInitInv == DemuxInit => DemuxInv
<1> SUFFICES ASSUME DemuxInit PROVE DemuxInv
  OBVIOUS
<1>1. <<>> \in Seq(Pos) /\ <<>> \in Seq(Placed)
  OBVIOUS
<1> QED
  BY <1>1 DEF DemuxInit, DemuxInv

\* A PCR only reaches records, and leaves each of its type.
LEMMA NotifiedHas ==
  ASSUME DemuxInv, stage # "waiting", NEW k \in Placed, NEW e \in EsPid
  PROVE  Has(e, Notified(k)[e])
<1>1. Has(e, records[e])
  BY DEF DemuxInv
<1>2. Notified(k)[e] = IF e \in Clocked(k) THEN NotifyTime(records[e], k.pos) ELSE records[e]
  BY DEF Notified
<1>3. CASE e \in Clocked(k)
  <2>1. strs[e] # Nil /\ k.pos \in Nat
    BY <1>3, PlacedType DEF Clocked, DemuxInv
  <2>2. RecordInv(records[e]) /\ records[e].kind = strs[e]
    BY <1>1, <2>1 DEF Has
  <2>3. RecordInv(NotifyTime(records[e], k.pos)) /\ NotifyTime(records[e], k.pos).kind = strs[e]
    BY <2>1, <2>2, NotifyType
  <2> QED
    BY <1>2, <1>3, <2>1, <2>3 DEF Has
<1>4. CASE e \notin Clocked(k)
  BY <1>1, <1>2, <1>4
<1> QED
  BY <1>3, <1>4

LEMMA ListedType ==
  ASSUME NEW list \in [EsPid -> Seq(Pos)], NEW k \in Placed, k.pos \in Pos
  PROVE  Listed(list, k) \in [EsPid -> Seq(Pos)]
<1>1. Append(list[k.pid], k.pos) \in Seq(Pos)
  BY PlacedType, AppendProperties
<1> QED
  BY <1>1 DEF Listed

LEMMA FeedKeepsRecords ==
  ASSUME DemuxInv, NEW p \in Packet, Len(fed) < MaxFile, Feed(At(p, Len(fed)))
  PROVE  DemuxInv'
<1> DEFINE k == At(p, Len(fed))
           told == Notified(k)
<1>0. Len(fed) \in Nat
  BY DEF DemuxInv
<1>1. k \in Placed /\ k.pos = Len(fed)
  BY <1>0 DEF Placed, At
<1>2. k.pid \in EsPid /\ k.pos \in Pos
  BY <1>0, <1>1, PlacedType, DemuxAssumption DEF Pos
<1>3. UNCHANGED <<strs, pcrs, reported>> /\ stage = "feeding" /\ fed' = Append(fed, k)
  BY DEF Feed, DemuxPanic, Stops, routes
<1>4. fed' \in Seq(Placed)
  BY <1>1, <1>3, AppendProperties DEF DemuxInv
<1> HIDE DEF k
<1>5. CASE DemuxPanic \/ Stops("hung")
  BY <1>3, <1>4, <1>5 DEF DemuxPanic, Stops, lists, DemuxInv, Has
<1>6. CASE ~DemuxPanic /\ ~Stops("hung")
  <2>1. /\ UNCHANGED stage
        /\ told[k.pid] # Nil => ~ProcessFaults(told[k.pid], k)
        /\ IF ~k.pcr THEN UNCHANGED lists
           ELSE IF pcrs[k.pid] # {}
                  THEN progPcr' = Listed(progPcr, k) /\ UNCHANGED extraPcr
                  ELSE extraPcr' = Listed(extraPcr, k) /\ UNCHANGED progPcr
        /\ IF told[k.pid] = Nil THEN records' = told
           ELSE \E r \in Process(told[k.pid], k) : records' = [told EXCEPT ![k.pid] = r]
    BY <1>6 DEF Feed, k
  <2>2. progPcr' \in [EsPid -> Seq(Pos)] /\ extraPcr' \in [EsPid -> Seq(Pos)]
    BY <1>1, <1>2, <2>1, ListedType DEF DemuxInv, lists
  <2>3. \A e \in EsPid : Has(e, told[e])
    BY <1>1, <1>3, NotifiedHas
  <2>4. told = [e \in EsPid |-> told[e]]
    BY DEF Notified
  <2> HIDE DEF told
  <2>5. records' = [e \in EsPid |-> records'[e]] /\ \A e \in EsPid : Has(e, records'[e])
    <3>1. CASE told[k.pid] = Nil
      BY <2>1, <2>3, <2>4, <3>1
    <3>2. CASE told[k.pid] # Nil
      <4>1. PICK r \in Process(told[k.pid], k) : records' = [told EXCEPT ![k.pid] = r]
        BY <2>1, <3>2
      <4>2. RecordInv(told[k.pid]) /\ told[k.pid].kind = strs[k.pid] /\ strs[k.pid] # Nil
        BY <1>2, <2>3, <3>2 DEF Has
      <4>3. RecordInv(r) /\ r.kind = told[k.pid].kind
        BY <1>1, <2>1, <3>2, <4>2, ProcessType
      <4>4. Has(k.pid, r)
        BY <4>2, <4>3 DEF Has
      <4> QED
        BY <1>2, <2>3, <2>4, <4>1, <4>4
    <3> QED
      BY <3>1, <3>2
  <2>6. records' \in [EsPid -> Record \cup {Nil}]
    BY <2>5, HasType
  <2>7. \A e \in EsPid : Has(e, records[e])'
    BY <1>3, <2>5 DEF Has
  <2> QED
    BY <1>3, <1>4, <2>1, <2>2, <2>6, <2>7 DEF DemuxInv
<1> QED
  BY <1>5, <1>6

LEMMA ReportKeepsRecords ==
  ASSUME DemuxInv, NEW e \in EsPid, ReportRecord(e)
  PROVE  DemuxInv' /\ \A d \in reported : records'[d] = records[d]
<1>1. /\ stage = "reporting" /\ records[e] # Nil /\ e \notin reported
      /\ UNCHANGED <<strs, pcrs, progPcr, extraPcr, fed>>
  BY DEF ReportRecord, DemuxPanic, Stops, routes, lists
<1>2. CASE DemuxPanic
  BY <1>1, <1>2 DEF DemuxPanic, Stops, DemuxInv, Has
<1>3. CASE ~DemuxPanic
  <2>1. /\ records' = [records EXCEPT ![e] = Flush(records[e])]
        /\ reported' = reported \cup {e} /\ UNCHANGED stage
    BY <1>3 DEF ReportRecord
  <2>2. Has(e, Flush(records[e]))
    BY <1>1, FlushType DEF DemuxInv, Has
  <2>3. Flush(records[e]) \in Record \cup {Nil}
    BY <2>2, HasType
  <2>4. records' \in [EsPid -> Record \cup {Nil}]
    BY <2>1, <2>3 DEF DemuxInv
  <2>5. \A d \in EsPid : Has(d, records[d])'
    BY <1>1, <2>1, <2>2 DEF DemuxInv, Has
  <2> QED
    BY <1>1, <2>1, <2>4, <2>5 DEF DemuxInv
<1> QED
  BY <1>2, <1>3

LEMMA DemuxStep == DemuxInv /\ [DemuxNext]_demuxVars => DemuxInv'
<1> SUFFICES ASSUME DemuxInv, [DemuxNext]_demuxVars PROVE DemuxInv'
  OBVIOUS
<1>1. CASE Published
  BY <1>1, DemuxAssumption DEF Published, lists, DemuxInv
<1>2. CASE Setup
  <2>1. \A e \in EsPid : Has(e, IF strs[e] = Nil THEN Nil ELSE RecordOf(strs[e]))
    BY RecordOfType DEF DemuxInv, Has
  <2>2. \A e \in EsPid : (IF strs[e] = Nil THEN Nil ELSE RecordOf(strs[e])) \in Record \cup {Nil}
    BY <2>1, HasType
  <2>3. UNCHANGED <<strs, pcrs, progPcr, extraPcr, fed, reported>> /\ stage' = "feeding"
        /\ stage = "waiting"
        /\ records' = [e \in EsPid |-> IF strs[e] = Nil THEN Nil ELSE RecordOf(strs[e])]
    BY <1>2 DEF Setup, routes, lists
  <2>4. \A e \in EsPid : Has(e, records[e])'
    BY <2>1, <2>3 DEF Has
  <2> QED
    BY <2>2, <2>3, <2>4 DEF DemuxInv
<1>3. CASE FeedAny
  BY <1>3, FeedKeepsRecords DEF FeedAny
<1>4. CASE FileEnds \/ ReportPcrs \/ AllReported
  <2>1. UNCHANGED <<strs, pcrs, records, progPcr, extraPcr, fed, reported>>
        /\ stage \in {"feeding", "pcr", "reporting"} /\ stage' \in {"pcr", "reporting", "done"}
        /\ (stage' = "pcr" => stage = "feeding")
    BY <1>4 DEF FileEnds, ReportPcrs, AllReported, routes, lists
  <2> QED
    BY <2>1 DEF DemuxInv, Has
<1>5. ASSUME NEW e \in EsPid, ReportRecord(e) PROVE DemuxInv'
  BY <1>5, ReportKeepsRecords
<1>6. CASE UNCHANGED demuxVars
  BY <1>6 DEF demuxVars, routes, lists, DemuxInv, Has
<1> QED
  BY <1>1, <1>2, <1>3, <1>4, <1>5, <1>6 DEF DemuxNext, DemuxEnded

\* The state of the second pass stays well typed: in particular no unit ever has a
\* negative size, whatever headers claim to be as long as.
THEOREM DemuxTyped == DemuxSpec => []DemuxTypeOK
<1>1. DemuxInv => DemuxTypeOK
  BY DEF DemuxInv, DemuxTypeOK
<1> QED
  BY <1>1, DemuxInitInv, DemuxStep, PTL DEF DemuxSpec

\* As the parser's routes name streams only (RoutesMatchStreams), the loop over a
\* PCR's streams never meets a PID without a record.
THEOREM NoNilIsNotified == DemuxSpec => []ClocksHaveRecords
<1>1. DemuxInv => ClocksHaveRecords
  BY HasType DEF DemuxInv, ClocksHaveRecords
<1> QED
  BY <1>1, DemuxInitInv, DemuxStep, PTL DEF DemuxSpec

-----------------------------------------------------------------------------
(* Steps *)

\* Packet k has been received and dealt with: its PCR was listed and distributed,
\* then the record of its PID processed it.
Dealt(k) ==
  /\ k \in Placed /\ k.pos = Len(fed) /\ k.pos \in Pos
  /\ fed' = Append(fed, k)
  /\ stage = "feeding" /\ reported = {} /\ UNCHANGED <<strs, pcrs, reported, stage>>
  /\ IF ~k.pcr THEN UNCHANGED lists
     ELSE IF pcrs[k.pid] # {}
            THEN progPcr' = Listed(progPcr, k) /\ UNCHANGED extraPcr
            ELSE extraPcr' = Listed(extraPcr, k) /\ UNCHANGED progPcr
  /\ \A e \in EsPid : LET told == Notified(k)[e] IN
       IF e = k.pid /\ told # Nil
         THEN ~ProcessFaults(told, k) /\ records'[e] \in Process(told, k)
         ELSE records'[e] = told

LEMMA FeedDeals ==
  ASSUME DemuxInv, NEW p \in Packet, Len(fed) < MaxFile, Feed(At(p, Len(fed))), Going'
  PROVE  Dealt(At(p, Len(fed)))
<1> DEFINE k == At(p, Len(fed))
           told == Notified(k)
<1>1. k \in Placed /\ k.pos = Len(fed) /\ Len(fed) \in Nat
  BY DEF Placed, At, DemuxInv
<1>2. k.pid \in EsPid /\ k.pos \in Pos
  BY <1>1, PlacedType, DemuxAssumption DEF Pos
<1>3. /\ told[k.pid] # Nil => ~ProcessFaults(told[k.pid], k)
      /\ IF ~k.pcr THEN UNCHANGED lists
         ELSE IF pcrs[k.pid] # {}
                THEN progPcr' = Listed(progPcr, k) /\ UNCHANGED extraPcr
                ELSE extraPcr' = Listed(extraPcr, k) /\ UNCHANGED progPcr
      /\ IF told[k.pid] = Nil THEN records' = told
         ELSE \E r \in Process(told[k.pid], k) : records' = [told EXCEPT ![k.pid] = r]
      /\ fed' = Append(fed, k) /\ stage = "feeding" /\ UNCHANGED <<strs, pcrs, reported, stage>>
  BY DEF Feed, DemuxPanic, Stops, Going, routes
<1>4. told = [e \in EsPid |-> told[e]]
  BY DEF Notified
<1> HIDE DEF k
<1> SUFFICES \A e \in EsPid : IF e = k.pid /\ told[e] # Nil
               THEN ~ProcessFaults(told[e], k) /\ records'[e] \in Process(told[e], k)
               ELSE records'[e] = told[e]
  BY <1>1, <1>2, <1>3 DEF Dealt, DemuxInv, k
<1> HIDE DEF told
<1> QED
  BY <1>2, <1>3, <1>4

\* The same record, or what Flush makes of it.
Same(r, q) ==
  /\ q.clock = r.clock /\ q.cur = r.cur /\ q.wait = r.wait /\ q.acc = r.acc
  /\ r.cur = Nil => q.units = r.units

\* Reports are still written, or some have been.
Shown == Going \/ reported # {}

\* A step of the pass is the first pass' business, a packet dealt with, or one
\* that leaves all rows what they are.
LEMMA PassSteps ==
  ASSUME DemuxInv, [DemuxNext]_demuxVars, Shown'
  PROVE  \/ stage = "waiting" /\ stage' = "waiting" /\ UNCHANGED <<records, lists, fed, reported>>
         \/ /\ stage = "waiting" /\ stage' = "feeding" /\ UNCHANGED <<strs, pcrs, lists, fed, reported>>
            /\ records' = [e \in EsPid |-> IF strs[e] = Nil THEN Nil ELSE RecordOf(strs[e])]
         \/ \E k : Dealt(k)
         \/ /\ stage # "waiting" /\ stage' # "waiting" /\ Shown /\ (Going' => Going)
            /\ UNCHANGED <<strs, pcrs, lists, fed>>
            /\ \A e \in EsPid : /\ records'[e] = Nil <=> records[e] = Nil
                                /\ records[e] # Nil => Same(records[e], records'[e]) /\ Rows(e)' = Rows(e)
<1>1. CASE Published
  BY <1>1 DEF Published
<1>2. CASE Setup
  BY <1>2 DEF Setup, routes
<1>3. CASE FeedAny
  <2>1. UNCHANGED reported /\ reported = {}
    BY <1>3 DEF FeedAny, Feed, DemuxPanic, Stops, DemuxInv
  <2> QED
    BY <1>3, <2>1, FeedDeals DEF FeedAny, Shown
<1>4. CASE FileEnds \/ ReportPcrs \/ AllReported
  BY <1>4 DEF FileEnds, ReportPcrs, AllReported, routes, Same, Rows, Going, Shown
<1>5. ASSUME NEW d \in EsPid, ReportRecord(d)
      PROVE  /\ stage = "reporting" /\ stage' # "waiting" /\ UNCHANGED <<strs, pcrs, lists, fed>>
             /\ \A e \in EsPid : /\ records'[e] = Nil <=> records[e] = Nil
                                 /\ records[e] # Nil => Same(records[e], records'[e]) /\ Rows(e)' = Rows(e)
  <2>0. CASE DemuxPanic
    <3>1. /\ stage = "reporting" /\ stage' = "panic"
          /\ UNCHANGED <<strs, pcrs, records, lists, fed, reported>>
      BY <1>5, <2>0 DEF ReportRecord, DemuxPanic, Stops, routes
    <3> QED
      BY <3>1 DEF Same, Rows, Pushed
  <2> SUFFICES ASSUME ~DemuxPanic
               PROVE  /\ stage = "reporting" /\ stage' # "waiting" /\ UNCHANGED <<strs, pcrs, lists, fed>>
                      /\ \A e \in EsPid : /\ records'[e] = Nil <=> records[e] = Nil
                                          /\ records[e] # Nil => Same(records[e], records'[e]) /\ Rows(e)' = Rows(e)
    BY <2>0
  <2>1. /\ stage = "reporting" /\ stage' = "reporting" /\ UNCHANGED <<strs, pcrs, lists, fed>>
        /\ records[d] # Nil /\ d \notin reported
        /\ records' = [records EXCEPT ![d] = Flush(records[d])] /\ reported' = reported \cup {d}
    BY <1>5 DEF ReportRecord, routes
  <2>2. RecordInv(records[d]) /\ Flush(records[d]) # Nil
    BY <2>1, FlushType, RecordIsNotNil DEF DemuxInv, Has
  <2>3. records'[d] = Flush(records[d])
    BY <2>1 DEF DemuxInv
  <2>4. Flush(records[d]).units = Pushed(records[d]) /\ Same(records[d], Flush(records[d]))
    BY <2>2 DEF Flush, Same, RecordInv, Record, Pushed
  <2>5. Rows(d) = Pushed(records[d]) /\ Rows(d)' = Flush(records[d]).units
    BY <2>1, <2>3 DEF Rows
  <2>6. ASSUME NEW e \in EsPid, e # d PROVE records'[e] = records[e] /\ Rows(e)' = Rows(e)
    <3>1. records'[e] = records[e] /\ (e \in reported' <=> e \in reported)
      BY <2>1, <2>6
    <3> QED
      BY <3>1 DEF Rows, Pushed
  <2> QED
    BY <2>1, <2>2, <2>3, <2>4, <2>5, <2>6 DEF Same
<1>6. CASE UNCHANGED demuxVars
  <2>1. UNCHANGED <<strs, pcrs, records, lists, fed, reported, stage>>
    BY <1>6 DEF demuxVars, routes
  <2>2. \A e \in EsPid : Same(records[e], records'[e]) /\ Rows(e)' = Rows(e)
    BY <2>1 DEF Same, Rows, Pushed
  <2>3. Shown /\ (Going' => Going)
    BY <2>1 DEF Shown, Going
  <2> QED
    BY <2>1, <2>2, <2>3
<1> QED
  BY <1>1, <1>2, <1>3, <1>4, <1>5, <1>6 DEF DemuxNext, DemuxEnded, Going, Shown

-----------------------------------------------------------------------------
(* The PCR lists *)

LEMMA ListsGrow ==
  ASSUME NEW list \in Seq(Pos), NEW n \in Pos, n \in Nat, NEW js \in SUBSET (1 .. n), Lists(list, js)
  PROVE  Lists(Append(list, n), js \cup {n + 1})
<1> DEFINE new == Append(list, n)
<1>1. /\ Len(list) \in Nat /\ DOMAIN list = 1 .. Len(list) /\ DOMAIN new = 1 .. Len(list) + 1
      /\ \A i \in 1 .. Len(list) : new[i] = list[i]
      /\ new[Len(list) + 1] = n
  BY AppendProperties
<1>2. \A i \in 1 .. Len(list) : list[i] \in Int /\ list[i] < n
  BY <1>1 DEF Lists
<1> HIDE DEF new
<1>3. {new[i] : i \in DOMAIN new} = {list[i] : i \in DOMAIN list} \cup {n}
  BY <1>1
<1>4. {j - 1 : j \in js \cup {n + 1}} = {j - 1 : j \in js} \cup {n}
  OBVIOUS
<1>5. ASSUME NEW i \in DOMAIN new, NEW j \in DOMAIN new, i < j PROVE new[i] < new[j]
  <2>1. i \in 1 .. Len(list)
    BY <1>1, <1>5
  <2>2. CASE j = Len(list) + 1
    BY <1>1, <1>2, <2>1, <2>2
  <2>3. CASE j # Len(list) + 1
    BY <1>1, <1>5, <2>1, <2>3 DEF Lists
  <2> QED
    BY <2>2, <2>3
<1> QED
  BY <1>3, <1>4, <1>5 DEF Lists, new

\* Inductive: before the pass no packet was received and no PCR listed.
ListInv ==
  /\ stage = "waiting" => fed = <<>> /\ \A e \in EsPid : progPcr[e] = <<>> /\ extraPcr[e] = <<>>
  /\ EachPcrListedOnce

LEMMA ListInit == DemuxInit => ListInv
BY DEF DemuxInit, ListInv, EachPcrListedOnce, Lists

LEMMA ListStep == DemuxInv /\ ListInv /\ [DemuxNext]_demuxVars => ListInv'
<1> SUFFICES ASSUME DemuxInv, ListInv, [DemuxNext]_demuxVars PROVE ListInv'
  OBVIOUS
<1>1. CASE ~Going'
  BY <1>1 DEF ListInv, EachPcrListedOnce, Going
<1>2. CASE stage = "waiting" /\ UNCHANGED <<lists, fed>>
  BY <1>2 DEF ListInv, EachPcrListedOnce, Lists, lists, Going
<1>3. CASE stage' # "waiting" /\ Going /\ UNCHANGED <<pcrs, lists, fed>>
  <2>1. UNCHANGED <<pcrs, progPcr, extraPcr, fed>>
    BY <1>3 DEF lists
  <2>2. EachPcrListedOnce'
    BY <1>3, <2>1 DEF ListInv, EachPcrListedOnce
  <2> QED
    BY <1>3, <2>2 DEF ListInv
<1>4. ASSUME NEW k, Dealt(k) PROVE ListInv'
  <2>1. k \in Placed /\ k.pid \in EsPid /\ k.pcr \in BOOLEAN /\ k.pos = Len(fed) /\ k.pos \in Pos /\ k.pos \in Nat
    BY <1>4, PlacedType DEF Dealt
  <2>2. /\ fed' = Append(fed, k) /\ stage = "feeding" /\ stage' = "feeding" /\ pcrs' = pcrs
        /\ IF ~k.pcr THEN UNCHANGED lists
           ELSE IF pcrs[k.pid] # {}
                  THEN progPcr' = Listed(progPcr, k) /\ UNCHANGED extraPcr
                  ELSE extraPcr' = Listed(extraPcr, k) /\ UNCHANGED progPcr
    BY <1>4 DEF Dealt
  <2>3. /\ DOMAIN fed = 1 .. Len(fed) /\ DOMAIN fed' = 1 .. Len(fed) + 1
        /\ \A i \in 1 .. Len(fed) : fed'[i] = fed[i]
        /\ fed'[Len(fed) + 1] = k
    BY <2>1, <2>2, AppendProperties DEF DemuxInv
  <2>4. ASSUME NEW e \in EsPid
        PROVE  LET seen == {j \in DOMAIN fed' : fed'[j].pid = e /\ fed'[j].pcr}
               IN  /\ Lists(progPcr'[e], IF pcrs'[e] # {} THEN seen ELSE {})
                   /\ Lists(extraPcr'[e], IF pcrs'[e] # {} THEN {} ELSE seen)
    <3> DEFINE seen == {j \in DOMAIN fed : fed[j].pid = e /\ fed[j].pcr}
               next == {j \in DOMAIN fed' : fed'[j].pid = e /\ fed'[j].pcr}
    <3>1. /\ Lists(progPcr[e], IF pcrs[e] # {} THEN seen ELSE {})
          /\ Lists(extraPcr[e], IF pcrs[e] # {} THEN {} ELSE seen)
      BY <2>2 DEF ListInv, EachPcrListedOnce, Going
    <3>2. seen \in SUBSET (1 .. k.pos) /\ progPcr[e] \in Seq(Pos) /\ extraPcr[e] \in Seq(Pos)
      BY <2>1, <2>3 DEF DemuxInv
    <3>3. CASE k.pid = e /\ k.pcr
      <4>1. next = seen \cup {k.pos + 1}
        BY <2>1, <2>3, <3>3
      <4> HIDE DEF seen, next
      <4>2. CASE pcrs[e] # {}
        <5>1. progPcr'[e] = Append(progPcr[e], k.pos) /\ extraPcr'[e] = extraPcr[e]
          BY <2>2, <3>3, <4>2 DEF Listed, DemuxInv
        <5>2. Lists(progPcr'[e], next) /\ Lists(extraPcr'[e], {})
          BY <2>1, <3>1, <3>2, <4>1, <4>2, <5>1, ListsGrow
        <5> QED
          BY <2>2, <4>2, <5>2 DEF next
      <4>3. CASE pcrs[e] = {}
        <5>1. extraPcr'[e] = Append(extraPcr[e], k.pos) /\ progPcr'[e] = progPcr[e]
          BY <2>2, <3>3, <4>3 DEF Listed, DemuxInv
        <5>2. Lists(extraPcr'[e], next) /\ Lists(progPcr'[e], {})
          BY <2>1, <3>1, <3>2, <4>1, <4>3, <5>1, ListsGrow
        <5> QED
          BY <2>2, <4>3, <5>2 DEF next
      <4> QED
        BY <4>2, <4>3
    <3>4. CASE ~(k.pid = e /\ k.pcr)
      <4>1. next = seen
        BY <2>3, <3>4
      <4>2. progPcr'[e] = progPcr[e] /\ extraPcr'[e] = extraPcr[e]
        BY <2>1, <2>2, <3>4 DEF Listed, lists, DemuxInv
      <4> QED
        BY <2>2, <3>1, <4>1, <4>2
    <3> QED
      BY <3>3, <3>4
  <2> QED
    BY <2>2, <2>4 DEF ListInv, EachPcrListedOnce
<1> QED
  BY <1>1, <1>2, <1>3, <1>4, PassSteps DEF lists, Shown

\* For every file and every table a first pass may publish, each PCR of the file is
\* listed once, at its place, among those of the programs or among the others.
THEOREM PcrsListed == DemuxSpec => []EachPcrListedOnce
<1>1. ListInv => EachPcrListedOnce
  BY DEF ListInv
<1> QED
  BY <1>1, DemuxInitInv, DemuxStep, ListInit, ListStep, PTL DEF DemuxSpec

-----------------------------------------------------------------------------
(* The rows of a record *)

\* Packet k makes a row in a record of this kind.
OpensRow(kind, k) == k.pusi /\ ~(k.head = "padding" /\ kind = "pes")

\* What a handler does to the rows of a record: it opens a row for the packet, it
\* opens one for data without a start, or it keeps them, and the open one changes
\* at most in its size and, where it is collected, in its header.
Handled(m, k, q) ==
  LET P == Pushed(m)
      Q == Pushed(q)
  IN  /\ q.clock = m.clock
      /\ \/ /\ OpensRow(m.kind, k) /\ q.cur # Nil
            /\ Len(Q) = Len(P) + 1 /\ \A i \in 1 .. Len(P) : Q[i] = P[i]
            /\ q.cur.pos = k.pos /\ q.cur.clock = m.clock
            /\ m.kind = "scte35" => q.cur.hdr = k.pos
         \/ /\ ~k.pusi /\ m.kind = "scte35" /\ m.cur = Nil /\ q.cur # Nil
            /\ Len(Q) = Len(P) + 1 /\ \A i \in 1 .. Len(P) : Q[i] = P[i]
            /\ q.cur.hdr = NoPos
         \/ /\ ~OpensRow(m.kind, k) /\ Len(Q) = Len(P)
            /\ \A i \in 1 .. Len(P) : /\ Q[i].pos = P[i].pos /\ Q[i].clock = P[i].clock
                                      /\ m.kind = "scte35" => Q[i].hdr = P[i].hdr
                                      /\ q.cur = Nil \/ i < Len(P) => Q[i] = P[i]

\* The open unit is the last row.
LEMMA PushedRows ==
  ASSUME NEW r \in Record
  PROVE  /\ Pushed(r) \in Seq(Unit) /\ Len(Pushed(r)) \in Nat
         /\ r.cur = Nil => Pushed(r) = r.units
         /\ r.cur # Nil => /\ Len(Pushed(r)) = Len(r.units) + 1
                           /\ \A i \in 1 .. Len(r.units) : Pushed(r)[i] = r.units[i]
                           /\ Pushed(r)[Len(r.units) + 1] = r.cur
<1>1. r.units \in Seq(Unit) /\ r.cur \in Unit \cup {Nil}
  BY RecordFields
<1>2. CASE r.cur # Nil
  <2>1. Pushed(r) = Append(r.units, r.cur) /\ r.cur \in Unit
    BY <1>1, <1>2 DEF Pushed
  <2> QED
    BY <1>1, <1>2, <2>1, AppendProperties
<1>3. CASE r.cur = Nil
  BY <1>1, <1>3 DEF Pushed
<1> QED
  BY <1>2, <1>3

\* The unit of r that is open stays so.
StaysOpen(r, q) ==
  /\ q.units = r.units /\ q.clock = r.clock /\ q.cur # Nil
  /\ q.cur.pos = r.cur.pos /\ q.cur.clock = r.cur.clock

LEMMA StaysOpenRows ==
  ASSUME NEW r \in Record, NEW q \in Record, r.cur # Nil, StaysOpen(r, q)
  PROVE  /\ Len(Pushed(q)) = Len(Pushed(r))
         /\ \A i \in 1 .. Len(Pushed(r)) :
              /\ Pushed(q)[i].pos = Pushed(r)[i].pos /\ Pushed(q)[i].clock = Pushed(r)[i].clock
              /\ q.cur.hdr = r.cur.hdr => Pushed(q)[i].hdr = Pushed(r)[i].hdr
              /\ i < Len(Pushed(r)) => Pushed(q)[i] = Pushed(r)[i]
<1>1. Len(r.units) \in Nat
  BY RecordFields
<1> DEFINE P == Pushed(r)
           Q == Pushed(q)
           n == Len(r.units)
<1>2. Len(P) = n + 1 /\ P[n + 1] = r.cur /\ \A i \in 1 .. n : P[i] = r.units[i]
  BY PushedRows
<1>3. Len(Q) = n + 1 /\ Q[n + 1] = q.cur /\ \A i \in 1 .. n : Q[i] = r.units[i]
  BY PushedRows DEF StaysOpen
<1> HIDE DEF P, Q, n
<1>4. \A i \in 1 .. Len(P) : (i \in 1 .. n /\ i < Len(P)) \/ (i = n + 1 /\ ~(i < Len(P)))
  BY <1>1, <1>2 DEF n
<1> QED
  BY <1>2, <1>3, <1>4 DEF StaysOpen, P, Q

LEMMA OpenedRows ==
  ASSUME NEW r \in Record, NEW q \in Record, q.units = Pushed(r)
  PROVE  /\ q.cur = Nil => Pushed(q) = Pushed(r)
         /\ q.cur # Nil => /\ Len(Pushed(q)) = Len(Pushed(r)) + 1
                           /\ \A i \in 1 .. Len(Pushed(r)) : Pushed(q)[i] = Pushed(r)[i]
BY PushedRows

LEMMA GrownStays ==
  ASSUME NEW r, RecordInv(r), r.cur # Nil, NEW n \in Nat
  PROVE  StaysOpen(r, Grown(r, n)) /\ Grown(r, n).cur.hdr = r.cur.hdr
         /\ Grown(r, n).cur.size = r.cur.size + n
<1>1. r \in Record /\ r.cur \in Unit
  BY RecordFields DEF RecordInv
<1> DEFINE c == [r.cur EXCEPT !.size = r.cur.size + n]
<1>2. c.pos = r.cur.pos /\ c.clock = r.cur.clock /\ c.hdr = r.cur.hdr /\ c.size = r.cur.size + n
  BY <1>1 DEF Unit
<1>3. Grown(r, n) = [r EXCEPT !.cur = c]
  BY DEF Grown
<1> HIDE DEF c
<1>4. Grown(r, n).cur = c /\ Grown(r, n).units = r.units /\ Grown(r, n).clock = r.clock
  BY <1>1, <1>3 DEF Record
<1> QED
  BY <1>2, <1>4, GrownType DEF StaysOpen

LEMMA OpenedFields ==
  ASSUME NEW r, NEW k
  PROVE  /\ Opened(r, k).pos = k.pos /\ Opened(r, k).clock = r.clock
         /\ Opened(r, k).hdr = Stamp(k) /\ Opened(r, k).size = Strip(k)
BY DEF Opened

\* The last unit of a video record ends where a PES packet starts; collecting the
\* header of the new one begins anew, or is not needed.
LEMMA StartedFields ==
  ASSUME NEW r \in Record, NEW k
  PROVE  LET q == Started(r, k) IN
         /\ q.units = Pushed(r) /\ q.clock = r.clock /\ q.kind = r.kind
         /\ q.cur.pos = k.pos /\ q.cur.clock = r.clock /\ q.cur.size = 0
         /\ Short(k) => /\ q.cur.hdr = NoPos /\ q.wait = TRUE
                        /\ q.acc = [from |-> k.pos, len |-> 0, head |-> k.head, hlen |-> k.hlen]
         /\ ~Short(k) => q.cur.hdr = Stamp(k) /\ q.wait = r.wait /\ q.acc = r.acc
<1> DEFINE c == [Opened(r, k) EXCEPT !.size = 0]
           d == [c EXCEPT !.hdr = NoPos]
           a == [from |-> k.pos, len |-> 0, head |-> k.head, hlen |-> k.hlen]
<1>1. /\ c.pos = k.pos /\ c.clock = r.clock /\ c.hdr = Stamp(k) /\ c.size = 0
      /\ d.pos = k.pos /\ d.clock = r.clock /\ d.hdr = NoPos /\ d.size = 0
  BY DEF Opened
<1>2. CASE Short(k)
  <2>1. Started(r, k) = [r EXCEPT !.units = Pushed(r), !.cur = d, !.wait = TRUE, !.acc = a]
    BY <1>2 DEF Started, Record
  <2> HIDE DEF a, c, d
  <2>2. LET q == Started(r, k)
        IN  q.units = Pushed(r) /\ q.clock = r.clock /\ q.kind = r.kind /\ q.cur = d /\ q.wait = TRUE /\ q.acc = a
    BY <2>1 DEF Record
  <2> QED
    BY <1>1, <1>2, <2>2 DEF a
<1>3. CASE ~Short(k)
  <2>1. Started(r, k) = [r EXCEPT !.units = Pushed(r), !.cur = c]
    BY <1>3 DEF Started
  <2> HIDE DEF a, c, d
  <2>2. LET q == Started(r, k)
        IN  /\ q.units = Pushed(r) /\ q.clock = r.clock /\ q.kind = r.kind /\ q.cur = c
            /\ q.wait = r.wait /\ q.acc = r.acc
    BY <2>1 DEF Record
  <2> QED
    BY <1>1, <1>3, <2>2
<1> QED
  BY <1>2, <1>3

\* A header that was collected goes to the open unit.
LEMMA ResumedFields ==
  ASSUME NEW r \in Record, r.cur \in Unit, NEW acc \in Bytes
  PROVE  LET q == Resumed(r, acc) IN
         /\ q.units = r.units /\ q.clock = r.clock /\ q.kind = r.kind /\ q.acc = acc
         /\ q.cur.pos = r.cur.pos /\ q.cur.clock = r.cur.clock
         /\ acc.len < MinHeader \/ acc.head = "raw" => q.cur = r.cur /\ q.wait = r.wait
         /\ ~(acc.len < MinHeader \/ acc.head = "raw") =>
              /\ q.wait = FALSE
              /\ q.cur.hdr = IF acc.head = "pes" THEN acc.from ELSE r.cur.hdr
              /\ q.cur.size = r.cur.size + acc.len - (IF acc.head = "pes" THEN acc.hlen ELSE 0)
<1>1. CASE acc.len < MinHeader \/ acc.head = "raw"
  BY <1>1 DEF Resumed, Record
<1>2. CASE ~(acc.len < MinHeader \/ acc.head = "raw") /\ acc.head = "pes"
  <2> DEFINE c == [r.cur EXCEPT !.hdr = acc.from, !.size = r.cur.size + acc.len - acc.hlen]
  <2>1. c.pos = r.cur.pos /\ c.clock = r.cur.clock /\ c.hdr = acc.from
        /\ c.size = r.cur.size + acc.len - acc.hlen
    BY DEF Unit
  <2>2. Resumed(r, acc) = [r EXCEPT !.acc = acc, !.wait = FALSE, !.cur = c]
    BY <1>2 DEF Resumed, Record
  <2> HIDE DEF c
  <2>3. LET q == Resumed(r, acc)
        IN  q.units = r.units /\ q.clock = r.clock /\ q.kind = r.kind /\ q.acc = acc /\ q.cur = c /\ q.wait = FALSE
    BY <2>2 DEF Record
  <2> QED
    BY <1>2, <2>1, <2>3
<1>3. CASE ~(acc.len < MinHeader \/ acc.head = "raw") /\ acc.head # "pes"
  <2> DEFINE c == [r.cur EXCEPT !.size = r.cur.size + acc.len]
  <2>1. c.pos = r.cur.pos /\ c.clock = r.cur.clock /\ c.hdr = r.cur.hdr /\ c.size = r.cur.size + acc.len
    BY DEF Unit
  <2>2. Resumed(r, acc) = [r EXCEPT !.acc = acc, !.wait = FALSE, !.cur = c]
    BY <1>3 DEF Resumed, Record
  <2> HIDE DEF c
  <2>3. LET q == Resumed(r, acc)
        IN  q.units = r.units /\ q.clock = r.clock /\ q.kind = r.kind /\ q.acc = acc /\ q.cur = c /\ q.wait = FALSE
    BY <2>2 DEF Record
  <2>4. r.cur.size + acc.len = r.cur.size + acc.len - 0
    BY DEF Unit, Bytes
  <2> QED
    BY <1>3, <2>1, <2>3, <2>4
<1> QED
  BY <1>1, <1>2, <1>3

LEMMA ScteFields ==
  ASSUME NEW r, RecordInv(r), r.kind = "scte35", NEW k \in Placed
  PROVE  LET q == ScteProcess(r, k) IN
         /\ ~k.pusi /\ r.cur # Nil =>
              /\ StaysOpen(r, q) /\ q.cur.hdr = r.cur.hdr
              /\ q.acc.len = r.acc.len + k.len /\ q.acc.hlen = r.acc.hlen
         /\ ~k.pusi /\ r.cur = Nil /\ k.len # 0 =>
              /\ q.units = r.units /\ q.clock = r.clock /\ q.cur.hdr = NoPos
         /\ ~k.pusi /\ r.cur = Nil /\ k.len = 0 => q = r
<1>1. CASE ~k.pusi /\ r.cur # Nil
  <2> DEFINE g == Grown(r, k.len)
             a == [r.acc EXCEPT !.len = r.acc.len + k.len]
  <2>1. g \in Record /\ g.acc = r.acc /\ r.acc \in Bytes /\ StaysOpen(r, g) /\ g.cur.hdr = r.cur.hdr
    BY <1>1, PlacedType, GrownType, GrownStays, RecordFields DEF RecordInv
  <2>2. a.len = r.acc.len + k.len /\ a.hlen = r.acc.hlen
    BY <2>1 DEF Bytes
  <2>3. ScteProcess(r, k) = [g EXCEPT !.acc = a]
    BY <1>1, <2>1 DEF ScteProcess
  <2> HIDE DEF a, g
  <2> QED
    BY <1>1, <2>1, <2>2, <2>3 DEF StaysOpen, Record
<1>2. CASE ~k.pusi /\ r.cur = Nil
  BY <1>2 DEF ScteProcess, RecordInv, Record, Phantom
<1> QED
  BY <1>1, <1>2

LEMMA HandledPes ==
  ASSUME NEW r, RecordInv(r), r.kind \in {"pes", "mp2v"}, NEW k \in Placed, ~HeaderCut(k),
         NEW q, RecordInv(q),
         q = IF r.kind = "pes" THEN PesProcess(r, k) ELSE Mp2vProcess(r, k)
  PROVE  Handled(r, k, q)
<1>1. r \in Record /\ q \in Record /\ k.pusi \in BOOLEAN /\ k.len \in Nat
  BY PlacedType DEF RecordInv
<1>2. CASE ~k.pusi /\ r.cur = Nil
  <2>1. q = r
    BY <1>2 DEF PesProcess, Mp2vProcess
  <2> QED
    BY <1>2, <2>1 DEF Handled, OpensRow
<1>3. CASE ~k.pusi /\ r.cur # Nil
  <2>1. q = Grown(r, k.len)
    BY <1>3 DEF PesProcess, Mp2vProcess
  <2>2. StaysOpen(r, q) /\ q.cur.hdr = r.cur.hdr
    BY <1>1, <1>3, <2>1, GrownStays
  <2> QED
    BY <1>1, <1>3, <2>2, StaysOpenRows DEF Handled, OpensRow, StaysOpen
<1>4. CASE k.pusi /\ OpensRow(r.kind, k)
  <2>1. q = [r EXCEPT !.units = Pushed(r), !.cur = Opened(r, k)]
    BY <1>4 DEF PesProcess, Mp2vProcess, OpensRow
  <2>2. q.units = Pushed(r) /\ q.cur = Opened(r, k) /\ q.clock = r.clock
    BY <1>1, <2>1 DEF Record
  <2>3. Opened(r, k) # Nil
    BY <1>1, <1>4, OpenedType, PlacedType DEF HeaderCut, Heads
  <2> QED
    BY <1>1, <1>4, <2>2, <2>3, OpenedRows, OpenedFields DEF Handled
<1>5. CASE k.pusi /\ ~OpensRow(r.kind, k)
  <2>1. q = [r EXCEPT !.units = Pushed(r), !.cur = Nil]
    BY <1>5 DEF PesProcess, OpensRow
  <2>2. q.units = Pushed(r) /\ q.cur = Nil /\ q.clock = r.clock
    BY <1>1, <2>1 DEF Record
  <2> QED
    BY <1>1, <1>5, <2>2, OpenedRows DEF Handled
<1> QED
  BY <1>1, <1>2, <1>3, <1>4, <1>5

LEMMA HandledVideo ==
  ASSUME NEW r, RecordInv(r), r.kind = "video", NEW k \in Placed, NEW q \in VideoProcess(r, k)
  PROVE  Handled(r, k, q)
<1> DEFINE begun == IF k.pusi THEN Started(r, k) ELSE r
<1>1. RecordInv(begun) /\ begun.kind = "video" /\ RecordInv(q)
  BY StartedType, VideoType
<1>2. r \in Record /\ q \in Record /\ begun \in Record /\ k.pusi \in BOOLEAN /\ k.len \in Nat
  BY <1>1, PlacedType DEF RecordInv
<1>3. (begun.cur = Nil /\ q = begun) \/ (begun.cur # Nil /\ StaysOpen(begun, q))
  <2>1. CASE begun.wait
    <3>1. begun.cur # Nil /\ begun.acc # Nil
      BY <1>1, <2>1 DEF RecordInv
    <3>2. PICK acc \in Collected(begun, k) : q = Resumed(begun, acc)
      BY <2>1 DEF VideoProcess
    <3> HIDE DEF begun
    <3>3. acc \in Bytes /\ acc # Nil /\ (acc.head = "pes" => acc.hlen <= MinHeader) /\ begun.cur \in Unit
      BY <1>1, <1>2, <3>1, CollectedType, RecordFields
    <3>4. q.cur # Nil
      BY <1>1, <3>1, <3>2, <3>3, ResumedType
    <3> QED
      BY <1>2, <3>1, <3>2, <3>3, <3>4, ResumedFields DEF StaysOpen
  <2>2. CASE ~begun.wait /\ begun.cur = Nil
    BY <2>2 DEF VideoProcess
  <2>3. CASE ~begun.wait /\ begun.cur # Nil
    <3>1. q = Grown(begun, Left(k))
      BY <2>3 DEF VideoProcess
    <3> HIDE DEF begun
    <3> QED
      BY <1>1, <2>3, <3>1, GrownStays, LeftType
  <2> QED
    BY <2>1, <2>2, <2>3
<1>4. CASE k.pusi
  <2>1. /\ begun.units = Pushed(r) /\ begun.clock = r.clock /\ begun.cur # Nil
        /\ begun.cur.pos = k.pos /\ begun.cur.clock = r.clock
    BY <1>2, <1>4, StartedFields, StartedType
  <2> HIDE DEF begun
  <2>2. Len(Pushed(begun)) = Len(Pushed(r)) + 1 /\ \A i \in 1 .. Len(Pushed(r)) : Pushed(begun)[i] = Pushed(r)[i]
    BY <1>2, <2>1, OpenedRows
  <2>3. StaysOpen(begun, q)
    BY <1>3, <2>1
  <2>4. Len(Pushed(r)) \in Nat
    BY <1>2, PushedRows
  <2>5. /\ Len(Pushed(q)) = Len(Pushed(begun))
        /\ \A i \in 1 .. Len(Pushed(begun)) : i < Len(Pushed(begun)) => Pushed(q)[i] = Pushed(begun)[i]
    BY <1>2, <2>1, <2>3, StaysOpenRows
  <2>6. \A i \in 1 .. Len(Pushed(r)) : i \in 1 .. Len(Pushed(begun)) /\ i < Len(Pushed(begun))
    BY <2>2, <2>4
  <2>7. Len(Pushed(q)) = Len(Pushed(r)) + 1 /\ \A i \in 1 .. Len(Pushed(r)) : Pushed(q)[i] = Pushed(r)[i]
    BY <2>2, <2>5, <2>6
  <2> QED
    BY <1>4, <2>1, <2>3, <2>7 DEF Handled, OpensRow, StaysOpen
<1>5. CASE ~k.pusi
  <2>1. begun = r
    BY <1>5
  <2>2. CASE r.cur = Nil
    BY <1>3, <1>5, <2>1, <2>2 DEF Handled, OpensRow
  <2>3. CASE r.cur # Nil
    BY <1>2, <1>3, <1>5, <2>1, <2>3, StaysOpenRows DEF Handled, OpensRow, StaysOpen
  <2> QED
    BY <2>2, <2>3
<1> QED
  BY <1>2, <1>4, <1>5

LEMMA HandledScte ==
  ASSUME NEW r, RecordInv(r), r.kind = "scte35", NEW k \in Placed
  PROVE  Handled(r, k, ScteProcess(r, k))
<1> DEFINE q == ScteProcess(r, k)
<1>1. r \in Record /\ q \in Record /\ k.pusi \in BOOLEAN /\ k.len \in Nat
  BY PlacedType, ScteType DEF RecordInv
<1> SUFFICES Handled(r, k, q)
  OBVIOUS
<1> HIDE DEF q
<1>2. CASE k.pusi
  <2>1. /\ q.units = Pushed(r) /\ q.clock = r.clock
        /\ q.cur = [pos |-> k.pos, clock |-> r.clock, hdr |-> k.pos, size |-> k.len]
    BY <1>1, <1>2, Zenon DEF q, ScteProcess, RecordInv, Record
  <2>2. q.cur # Nil
    <3>1. q.cur \in Unit
      BY <1>1, <2>1, PlacedType, RecordFields DEF Unit
    <3> QED
      BY <3>1, DemuxAssumption
  <2> QED
    BY <1>1, <1>2, <2>1, <2>2, OpenedRows DEF Handled, OpensRow
<1>3. CASE ~k.pusi /\ r.cur # Nil
  <2>1. StaysOpen(r, q) /\ q.cur.hdr = r.cur.hdr
    BY <1>3, ScteFields DEF q
  <2> QED
    BY <1>1, <1>3, <2>1, StaysOpenRows DEF Handled, OpensRow, StaysOpen
<1>4. CASE ~k.pusi /\ r.cur = Nil /\ k.len # 0
  <2>1. q.units = r.units /\ q.clock = r.clock /\ q.cur.hdr = NoPos
    BY <1>4, ScteFields DEF q
  <2>2. q.cur # Nil
    <3>1. [Phantom EXCEPT !.size = k.len] \in Unit
      BY <1>1 DEF Phantom, Unit, NoPos
    <3>2. q.cur = [Phantom EXCEPT !.size = k.len]
      BY <1>1, <1>4 DEF ScteProcess, q, Record
    <3> QED
      BY <3>1, <3>2, DemuxAssumption
  <2>3. Pushed(r) = r.units
    BY <1>4 DEF Pushed
  <2> QED
    BY <1>1, <1>4, <2>1, <2>2, <2>3, OpenedRows DEF Handled
<1>5. CASE ~k.pusi /\ r.cur = Nil /\ k.len = 0
  <2>1. q = r
    BY <1>5, ScteFields DEF q
  <2> QED
    BY <1>5, <2>1 DEF Handled, OpensRow
<1> QED
  BY <1>1, <1>2, <1>3, <1>4, <1>5

LEMMA HandledByProcess ==
  ASSUME NEW r, RecordInv(r), NEW k \in Placed, ~ProcessFaults(r, k), NEW q \in Process(r, k)
  PROVE  Handled(r, k, q) /\ RecordInv(q) /\ q.kind = r.kind
<1>1. r.kind \in StreamKind /\ RecordInv(q) /\ q.kind = r.kind
  BY RecordFields, ProcessType DEF RecordInv
<1>2. CASE r.kind \in {"pes", "mp2v"}
  <2>1. ~HeaderCut(k)
    BY <1>2 DEF ProcessFaults
  <2>2. CASE r.kind = "pes"
    BY <1>1, <2>1, <2>2, HandledPes DEF Process
  <2>3. CASE r.kind = "mp2v"
    BY <1>1, <2>1, <2>3, HandledPes DEF Process
  <2> QED
    BY <1>2, <2>2, <2>3
<1>3. CASE r.kind = "video"
  BY <1>1, <1>3, HandledVideo DEF Process
<1>4. CASE r.kind = "scte35"
  BY <1>1, <1>4, HandledScte DEF Process
<1> QED
  BY <1>1, <1>2, <1>3, <1>4 DEF StreamKind

-----------------------------------------------------------------------------
(* The rows of the pass *)

\* What a packet does to the record of e: told of its PCR first, which changes the
\* clock only, and if the packet is e's, handled.
Told(r, m) == m.cur = r.cur /\ m.units = r.units /\ m.wait = r.wait /\ m.acc = r.acc /\ m.kind = r.kind

LEMMA NotifiedTold ==
  ASSUME DemuxInv, stage # "waiting", NEW k \in Placed, NEW e \in EsPid, Notified(k)[e] # Nil
  PROVE  LET m == Notified(k)[e] IN
         /\ strs[e] # Nil /\ RecordInv(records[e]) /\ RecordInv(m) /\ m.kind = strs[e]
         /\ Told(records[e], m) /\ Pushed(m) = Pushed(records[e])
         /\ m.clock = IF e \in Clocked(k) THEN k.pos ELSE records[e].clock
<1> DEFINE m == Notified(k)[e]
<1>1. Has(e, records[e]) /\ Has(e, m)
  BY NotifiedHas DEF DemuxInv
<1>2. m = IF e \in Clocked(k) THEN NotifyTime(records[e], k.pos) ELSE records[e]
  BY DEF Notified
<1> HIDE DEF m
<1>3. /\ strs[e] # Nil /\ RecordInv(records[e]) /\ RecordInv(m)
      /\ m.kind = strs[e] /\ records[e].kind = strs[e] /\ records[e] \in Record
  BY <1>1 DEF Has, m, RecordInv
<1>4. CASE e \in Clocked(k)
  <2>1. m = [records[e] EXCEPT !.clock = k.pos]
    BY <1>2, <1>4 DEF NotifyTime
  <2>2. Told(records[e], m) /\ m.clock = k.pos
    BY <1>3, <2>1 DEF Told, Record
  <2> QED
    BY <1>3, <1>4, <2>2 DEF Told, Pushed, m
<1>5. CASE e \notin Clocked(k)
  BY <1>2, <1>3, <1>5 DEF Told, m
<1> QED
  BY <1>4, <1>5

LEMMA RowsAfter ==
  ASSUME DemuxInv, NEW k, Dealt(k), NEW e \in EsPid, records'[e] # Nil
  PROVE  LET m == Notified(k)[e] IN
         /\ strs[e] # Nil /\ RecordInv(records[e]) /\ RecordInv(m) /\ RecordInv(records'[e])
         /\ m.kind = strs[e] /\ records'[e].kind = strs[e] /\ records[e] # Nil
         /\ Told(records[e], m) /\ Pushed(m) = Pushed(records[e])
         /\ m.clock = IF e \in Clocked(k) THEN k.pos ELSE records[e].clock
         /\ Rows(e) = Pushed(records[e]) /\ Rows(e)' = Pushed(records'[e])
         /\ k.pid = e => /\ ~ProcessFaults(m, k) /\ records'[e] \in Process(m, k)
                         /\ Handled(m, k, records'[e])
         /\ k.pid # e => records'[e] = m
<1> DEFINE m == Notified(k)[e]
           q == records'[e]
<1>1. k \in Placed /\ stage = "feeding" /\ reported = {} /\ reported' = {}
  BY DEF Dealt
<1>2. IF e = k.pid /\ m # Nil THEN ~ProcessFaults(m, k) /\ q \in Process(m, k) ELSE q = m
  BY DEF Dealt
<1>3. Rows(e) = Pushed(records[e]) /\ Rows(e)' = Pushed(q)
  BY <1>1 DEF Rows, Pushed
<1> HIDE DEF q
<1>4. m # Nil
  BY <1>2 DEF q
<1>5. /\ strs[e] # Nil /\ RecordInv(records[e]) /\ RecordInv(m) /\ m.kind = strs[e]
      /\ Told(records[e], m) /\ Pushed(m) = Pushed(records[e])
      /\ m.clock = IF e \in Clocked(k) THEN k.pos ELSE records[e].clock
  BY <1>1, <1>4, NotifiedTold
<1> HIDE DEF m
<1>6. CASE k.pid = e
  <2>1. ~ProcessFaults(m, k) /\ q \in Process(m, k)
    BY <1>2, <1>4, <1>6
  <2>2. Handled(m, k, q) /\ RecordInv(q) /\ q.kind = m.kind
    BY <1>1, <1>5, <2>1, HandledByProcess
  <2> QED
    BY <1>3, <1>5, <1>6, <2>1, <2>2, RecordIsNotNil DEF m, q
<1>7. CASE k.pid # e
  <2>1. q = m
    BY <1>2, <1>7
  <2> QED
    BY <1>3, <1>5, <1>7, <2>1, RecordIsNotNil DEF m, q
<1> QED
  BY <1>6, <1>7

\* What EveryStartHasItsRow and ClockIsTheLatest say of one stream.
StartsHaveRows(e) ==
  /\ {Rows(e)[i].pos : i \in Genuine(e)} = {j - 1 : j \in {n \in DOMAIN fed : Opens(fed[n], e)}}
  /\ \A i, j \in Genuine(e) : i < j => Rows(e)[i].pos < Rows(e)[j].pos
  /\ \A i \in DOMAIN Rows(e) \ Genuine(e) : i = 1
RowsAreTimed(e) == \A i \in Genuine(e) : IsLatestPcr(Rows(e)[i].clock, e, Rows(e)[i].pos)

\* Inductive, with the properties: the record of e knows the latest PCR of its
\* streams, and a splice record without an open section has no row.
RowInv ==
  /\ stage = "waiting" => fed = <<>>
  /\ \A e \in EsPid : Shown /\ records[e] # Nil =>
       /\ StartsHaveRows(e) /\ RowsAreTimed(e)
       /\ IsLatestPcr(records[e].clock, e, Len(fed) - 1)
       /\ strs[e] = "scte35" /\ records[e].cur = Nil => records[e].units = <<>>

LEMMA RowInit == DemuxInit => RowInv
BY DEF DemuxInit, RowInv

\* The rows of e with packet k received, by how its handler changed them.
RowsMove(k, e, P, Q, clock) ==
  /\ Len(P) \in Nat /\ DOMAIN P = 1 .. Len(P) /\ DOMAIN Q = 1 .. Len(Q)
  /\ \A i \in 1 .. Len(P) : P[i].pos \in Int /\ P[i].clock \in Int /\ P[i].hdr \in Int
  /\ \/ /\ Opens(k, e) /\ Len(Q) = Len(P) + 1 /\ \A i \in 1 .. Len(P) : Q[i] = P[i]
        /\ Q[Len(Q)].pos = k.pos /\ Q[Len(Q)].clock = clock
        /\ strs[e] = "scte35" => Q[Len(Q)].hdr = k.pos
     \/ /\ ~Opens(k, e) /\ strs[e] = "scte35" /\ Len(P) = 0 /\ Len(Q) = 1
        /\ Q[1].hdr = NoPos
     \/ /\ ~Opens(k, e) /\ Len(Q) = Len(P)
        /\ \A i \in 1 .. Len(P) : /\ Q[i].pos = P[i].pos /\ Q[i].clock = P[i].clock
                                  /\ strs[e] = "scte35" => Q[i].hdr = P[i].hdr

LEMMA RowsFollow ==
  ASSUME DemuxInv, RowInv, NEW k, Dealt(k), NEW e \in EsPid, records'[e] # Nil
  PROVE  /\ RowsMove(k, e, Rows(e), Rows(e)', Notified(k)[e].clock)
         /\ records'[e].clock = Notified(k)[e].clock
<1> DEFINE m == Notified(k)[e]
           P == Rows(e)
           Q == Rows(e)'
           q == records'[e]
<1>1. /\ strs[e] # Nil /\ RecordInv(records[e]) /\ RecordInv(m) /\ RecordInv(q)
      /\ m.kind = strs[e] /\ q.kind = strs[e] /\ records[e] # Nil
      /\ Told(records[e], m) /\ Pushed(m) = P /\ P = Pushed(records[e]) /\ Q = Pushed(q)
      /\ k.pid = e => Handled(m, k, q)
      /\ k.pid # e => q = m
  BY RowsAfter
<1>2. stage = "feeding"
  BY DEF Dealt
<1> SUFFICES RowsMove(k, e, P, Q, m.clock) /\ q.clock = m.clock
  OBVIOUS
<1> HIDE DEF m, P, Q, q
<1>3. m \in Record /\ q \in Record /\ m.cur \in Unit \cup {Nil}
  BY <1>1, RecordFields DEF RecordInv
<1>4. P \in Seq(Unit) /\ Q \in Seq(Unit) /\ Len(P) \in Nat
  BY <1>1, <1>3, PushedRows
<1>5. /\ DOMAIN P = 1 .. Len(P) /\ DOMAIN Q = 1 .. Len(Q)
      /\ \A i \in 1 .. Len(P) : P[i].pos \in Int /\ P[i].clock \in Int /\ P[i].hdr \in Int
  <2>1. \A i \in 1 .. Len(P) : P[i] \in Unit
    BY <1>4
  <2> QED
    BY <1>4, <2>1 DEF Unit
<1>6. CASE k.pid # e
  BY <1>1, <1>4, <1>5, <1>6 DEF Opens, RowsMove
<1>7. CASE k.pid = e
  <2>1. Opens(k, e) <=> OpensRow(m.kind, k)
    BY <1>1, <1>7 DEF Opens, OpensRow
  <2>2. q.cur # Nil => Q[Len(Q)] = q.cur
    <3>1. ASSUME q.cur # Nil PROVE Len(Q) = Len(q.units) + 1 /\ Q[Len(q.units) + 1] = q.cur
      BY <1>1, <1>3, <3>1, PushedRows
    <3> QED
      BY <3>1
  <2>3. m.cur = Nil /\ strs[e] = "scte35" => Len(P) = 0
    <3>1. ASSUME m.cur = Nil, strs[e] = "scte35" PROVE P = <<>>
      BY <1>1, <1>2, <3>1 DEF Told, RowInv, Pushed, Shown, Going
    <3> QED
      BY <3>1
  <2>4. Handled(m, k, q)
    BY <1>1, <1>7
  <2>5. /\ q.clock = m.clock
        /\ \/ /\ OpensRow(m.kind, k) /\ q.cur # Nil
              /\ Len(Q) = Len(P) + 1 /\ \A i \in 1 .. Len(P) : Q[i] = P[i]
              /\ q.cur.pos = k.pos /\ q.cur.clock = m.clock
              /\ m.kind = "scte35" => q.cur.hdr = k.pos
           \/ /\ ~k.pusi /\ m.kind = "scte35" /\ m.cur = Nil /\ q.cur # Nil
              /\ Len(Q) = Len(P) + 1
              /\ q.cur.hdr = NoPos
           \/ /\ ~OpensRow(m.kind, k) /\ Len(Q) = Len(P)
              /\ \A i \in 1 .. Len(P) : /\ Q[i].pos = P[i].pos /\ Q[i].clock = P[i].clock
                                        /\ m.kind = "scte35" => Q[i].hdr = P[i].hdr
    BY <1>1, <2>4 DEF Handled
  <2>6. CASE OpensRow(m.kind, k)
    BY <1>1, <1>4, <1>5, <2>1, <2>2, <2>5, <2>6 DEF OpensRow, RowsMove
  <2>7. CASE ~OpensRow(m.kind, k) /\ Len(Q) = Len(P)
    BY <1>1, <1>4, <1>5, <2>1, <2>5, <2>7 DEF RowsMove
  <2>8. CASE ~OpensRow(m.kind, k) /\ Len(Q) # Len(P)
    <3>1. /\ ~k.pusi /\ m.kind = "scte35" /\ m.cur = Nil /\ q.cur # Nil
          /\ Len(Q) = Len(P) + 1 /\ q.cur.hdr = NoPos
      BY <2>5, <2>8
    <3>2. Len(P) = 0 /\ strs[e] = "scte35"
      BY <1>1, <2>3, <3>1
    <3>3. Len(Q) = 1 /\ Q[1].hdr = NoPos
      BY <2>2, <3>1, <3>2
    <3>4. ~Opens(k, e)
      BY <2>1, <2>8
    <3>5. /\ ~Opens(k, e) /\ strs[e] = "scte35" /\ Len(P) = 0 /\ Len(Q) = 1
          /\ Q[1].hdr = NoPos
      BY <3>2, <3>3, <3>4
    <3>6. q.clock = m.clock
      BY <2>5
    <3> QED
      BY <1>4, <1>5, <3>5, <3>6 DEF RowsMove
  <2> QED
    BY <2>6, <2>7, <2>8
<1> QED
  BY <1>6, <1>7

LEMMA FedGrows ==
  ASSUME DemuxInv, NEW k, Dealt(k)
  PROVE  /\ Len(fed) \in Nat /\ DOMAIN fed = 1 .. Len(fed) /\ DOMAIN fed' = 1 .. Len(fed) + 1
         /\ Len(fed') = Len(fed) + 1
         /\ \A i \in 1 .. Len(fed) : fed'[i] = fed[i] /\ fed[i] \in Placed
         /\ fed'[Len(fed) + 1] = k /\ k \in Placed /\ k.pos = Len(fed)
         /\ strs' = strs /\ pcrs' = pcrs
<1>1. fed \in Seq(Placed) /\ k \in Placed /\ k.pos = Len(fed) /\ fed' = Append(fed, k)
      /\ strs' = strs /\ pcrs' = pcrs
  BY DEF Dealt, DemuxInv
<1> QED
  BY <1>1, AppendProperties

LEMMA RowsGrow ==
  ASSUME DemuxInv, RowInv, NEW k, Dealt(k), NEW e \in EsPid, records'[e] # Nil, StartsHaveRows(e)
  PROVE  StartsHaveRows(e)'
<1> DEFINE P == Rows(e)
           Q == Rows(e)'
           G == Genuine(e)
           H == Genuine(e)'
           O == {n \in DOMAIN fed : Opens(fed[n], e)}
           N == {n \in DOMAIN fed : Opens(fed[n], e)}'
           n1 == Len(fed)
           c == Notified(k)[e].clock
<1>1. /\ n1 \in Nat /\ DOMAIN fed = 1 .. n1 /\ DOMAIN fed' = 1 .. n1 + 1
      /\ \A i \in 1 .. n1 : fed'[i] = fed[i]
      /\ fed'[n1 + 1] = k /\ k.pos = n1 /\ strs' = strs
  BY FedGrows
<1>2. RowsMove(k, e, P, Q, c)
  BY RowsFollow
<1>3. {P[i].pos : i \in G} = {j - 1 : j \in O} /\ (\A i, j \in G : i < j => P[i].pos < P[j].pos)
      /\ (\A i \in DOMAIN P \ G : i = 1)
  BY DEF StartsHaveRows
<1>4. /\ G = {i \in DOMAIN P : ~(strs[e] = "scte35" /\ P[i].hdr = NoPos)}
      /\ H = {i \in DOMAIN Q : ~(strs[e] = "scte35" /\ Q[i].hdr = NoPos)}
  BY <1>1 DEF Genuine, IsPhantom
<1>5. N = O \cup (IF Opens(k, e) THEN {n1 + 1} ELSE {}) /\ O \in SUBSET (1 .. n1)
  <2>1. \A p : Opens(p, e)' <=> Opens(p, e)
    BY <1>1 DEF Opens
  <2> QED
    BY <1>1, <2>1
<1>6. \A i \in G : P[i].pos \in Int /\ P[i].pos < n1
  <2>1. \A i \in G : P[i].pos \in {j - 1 : j \in O}
    BY <1>3
  <2> QED
    BY <1>1, <1>5, <2>1
<1> SUFFICES /\ {Q[i].pos : i \in H} = {j - 1 : j \in N}
             /\ \A i, j \in H : i < j => Q[i].pos < Q[j].pos
             /\ \A i \in DOMAIN Q \ H : i = 1
  BY DEF StartsHaveRows
<1> HIDE DEF P, Q, G, H, O, N, n1, c
<1>7. CASE Opens(k, e)
  <2>1. /\ Len(P) \in Nat /\ DOMAIN P = 1 .. Len(P) /\ DOMAIN Q = 1 .. Len(P) + 1
        /\ \A i \in 1 .. Len(P) : Q[i] = P[i]
        /\ Q[Len(P) + 1].pos = n1 /\ (strs[e] = "scte35" => Q[Len(P) + 1].hdr = n1)
    BY <1>1, <1>2, <1>7 DEF RowsMove
  <2>2. H = G \cup {Len(P) + 1} /\ G \in SUBSET (1 .. Len(P))
    BY <1>1, <1>4, <2>1 DEF NoPos
  <2>3. {Q[i].pos : i \in H} = {P[i].pos : i \in G} \cup {n1}
    BY <2>1, <2>2
  <2>4. {j - 1 : j \in N} = {j - 1 : j \in O} \cup {n1}
    BY <1>1, <1>5, <1>7
  <2>5. ASSUME NEW i \in H, NEW j \in H, i < j PROVE Q[i].pos < Q[j].pos
    <3>1. i \in G /\ Q[i] = P[i]
      BY <2>1, <2>2, <2>5
    <3>2. CASE j \in G
      BY <1>3, <2>1, <2>2, <2>5, <3>1, <3>2
    <3>3. CASE j = Len(P) + 1
      BY <1>6, <2>1, <3>1, <3>3
    <3> QED
      BY <2>2, <3>2, <3>3
  <2>6. \A i \in DOMAIN Q \ H : i = 1
    BY <1>3, <2>1, <2>2
  <2> QED
    BY <1>3, <2>3, <2>4, <2>5, <2>6
<1>8. CASE ~Opens(k, e) /\ Len(Q) # Len(P)
  <2>1. DOMAIN P = {} /\ DOMAIN Q = {1} /\ Q[1].hdr = NoPos /\ strs[e] = "scte35"
    <3>1. Len(P) = 0 /\ Len(Q) = 1 /\ Q[1].hdr = NoPos /\ strs[e] = "scte35"
      BY <1>2, <1>8 DEF RowsMove
    <3>2. DOMAIN P = 1 .. 0 /\ DOMAIN Q = 1 .. 1
      BY <1>2, <3>1 DEF RowsMove
    <3> QED
      BY <3>1, <3>2
  <2>2. G = {} /\ H = {}
    BY <1>4, <2>1
  <2> QED
    BY <1>3, <1>5, <1>8, <2>1, <2>2
<1>9. CASE ~Opens(k, e) /\ Len(Q) = Len(P)
  <2>1. /\ DOMAIN P = 1 .. Len(P) /\ DOMAIN Q = 1 .. Len(P)
        /\ \A i \in 1 .. Len(P) : Q[i].pos = P[i].pos /\ (strs[e] = "scte35" => Q[i].hdr = P[i].hdr)
    <3>1. ~(Len(P) = 0 /\ Len(Q) = 1)
      BY <1>9
    <3> QED
      BY <1>2, <1>9, <3>1 DEF RowsMove
  <2>2. H = G
    BY <1>4, <2>1
  <2>3. \A i \in G : Q[i].pos = P[i].pos
    BY <1>4, <2>1
  <2>4. {Q[i].pos : i \in H} = {P[i].pos : i \in G}
    BY <2>2, <2>3
  <2> QED
    BY <1>3, <1>5, <1>9, <2>1, <2>2, <2>3, <2>4
<1> QED
  BY <1>7, <1>8, <1>9

LEMMA LatestStays ==
  ASSUME DemuxInv, NEW k, Dealt(k), NEW e \in EsPid, NEW c \in Int, NEW pos \in Int, pos < Len(fed),
         IsLatestPcr(c, e, pos)
  PROVE  IsLatestPcr(c, e, pos)'
<1> DEFINE b == {i \in 1 .. pos + 1 : fed[i].pcr /\ e \in pcrs[fed[i].pid]}
           d == {i \in 1 .. pos + 1 : fed'[i].pcr /\ e \in pcrs'[fed'[i].pid]}
<1>1. b = d
  <2>1. \A i \in 1 .. pos + 1 : i \in 1 .. Len(fed)
    BY FedGrows
  <2> QED
    BY <2>1, FedGrows
<1>2. IF b = {} THEN c = NoPos ELSE c + 1 \in b /\ \A i \in b : i <= c + 1
  BY DEF IsLatestPcr
<1>3. IF d = {} THEN c = NoPos ELSE c + 1 \in d /\ \A i \in d : i <= c + 1
  BY <1>1, <1>2
<1> QED
  BY <1>3 DEF IsLatestPcr

\* The clock of a record is up to date with the packet just received.
LEMMA LatestFollows ==
  ASSUME DemuxInv, NEW k, Dealt(k), NEW e \in EsPid, NEW old \in Int, NEW c,
         IsLatestPcr(old, e, Len(fed) - 1), c = IF e \in Clocked(k) THEN k.pos ELSE old,
         NEW n, n = Len(fed)
  PROVE  IsLatestPcr(c, e, n)'
<1> DEFINE b == {i \in 1 .. n : fed[i].pcr /\ e \in pcrs[fed[i].pid]}
           d == {i \in 1 .. n + 1 : fed'[i].pcr /\ e \in pcrs'[fed'[i].pid]}
<1>1. n \in Nat /\ k.pos = n /\ pcrs' = pcrs /\ fed'[n + 1] = k /\ \A i \in 1 .. n : fed'[i] = fed[i]
  BY FedGrows
<1>2. IF b = {} THEN old = NoPos ELSE old + 1 \in b /\ \A i \in b : i <= old + 1
  <2>1. 1 .. (Len(fed) - 1) + 1 = 1 .. n
    BY <1>1
  <2> QED
    BY <2>1 DEF IsLatestPcr
<1>3. d = b \cup (IF e \in Clocked(k) THEN {n + 1} ELSE {})
  BY <1>1 DEF Clocked
<1>4. \A i \in b : i \in Nat /\ i <= n
  BY <1>1
<1> SUFFICES IF d = {} THEN c = NoPos ELSE c + 1 \in d /\ \A i \in d : i <= c + 1
  BY DEF IsLatestPcr
<1> HIDE DEF b, d
<1>5. CASE e \in Clocked(k)
  BY <1>1, <1>3, <1>4, <1>5
<1>6. CASE e \notin Clocked(k)
  BY <1>2, <1>3, <1>6
<1> QED
  BY <1>5, <1>6

LEMMA ClocksFollow ==
  ASSUME DemuxInv, RowInv, NEW k, Dealt(k), NEW e \in EsPid, records'[e] # Nil,
         StartsHaveRows(e), RowsAreTimed(e), IsLatestPcr(records[e].clock, e, Len(fed) - 1)
  PROVE  RowsAreTimed(e)' /\ IsLatestPcr(records[e].clock, e, Len(fed) - 1)'
<1> DEFINE P == Rows(e)
           Q == Rows(e)'
           G == Genuine(e)
           H == Genuine(e)'
           n1 == Len(fed)
           c == Notified(k)[e].clock
<1>1. /\ n1 \in Nat /\ DOMAIN fed = 1 .. n1 /\ Len(fed') = n1 + 1 /\ k.pos = n1 /\ strs' = strs
  BY FedGrows
<1>2. RowsMove(k, e, P, Q, c) /\ records'[e].clock = c
  BY RowsFollow
<1>3. /\ G = {i \in DOMAIN P : ~(strs[e] = "scte35" /\ P[i].hdr = NoPos)}
      /\ H = {i \in DOMAIN Q : ~(strs[e] = "scte35" /\ Q[i].hdr = NoPos)}
  BY <1>1 DEF Genuine, IsPhantom
<1>4. c = (IF e \in Clocked(k) THEN k.pos ELSE records[e].clock) /\ records[e].clock \in Int
  BY RowsAfter, RecordFields DEF RecordInv
<1>5. PICK now : now = c
  OBVIOUS
<1>6. PICK n : n = n1
  OBVIOUS
<1>7. IsLatestPcr(now, e, n)'
  <2>1. PICK old : old = records[e].clock
    OBVIOUS
  <2>2. old \in Int /\ IsLatestPcr(old, e, Len(fed) - 1) /\ now = IF e \in Clocked(k) THEN k.pos ELSE old
    BY <1>4, <1>5, <2>1
  <2> HIDE DEF c
  <2> QED
    BY <1>6, <2>2, LatestFollows
<1>8. IsLatestPcr(records[e].clock, e, Len(fed) - 1)'
  <2>1. now = records'[e].clock /\ n = Len(fed') - 1
    BY <1>1, <1>2, <1>5, <1>6
  <2> QED
    BY <1>7, <2>1 DEF IsLatestPcr
<1>9. ASSUME NEW i \in G, Q[i].pos = P[i].pos, Q[i].clock = P[i].clock
      PROVE  IsLatestPcr(Rows(e)[i].clock, e, Rows(e)[i].pos)'
  <2>1. PICK old, pos : old = P[i].clock /\ pos = P[i].pos
    OBVIOUS
  <2>2. pos \in Int /\ pos < n1
    <3>1. pos \in {j - 1 : j \in {m \in DOMAIN fed : Opens(fed[m], e)}}
      BY <2>1 DEF StartsHaveRows
    <3> QED
      BY <1>1, <3>1
  <2>3. IsLatestPcr(old, e, pos)
    BY <2>1 DEF RowsAreTimed
  <2>4. old \in Int
    BY <1>2, <1>3, <2>1 DEF RowsMove
  <2>5. IsLatestPcr(old, e, pos)'
    BY <2>2, <2>3, <2>4, LatestStays
  <2> QED
    BY <1>9, <2>1, <2>5 DEF IsLatestPcr
<1>10. ASSUME NEW i \in H PROVE IsLatestPcr(Rows(e)[i].clock, e, Rows(e)[i].pos)'
  <2> HIDE DEF P, Q, G, H, n1, c
  <2>1. CASE Opens(k, e)
    <3>1. CASE i = Len(Q)
      <4>1. Q[i].pos = n /\ Q[i].clock = now
        BY <1>1, <1>2, <1>5, <1>6, <2>1, <3>1 DEF RowsMove
      <4> QED
        BY <1>7, <4>1 DEF IsLatestPcr, Q
    <3>2. CASE i # Len(Q)
      <4>1. i \in 1 .. Len(P) /\ Q[i] = P[i]
        BY <1>2, <1>3, <2>1, <3>2 DEF RowsMove
      <4>2. i \in G
        BY <1>2, <1>3, <4>1 DEF RowsMove
      <4> QED
        BY <1>9, <4>1, <4>2
    <3> QED
      BY <3>1, <3>2
  <2>2. CASE ~Opens(k, e)
    <3>1. Len(Q) = Len(P)
      <4>1. ASSUME Len(P) = 0, Len(Q) = 1, strs[e] = "scte35", Q[1].hdr = NoPos PROVE FALSE
        <5>1. i \in 1 .. 1
          BY <1>2, <1>3, <4>1 DEF RowsMove
        <5> QED
          BY <1>3, <4>1, <5>1
      <4> QED
        BY <1>2, <2>2, <4>1 DEF RowsMove
    <3>2. i \in 1 .. Len(P) /\ Q[i].pos = P[i].pos /\ Q[i].clock = P[i].clock
          /\ (strs[e] = "scte35" => Q[i].hdr = P[i].hdr)
      <4>1. ~(Len(P) = 0 /\ Len(Q) = 1)
        BY <3>1
      <4>2. i \in 1 .. Len(P)
        BY <1>2, <1>3, <3>1 DEF RowsMove
      <4> QED
        BY <1>2, <2>2, <4>1, <4>2 DEF RowsMove
    <3>3. i \in G
      BY <1>2, <1>3, <3>2 DEF RowsMove
    <3> QED
      BY <1>9, <3>2, <3>3
  <2> QED
    BY <2>1, <2>2
<1> QED
  BY <1>8, <1>10 DEF RowsAreTimed

\* Before the first packet a record has no rows and no clock.
LEMMA RowsAtFirst ==
  ASSUME DemuxInv, RowInv, stage = "waiting", stage' = "feeding", UNCHANGED <<strs, pcrs, lists, fed, reported>>,
         records' = [e \in EsPid |-> IF strs[e] = Nil THEN Nil ELSE RecordOf(strs[e])],
         NEW e \in EsPid, records'[e] # Nil
  PROVE  /\ Rows(e)' = <<>> /\ fed' = <<>> /\ records'[e] = RecordOf(strs[e]) /\ strs[e] \in StreamKind
         /\ records'[e].cur = Nil /\ records'[e].units = <<>> /\ records'[e].clock = NoPos
         /\ records'[e].acc = Nil /\ records'[e].wait = FALSE
<1>1. strs[e] # Nil /\ records'[e] = RecordOf(strs[e]) /\ reported' = {} /\ fed' = <<>>
  BY DEF DemuxInv, RowInv
<1>2. records'[e].cur = Nil /\ records'[e].units = <<>> /\ records'[e].clock = NoPos
      /\ records'[e].acc = Nil /\ records'[e].wait = FALSE
  BY <1>1 DEF RecordOf
<1>3. Rows(e)' = <<>>
  BY <1>1, <1>2 DEF Rows, Pushed
<1> QED
  BY <1>1, <1>2, <1>3 DEF DemuxInv

\* Without a packet, the report of one record only moves its open unit to its rows.
LEMMA RowsRest ==
  ASSUME DemuxInv, UNCHANGED <<strs, pcrs, lists, fed>>, NEW e \in EsPid,
         records[e] # Nil, Rows(e)' = Rows(e)
  PROVE  /\ StartsHaveRows(e) => StartsHaveRows(e)'
         /\ RowsAreTimed(e) => RowsAreTimed(e)'
<1>1. Genuine(e)' = Genuine(e)
  BY DEF Genuine, IsPhantom
<1>2. {n \in DOMAIN fed : Opens(fed[n], e)}' = {n \in DOMAIN fed : Opens(fed[n], e)}
  BY DEF Opens
<1>3. \A c, pos : IsLatestPcr(c, e, pos)' <=> IsLatestPcr(c, e, pos)
  BY DEF IsLatestPcr
<1>4. ASSUME StartsHaveRows(e) PROVE StartsHaveRows(e)'
  BY <1>1, <1>2, <1>4 DEF StartsHaveRows
<1>5. ASSUME RowsAreTimed(e) PROVE RowsAreTimed(e)'
  <2>1. ASSUME NEW i \in Genuine(e)' PROVE IsLatestPcr(Rows(e)[i].clock, e, Rows(e)[i].pos)'
    <3>1. IsLatestPcr(Rows(e)[i].clock, e, Rows(e)[i].pos)
      BY <1>1, <1>5, <2>1 DEF RowsAreTimed
    <3> QED
      BY <3>1 DEF IsLatestPcr
  <2> QED
    BY <2>1 DEF RowsAreTimed
<1> QED
  BY <1>4, <1>5

LEMMA RowStep == DemuxInv /\ RowInv /\ [DemuxNext]_demuxVars => RowInv'
<1> SUFFICES ASSUME DemuxInv, RowInv, [DemuxNext]_demuxVars PROVE RowInv'
  OBVIOUS
<1> DEFINE Timely(e) ==
             /\ IsLatestPcr(records[e].clock, e, Len(fed) - 1)
             /\ strs[e] = "scte35" /\ records[e].cur = Nil => records[e].units = <<>>
<1>a. RowInv <=> /\ stage = "waiting" => fed = <<>>
                 /\ \A e \in EsPid : Shown /\ records[e] # Nil =>
                      StartsHaveRows(e) /\ RowsAreTimed(e) /\ Timely(e)
  BY DEF RowInv
<1>b. RowInv' <=> /\ stage' = "waiting" => fed' = <<>>
                  /\ \A e \in EsPid : Shown' /\ records'[e] # Nil =>
                       StartsHaveRows(e)' /\ RowsAreTimed(e)' /\ Timely(e)'
  BY DEF RowInv
<1>1. CASE ~Shown'
  <2>1. stage' # "waiting"
    BY <1>1 DEF Shown, Going
  <2> QED
    BY <1>1, <1>b, <2>1
<1>2. CASE stage = "waiting" /\ stage' = "waiting" /\ UNCHANGED <<records, lists, fed, reported>>
  <2>1. \A e \in EsPid : records'[e] = Nil
    BY <1>2 DEF DemuxInv
  <2> QED
    BY <1>2, <1>a, <1>b, <2>1
<1>3. CASE /\ stage = "waiting" /\ stage' = "feeding" /\ UNCHANGED <<strs, pcrs, lists, fed, reported>>
           /\ records' = [e \in EsPid |-> IF strs[e] = Nil THEN Nil ELSE RecordOf(strs[e])]
  <2> SUFFICES ASSUME NEW e \in EsPid, records'[e] # Nil
               PROVE  StartsHaveRows(e)' /\ RowsAreTimed(e)' /\ Timely(e)'
    BY <1>3, <1>b
  <2>1. Rows(e)' = <<>> /\ fed' = <<>> /\ records'[e].units = <<>> /\ records'[e].clock = NoPos
    BY <1>3, RowsAtFirst
  <2>2. Genuine(e)' = {}
    BY <2>1 DEF Genuine
  <2>3. IsLatestPcr(records[e].clock, e, Len(fed) - 1)'
    <3>1. 1 .. (Len(fed') - 1) + 1 = {}
      BY <2>1
    <3> QED
      BY <2>1, <3>1 DEF IsLatestPcr
  <2> QED
    BY <2>1, <2>2, <2>3 DEF StartsHaveRows, RowsAreTimed
<1>4. ASSUME NEW k, Dealt(k) PROVE RowInv'
  <2> SUFFICES ASSUME NEW e \in EsPid, records'[e] # Nil
               PROVE  StartsHaveRows(e)' /\ RowsAreTimed(e)' /\ Timely(e)'
    BY <1>4, <1>b DEF Dealt
  <2>1. records[e] # Nil /\ stage = "feeding"
    BY <1>4, RowsAfter DEF Dealt
  <2>2. StartsHaveRows(e) /\ RowsAreTimed(e) /\ Timely(e)
    BY <1>a, <2>1 DEF Shown, Going
  <2>3. StartsHaveRows(e)' /\ RowsAreTimed(e)' /\ IsLatestPcr(records[e].clock, e, Len(fed) - 1)'
    BY <1>4, <2>2, RowsGrow, ClocksFollow
  <2>4. ASSUME strs'[e] = "scte35", records'[e].cur = Nil PROVE records'[e].units = <<>>
    <3> DEFINE m == Notified(k)[e]
    <3>1. /\ RecordInv(m) /\ Told(records[e], m) /\ m.kind = "scte35" /\ k \in Placed
          /\ records'[e] = m \/ (records'[e] \in Process(m, k) /\ RecordInv(records'[e]))
      BY <1>4, <2>4, RowsAfter DEF Dealt
    <3>2. CASE records'[e] = m
      BY <1>4, <2>2, <2>4, <3>1, <3>2 DEF Told, Dealt
    <3>3. CASE records'[e] = ScteProcess(m, k) /\ records'[e] # m
      <4> HIDE DEF m
      <4>1. k.pusi \in BOOLEAN /\ k.len \in Nat /\ k.pos \in Nat /\ m \in Record
        BY <3>1, PlacedType DEF RecordInv
      <4>2. CASE k.pusi
        <5>1. records'[e].cur = [pos |-> k.pos, clock |-> m.clock, hdr |-> k.pos, size |-> k.len]
          BY <3>3, <4>1, <4>2, Zenon DEF ScteProcess, Record
        <5>2. records'[e].cur \in Unit
          BY <4>1, <5>1, RecordFields DEF Unit
        <5> QED
          BY <2>4, <5>2, DemuxAssumption
      <4>3. CASE ~k.pusi /\ m.cur # Nil
        <5>1. StaysOpen(m, records'[e])
          BY <3>1, <3>3, <4>3, ScteFields
        <5> QED
          BY <2>4, <5>1 DEF StaysOpen
      <4>4. CASE ~k.pusi /\ m.cur = Nil
        <5>1. m.units = <<>>
          BY <1>4, <2>2, <2>4, <3>1, <4>4 DEF Told, Dealt
        <5>2. records'[e] = m \/ records'[e].units = m.units
          BY <3>3, <4>1, <4>4 DEF ScteProcess, Record
        <5> QED
          BY <3>3, <5>1, <5>2
      <4> QED
        BY <4>1, <4>2, <4>3, <4>4
    <3> QED
      BY <3>1, <3>2, <3>3 DEF Process
  <2> QED
    BY <2>3, <2>4
<1>5. CASE /\ stage' # "waiting" /\ Shown
           /\ UNCHANGED <<strs, pcrs, lists, fed>>
           /\ \A e \in EsPid : /\ records'[e] = Nil <=> records[e] = Nil
                               /\ records[e] # Nil => Same(records[e], records'[e]) /\ Rows(e)' = Rows(e)
  <2> SUFFICES ASSUME NEW e \in EsPid, records'[e] # Nil
               PROVE  StartsHaveRows(e)' /\ RowsAreTimed(e)' /\ Timely(e)'
    BY <1>5, <1>b
  <2>1. records[e] # Nil /\ Same(records[e], records'[e]) /\ Rows(e)' = Rows(e)
    BY <1>5
  <2>2. StartsHaveRows(e) /\ RowsAreTimed(e) /\ Timely(e)
    BY <1>5, <1>a, <2>1
  <2>3. StartsHaveRows(e)' /\ RowsAreTimed(e)'
    BY <1>5, <2>1, <2>2, RowsRest
  <2>4. Timely(e)'
    BY <1>5, <2>1, <2>2 DEF Same, IsLatestPcr
  <2> QED
    BY <2>3, <2>4
<1> QED
  BY <1>1, <1>2, <1>3, <1>4, <1>5, PassSteps

\* In every file each start of a PES packet or a section, of a stream of the tables,
\* has one row of the report, and rows are in file order.
THEOREM StartsHaveTheirRows == DemuxSpec => []EveryStartHasItsRow
<1>1. RowInv => EveryStartHasItsRow
  BY DEF RowInv, EveryStartHasItsRow, StartsHaveRows, Seen, Shown
<1> QED
  BY <1>1, DemuxInitInv, DemuxStep, RowInit, RowStep, PTL DEF DemuxSpec

\* The clock of every row is the last PCR its stream was told before its first
\* payload, that of its own packet included.
THEOREM RowsHaveTheLatestPcr == DemuxSpec => []ClockIsTheLatest
<1>1. RowInv => ClockIsTheLatest
  BY DEF RowInv, ClockIsTheLatest, RowsAreTimed, Seen, Shown
<1> QED
  BY <1>1, DemuxInitInv, DemuxStep, RowInit, RowStep, PTL DEF DemuxSpec

-----------------------------------------------------------------------------
(* Payload *)

LEMMA LeastIs ==
  ASSUME NEW S \in SUBSET Nat, S # {}
  PROVE  Min(S) \in S /\ \A y \in S : Min(S) <= y
BY LeastOf DEF Min

LEMMA StartsGrow ==
  ASSUME DemuxInv, NEW k, Dealt(k), NEW e \in EsPid
  PROVE  /\ Starts(e) \in SUBSET (1 .. Len(fed))
         /\ Starts(e)' = Starts(e) \cup (IF k.pid = e /\ k.pusi THEN {Len(fed) + 1} ELSE {})
         /\ \A i \in Starts(e) : fed'[i] = fed[i]
BY FedGrows DEF Starts

\* What a stream received in the first n packets does not change any more.
LEMMA ReceivedGrows ==
  ASSUME DemuxInv, NEW k, Dealt(k), NEW e \in EsPid, NEW n, n = Len(fed)
  PROVE  /\ \A i \in 0 .. n : Received(e, i) \in Nat /\ Received(e, i)' = Received(e, i)
         /\ Received(e, n + 1)' = Received(e, n) + (IF k.pid = e THEN k.len ELSE 0)
         /\ Received(e, n + 1)' \in Nat
<1> DEFINE f == [j \in DOMAIN fed |-> IF fed[j].pid = e THEN fed[j].len ELSE 0]
           g == [j \in DOMAIN fed' |-> IF fed'[j].pid = e THEN fed'[j].len ELSE 0]
<1>1. /\ n \in Nat /\ DOMAIN fed = 1 .. n /\ DOMAIN fed' = 1 .. n + 1 /\ fed'[n + 1] = k
      /\ \A i \in 1 .. n : fed'[i] = fed[i] /\ fed[i].len \in Nat
      /\ k.len \in Nat
  BY FedGrows, PlacedType
<1>2. DOMAIN f = 1 .. n /\ DOMAIN g = 1 .. n + 1
  BY <1>1
<1>3. (\A i \in DOMAIN f : f[i] \in Nat /\ f[i] \in Int) /\ (\A i \in DOMAIN g : g[i] \in Nat /\ g[i] \in Int)
  <2>1. \A i \in 1 .. n + 1 : i \in 1 .. n \/ i = n + 1
    BY <1>1
  <2> QED
    BY <1>1, <1>2, <2>1
<1>4. \A i \in 1 .. n : f[i] = g[i]
  BY <1>1
<1>5. g[n + 1] = IF k.pid = e THEN k.len ELSE 0
  BY <1>1
<1>6. (\A i : Received(e, i) = Total(f, i)) /\ (\A i : Received(e, i)' = Total(g, i))
  BY DEF Received
<1> HIDE DEF f, g
<1>7. ASSUME NEW i \in 0 .. n PROVE Total(f, i) \in Nat /\ Total(g, i) = Total(f, i)
  <2>1. i \in Nat /\ i <= i
    BY <1>1
  <2>2. Total(f, i) \in Nat
    BY <1>3, <2>1, TotalGrows
  <2>3. \A j \in 1 .. i : j \in DOMAIN f /\ j \in DOMAIN g /\ g[j] = f[j]
    BY <1>1, <1>2, <1>4
  <2>4. Total(g, i) = Total(f, i)
    BY <1>3, <2>1, <2>3, TotalAgrees
  <2> QED
    BY <2>2, <2>4
<1>8. Total(g, n + 1) = Total(g, n) + g[n + 1]
  <2>1. n + 1 \in DOMAIN g
    BY <1>1, <1>2
  <2> QED
    BY <1>1, <1>3, <2>1, TotalSteps
<1>9. n \in 0 .. n
  BY <1>1
<1> QED
  BY <1>1, <1>5, <1>6, <1>7, <1>8, <1>9

\* The payload of a unit grows as long as it is the last, and packets of its stream
\* arrive that start none.
LEMMA PayloadGrows ==
  ASSUME DemuxInv, NEW k, Dealt(k), NEW e \in EsPid, NEW i \in Starts(e)
  PROVE  /\ Payload(e, i) \in Int
         /\ Payload(e, i)' = Payload(e, i) + (IF k.pid = e /\ ~k.pusi /\ IsLastStart(e, i) THEN k.len ELSE 0)
         /\ IsLastStart(e, i)' <=> IsLastStart(e, i) /\ ~(k.pid = e /\ k.pusi)
         /\ IsLastStart(e, i) => Payload(e, i) = Received(e, Len(fed)) - Received(e, i - 1)
<1> DEFINE later == {j \in Starts(e) : j > i}
           next == {j \in Starts(e)' : j > i}
<1>0. PICK n : n = Len(fed)
  OBVIOUS
<1>1. /\ n \in Nat /\ Len(fed') = n + 1 /\ k.len \in Nat /\ Starts(e) \in SUBSET (1 .. n)
      /\ Starts(e)' = Starts(e) \cup (IF k.pid = e /\ k.pusi THEN {n + 1} ELSE {})
  BY <1>0, FedGrows, StartsGrow, PlacedType
<1>2. /\ \A j \in 0 .. n : Received(e, j) \in Nat /\ Received(e, j)' = Received(e, j)
      /\ Received(e, n + 1)' = Received(e, n) + (IF k.pid = e THEN k.len ELSE 0)
      /\ Received(e, n + 1)' \in Nat
  BY <1>0, ReceivedGrows
<1>3. i \in 1 .. n /\ i - 1 \in 0 .. n
  BY <1>1
<1>4. IsLastStart(e, i) <=> later = {}
  BY <1>1, <1>3 DEF IsLastStart
<1>5. next = later \cup (IF k.pid = e /\ k.pusi THEN {n + 1} ELSE {}) /\ later \in SUBSET (1 .. n)
  BY <1>1, <1>3
<1>6. IsLastStart(e, i)' <=> next = {}
  <2>1. Starts(e)' \in SUBSET (1 .. n + 1) /\ i \in Starts(e)'
    BY <1>1
  <2> QED
    BY <1>1, <1>3, <2>1 DEF IsLastStart
<1>7. PICK u, v : u = UnitEnd(e, i) /\ v = UnitEnd(e, i)'
  OBVIOUS
<1>8. /\ u = IF later = {} THEN n ELSE Min(later) - 1
      /\ v = IF next = {} THEN n + 1 ELSE Min(next) - 1
  BY <1>0, <1>1, <1>7 DEF UnitEnd
<1>9. Payload(e, i) = Received(e, u) - Received(e, i - 1)
      /\ Payload(e, i)' = Received(e, v)' - Received(e, i - 1)'
  BY <1>7 DEF Payload, Received
<1> HIDE DEF later, next
<1>10. CASE later # {}
  <2>1. next # {} /\ later \in SUBSET Nat /\ next \in SUBSET Nat
    BY <1>1, <1>5, <1>10
  <2>2. PICK ml, mn : ml = Min(later) /\ mn = Min(next)
    OBVIOUS
  <2>3. ml \in later /\ (\A y \in later : ml <= y) /\ mn \in next /\ (\A y \in next : mn <= y)
    BY <1>10, <2>1, <2>2, LeastIs
  <2>4. ml \in next /\ ml \in 1 .. n
    BY <1>5, <2>3
  <2>5. mn \in later
    BY <1>1, <1>5, <2>3, <2>4
  <2>6. mn = ml
    BY <1>5, <2>3, <2>4, <2>5
  <2>7. u = ml - 1 /\ v = mn - 1
    BY <1>8, <1>10, <2>1, <2>2
  <2>8. v = u /\ u \in 0 .. n
    BY <1>1, <2>4, <2>6, <2>7
  <2>9. ~IsLastStart(e, i) /\ ~IsLastStart(e, i)'
    BY <1>4, <1>6, <1>10, <2>1
  <2>10. /\ Payload(e, i) = Received(e, u) - Received(e, i - 1)
         /\ Payload(e, i)' = Received(e, u) - Received(e, i - 1)
         /\ Received(e, u) \in Nat /\ Received(e, i - 1) \in Nat
    <3>1. Received(e, v)' = Received(e, u) /\ Received(e, u) \in Nat
      BY <1>2, <2>8
    <3> QED
      BY <1>2, <1>3, <1>9, <3>1
  <2> QED
    BY <2>9, <2>10
<1>11. CASE later = {} /\ k.pid = e /\ k.pusi
  <2>1. next = {n + 1}
    BY <1>5, <1>11
  <2>2. Min(next) = n + 1
    <3>1. {n + 1} \in SUBSET Nat /\ {n + 1} # {}
      BY <1>1
    <3> QED
      BY <2>1, <3>1, LeastIs
  <2>3. u = n /\ v = n /\ n \in 0 .. n
    BY <1>1, <1>8, <1>11, <2>1, <2>2
  <2> QED
    BY <1>0, <1>2, <1>3, <1>4, <1>6, <1>9, <1>11, <2>1, <2>3
<1>12. CASE later = {} /\ ~(k.pid = e /\ k.pusi)
  <2>1. next = {} /\ u = n /\ v = n + 1 /\ n \in 0 .. n
    BY <1>1, <1>5, <1>8, <1>12
  <2> QED
    BY <1>0, <1>1, <1>2, <1>3, <1>4, <1>6, <1>9, <1>12, <2>1
<1> QED
  BY <1>10, <1>11, <1>12

\* A unit that just started has the payload of its first packet.
LEMMA PayloadStarts ==
  ASSUME DemuxInv, NEW k, Dealt(k), NEW e \in EsPid, k.pid = e, k.pusi, NEW n, n = Len(fed)
  PROVE  IsLastStart(e, n + 1)' /\ Payload(e, n + 1)' = k.len
<1>1. /\ n \in Nat /\ Len(fed') = n + 1 /\ k.len \in Nat /\ Starts(e) \in SUBSET (1 .. n)
      /\ Starts(e)' = Starts(e) \cup {n + 1}
  BY FedGrows, StartsGrow, PlacedType
<1>2. IsLastStart(e, n + 1)' /\ {j \in Starts(e)' : j > n + 1} = {}
  BY <1>1 DEF IsLastStart
<1>3. UnitEnd(e, n + 1)' = n + 1
  BY <1>1, <1>2 DEF UnitEnd
<1>4. Payload(e, n + 1)' = Received(e, n + 1)' - Received(e, n)'
  <2>1. (n + 1) - 1 = n
    BY <1>1
  <2> QED
    BY <1>3, <2>1 DEF Payload, Received
<1>5. n \in 0 .. n
  BY <1>1
<1> QED
  BY <1>1, <1>2, <1>4, <1>5, ReceivedGrows

-----------------------------------------------------------------------------
(* The open unit *)

\* The open unit of an audio, private or MPEG-2 stream is the one its last start
\* opened, with the header of that start and all payload behind it; none is open
\* before the first start, and behind a padding stream.
PesOpen(e, r) ==
  IF r.cur = Nil
    THEN \A i \in Starts(e) : IsLastStart(e, i) => strs[e] = "pes" /\ fed[i].head = "padding"
    ELSE LET n == r.cur.pos + 1
         IN  IsLastStart(e, n) /\ r.cur.hdr = Stamp(fed[n]) /\ r.cur.size = Content(e, n)

\* So it is in a video stream, or its payload is still being collected, from its
\* own start on, and is less than a header.
VideoOpen(e, r) ==
  IF r.cur = Nil THEN Starts(e) = {} /\ ~r.wait
  ELSE LET n == r.cur.pos + 1
       IN  /\ IsLastStart(e, n)
           /\ IF r.wait
                THEN /\ Short(fed[n]) /\ Payload(e, n) < MinHeader
                     /\ r.cur.hdr = NoPos /\ r.cur.size = 0
                     /\ r.acc = [from |-> fed[n].pos, len |-> Payload(e, n),
                                 head |-> fed[n].head, hlen |-> fed[n].hlen]
                ELSE /\ ~(Payload(e, n) < MinHeader)
                     /\ r.cur.hdr = Stamp(fed[n]) /\ r.cur.size = Content(e, n)

\* What is collected for a splice section is all payload since its start.
ScteOpen(e, r) ==
  IF r.cur = Nil THEN r.acc = Nil /\ Starts(e) = {} /\ Received(e, Len(fed)) = 0
  ELSE IF r.cur.hdr = NoPos THEN Starts(e) = {} /\ Received(e, Len(fed)) > 0
  ELSE \E i \in Starts(e) : IsLastStart(e, i) /\ r.acc.len = Payload(e, i) /\ r.acc.hlen = fed[i].hlen

UnitOpen(e, r) ==
  /\ strs[e] \in {"pes", "mp2v"} => PesOpen(e, r)
  /\ strs[e] = "video" /\ Collectable(e) => VideoOpen(e, r)
  /\ strs[e] = "scte35" => ScteOpen(e, r)

\* Only the last unit can be open: a new packet can still complete it.
LEMMA CollectableBefore ==
  ASSUME DemuxInv, NEW k, Dealt(k), NEW e \in EsPid, Collectable(e)'
  PROVE  /\ Collectable(e)
         /\ k.pid = e /\ k.pusi => \A i \in Starts(e) : Short(fed[i]) => Payload(e, i) >= MinHeader
<1>1. ASSUME NEW i \in Starts(e), Short(fed[i])
      PROVE  /\ fed[i].head # "raw" /\ (Payload(e, i) >= MinHeader \/ IsLastStart(e, i))
             /\ k.pid = e /\ k.pusi => Payload(e, i) >= MinHeader
  <2>1. i \in Starts(e)' /\ fed'[i] = fed[i]
    BY StartsGrow
  <2>2. fed'[i].head # "raw" /\ (Payload(e, i)' >= MinHeader \/ IsLastStart(e, i)')
    BY <1>1, <2>1 DEF Collectable, Short
  <2>3. /\ Payload(e, i) \in Int
        /\ Payload(e, i)' = Payload(e, i) + (IF k.pid = e /\ ~k.pusi /\ IsLastStart(e, i) THEN k.len ELSE 0)
        /\ IsLastStart(e, i)' <=> IsLastStart(e, i) /\ ~(k.pid = e /\ k.pusi)
    BY PayloadGrows
  <2> QED
    BY <2>1, <2>2, <2>3
<1> QED
  BY <1>1 DEF Collectable

\* How the last unit of e goes on with packet k, n being the packet it started in.
LEMMA LastUnit ==
  ASSUME DemuxInv, NEW k, Dealt(k), NEW e \in EsPid, NEW n \in Starts(e), IsLastStart(e, n),
         ~(k.pid = e /\ k.pusi), NEW d, d = IF k.pid = e THEN k.len ELSE 0
  PROVE  /\ d \in Nat /\ IsLastStart(e, n)' /\ fed'[n] = fed[n] /\ fed[n] \in Placed
         /\ Payload(e, n) \in Int /\ Payload(e, n)' = Payload(e, n) + d
         /\ Content(e, n) \in Int /\ Content(e, n)' = Content(e, n) + d
<1>1. fed'[n] = fed[n] /\ fed[n] \in Placed /\ k \in Placed
  BY FedGrows, StartsGrow
<1>2. d \in Nat /\ fed[n].hlen \in Nat
  BY <1>1, PlacedType
<1>3. Payload(e, n) \in Int /\ Payload(e, n)' = Payload(e, n) + d /\ IsLastStart(e, n)'
  BY <1>2, PayloadGrows
<1>4. PICK h : h = IF fed[n].head = "pes" THEN fed[n].hlen ELSE 0
  OBVIOUS
<1>5. Content(e, n) = Payload(e, n) - h /\ Content(e, n)' = Payload(e, n)' - h /\ h \in Nat
  BY <1>1, <1>2, <1>4 DEF Content
<1> QED
  BY <1>1, <1>2, <1>3, <1>5

\* And with a start of e, the last unit is the one that the packet starts.
LEMMA FirstOfUnit ==
  ASSUME DemuxInv, NEW k, Dealt(k), NEW e \in EsPid, k.pid = e, k.pusi, NEW n, n = Len(fed) + 1
  PROVE  /\ n = k.pos + 1 /\ fed'[n] = k /\ n \in Starts(e)' /\ IsLastStart(e, n)'
         /\ \A i \in Starts(e)' : IsLastStart(e, i)' => i = n
         /\ Payload(e, n)' = k.len /\ k.len \in Nat
         /\ Content(e, n)' = Strip(k)
<1>1. PICK p : p = Len(fed)
  OBVIOUS
<1>2. /\ p \in Nat /\ n = p + 1 /\ fed'[n] = k /\ k.pos = p /\ k.len \in Nat /\ k.hlen \in Nat
      /\ Starts(e) \in SUBSET (1 .. p) /\ Starts(e)' = Starts(e) \cup {n}
  BY <1>1, FedGrows, StartsGrow, PlacedType
<1>3. IsLastStart(e, n)' /\ Payload(e, n)' = k.len
  BY <1>1, <1>2, PayloadStarts
<1>4. ASSUME NEW i \in Starts(e)', IsLastStart(e, i)' PROVE i = n
  <2>1. n <= i
    BY <1>2, <1>4 DEF IsLastStart
  <2> QED
    BY <1>2, <2>1
<1>5. Content(e, n)' = Strip(k)
  BY <1>2, <1>3 DEF Content, Strip
<1> QED
  BY <1>2, <1>3, <1>4, <1>5

\* A packet of another PID leaves the open unit as it is.
LEMMA OpenElsewhere ==
  ASSUME DemuxInv, NEW k, Dealt(k), NEW e \in EsPid, k.pid # e, NEW r, NEW m, Told(r, m), UnitOpen(e, r)
  PROVE  UnitOpen(e, m)'
<1>1. /\ Starts(e)' = Starts(e) /\ strs' = strs
      /\ m.cur = r.cur /\ m.wait = r.wait /\ m.acc = r.acc
  <2>1. Starts(e)' = Starts(e) \cup (IF k.pid = e /\ k.pusi THEN {Len(fed) + 1} ELSE {})
    BY StartsGrow
  <2> QED
    BY <2>1, FedGrows DEF Told
<1>2. ASSUME NEW n \in Starts(e)
      PROVE  /\ IsLastStart(e, n)' <=> IsLastStart(e, n)
             /\ fed'[n] = fed[n]
             /\ IsLastStart(e, n) => Payload(e, n)' = Payload(e, n) /\ Content(e, n)' = Content(e, n)
  <2>1. /\ IsLastStart(e, n)' <=> IsLastStart(e, n)
        /\ Payload(e, n)' = Payload(e, n) /\ fed'[n] = fed[n]
    BY PayloadGrows, StartsGrow
  <2> QED
    BY <2>1 DEF Content
<1>3. Received(e, Len(fed))' = Received(e, Len(fed))
  <2>1. PICK n : n = Len(fed)
    OBVIOUS
  <2>2. n \in Nat /\ Len(fed') = n + 1 /\ n \in 0 .. n
    BY <2>1, FedGrows
  <2>3. Received(e, n + 1)' = Received(e, n) + 0 /\ Received(e, n) \in Nat
    BY <2>1, <2>2, ReceivedGrows
  <2>4. Received(e, Len(fed))' = Received(e, n + 1)'
    BY <2>2 DEF Received
  <2> QED
    BY <2>1, <2>3, <2>4
<1>4. ASSUME strs[e] \in {"pes", "mp2v"} PROVE PesOpen(e, m)'
  <2>1. PesOpen(e, r)
    BY <1>4 DEF UnitOpen
  <2>2. CASE r.cur = Nil
    BY <1>1, <1>2, <2>1, <2>2 DEF PesOpen
  <2>3. CASE r.cur # Nil
    BY <1>1, <1>2, <2>1, <2>3 DEF PesOpen, IsLastStart
  <2> QED
    BY <2>2, <2>3
<1>5. ASSUME strs[e] = "video", Collectable(e)' PROVE VideoOpen(e, m)'
  <2>1. VideoOpen(e, r)
    BY <1>5, CollectableBefore DEF UnitOpen
  <2>2. CASE r.cur = Nil
    BY <1>1, <2>1, <2>2 DEF VideoOpen
  <2>3. CASE r.cur # Nil
    BY <1>1, <1>2, <2>1, <2>3 DEF VideoOpen, IsLastStart, Short
  <2> QED
    BY <2>2, <2>3
<1>6. ASSUME strs[e] = "scte35" PROVE ScteOpen(e, m)'
  BY <1>1, <1>2, <1>3, <1>6 DEF UnitOpen, ScteOpen
<1> QED
  BY <1>1, <1>4, <1>5, <1>6 DEF UnitOpen

LEMMA OpenInPes ==
  ASSUME DemuxInv, NEW k, Dealt(k), NEW e \in EsPid, k.pid = e, strs[e] \in {"pes", "mp2v"},
         NEW r, RecordInv(r), r.kind = strs[e], PesOpen(e, r), ~HeaderCut(k), NEW q,
         q = IF r.kind = "pes" THEN PesProcess(r, k) ELSE Mp2vProcess(r, k)
  PROVE  PesOpen(e, q)'
<1>1. r \in Record /\ k \in Placed /\ k.pusi \in BOOLEAN /\ k.len \in Nat /\ strs' = strs
  BY FedGrows, PlacedType DEF RecordInv
<1>2. CASE ~k.pusi /\ r.cur = Nil
  <2>1. q = r
    BY <1>2 DEF PesProcess, Mp2vProcess
  <2>2. Starts(e)' = Starts(e)
    BY <1>2, StartsGrow
  <2>3. ASSUME NEW i \in Starts(e)', IsLastStart(e, i)' PROVE strs'[e] = "pes" /\ fed'[i].head = "padding"
    <3>1. i \in Starts(e) /\ IsLastStart(e, i)
      BY <2>2, <2>3 DEF IsLastStart
    <3>2. fed'[i] = fed[i]
      BY <3>1, StartsGrow
    <3> QED
      BY <1>1, <1>2, <3>1, <3>2 DEF PesOpen
  <2> QED
    BY <1>2, <2>1, <2>3 DEF PesOpen
<1>3. CASE ~k.pusi /\ r.cur # Nil
  <2>1. q = Grown(r, k.len)
    BY <1>3 DEF PesProcess, Mp2vProcess
  <2>2. q.cur # Nil /\ q.cur.pos = r.cur.pos /\ q.cur.hdr = r.cur.hdr /\ q.cur.size = r.cur.size + k.len
    BY <1>1, <1>3, <2>1, GrownStays DEF StaysOpen
  <2>3. PICK n : n = r.cur.pos + 1
    OBVIOUS
  <2>4. n \in Starts(e) /\ IsLastStart(e, n) /\ r.cur.hdr = Stamp(fed[n]) /\ r.cur.size = Content(e, n)
    BY <1>3, <2>3 DEF PesOpen, IsLastStart
  <2>5. IsLastStart(e, n)' /\ fed'[n] = fed[n] /\ Content(e, n)' = Content(e, n) + k.len
    BY <1>3, <2>4, LastUnit
  <2>6. n = q.cur.pos + 1 /\ IsLastStart(e, n)' /\ q.cur.hdr = Stamp(fed'[n]) /\ q.cur.size = Content(e, n)'
    BY <2>2, <2>3, <2>4, <2>5
  <2> QED
    BY <2>2, <2>6 DEF PesOpen
<1>4. CASE k.pusi
  <2>1. PICK n : n = Len(fed) + 1
    OBVIOUS
  <2>2. /\ n = k.pos + 1 /\ fed'[n] = k /\ IsLastStart(e, n)' /\ Content(e, n)' = Strip(k)
        /\ \A i \in Starts(e)' : IsLastStart(e, i)' => i = n
    BY <1>4, <2>1, FirstOfUnit
  <2>3. CASE k.head = "padding" /\ r.kind = "pes"
    <3>1. q.cur = Nil
      BY <1>1, <1>4, <2>3 DEF PesProcess, Record
    <3> QED
      BY <1>1, <2>2, <2>3, <3>1 DEF PesOpen
  <2>4. CASE ~(k.head = "padding" /\ r.kind = "pes")
    <3>1. q = [r EXCEPT !.units = Pushed(r), !.cur = Opened(r, k)]
      BY <1>4, <2>4 DEF PesProcess, Mp2vProcess
    <3>2. q.cur = Opened(r, k)
      BY <1>1, <3>1 DEF Record
    <3>3. q.cur # Nil /\ q.cur.pos = k.pos /\ q.cur.hdr = Stamp(k) /\ q.cur.size = Strip(k)
      BY <1>1, <1>4, <3>2, OpenedType, OpenedFields, PlacedType DEF HeaderCut, Heads
    <3> QED
      BY <2>2, <3>3 DEF PesOpen
  <2> QED
    BY <2>3, <2>4
<1> QED
  BY <1>1, <1>2, <1>3, <1>4

LEMMA OpenInScte ==
  ASSUME DemuxInv, NEW k, Dealt(k), NEW e \in EsPid, k.pid = e,
         NEW r, RecordInv(r), r.kind = "scte35", ScteOpen(e, r), NEW q, q = ScteProcess(r, k)
  PROVE  ScteOpen(e, q)'
<1>1. r \in Record /\ k \in Placed /\ k.pusi \in BOOLEAN /\ k.len \in Nat /\ k.pos \in Nat /\ RecordInv(q)
  BY FedGrows, PlacedType, ScteType DEF RecordInv
<1>2. CASE k.pusi
  <2>1. /\ q.cur = [pos |-> k.pos, clock |-> r.clock, hdr |-> k.pos, size |-> k.len]
        /\ q.acc = [from |-> k.pos, len |-> k.len, head |-> k.head, hlen |-> k.hlen]
    BY <1>1, <1>2, Zenon DEF ScteProcess, Record
  <2>2. q.cur # Nil /\ q.cur.hdr # NoPos /\ q.acc.len = k.len /\ q.acc.hlen = k.hlen
    <3>1. q.cur \in Unit
      BY <1>1, <2>1, RecordFields DEF Unit
    <3> QED
      BY <1>1, <2>1, <3>1, DemuxAssumption DEF NoPos
  <2>3. PICK n : n = Len(fed) + 1
    OBVIOUS
  <2>4. fed'[n] = k /\ n \in Starts(e)' /\ IsLastStart(e, n)' /\ Payload(e, n)' = k.len
    BY <1>2, <2>3, FirstOfUnit
  <2> QED
    BY <2>2, <2>4 DEF ScteOpen
<1>3. PICK n : n = Len(fed)
  OBVIOUS
<1>4. CASE ~k.pusi
  <2>1. Starts(e)' = Starts(e)
    BY <1>4, StartsGrow
  <2>2. Received(e, Len(fed))' = Received(e, n) + k.len /\ Received(e, n) \in Nat
    <3>1. n \in Nat /\ Len(fed') = n + 1 /\ n \in 0 .. n
      BY <1>3, FedGrows
    <3>2. Received(e, n + 1)' = Received(e, n) + k.len /\ Received(e, n) \in Nat
      BY <1>3, <3>1, ReceivedGrows
    <3>3. Received(e, Len(fed))' = Received(e, n + 1)'
      BY <3>1 DEF Received
    <3> QED
      BY <3>2, <3>3
  <2>3. CASE r.cur # Nil
    <3>1. /\ q.cur # Nil /\ q.cur.hdr = r.cur.hdr
          /\ q.acc.len = r.acc.len + k.len /\ q.acc.hlen = r.acc.hlen
      BY <1>1, <1>4, <2>3, ScteFields DEF StaysOpen
    <3>2. CASE r.cur.hdr = NoPos
      BY <1>1, <1>3, <2>1, <2>2, <2>3, <3>1, <3>2 DEF ScteOpen
    <3>3. CASE r.cur.hdr # NoPos
      <4>1. PICK i \in Starts(e) : IsLastStart(e, i) /\ r.acc.len = Payload(e, i) /\ r.acc.hlen = fed[i].hlen
        BY <2>3, <3>3 DEF ScteOpen
      <4>2. IsLastStart(e, i)' /\ fed'[i] = fed[i] /\ Payload(e, i)' = Payload(e, i) + k.len
        BY <1>4, <4>1, LastUnit
      <4> QED
        BY <2>1, <3>1, <3>3, <4>1, <4>2 DEF ScteOpen
    <3> QED
      BY <3>2, <3>3
  <2>4. CASE r.cur = Nil /\ k.len # 0
    <3>1. q.cur.hdr = NoPos /\ q.cur # Nil
      <4>1. [Phantom EXCEPT !.size = k.len] \in Unit
        BY <1>1 DEF Phantom, Unit, NoPos
      <4>2. q.cur = [Phantom EXCEPT !.size = k.len]
        BY <1>1, <1>4, <2>4 DEF ScteProcess, Record
      <4> QED
        BY <4>1, <4>2, DemuxAssumption DEF Phantom
    <3>2. Starts(e)' = {} /\ Received(e, Len(fed))' > 0
      BY <1>1, <1>3, <2>1, <2>2, <2>4 DEF ScteOpen
    <3> QED
      BY <3>1, <3>2 DEF ScteOpen
  <2>5. CASE r.cur = Nil /\ k.len = 0
    <3>1. q = r
      BY <1>4, <2>5 DEF ScteProcess
    <3>2. Starts(e)' = {} /\ Received(e, Len(fed))' = 0 /\ r.acc = Nil
      BY <1>1, <1>3, <2>1, <2>2, <2>5 DEF ScteOpen
    <3> QED
      BY <2>5, <3>1, <3>2 DEF ScteOpen
  <2> QED
    BY <2>3, <2>4, <2>5
<1> QED
  BY <1>1, <1>2, <1>4

LEMMA OpenInVideo ==
  ASSUME DemuxInv, NEW k, Dealt(k), NEW e \in EsPid, k.pid = e, Collectable(e)',
         NEW r, RecordInv(r), r.kind = "video", VideoOpen(e, r), NEW q \in VideoProcess(r, k)
  PROVE  VideoOpen(e, q)'
<1>1. r \in Record /\ k \in Placed /\ k.pusi \in BOOLEAN /\ k.len \in Nat /\ MinHeader \in Nat \ {0}
  BY FedGrows, PlacedType, RecordAssumption DEF RecordInv
<1>2. RecordInv(q) /\ q \in Record
  BY <1>1, VideoType DEF RecordInv
<1>3. CASE ~k.pusi /\ r.cur = Nil
  <2>1. q = r
    BY <1>3 DEF VideoProcess, VideoOpen
  <2>2. Starts(e)' = Starts(e)
    BY <1>3, StartsGrow
  <2> QED
    BY <1>3, <2>1, <2>2 DEF VideoOpen
<1>4. CASE ~k.pusi /\ r.cur # Nil
  <2>1. PICK n : n = r.cur.pos + 1
    OBVIOUS
  <2>2. n \in Starts(e) /\ IsLastStart(e, n)
    BY <1>4, <2>1 DEF VideoOpen, IsLastStart
  <2>3. /\ IsLastStart(e, n)' /\ fed'[n] = fed[n] /\ fed[n] \in Placed
        /\ Payload(e, n) \in Int /\ Payload(e, n)' = Payload(e, n) + k.len
        /\ Content(e, n) \in Int /\ Content(e, n)' = Content(e, n) + k.len
    BY <1>4, <2>2, LastUnit
  <2>4. Left(k) = k.len
    BY <1>4 DEF Left
  <2>5. CASE ~r.wait
    <3>1. q = Grown(r, k.len)
      BY <1>4, <2>4, <2>5 DEF VideoProcess
    <3>2. /\ q.cur # Nil /\ q.cur.pos = r.cur.pos /\ q.cur.hdr = r.cur.hdr
          /\ q.cur.size = r.cur.size + k.len /\ ~q.wait
      <4>1. q.wait = r.wait
        BY <1>1, <3>1 DEF Grown, Record
      <4> QED
        BY <1>1, <1>4, <2>5, <3>1, <4>1, GrownStays DEF StaysOpen
    <3>3. ~(Payload(e, n) < MinHeader) /\ r.cur.hdr = Stamp(fed[n]) /\ r.cur.size = Content(e, n)
      BY <1>4, <2>1, <2>5 DEF VideoOpen
    <3>4. /\ n = q.cur.pos + 1 /\ ~(Payload(e, n)' < MinHeader)
          /\ q.cur.hdr = Stamp(fed'[n]) /\ q.cur.size = Content(e, n)'
      BY <1>1, <2>1, <2>3, <3>2, <3>3
    <3> QED
      BY <2>3, <3>2, <3>4 DEF VideoOpen
  <2>6. CASE r.wait
    <3> DEFINE p == fed[n]
               acc == [from |-> p.pos, len |-> Payload(e, n)', head |-> p.head, hlen |-> p.hlen]
    <3>1. /\ Short(p) /\ Payload(e, n) < MinHeader /\ r.cur.hdr = NoPos /\ r.cur.size = 0
          /\ r.acc = [from |-> p.pos, len |-> Payload(e, n), head |-> p.head, hlen |-> p.hlen]
      BY <1>4, <2>1, <2>6 DEF VideoOpen
    <3>2. p.head # "raw" /\ p.pos \in Nat /\ p.head \in Heads /\ p.hlen \in Nat
      <4>1. fed'[n].head # "raw" \/ ~Short(fed'[n])
        BY <2>3 DEF Collectable, Short, IsLastStart
      <4> QED
        BY <2>3, <3>1, <4>1, PlacedType
    <3>3. Collected(r, k) = {[r.acc EXCEPT !.len = r.acc.len + k.len]}
      BY <1>4, <2>4 DEF Collected
    <3>4. [r.acc EXCEPT !.len = r.acc.len + k.len] = acc
      BY <2>3, <3>1
    <3>5. q = Resumed(r, acc)
      BY <1>4, <2>6, <3>3, <3>4 DEF VideoProcess
    <3>6. r.cur \in Unit /\ r.acc \in Bytes /\ r.acc # Nil
      BY <1>1, <1>4, <2>6, RecordFields DEF RecordInv
    <3>7. Payload(e, n)' \in Nat
      BY <1>1, <2>3, <3>1, <3>6 DEF Bytes
    <3>8. acc \in Bytes
      BY <3>2, <3>7 DEF Bytes
    <3>9. acc # Nil
      BY <3>8, DemuxAssumption
    <3>10. p.head = "pes" => p.hlen <= MinHeader
      BY <2>3, PlacedType
    <3>11. q.cur # Nil
      BY <1>4, <3>5, <3>6, <3>8, <3>9, <3>10, ResumedType
    <3>12. /\ acc.len = Payload(e, n)' /\ acc.from = p.pos /\ acc.head = p.head /\ acc.hlen = p.hlen
      OBVIOUS
    <3> HIDE DEF acc
    <3>13. CASE Payload(e, n)' < MinHeader
      <4>1. q.cur = r.cur /\ q.wait = r.wait /\ q.acc = acc
        BY <1>1, <3>5, <3>6, <3>8, <3>12, <3>13, ResumedFields
      <4> QED
        BY <1>4, <2>1, <2>3, <2>6, <3>1, <3>13, <4>1 DEF VideoOpen, acc
    <3>14. CASE ~(Payload(e, n)' < MinHeader)
      <4>1. ~(acc.len < MinHeader \/ acc.head = "raw")
        BY <1>1, <3>2, <3>7, <3>12, <3>14
      <4>2. /\ q.wait = FALSE /\ q.cur.pos = r.cur.pos
            /\ q.cur.hdr = IF acc.head = "pes" THEN acc.from ELSE r.cur.hdr
            /\ q.cur.size = r.cur.size + acc.len - (IF acc.head = "pes" THEN acc.hlen ELSE 0)
        BY <1>1, <3>5, <3>6, <3>8, <4>1, ResumedFields
      <4>3. q.cur.hdr = Stamp(fed'[n])
        BY <2>3, <3>1, <3>12, <4>2 DEF Stamp
      <4>4. q.cur.size = Content(e, n)'
        BY <2>3, <3>1, <3>2, <3>7, <3>12, <4>2 DEF Content
      <4> QED
        BY <2>1, <2>3, <3>11, <3>14, <4>2, <4>3, <4>4 DEF VideoOpen
    <3> QED
      BY <3>13, <3>14
  <2> QED
    BY <2>5, <2>6
<1>5. CASE k.pusi
  <2>1. PICK n : n = Len(fed) + 1
    OBVIOUS
  <2>2. /\ n = k.pos + 1 /\ fed'[n] = k /\ IsLastStart(e, n)' /\ Payload(e, n)' = k.len
        /\ Content(e, n)' = Strip(k)
    BY <1>5, <2>1, FirstOfUnit
  <2>0. PICK b : b = Started(r, k)
    OBVIOUS
  <2>3. /\ RecordInv(b) /\ b \in Record /\ b.kind = "video" /\ b.cur # Nil /\ b.cur \in Unit
        /\ b.cur.pos = k.pos /\ b.cur.size = 0
        /\ Short(k) => /\ b.cur.hdr = NoPos /\ b.wait = TRUE
                       /\ b.acc = [from |-> k.pos, len |-> 0, head |-> k.head, hlen |-> k.hlen]
        /\ ~Short(k) => b.cur.hdr = Stamp(k) /\ b.wait = r.wait
    <3>1. RecordInv(b) /\ b.kind = "video" /\ b.cur # Nil
      BY <1>1, <2>0, StartedType
    <3>2. b \in Record /\ b.cur \in Unit
      BY <3>1, RecordFields DEF RecordInv
    <3>3. /\ b.cur.pos = k.pos /\ b.cur.size = 0
          /\ Short(k) => /\ b.cur.hdr = NoPos /\ b.wait = TRUE
                         /\ b.acc = [from |-> k.pos, len |-> 0, head |-> k.head, hlen |-> k.hlen]
          /\ ~Short(k) => b.cur.hdr = Stamp(k) /\ b.wait = r.wait
      BY <1>1, <2>0, StartedFields
    <3> QED
      BY <3>1, <3>2, <3>3, Zenon
  <2>4. IF b.wait THEN \E acc \in Collected(b, k) : q = Resumed(b, acc) ELSE q = Grown(b, Left(k))
    BY <1>5, <2>0, <2>3 DEF VideoProcess
  <2>5. CASE Short(k)
    <3> DEFINE acc == [from |-> k.pos, len |-> k.len, head |-> k.head, hlen |-> k.hlen]
    <3>1. Collected(b, k) = {[b.acc EXCEPT !.len = b.acc.len + k.len]}
      BY <2>5 DEF Collected, Left
    <3>2. [b.acc EXCEPT !.len = b.acc.len + k.len] = acc
      BY <1>1, <2>3, <2>5
    <3>3. q = Resumed(b, acc)
      BY <2>3, <2>4, <2>5, <3>1, <3>2
    <3>4. acc \in Bytes /\ acc.len < MinHeader
      BY <1>1, <2>5, PlacedType DEF Bytes, Short
    <3> HIDE DEF acc
    <3>5. q.cur = b.cur /\ q.wait = b.wait /\ q.acc = acc
      BY <2>3, <3>3, <3>4, ResumedFields
    <3> QED
      BY <2>2, <2>3, <2>5, <3>4, <3>5 DEF VideoOpen, acc, Short
  <2>6. CASE ~Short(k)
    <3>1. ~r.wait
      <4>1. CASE r.cur = Nil
        BY <4>1 DEF VideoOpen
      <4>2. CASE r.cur # Nil /\ r.wait
        <5>1. PICK i : i = r.cur.pos + 1
          OBVIOUS
        <5>2. i \in Starts(e) /\ Short(fed[i]) /\ Payload(e, i) < MinHeader
          BY <4>2, <5>1 DEF VideoOpen, IsLastStart
        <5>3. Payload(e, i) >= MinHeader /\ Payload(e, i) \in Int
          BY <1>5, <5>2, CollectableBefore, PayloadGrows
        <5> QED
          BY <1>1, <5>2, <5>3
      <4> QED
        BY <4>1, <4>2
    <3>2. q = Grown(b, Left(k)) /\ Left(k) = Strip(k) /\ Left(k) \in Nat /\ ~b.wait
      BY <1>1, <1>5, <2>3, <2>4, <2>6, <3>1, LeftType DEF Left
    <3>3. /\ q.cur # Nil /\ q.cur.pos = k.pos /\ q.cur.hdr = Stamp(k)
          /\ q.cur.size = 0 + Strip(k)
      BY <2>3, <2>6, <3>2, GrownStays DEF StaysOpen
    <3>4. ~q.wait
      BY <2>3, <3>2 DEF Grown, Record
    <3>5. ~(k.len < MinHeader) /\ Strip(k) \in Nat
      BY <1>1, <2>6, <3>2 DEF Short
    <3> QED
      BY <2>2, <3>3, <3>4, <3>5 DEF VideoOpen
  <2> QED
    BY <2>5, <2>6
<1> QED
  BY <1>1, <1>3, <1>4, <1>5

LEMMA OpenFollows ==
  ASSUME DemuxInv, NEW k, Dealt(k), NEW e \in EsPid, records'[e] # Nil, UnitOpen(e, records[e])
  PROVE  UnitOpen(e, records[e])'
<1>1. PICK r, m, q : r = records[e] /\ m = Notified(k)[e] /\ q = records'[e]
  OBVIOUS
<1>2. /\ RecordInv(m) /\ m.kind = strs[e] /\ Told(r, m) /\ strs' = strs /\ strs[e] # Nil
      /\ k.pid = e => ~ProcessFaults(m, k) /\ q \in Process(m, k)
      /\ k.pid # e => q = m
  BY <1>1, RowsAfter, FedGrows
<1>3. UnitOpen(e, r)
  BY <1>1
<1> SUFFICES UnitOpen(e, q)'
  BY <1>1 DEF UnitOpen, PesOpen, VideoOpen, ScteOpen
<1>4. CASE k.pid # e
  BY <1>2, <1>3, <1>4, OpenElsewhere
<1>5. CASE k.pid = e
  <2>1. UnitOpen(e, m)
    BY <1>2, <1>3 DEF UnitOpen, PesOpen, VideoOpen, ScteOpen, Told
  <2>2. CASE strs[e] \in {"pes", "mp2v"}
    <3>1. PesOpen(e, m) /\ ~HeaderCut(k)
      BY <1>2, <1>5, <2>1, <2>2 DEF UnitOpen, ProcessFaults
    <3>2. q = IF m.kind = "pes" THEN PesProcess(m, k) ELSE Mp2vProcess(m, k)
      BY <1>2, <1>5, <2>2 DEF Process
    <3>3. PesOpen(e, q)'
      BY <1>2, <1>5, <2>2, <3>1, <3>2, OpenInPes
    <3> QED
      BY <1>2, <2>2, <3>3 DEF UnitOpen
  <2>3. CASE strs[e] = "video"
    <3>1. q \in VideoProcess(m, k)
      BY <1>2, <1>5, <2>3 DEF Process
    <3>2. ASSUME Collectable(e)' PROVE VideoOpen(e, q)'
      <4>1. VideoOpen(e, m)
        BY <2>1, <2>3, <3>2, CollectableBefore DEF UnitOpen
      <4> QED
        BY <1>2, <1>5, <2>3, <3>1, <3>2, <4>1, OpenInVideo
    <3> QED
      BY <1>2, <2>3, <3>2 DEF UnitOpen
  <2>4. CASE strs[e] = "scte35"
    <3>1. q = ScteProcess(m, k) /\ ScteOpen(e, m)
      BY <1>2, <1>5, <2>1, <2>4 DEF Process, UnitOpen
    <3>2. ScteOpen(e, q)'
      BY <1>2, <1>5, <2>4, <3>1, OpenInScte
    <3> QED
      BY <1>2, <2>4, <3>2 DEF UnitOpen
  <2>5. strs[e] \in {"pes", "mp2v", "video", "scte35"}
    BY <1>2 DEF DemuxInv, StreamKind
  <2> QED
    BY <2>2, <2>3, <2>4, <2>5
<1> QED
  BY <1>4, <1>5

-----------------------------------------------------------------------------
(* Headers and sizes *)

\* HeaderAndSizeAreItsOwn for one row, and the streams it is claimed of.
OwnRow(e, u) ==
  LET n == u.pos + 1
  IN  IF strs[e] = "video" /\ Payload(e, n) < MinHeader
        THEN u.hdr = NoPos /\ u.size = 0
        ELSE u.hdr = Stamp(fed[n]) /\ u.size = Content(e, n)
Judged(e) == strs[e] \in {"pes", "mp2v"} \/ (strs[e] = "video" /\ Collectable(e))

\* Inductive, with RowInv: of each stream the open unit is that of its last start, and
\* each row has what belongs to it.
OwnInv ==
  \A e \in EsPid : Shown /\ records[e] # Nil =>
    /\ UnitOpen(e, records[e])
    /\ Judged(e) => \A i \in DOMAIN Rows(e) : OwnRow(e, Rows(e)[i])

\* A row that is not the open one keeps its header, its size, and its payload.
LEMMA OwnFollows ==
  ASSUME DemuxInv, RowInv, NEW k, Dealt(k), NEW e \in EsPid, records'[e] # Nil, UnitOpen(e, records[e]),
         Judged(e) => \A i \in DOMAIN Rows(e) : OwnRow(e, Rows(e)[i]), Judged(e)',
         NEW i \in DOMAIN Rows(e)'
  PROVE  OwnRow(e, Rows(e)[i])'
<1>1. PICK m, q, P, Q : m = Notified(k)[e] /\ q = records'[e] /\ P = Rows(e) /\ Q = Rows(e)'
  OBVIOUS
<1>2. /\ RecordInv(m) /\ RecordInv(q) /\ m.kind = strs[e] /\ P = Pushed(m) /\ Q = Pushed(q)
      /\ k.pid = e => Handled(m, k, q)
      /\ k.pid # e => q = m
      /\ strs' = strs /\ strs[e] # "scte35" /\ records[e] # Nil /\ Shown
  BY <1>1, RowsAfter, FedGrows DEF Judged, Dealt, Shown, Going
<1>3. m \in Record /\ q \in Record /\ P \in Seq(Unit) /\ Q \in Seq(Unit) /\ Len(P) \in Nat /\ Len(Q) \in Nat
  BY <1>2, PushedRows DEF RecordInv
<1>4. DOMAIN P = 1 .. Len(P) /\ DOMAIN Q = 1 .. Len(Q) /\ i \in 1 .. Len(Q)
  BY <1>1, <1>3
<1>5. Judged(e) /\ \A j \in DOMAIN P : OwnRow(e, P[j])
  <2>1. Judged(e)
    BY <1>2, CollectableBefore DEF Judged
  <2> QED
    BY <1>1, <2>1
<1>6. StartsHaveRows(e)
  BY <1>2 DEF RowInv
<1>7. \A j \in DOMAIN P : \A l \in DOMAIN P : j < l => P[j].pos < P[l].pos
  <2>1. Genuine(e) = DOMAIN P
    BY <1>1, <1>2 DEF Genuine, IsPhantom
  <2> QED
    BY <1>1, <1>6, <2>1 DEF StartsHaveRows
<1>8. ASSUME NEW j \in DOMAIN P
      PROVE  P[j].pos + 1 \in Starts(e) /\ Opens(fed[P[j].pos + 1], e)
  <2>1. j \in Genuine(e)
    BY <1>1, <1>2 DEF Genuine, IsPhantom
  <2>2. P[j].pos \in {l - 1 : l \in {n \in DOMAIN fed : Opens(fed[n], e)}}
    BY <1>1, <1>6, <2>1 DEF StartsHaveRows
  <2>3. PICK n \in DOMAIN fed : Opens(fed[n], e) /\ P[j].pos = n - 1
    BY <2>2
  <2>4. P[j].pos + 1 = n
    BY <2>3, FedGrows
  <2> QED
    BY <2>3, <2>4 DEF Starts, Opens
<1>9. UnitOpen(e, q)'
  <2>1. UnitOpen(e, records[e])'
    BY OpenFollows
  <2> QED
    BY <1>1, <2>1 DEF UnitOpen, PesOpen, VideoOpen, ScteOpen
<1>10. q.cur # Nil => Q[Len(Q)] = q.cur
  <2>1. ASSUME q.cur # Nil PROVE Len(Q) = Len(q.units) + 1 /\ Q[Len(q.units) + 1] = q.cur
    BY <1>2, <1>3, <2>1, PushedRows
  <2> QED
    BY <2>1
<1> SUFFICES OwnRow(e, Q[i])'
  BY <1>1 DEF OwnRow
<1>11. CASE i = Len(Q) /\ q.cur # Nil
  <2>1. Q[i] = q.cur
    BY <1>10, <1>11
  <2>2. OwnRow(e, q.cur)'
    BY <1>2, <1>9, <1>11 DEF OwnRow, UnitOpen, PesOpen, VideoOpen, Judged
  <2> QED
    BY <2>1, <2>2
<1>12. CASE ~(i = Len(Q) /\ q.cur # Nil)
  <2>1. i \in DOMAIN P /\ Q[i] = P[i] /\ (k.pid = e /\ ~k.pusi => Len(Q) = Len(P))
    <3>1. CASE k.pid # e
      BY <1>2, <1>4, <3>1
    <3>2. CASE k.pid = e
      <4>1. k.pusi \in BOOLEAN
        BY FedGrows, PlacedType
      <4>2. \/ /\ k.pusi /\ q.cur # Nil
               /\ Len(Q) = Len(P) + 1 /\ \A j \in 1 .. Len(P) : Q[j] = P[j]
            \/ /\ Len(Q) = Len(P)
               /\ \A j \in 1 .. Len(P) : q.cur = Nil \/ j < Len(P) => Q[j] = P[j]
        BY <1>2, <3>2 DEF Handled, OpensRow
      <4>3. CASE k.pusi /\ q.cur # Nil /\ Len(Q) = Len(P) + 1 /\ \A j \in 1 .. Len(P) : Q[j] = P[j]
        BY <1>3, <1>4, <1>12, <4>3
      <4>4. CASE /\ Len(Q) = Len(P)
                 /\ \A j \in 1 .. Len(P) : q.cur = Nil \/ j < Len(P) => Q[j] = P[j]
        <5>1. i \in 1 .. Len(P) /\ (q.cur = Nil \/ i < Len(P))
          BY <1>3, <1>4, <1>12, <4>4
        <5> QED
          BY <1>4, <4>4, <5>1
      <4> QED
        BY <4>2, <4>3, <4>4
    <3> QED
      BY <3>1, <3>2
  <2>2. PICK n : n = P[i].pos + 1
    OBVIOUS
  <2>3. n \in Starts(e) /\ Opens(fed[n], e) /\ fed'[n] = fed[n]
    BY <1>8, <2>1, <2>2, StartsGrow
  <2>4. ~(k.pid = e /\ ~k.pusi /\ IsLastStart(e, n))
    <3> SUFFICES ASSUME k.pid = e, ~k.pusi, IsLastStart(e, n) PROVE FALSE
      OBVIOUS
    <3>1. CASE q.cur # Nil
      <4>1. i < Len(P) /\ Len(P) \in DOMAIN P
        <5>1. Len(Q) = Len(P) /\ i # Len(Q) /\ i \in 1 .. Len(Q)
          BY <1>4, <1>12, <2>1, <3>1
        <5> QED
          BY <1>3, <1>4, <5>1
      <4>2. P[i].pos < P[Len(P)].pos /\ P[Len(P)].pos + 1 \in Starts(e)
        BY <1>7, <1>8, <2>1, <4>1
      <4>3. P[i].pos \in Int /\ P[Len(P)].pos \in Int
        <5>1. P[i] \in Unit /\ P[Len(P)] \in Unit
          <6>1. \A j \in 1 .. Len(P) : P[j] \in Unit
            BY <1>3
          <6> QED
            BY <1>4, <2>1, <4>1, <6>1
        <5> QED
          BY <5>1 DEF Unit
      <4> QED
        BY <2>2, <4>2, <4>3 DEF IsLastStart
    <3>2. CASE q.cur = Nil
      <4>1. n \in Starts(e)' /\ IsLastStart(e, n)'
        BY <2>3, PayloadGrows DEF IsLastStart
      <4> QED
        BY <1>2, <1>9, <2>3, <3>2, <4>1 DEF UnitOpen, PesOpen, VideoOpen, Judged, Opens
    <3> QED
      BY <3>1, <3>2
  <2>5. Payload(e, n)' = Payload(e, n) /\ Content(e, n)' = Content(e, n)
    <3>1. Payload(e, n)' = Payload(e, n)
      BY <2>3, <2>4, PayloadGrows
    <3> QED
      BY <2>3, <3>1 DEF Content
  <2>6. OwnRow(e, P[i])
    BY <1>5, <2>1
  <2> QED
    BY <1>2, <2>1, <2>2, <2>3, <2>5, <2>6 DEF OwnRow
<1> QED
  BY <1>11, <1>12

LEMMA OwnInit == DemuxInit => OwnInv
BY DEF DemuxInit, OwnInv

LEMMA OwnStep == DemuxInv /\ RowInv /\ OwnInv /\ [DemuxNext]_demuxVars => OwnInv'
<1> SUFFICES ASSUME DemuxInv, RowInv, OwnInv, [DemuxNext]_demuxVars, Shown',
                    NEW e \in EsPid, records'[e] # Nil
             PROVE  /\ UnitOpen(e, records[e])'
                    /\ Judged(e)' => \A i \in DOMAIN Rows(e)' : OwnRow(e, Rows(e)[i])'
  BY DEF OwnInv
<1>1. CASE stage = "waiting" /\ stage' = "waiting" /\ UNCHANGED <<records, lists, fed, reported>>
  BY <1>1 DEF DemuxInv
<1>2. CASE /\ stage = "waiting" /\ stage' = "feeding" /\ UNCHANGED <<strs, pcrs, lists, fed, reported>>
           /\ records' = [d \in EsPid |-> IF strs[d] = Nil THEN Nil ELSE RecordOf(strs[d])]
  <2>1. /\ Rows(e)' = <<>> /\ fed' = <<>> /\ records'[e].cur = Nil
        /\ records'[e].acc = Nil /\ records'[e].wait = FALSE
    BY <1>2, RowsAtFirst
  <2>2. Starts(e)' = {}
    BY <2>1 DEF Starts
  <2>3. Received(e, Len(fed))' = 0
    <3> DEFINE g == [j \in DOMAIN fed' |-> IF fed'[j].pid = e THEN fed'[j].len ELSE 0]
    <3>1. \A j \in DOMAIN g : g[j] \in Int
      BY <2>1
    <3>2. Received(e, Len(fed))' = Total(g, 0)
      BY <2>1 DEF Received
    <3> HIDE DEF g
    <3> QED
      BY <3>1, <3>2, TotalSteps
  <2> QED
    BY <2>1, <2>2, <2>3 DEF UnitOpen, PesOpen, VideoOpen, ScteOpen
<1>3. ASSUME NEW k, Dealt(k)
      PROVE  /\ UnitOpen(e, records[e])'
             /\ Judged(e)' => \A i \in DOMAIN Rows(e)' : OwnRow(e, Rows(e)[i])'
  <2>1. records[e] # Nil /\ Shown
    BY <1>3, RowsAfter DEF Dealt, Shown, Going
  <2>2. UnitOpen(e, records[e]) /\ (Judged(e) => \A i \in DOMAIN Rows(e) : OwnRow(e, Rows(e)[i]))
    BY <2>1 DEF OwnInv
  <2>3. UnitOpen(e, records[e])'
    BY <1>3, <2>2, OpenFollows
  <2>4. ASSUME Judged(e)', NEW i \in DOMAIN Rows(e)' PROVE OwnRow(e, Rows(e)[i])'
    BY <1>3, <2>2, <2>4, OwnFollows
  <2> QED
    BY <2>3, <2>4
<1>4. CASE /\ Shown
           /\ UNCHANGED <<strs, pcrs, lists, fed>>
           /\ \A d \in EsPid : /\ records'[d] = Nil <=> records[d] = Nil
                               /\ records[d] # Nil => Same(records[d], records'[d]) /\ Rows(d)' = Rows(d)
  <2>1. records[e] # Nil /\ Same(records[e], records'[e]) /\ Rows(e)' = Rows(e)
    BY <1>4
  <2>2. UnitOpen(e, records[e]) /\ (Judged(e) => \A i \in DOMAIN Rows(e) : OwnRow(e, Rows(e)[i]))
    BY <1>4, <2>1 DEF OwnInv
  <2>3. /\ Starts(e)' = Starts(e) /\ \A n : Received(e, n)' = Received(e, n)
        /\ \A n : IsLastStart(e, n)' <=> IsLastStart(e, n)
    BY <1>4 DEF Starts, Received, IsLastStart
  <2>4. \A n : Payload(e, n)' = Payload(e, n) /\ Content(e, n)' = Content(e, n)
    BY <1>4 DEF Starts, Received, Payload, UnitEnd, Content
  <2>5. Collectable(e)' <=> Collectable(e)
    BY <1>4, <2>3, <2>4 DEF Collectable
  <2>6. UnitOpen(e, records[e])'
    BY <1>4, <2>1, <2>2, <2>3, <2>4, <2>5 DEF UnitOpen, PesOpen, VideoOpen, ScteOpen, Same
  <2>7. ASSUME Judged(e)', NEW i \in DOMAIN Rows(e)' PROVE OwnRow(e, Rows(e)[i])'
    <3>1. OwnRow(e, Rows(e)[i])
      BY <1>4, <2>1, <2>2, <2>5, <2>7 DEF Judged
    <3> QED
      BY <1>4, <2>1, <2>4, <3>1 DEF OwnRow
  <2> QED
    BY <2>6, <2>7
<1> QED
  BY <1>1, <1>2, <1>3, <1>4, PassSteps

\* Whatever the lengths of its packets, a row shows the header its unit starts with
\* and the size of the payload behind it, in every file whose video PES packets are
\* not cut off in their headers.
THEOREM RowsAreOfTheirUnits == DemuxSpec => []HeaderAndSizeAreItsOwn
<1>1. OwnInv => HeaderAndSizeAreItsOwn
  BY DEF OwnInv, OwnRow, Judged, HeaderAndSizeAreItsOwn, Seen, Shown
<1> QED
  BY <1>1, DemuxInitInv, DemuxStep, RowInit, RowStep, OwnInit, OwnStep, PTL DEF DemuxSpec

\* A section that cannot be read whole has not been received whole.
LEMMA CutIsInTheFile ==
  ASSUME NEW e \in EsPid, NEW r, strs[e] = "scte35", ScteOpen(e, r), MayMisread(r)
  PROVE  SpliceCut(e)
<1>1. r.cur # Nil
  BY DEF ScteOpen, MayMisread
<1>2. CASE r.cur.hdr = NoPos
  BY <1>1, <1>2 DEF ScteOpen, SpliceCut
<1>3. CASE r.cur.hdr # NoPos
  BY <1>1, <1>3 DEF ScteOpen, MayMisread, SectionCut, SpliceCut
<1> QED
  BY <1>2, <1>3

\* The action properties PanicHasItsCause states.
FeedPanicHasItsCause ==
  stage = "feeding" /\ stage' = "panic" =>
    LET k == Last(fed') IN
      \/ k.priv = "short" /\ strs[k.pid] \in StreamKind \ {"scte35"}
      \/ strs[k.pid] \in {"pes", "mp2v"} /\ HeaderCut(k)
      \/ k.pusi /\ SpliceCut(k.pid)
      \/ k.pusi /\ strs[k.pid] = "mp2v"
           /\ \E i \in Starts(k.pid) : IsLastStart(k.pid, i) /\ Content(k.pid, i) > 0
ReportPanicHasItsCause ==
  stage = "reporting" /\ stage' = "panic" => \E e \in EsPid \ reported : SpliceCut(e)
HangHasItsCause ==
  stage' = "hung" =>
    LET k == Last(fed') IN k.priv = "endless" /\ strs[k.pid] \in StreamKind \ {"scte35"}

LEMMA FeedPanics ==
  ASSUME DemuxInv, OwnInv, NEW p \in Packet, Len(fed) < MaxFile, Feed(At(p, Len(fed))), stage' = "panic"
  PROVE  FeedPanicHasItsCause
<1> DEFINE k == At(p, Len(fed))
           m == Notified(k)[k.pid]
<1>0. fed \in Seq(Placed) /\ Len(fed) \in Nat
  BY DEF DemuxInv
<1>1. k \in Placed /\ fed \in Seq(Placed) /\ stage = "feeding" /\ fed' = Append(fed, k)
  <2>1. k \in Placed
    BY <1>0 DEF Placed
  <2>2. stage = "feeding" /\ fed' = Append(fed, k)
    BY DEF Feed
  <2> QED
    BY <1>0, <2>1, <2>2
<1>2. (\E e \in Clocked(k) : records[e] = Nil) \/ (m # Nil /\ ProcessMayFault(m, k))
  BY DEF Feed, Stops
<1> HIDE DEF k
<1>3. Last(fed') = k
  BY <1>1, AppendProperties DEF Last
<1>4. k.pid \in EsPid /\ k.pusi \in BOOLEAN
  BY <1>1, PlacedType
<1>5. \A e \in Clocked(k) : records[e] # Nil
  BY <1>1, <1>4, HasType DEF Clocked, DemuxInv
<1>6. m # Nil /\ ProcessMayFault(m, k)
  BY <1>2, <1>5
<1>7. PICK r, q, e : r = records[e] /\ q = m /\ e = k.pid
  OBVIOUS
<1>8. strs[e] # Nil /\ RecordInv(r) /\ RecordInv(q) /\ q.kind = strs[e] /\ Told(r, q)
  BY <1>1, <1>4, <1>6, <1>7, NotifiedTold
<1>9. UnitOpen(e, q)
  <2>1. UnitOpen(e, r)
    BY <1>1, <1>4, <1>7, <1>8, RecordIsNotNil DEF OwnInv, Shown, Going
  <2> QED
    BY <1>8, <2>1 DEF UnitOpen, PesOpen, VideoOpen, ScteOpen, Told
<1>10. \/ k.priv = "short" /\ strs[e] \in StreamKind \ {"scte35"}
       \/ strs[e] \in {"pes", "mp2v"} /\ HeaderCut(k)
       \/ strs[e] = "scte35" /\ k.pusi /\ MayMisread(q)
       \/ strs[e] = "mp2v" /\ k.pusi /\ MayEndAmidHeader(q)
  <2>1. strs[e] \in StreamKind
    BY <1>4, <1>7, <1>8 DEF DemuxInv
  <2> QED
    BY <1>6, <1>7, <1>8, <2>1 DEF ProcessMayFault, ProcessFaults, PrivFaults, Logs, MayMisread, SectionCut
<1> HIDE DEF m
<1>a. CASE k.priv = "short" /\ strs[e] \in StreamKind \ {"scte35"}
  BY <1>3, <1>7, <1>a DEF FeedPanicHasItsCause
<1>11. CASE strs[e] \in {"pes", "mp2v"} /\ HeaderCut(k)
  BY <1>3, <1>7, <1>11 DEF FeedPanicHasItsCause
<1>12. CASE strs[e] = "scte35" /\ k.pusi /\ MayMisread(q)
  <2>1. SpliceCut(e)
    BY <1>4, <1>7, <1>9, <1>12, CutIsInTheFile DEF UnitOpen
  <2> QED
    BY <1>3, <1>7, <1>12, <2>1 DEF FeedPanicHasItsCause
<1>13. CASE strs[e] = "mp2v" /\ k.pusi /\ MayEndAmidHeader(q)
  <2>1. PICK n : n = q.cur.pos + 1
    OBVIOUS
  <2>2. n \in Starts(e) /\ IsLastStart(e, n) /\ Content(e, n) > 0
    BY <1>9, <1>13, <2>1 DEF UnitOpen, PesOpen, MayEndAmidHeader, IsLastStart
  <2> QED
    BY <1>3, <1>7, <1>13, <2>2 DEF FeedPanicHasItsCause
<1> QED
  BY <1>10, <1>a, <1>11, <1>12, <1>13

LEMMA HangStep == DemuxInv /\ [DemuxNext]_demuxVars => [HangHasItsCause]_demuxVars
<1> SUFFICES ASSUME DemuxInv, DemuxNext, ~UNCHANGED demuxVars, stage' = "hung" PROVE HangHasItsCause
  BY DEF HangHasItsCause
<1>1. FeedAny
  BY DEF DemuxNext, Published, Setup, FileEnds, ReportPcrs, ReportRecord, AllReported, DemuxEnded,
         DemuxPanic, Stops, DemuxInv
<1>2. PICK p \in Packet : Feed(At(p, Len(fed)))
  BY <1>1 DEF FeedAny
<1> DEFINE k == At(p, Len(fed))
           m == Notified(k)[k.pid]
<1>3. k \in Placed /\ fed \in Seq(Placed) /\ stage = "feeding" /\ fed' = Append(fed, k)
  <2>1. Len(fed) \in Nat /\ fed \in Seq(Placed)
    BY DEF DemuxInv
  <2> QED
    BY <1>2, <2>1 DEF Feed, Placed
<1>4. m # Nil /\ Hangs(m, k)
  BY <1>2, <1>3 DEF Feed, DemuxPanic, Stops
<1> HIDE DEF k
<1>5. Last(fed') = k
  BY <1>3, AppendProperties DEF Last
<1>6. k.pid \in EsPid
  BY <1>3, PlacedType
<1>7. Has(k.pid, m)
  BY <1>3, <1>6, NotifiedHas
<1>8. m.kind = strs[k.pid] /\ strs[k.pid] \in StreamKind
  BY <1>4, <1>6, <1>7 DEF Has, DemuxInv
<1> QED
  BY <1>4, <1>5, <1>8 DEF HangHasItsCause, Hangs, Logs

LEMMA PanicStep ==
  ASSUME DemuxInv, OwnInv, [DemuxNext]_demuxVars
  PROVE  FeedPanicHasItsCause /\ ReportPanicHasItsCause
<1> SUFFICES ASSUME stage' = "panic", stage \in {"feeding", "reporting"}
             PROVE  FeedPanicHasItsCause /\ ReportPanicHasItsCause
  BY DEF FeedPanicHasItsCause, ReportPanicHasItsCause
<1>1. CASE FeedAny
  <2>1. stage = "feeding"
    BY <1>1 DEF FeedAny, Feed
  <2> QED
    BY <1>1, <2>1, FeedPanics DEF FeedAny, ReportPanicHasItsCause
<1>2. ASSUME NEW e \in EsPid, ReportRecord(e) PROVE FeedPanicHasItsCause /\ ReportPanicHasItsCause
  <2>1. stage = "reporting" /\ records[e] # Nil /\ e \notin reported /\ FlushMayFault(records[e])
    BY <1>2 DEF ReportRecord
  <2>2. RecordInv(records[e]) /\ records[e].kind = strs[e]
    BY <2>1 DEF DemuxInv, Has
  <2>3. strs[e] = "scte35" /\ MayMisread(records[e])
    BY <2>1, <2>2 DEF FlushMayFault
  <2>4. ScteOpen(e, records[e])
    BY <2>1, <2>3 DEF OwnInv, UnitOpen, Shown, Going
  <2>5. SpliceCut(e)
    BY <2>3, <2>4, CutIsInTheFile
  <2> QED
    BY <2>1, <2>5 DEF FeedPanicHasItsCause, ReportPanicHasItsCause
<1>3. CASE Published \/ Setup \/ FileEnds \/ ReportPcrs \/ AllReported
  BY <1>3 DEF Published, Setup, FileEnds, ReportPcrs, AllReported
<1>4. CASE UNCHANGED demuxVars
  BY <1>4 DEF demuxVars
<1> QED
  BY <1>1, <1>2, <1>3, <1>4 DEF DemuxNext, DemuxEnded

\* Private data included, the second pass panics or hangs about nothing but what is in
\* the file, and the report of a record panics about nothing but a splice section that
\* the file cuts off.
THEOREM PanicsHaveACause == DemuxSpec => PanicHasItsCause
<1>1. DemuxInv /\ OwnInv /\ [DemuxNext]_demuxVars => [FeedPanicHasItsCause]_demuxVars
  BY PanicStep
<1>2. DemuxInv /\ OwnInv /\ [DemuxNext]_demuxVars => [ReportPanicHasItsCause]_demuxVars
  BY PanicStep
<1>3. PanicHasItsCause <=> /\ [][FeedPanicHasItsCause]_demuxVars
                           /\ [][ReportPanicHasItsCause]_demuxVars
                           /\ [][HangHasItsCause]_demuxVars
  BY PTL DEF PanicHasItsCause, FeedPanicHasItsCause, ReportPanicHasItsCause, HangHasItsCause
<1> QED
  BY <1>1, <1>2, <1>3, HangStep, DemuxInitInv, DemuxStep, RowInit, RowStep, OwnInit, OwnStep, PTL DEF DemuxSpec
=============================================================================
