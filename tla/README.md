# A verification project for mpts

`mpts` is a Go library and three programs for MPEG transport streams. The
largest, `tsparser`, reads a recorded stream twice: the first pass assembles the
PSI tables, the second feeds one record per stream and writes a report for each.
It can also play a file as UDP datagrams (`-send`) and record such datagrams
(`-dump`). This directory holds TLA+ models of these parts, the TLC runs that
check them on small instances, and TLAPS proofs of the properties that hold for
every instance.

`PROJECT.json` names, for each definition that stands for code, the lines it was
translated from; it also lists the runs, the mutated definitions each property
is known to catch, the hazards, and the theorems.

## The system

| part | source | state | operations | hard about it |
|---|---|---|---|---|
| packet source | `internal/util.go` | file position, packet count | `ParseFile`: a goroutine that reads, an unbuffered channel | a reader left behind when the first pass breaks off; its panics |
| packet and PES header | `internal/common.go` | none | `ParseTsPkt`, `PesPkt.Read` | lengths taken from the data |
| private data | `internal/common.go`, `internal/record.go` | list of fields, log file | `ParseAdaptFieldPrivData`, `LogAdaptFieldPrivData` | arithmetic in a byte, fields longer than they claim |
| bit readers | `internal/bitreader.go`, `internal/bit/reader.go` | base and bit offset | `ReadBit`, `SkipBit`, `SkipByte` | skips that leave the offset beyond a byte |
| PSI parser | `internal/psi.go` | buffers, PAT, PMTs, stream map, PCR map, psi.json | `Parse`, `BufferData`, `ParseDone`, `Finish`, `Report` | sections cut over packets, joins, losses, new versions, map order |
| two passes | `cmd/tsparser/parser.go` | records, PCR lists | `parse` | order of PCR and payload, routing to records, reports in map order |
| records | `record.go`, `pes.go`, `mp2v.go`, `h264.go`, `h265.go`, `scte35.go` in `internal` | current unit, finished units, collected bytes, clock, logs | `Process`, `NotifyTime`, `Flush`, `Report`, NAL and header scans | PES headers split over packets, data before the first start, headers at the end of a unit |
| splice sections | `internal/scte35.go` | reader position, descriptor list | `ParseSpliceInfoSection`, `Report` | two lengths for everything: the one announced, the one read |
| PCR report | `internal/pcr.go` | none | `CheckPcrInterval` | wrap-around, first value |
| send, dump | `cmd/tsparser/main.go` | bits sent, file offset, clock; output file | `send`, `dump` | pacing, loop point, short and foreign datagrams, UDP |
| parse-psi | `cmd/parse-psi/main.go`, `internal/ts` | previous PCR, pending PATs | `parse`, `Reader.Read` | interpolation before the first PCR; state reused between packets |
| caps | `cmd/caps/main.go` | packet index | `process`, `parsePacket` | payloads told apart by length, index drifting from the file |

How they interact: a reader goroutine hands packets to `parse` over a channel;
`parse` calls `PsiParser.Parse` until it returns true, then `ParseDone` (if it
did not), `Finish` and `Report`. If its parameter `psiOnly` is set it returns then;
`main` passes false. It takes the stream and PCR maps, makes one
record per stream, starts a second reader, and calls `NotifyTime` on the records
a PCR clocks and `Process` on the record of the packet's PID. At the end it writes
the PCR lists and calls `Flush` and `Report` on each record. `send` and `dump`
are processes of their own that meet on the network only.

What makes each part correct: the PSI parser publishes tables read from whole
sections, once, and its two maps and psi.json agree; the second pass loses and
doubles nothing and uses the right clock; what a run reports is about the whole
file, and it ends unless the file sends it round for ever; the sender keeps its
rate; a dump holds whole datagrams.

## The modules

| module | models | abstracts |
|---|---|---|
| `PsiParser` | every method of `PsiParser`; implements `PsiTables` | a section is its size and what it says; lengths from `MaxLen` on are alike, since the code only compares them with section lengths |
| `PsiTables` | what the PSI parser promises: learn a PAT, then a table per program, publish in one step | no packets, no buffers; may die at any moment |
| `PsiMux` | `PsiParser` under a multiplexer that repeats its tables | `hurt` is a history variable: the PIDs that were disturbed |
| `Records` | `Process`, `NotifyTime` and `Flush` of the five record types, as operators | payload is a length and how it begins; a time is the packet it was read from; private data is what comes of parsing it: it is read through, too short, or without end |
| `Demux` | the second pass over `Records` | `fed`, the packets received, is a history variable |
| `Tsparser` | `parse`, with both reader goroutines; composes `PsiParser` and `Demux`, both of which it extends | one packet has what either pass looks at |
| `Absent`, `Routes` | Go's nil; the tables `Strs` and `Pcrs`, which the first pass leaves to the second: one `strs` and one `pcrs` for both | |
| `Sums` | no code: the first values of a sequence added up (`Total`) or put one behind the other (`Joined`), with which models and properties lay things out and count them | |
| `Relay` | `send`, `dump` and the network between them | files are counted in units; `sent` is a history variable |
| `Fields` | the parsers of `internal` that read with the bit reader, as the calls they make of it, for each combination of flags: packets, PES headers, private data, splice sections, tables, the two MPEG-2 headers | what the fields say |
| `BitReader` | the loop of `ReadBit64`, `SkipBit` and `SkipByte` under these calls | a bit is its position in the data |
| `PrivateData` | `LogAdaptFieldPrivData` and the loop of `ParseAdaptFieldPrivData` | a field is tag, length and the bytes that are read of it (from `Fields`) |
| `SpliceSection` | `ParseSpliceInfoSection` | what a descriptor says is an id; the values printed in its row are left out |
| `VideoRecord` | `Process` and `Flush` of the three video records, byte by byte, with their scans and logs; implements `Records` | a PES header is scaled down to seven bytes; private data is left to `Records` and `PrivateData` |
| `ClockReports` | `parse` of parse-psi with its reader, and `CheckPcrInterval` | a packet is its PID and its PCR; the clock wraps at `Wrap` |
| `Caps` | `process` and `parsePacket` of caps, the output file | a payload is its length, its extension and what kind each 188 bytes are |
| `MC...` | the instances of the runs | |
| `...Proofs` | the theorems | |

Correspondence of state. In `PsiParser`, `pat`, `patData`, `pmtData`, `pmts`,
`strs`, `pcrs` and `info` are the fields of the struct; `status` is where `parse`
is in its first pass. A buffer remembers the section its first bytes start, how
much was collected, and whether bytes of another place were appended to an
unfinished section (`torn`); then its length is still that of its header, but
what it says is any table of that length. A panic is a state, because it ends the
process. Where a panic depends on bytes the model does not have (the loops of
`ParsePmt` over a torn section, `ParseSpliceInfoSection` over data that is no
section), both outcomes are possible (`MayFault`, `MayMisread`).

In `Records` a record has the fields of the Go types by what they are for: `cur`
is `curpkt` (for SCTE-35 `CurByte` and `CurTime`), `units` is `Pkts` (or `BytePos`,
`PcrTime` and `Sections`), `wait` and `acc` are the workaround flag and bytes, or
`CurData`. H.264 and HEVC records are alike but for the names of NAL units. Every
`Process` but that of a splice record begins with `LogAdaptFieldPrivData`. `PrivateData`
has the loop it runs; `Records` has its outcomes: `whole` data is logged, `short` data
makes it panic before anything else, `endless` data is never left. In the last case
`Demux` is `hung`. The list the loop adds to grows until the memory is used up; in the
model it grows for ever.

In `Tsparser` a reader is about to `read`, has a packet to `send`, has `closed` its
channel, or has panicked, about a packet or because the file cannot be opened or read
(`Unreadable`, at any time); sender and receiver of the unbuffered channel meet in
one step. The main goroutine's place follows from `status`, `stage` and `hand`.
The process stops when a goroutine panics or the main one returns.

In `Relay` `acc` is `accBits`, `now` the elapsed milliseconds, `tick` the channel
of `time.Tick`, which drops ticks. The network takes datagrams from a listening
socket's queue, doubles them or lets them overtake others.

In `BitReader` `base`, `off`, `n` and `v` are `Base`, `Off` and the locals of
`ReadBit64`; an iteration of its loop is an action, so is a skip. If `Off` is beyond
the byte the shift count, an unsigned number, is huge, and the action does what Go
does then. `from`, `wide` and `reach` are history.

In `PrivateData` `packet` is the packet `Process` is called with, `offset` how far the
slice `data` has moved, `privList` and `log` are the list and the report. In
`SpliceSection` `part` is what the parser is about to read, `place` the reader's `Base`,
`left` the countdown of `descriptor_loop_length`, `descriptors` and `shown` the list and
the `SegmentDescriptor` that is kept. Both models lay the encoder's elements out at
positions of their own; a parser that stands elsewhere reads `junk`, any element.

In `VideoRecord` `rec` has the fields of a record: `cur`, `pkts`, `wait`, `acc` as in
`Records`, and the rows that are logged, `nals`, `iframes` and `user`. `stream` is
what was sent, cut into packets at the lengths in `Cuts`. `ImplementsRecords` looks
at a record of bytes through every heading (`raw`, `unknown`, `pes` with its length)
that its bytes do not exclude, and requires that `Records` takes the same step.

The second pass deals in the same `strs` and `pcrs` the first one publishes. `Demux` by
itself lets them be any table (`Setup`); in `Tsparser` they are what `ParseDone` made of
the sections. `fed`, the packets dealt with so far, is history: it is what the properties
compare records with.

In `ClockReports` `file` is history, too, `b` is the buffer parse-psi reads into,
`previous` and `pats` its `previous_pcr` and `pat_pos_records`; `Blends` are the packets
that a short last read over the old buffer may pass for. In `Caps` `capture` is the
payloads dealt with, `index` and `lines` are the counter and what is printed, `phase`
is how far the program is; `written` is what of each payload got into the file, which
the program does not look at.

A few definitions, marked *Mutant of*, are deliberate mistakes in the operator
they name. No specification uses them; they show which mistake each property
would notice.

## The runs

| run | configuration | states | shows |
|---|---|---|---|
| `psi_parser` | two programs, two elementary PIDs, sections of one and two units, packets of every fragment, in any order | 10,881 | whole sections only, tables of programs only, first table wins, one publication, the two maps and psi.json agree, refinement of `PsiTables` |
| `psi_mux_faults` | two programs, sections of three units in packets of two, two versions of the PMT, all disturbances, with fairness | 457,400 | panics about a packet and torn sections need a disturbance of that PID; the first pass ends when all tables are on the air |
| `psi_mux_onepacket` | sections that fit a packet, joins and losses, two PATs | 3,560 | then no packet makes the pass panic, only `Finish` without a PAT |
| `demux_rows` | one PID with each kind of record, one that clocks it, sixteen packet shapes, six of them with private data that is short or endless, files of up to four packets | 1,291,401 | rows, clocks, sizes, PCR lists, causes of panics and of hanging |
| `tsparser_passes` | all files of up to three packets, and files of six with a PAT and a PMT among others, endless private data in some, files that cannot be read, `psiOnly` or not | 710,427 | interleavings with the readers, refinement of `PsiParser` and `Demux`, termination but for endless private data |
| `relay_stream` | datagrams of two units, files of none to four units, headers of none to two, three kinds of faults | 133,372 | pacing, looping, alignment of the dump |
| `bit_reader` | the calls of the parsers in `Fields` with each combination of flags, descriptors that are skipped backwards, 40 bytes of 8 bits | 7,804 | reads return their bits, parsers stay aligned, whether the data suffices or not |
| `private_data` | one or two packets of none to two fields, complete, cut off or with more behind them, bytes of 256 values | 296,765 | the report has the fields sent; the parser ends, or stands before a length of 254 |
| `splice_section` | every insert, time signal and other command, every segmentation descriptor, loops of two, wrong lengths, missing bytes | 34,224 | well-formed sections are read to their end, the last segmentation descriptor is kept; which lengths matter |
| `video_record` | three codecs, three PES packets of ten kinds (MPEG-2: six) in five transport packets, cut at 0, 2, 4, 7 bytes | 849,889 | key frame, NAL unit and user data rows; refinement of `Records` |
| `clock_reports` | four packets of two PIDs with PCRs, a clock of 16 values, and a last packet that is incomplete | 124,657 | PAT times, marked gaps |
| `caps_lines` | three payloads of each length class, with the program's own constants, writes that fail or are short | 1,123,157 | printed indexes lead to their packet |

The type invariants are not among the runs' properties; those of the parser, the bit
reader and the second pass are proved as they stand, and the other inductive invariants
contain what their modules need of them.

Why the bounds are enough. The parser has one buffer for the PAT and one per
program, and a step reads one of them: two programs show everything that depends
on there being another. A section of three units in packets of two has a start, a
continuation and stuffing. `MaxLen` must exceed the longest section and the
longest payload and nothing else depends on it. Four packets let a second start of
a PID meet what the first left behind, with a PCR before, between or on them; six
put packets in front of, between and behind the tables. In `Relay` a file is
shorter than, equal to, and longer than a datagram by a part and by a whole, and
three milliseconds are more than the clock needs to show both a sender that is
behind and one that is on time. `MaxTime` and `MaxOut` bound the clock and the
duplicates; a looped sender would never stop.

Forty bytes hold all sequences of calls in `Fields` but the longest, splice inserts
and segmentation descriptors with two components, which meet the end of the data.
`MaxList` cuts off a list that grows for ever, for which three entries are as good as
any. Two private fields and two descriptors are enough to have one read from where the
other left the parser, and each loop's state is no more than that place. Cuts of 0, 2,
4 and 7 bytes end a payload before, in and behind the start code, the flags and the
header, and the third unit meets what two others left; the PES packets include some
that are shorter than a header may be and some without a start code. `Caps` uses the
constants of the source; three payloads put one in front of and one behind the one that
makes the index drift. A clock of 16 values with an interval of 3 has gaps that are
allowed, too long, and wrapped.

Fairness. `FairMuxSpec`: every carousel on the air keeps turning, though any of
its packets may be lost, and `parse` runs on to `Finish`. `Tsparser`'s `FairSpec`:
the Go scheduler runs the main goroutine and each reader when they can run; nothing
makes a file unreadable.
`Relay`'s: time passes and the sender gets to run; nothing is assumed of the
receiver or the network. `PrivateData`'s `PrivFairSpec`: a goroutine that can go on
does. Deadlock is checked in all runs but `relay_stream`, where the sender may have
ended and the receiver waits for ever.

Things the properties make precise and which are easily overlooked:

- `PanicNeedsDisturbance` counts as a disturbance that the PAT was learnt while a
  PMT was being sent. No packet need be missing for the first pass to panic: a PMT
  of two packets, of which the first precedes the last packet of the PAT, is
  enough. `OnePacketNeverPanics` states what rules this out. Both are about the step
  that panics: it is the delivery of a packet of a disturbed PID, or it is `Finish` and
  there is no PAT.
- `PanicHasItsCause` and `Terminates` reckon with private data. In any stream but a splice
  stream, data too short for its fields ends the process, and a field of length 254 keeps
  the second pass at its packet for ever: `Terminates` says that it ends otherwise.
- `EveryStartHasItsRow` is about the reports written before another record panicked in
  its flush, too: there may be fewer of them, but each is complete.
- `HeaderAndSizeAreItsOwn` has a condition for video records (`Collectable`). A PES
  packet that ends before `minPesHeaderLen` bytes leaves the workaround flag set,
  and the header it was to be read from is read into a later unit.
- `SurvivesFullDatagrams` and `WholeDatagrams` need files that fill their
  datagrams; `CatchesUp` excludes looping over an empty file.
- `KeyFramesLogged` ends with the last unit but one: `Flush` logs no key frame and no
  user data, so those of the last PES packet are in no report. `UnitRowsMatch` leaves
  out NAL units of one or two bytes at the end of a unit, which the scan does not
  reach. Both need that no PES packet was too short for its header (`Undisturbed`) and
  that no start code begins with the byte behind another (`Parted`): a scan goes on
  behind that byte and misses the second code, which the attempted proof brought up.
- `ImplementsRecords` allows that bytes of two units mixed with each other look like a
  PES header, also if nothing had been collected of the first. `Records` says so since
  the proof failed without it.
- `EndsOrHangs` has two outcomes: a private data field that claims 254 bytes moves
  the slice by 2 + 254 = 0, and the loop adds it to its list for ever.
- `LogIsTheStream` needs less of a field than that it is as long as what is read of it: it
  is enough that the bytes are there, be they of the fields behind it.
- `SpliceAsEncoded` shows which segmentation descriptor is kept for the row: the last.
  `WellEncoded` is what the code needs of a section: exact lengths of segmentation
  descriptors and unknown commands, any of splice inserts and time signals.
- `PatsAreTimed` bounds times from below by 0, not by a PCR, for the PATs in front of
  the first: they are interpolated from a PCR of 0 at position 0. An incomplete last
  packet may print a PAT that is not in the file, out of what the buffer held.
- `GapsAreMarked` excepts the rows where the clock wraps around: their difference is
  negative and never marked.
- `LinesPointIntoTheFile` holds up to the bytes that earlier payloads have beyond
  whole packets, and only if every write succeeds; neither is looked at.
- `ReadsItsBits` holds for an offset of 8, at the end of a byte, where `SkipBit` puts
  it; `StaysAligned` says that no parser goes beyond. `ParseMp2vPicHeader` and
  `ParseMp2vGopHeader` stop amid a byte, 13 and 26 bits on; nothing is read behind them,
  and `StaysAligned` makes them its only exception.

## What is proved

All for every value of the constants that satisfies the named assumptions of the
modules (`PsiAssumption`, `MuxAssumption`, `RecordAssumption`, `DemuxAssumption`,
`FileAssumption`, `RelayAssumption`, `ReaderAssumption`, `ClockAssumption`,
`CapsAssumption`, `PrivAssumption`, `SpliceAssumption`, `VideoAssumption`): finite sets
of PIDs, sections that fit `MaxLen`, a buffer of at least a datagram, bytes of at least
a bit, packets, payloads, sections and routes of their types, PCR values below `Wrap`,
and `Nil` being none of the values it stands beside. The runs check each assumption for
their instance.

`SumProofs` holds what the other proofs count with. The library's induction theorems are
about operators; `ReachesAll` is induction stated of a set, proved from the natural
numbers being well-founded. From it follow `RecursionExists`, that the equation of a
recursive function has a solution, and how a sum grows with the values it is taken over
(`TotalSteps`, `TotalAgrees`, `TotalGrows`, `TotalIncreases`). `TotalTells` says that
elements of some length each, laid out one behind the other, begin at different places, so
that a place tells which one begins there. `JoinedSteps` and `JoinedAgrees` are the same for
sequences put one behind the other, and `JoinedFromTheEnd` that they can be put together
from the end, as a recursive scan does it.

`PsiParserProofs`. Each safety property of the run `psi_parser`, its two action
properties, and that the parser implements `PsiTables`. Type correctness is
inductive by itself. `TablesInv` adds what `WholeSectionsOnly` and
`TablesOfPrograms` need of each other: an early "complete" must find a buffer that
is whole, or `Faults` would have held; a table belongs to a program of the PAT; and
a buffer that produced a table is whole, so that appending to it changes its length
only, which is why a table never changes. `RouteInv` says that before the
publication the maps are empty and after it they are what `ParseDone` makes of the
tables; `RoutesMatchStreams` and `ReportAgreesWithRecords` follow. The refinement
needs that the two maps have equal size only when they have equal domain, by the
cardinality of finite sets.

`DeliveryProofs`, of sections and of datagrams that may get lost. For `PsiMux`, first,
that a step of the composition is a step of `PsiParser` or leaves it alone, which carries
`TablesInv` over. `MuxInv` then aligns buffer and carousel: as long as a PID is not hurt
and its table unread, what is buffered is exactly what the carousel has sent of its
current section. For streams of one-packet sections `SinglesInv` says that every buffer
is whole as soon as it is there.

For `Relay`, `PaceInv` bounds `acc` by the budget of the current millisecond and
a datagram, by the monotonicity of integer division. `FullInv` says that the
sender's offset is a multiple of `UdpSize` and that each datagram under way has
its header and `UdpSize` units, however the network rearranges them. `PlayInv` adds to
`PlaysTheFile` that what was sent is so many whole rounds and the part of the file before
the offset (`InRound`), which ties the position in `sent` to the offset the next chunk is
read at. `WholeInv` says of what is under way, in any order and number, that each datagram
is one chunk (`InFull`); then the dump appends whole chunks. `OrderInv` needs a relation of all
places a unit can be: each datagram under way is of a later part of the file than those
before it, what is written is earlier than all that is under way, and nothing is of a
part not yet read.

`DemuxProofs`. All properties of the run. `RecordInv` is what a record's fields need of each
other for its type: while bytes are collected there is a unit they are for, and the
header they begin with is no longer than the bytes the code waits for before it reads
it. `DemuxInv` says that past `Setup` a stream has a record of its kind and other PIDs
have none. Then `DemuxTypeOK` holds, no size is ever negative, and no PCR is distributed to
a stream without a record. The properties of rows need more:

- `EachPcrListedOnce` is inductive once `ListInv` says that the lists are empty before the
  pass begins.
- `RowInv` proves `EveryStartHasItsRow` and `ClockIsTheLatest` together: a row gets its
  clock from the record, so the record's clock must be the latest PCR up to now; and a
  splice record without an open section has no row, so that data before the first start
  makes one phantom row, in front. What is proved of the handlers is what each does to
  the rows: it keeps them, or adds one (`Handled`).
- `OwnInv` proves `HeaderAndSizeAreItsOwn` and `PanicHasItsCause`. For each type it says
  what the open unit and the collected bytes are in terms of the packets received:
  `PesOpen`, `VideoOpen`, `ScteOpen`. A size is a difference of two sums of payload lengths,
  which is where `SumProofs` is needed. For video the collected bytes are the payload
  since the start only as long as no earlier unit left the flag set, so the invariant is
  conditional on `Collectable`; and since a packet can make `Collectable` false and never
  true again, the condition of the next state gives that of this one.

`TsparserProofs`. `HandInv` says how far each reader is and that the packet in hand is
one of the file's; `PassInv` adds where the main goroutine is and what the second reader
has done by then: nothing before the tables are published, and after that it has sent
what was fed, and the packet in hand. `FedInOrder` and `ReportsNeedTheWholeFile` follow.
For the first pass, `Parse` looks at no more of a packet than its piece, and the packets of
PIDs it knows nothing of are skipped: so each step is one of `PsiParser`, and all its
theorems hold in the composition. For the second, the routes change once, to what
`ParseDone` makes of tables (`RouteInv` of `PsiParserProofs`), which are the routes
`Demux` allows; and the packet in hand is the next one of the file. `Demux` may feed
any file and take any such routes, so this refinement says which of its freedoms
`parse` uses, and the theorems of `DemuxProofs` hold in the composition.
`RowsOfTheWholeFile` puts three of them together: the rows are the starts that were fed,
what was fed is the file, and nothing is reported before all of it was.

`PositionProofs`, of four readers that must stand where they should.

- For any sequence of calls, any size of a byte and any data `ReadsItsBits` holds.
  `ReadInv` adds that while reads have begun within a byte or at its end, `off` does not
  exceed the byte in the loop, and that the bits read so far are a run of positions from
  where the read began; a run followed by the next one is a run.
- `CapsInv` says that `index` is the number of whole packets in the payloads dealt with
  and that each line is one of `RightLines`: it names a packet with a PCR and its index
  counted from the first payload. `LinesPointIntoTheFile` follows, because a sum of
  lengths is the sum of their whole packets and of their rests (`BytesInFront`).
- `PrivInv` says of well-formed data that the loop stands where a field begins or all of
  them end, that `privList` is the fields up to there, and that the report is what is
  expected of the packets before. By `TotalTells` the field the parser reads is the next
  one, whatever it was that the flags of the last one asked for. `LogIsTheStream` follows.
- `SpliceInv` says of a well-formed section that the parser stands where the encoder put
  the header, the command, the loop's length or the next element, that `left` is what the
  elements from there on take, and that the descriptors are those in front, with the last
  segmentation descriptor among them as `shown`. `SpliceAsEncoded` follows.

`VideoProofs`. Both the rows of the reports, and that `VideoRecord` implements `Records`,
for any PES packets, any cuts and any number of units.

- `FoundIsCodes`: a recursive scan of data whose start codes are `Apart` finds exactly the
  codes in it, in order. `HeaderStays`: what is read of a header from the bytes at hand
  is what is read of it when more have come. With these `VideoInv` is inductive: the
  open unit has the payload and time stamp of what was sent of it, or is waiting and has
  collected exactly that (`Opened`), and the reports have the rows of the units before
  (`Kept`).
  It needs `Undisturbed` and `Parted` only of what was sent up to now, and a step can
  make either false and never true again. `KeyFrames` and `UnitRows` are
  `KeyFramesLogged` and `UnitRowsMatch`.
- `BytesAreRecords` is `ImplementsRecords`, step by step, for all streams, disturbed or
  not. `Records` knows of collected bytes only what they look like, so the proof says which
  look the bytes had before a step: any heading that fits bytes fitted them before there
  were more (`LooksBefore`), and when `MinHeader` bytes have come, what is read of them is what
  the heading says (`LooksRight`). Then `Process` on bytes is `VideoProcess` on lengths by
  the cases of the code: a start that is short, a start that is not, more of a
  unit (`ShortFollows`, `LongFollows`, `GoOnFollows`); and `Flush` is `Flush`.

`ClockReportsProofs`. `TimedInv` says that the PATs up to the last PCR are printed and those behind
it wait, that `previous` is that PCR, and, as long as there is one clock, that no printed
time is beyond it: which is why the times of the next lines are not less than the
earlier ones. That a new time lies between its PCRs is a fact about Go's division
(`Parts`): a share of a distance is within the distance, grows with the position, and is
all of it at the end. The invariant is of any packets, so it covers the incomplete one, for
which it needs no more than that it could have been a packet (`BlendsAreSeen`). For
`GapsAreMarked` the two loops are recursive functions; `ReportIs` says what the report has in
each row, by induction over the list, and `Elapsed` that a difference is the time elapsed
unless the clock wrapped.

Only model-checked:

- all liveness (`FirstPassEnds`, `Terminates`, `CatchesUp`, `EndsOrHangs`): the proof
  system has no rules for it here;
- `StaysAligned` of `BitReader`: it is about the parsers of this program, which are a
  finite set, and TLC runs each of them with each combination of flags.

## What is not modelled

The text of reports and logs, and numbers that are only printed: time stamps put
together from their fields, NTP times, the values of EBP and broadcast fields,
`pts_adjustment`, the times and durations of splice rows. Output files that cannot be
created. What a PES header holds behind its time stamps; the code skips
`PES_header_data_length` and takes that for payload. `extract` and `verify`, which no
program calls, and `PatChecker`. Name tables and flag parsing. gopacket, which caps
reads captures with, is external: a capture is a sequence of payloads.

## What could follow

All parts with behaviour are modelled, and each safety property but `StaysAligned` is
proved. Worth adding would be:

- the part of `EndsOrHangs` that is safety: that the parser of private data stays within
  its data, and never stands still before any other field than one of 254 bytes;
- `PES_header_data_length` in `VideoRecord`, so that what the code takes for payload and
  what was sent as stuffing are told apart.
