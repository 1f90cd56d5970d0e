---------------------------- MODULE PrivateData ----------------------------
(***************************************************************************)
(* The private data of adaptation fields: LogAdaptFieldPrivData (record.go) *)
(* and the loop of ParseAdaptFieldPrivData (common.go) it runs for every    *)
(* packet of a record.                                                     *)
(*                                                                         *)
(* Private data is the fields that were written and the number of bytes    *)
(* that are there, be they more or fewer.  A field has a tag, a length and *)
(* the number of bytes its flags ask the parser to read, for which the     *)
(* length is hardly looked at.  Where the parser stands at no field, it     *)
(* reads whatever the bytes there look like: `junk', a field as well.      *)
(***************************************************************************)
EXTENDS Fields, SequencesExt, Absent

CONSTANTS Values,   \* the values of a byte: 256
          Data,     \* the private data packets may have
          MaxPkts,  \* bound: the packets of the record
          MaxList   \* bound: privList is not followed further

Field == [tag : Nat, len : Nat, need : Nat]
LogLine == [pos : Nat, tag : Nat, len : Nat]

ASSUME PrivAssumption ==
  /\ Values \in Nat /\ Values > 2
  /\ \A d \in Data : /\ d.fields \in Seq(Field) /\ d.size \in Nat /\ d.junk \in Field
                     /\ d.junk.len < Values
                     /\ \A i \in DOMAIN d.fields : d.fields[i].len < Values
  /\ Nil \notin Data \cup Seq(LogLine)
  /\ MaxPkts \in Nat /\ MaxList \in Nat
  /\ \A d \in Data : Len(d.fields) <= MaxList

VARIABLES pkts,     \* the private data of the packets, one after the other
          packet,   \* the packet Process is called with
          stage,    \* "next", "loop" in ParseAdaptFieldPrivData, "done" or "panic"
          offset,   \* where the slice `data' begins
          privList, \* privList
          log       \* the lines of the -tspriv report, or Nil before it is created

privVars == <<pkts, packet, stage, offset, privList, log>>

PrivInit ==
  /\ pkts \in BoundedSeq(Data \cup {Nil}, MaxPkts)
  /\ packet = 1 /\ stage = "next"
  /\ offset = 0 /\ privList = <<>> /\ log = Nil

\* Where the i-th field begins.
Start(fields, i) == Total([j \in DOMAIN fields |-> 2 + fields[j].len], i - 1)

FieldSeen ==
  LET d == pkts[packet]
      here == {i \in DOMAIN d.fields : Start(d.fields, i) = offset}
  IN  IF here = {} THEN d.junk ELSE d.fields[CHOOSE i \in here : TRUE]

\* LogAdaptFieldPrivData of a packet without private data, and with it.
Without ==
  /\ stage = "next" /\ packet <= Len(pkts) /\ pkts[packet] = Nil
  /\ packet' = packet + 1
  /\ UNCHANGED <<pkts, stage, offset, privList, log>>
Begin ==
  /\ stage = "next" /\ packet <= Len(pkts) /\ pkts[packet] # Nil
  /\ stage' = "loop" /\ offset' = 0 /\ privList' = <<>>
  /\ log' = IF log = Nil THEN <<>> ELSE log
  /\ UNCHANGED <<pkts, packet>>

\* Mutants of Moved: by the length without tag and length; by what was read.
ByLength(f) == f.len % Values
ByNeed(f) == (2 + f.need) % Values

\* 2+priv.FieldLen is computed in a byte.
Moved(f) == (2 + f.len) % Values

\* What the parser needs is there: tag and length, what it reads of the field,
\* and the bytes it moves on by.
Readable(f) ==
  LET left == pkts[packet].size - offset IN 2 <= left /\ f.need <= left - 2 /\ Moved(f) <= left

ParseField ==
  /\ stage = "loop" /\ offset < pkts[packet].size
  /\ Readable(FieldSeen)
  /\ privList' = IF Len(privList) < MaxList THEN Append(privList, FieldSeen) ELSE privList
  /\ offset' = offset + Moved(FieldSeen)
  /\ UNCHANGED <<pkts, packet, stage, log>>

BeyondData ==
  /\ stage = "loop" /\ offset < pkts[packet].size
  /\ ~Readable(FieldSeen)
  /\ stage' = "panic"
  /\ UNCHANGED <<pkts, packet, offset, privList, log>>

LogLines(pos, fields) == [i \in DOMAIN fields |-> [pos |-> pos, tag |-> fields[i].tag, len |-> fields[i].len]]

\* The whole list is parsed before the first line of it is written.
WriteLines ==
  /\ stage = "loop" /\ offset >= pkts[packet].size
  /\ log' = log \o LogLines(packet, privList)
  /\ stage' = "next" /\ packet' = packet + 1
  /\ UNCHANGED <<pkts, offset, privList>>

NoMore ==
  /\ stage = "next" /\ packet > Len(pkts)
  /\ stage' = "done"
  /\ UNCHANGED <<pkts, packet, offset, privList, log>>

PrivEnded == stage \in {"done", "panic"} /\ UNCHANGED privVars

Step == Without \/ Begin \/ ParseField \/ BeyondData \/ WriteLines \/ NoMore
PrivNext == Step \/ PrivEnded

PrivSpec == PrivInit /\ [][PrivNext]_privVars

\* The goroutine goes on as long as it can.
PrivFairSpec == PrivSpec /\ WF_privVars(Step)
-----------------------------------------------------------------------------
(* Properties *)

\* The data holds whole fields, of lengths that fit a byte together with tag and
\* length.  A field may be shorter than what is read of it, if that is there: it is
\* read of the fields behind it then.
WellFormed(d) ==
  /\ d.size = Start(d.fields, Len(d.fields) + 1)
  /\ \A i \in DOMAIN d.fields : /\ d.fields[i].need <= d.size - Start(d.fields, i) - 2
                               /\ d.fields[i].len < Values - 2

Expected(j) == Joined([i \in DOMAIN pkts |-> IF pkts[i] = Nil THEN <<>> ELSE LogLines(i, pkts[i].fields)], j)

\* For well-formed data the report has every field of every packet, in order and
\* at its packet, for as many packets as have been dealt with: a field that is
\* shorter or longer than what is read of it does not put the parser out.
LogIsTheStream ==
  (\A i \in DOMAIN pkts : pkts[i] # Nil => WellFormed(pkts[i])) =>
    /\ stage # "panic"
    /\ IF log = Nil THEN \A i \in 1 .. packet - 1 : pkts[i] = Nil ELSE log = Expected(packet - 1)

\* Every packet is done with, or the parser comes to stand before a field that
\* claims a length of 254 and stays there, adding it to privList for ever.
EndsOrHangs ==
  \/ <>(stage \in {"done", "panic"})
  \/ <>[](stage = "loop" /\ FieldSeen.len = Values - 2)
=============================================================================
