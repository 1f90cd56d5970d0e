------------------------------- MODULE Relay -------------------------------
(***************************************************************************)
(* tsparser -send and tsparser -dump (cmd/tsparser/main.go): one process   *)
(* plays a file as UDP datagrams at a bit rate, another writes what it     *)
(* receives to a file.                                                     *)
(*                                                                         *)
(* Files, datagrams and rates are counted in units of the file.  A unit of *)
(* the file is known by its offset in it, a unit of a protocol header that *)
(* something on the way put in front of a datagram is Header.  A send of a *)
(* looped file never ends: MaxTime bounds the time that is looked at.      *)
(***************************************************************************)
EXTENDS Integers, Sequences, SequencesExt

CONSTANTS UdpSize,  \* the size of the sender's buffer, and of what a datagram holds
          MtuSize,  \* the size of the receiver's buffer
          Sizes,    \* the sizes the file may have
          Rates,    \* the bit rates, in units per second
          Second,   \* the clock ticks of a second: 1000
          Headers,  \* how many units of header the datagrams arrive with
          NetFaults, \* what the network may do: "loss", "duplicate", "reorder"
          InFlight, \* the datagrams that are under way or in the socket at most
          MaxTime,  \* bound on the clock
          MaxOut    \* bound on the output file, at which no datagram is duplicated

Header == -1

ASSUME RelayAssumption ==
  /\ UdpSize \in Nat \ {0} /\ MtuSize \in Nat /\ UdpSize <= MtuSize
  /\ Sizes \subseteq Nat /\ Rates \subseteq Nat /\ Headers \subseteq Nat
  /\ Second \in Nat \ {0}
  /\ NetFaults \subseteq {"loss", "duplicate", "reorder"}
  /\ InFlight \in Nat /\ MaxTime \in Nat /\ MaxOut \in Nat

VARIABLES size, bitrate, loop,  \* the file, the bit rate, -loop
          hdr,       \* the header the datagrams get on the way
          faults,    \* what this network does
          now,       \* milliseconds since startTime
          tick,      \* timeout holds a tick: time.Tick drops those that find one there
          at,        \* where send() is
          off,       \* the offset of f
          acc,       \* accBits
          sent,      \* history: the units sent so far
          net,       \* the datagrams under way
          dump,      \* where dump() is
          out        \* the contents of the output file

params == <<size, bitrate, loop, hdr, faults>>
clock == <<now, tick>>
sender == <<at, off, acc, sent>>
receiver == <<dump, out>>
relayVars == <<params, clock, sender, net, receiver>>

Datagram == Seq(Nat \cup {Header})

TypeOK ==
  /\ size \in Sizes /\ bitrate \in Rates /\ loop \in BOOLEAN
  /\ hdr \in Headers /\ faults \subseteq NetFaults
  /\ now \in 0 .. MaxTime /\ tick \in BOOLEAN
  /\ at \in {"waiting", "pacing", "done", "fatal"}
  /\ off \in 0 .. size /\ acc \in Nat /\ sent \in Seq(Nat)
  /\ net \in Seq(Datagram) /\ Len(net) <= InFlight
  /\ dump \in {"off", "listening", "panic"} /\ out \in Datagram

Init ==
  /\ size \in Sizes /\ bitrate \in Rates /\ loop \in BOOLEAN
  /\ hdr \in Headers /\ faults \in SUBSET NetFaults
  /\ now = 0 /\ tick = FALSE
  /\ at = "waiting" /\ off = 0 /\ acc = 0 /\ sent = <<>>
  /\ net = <<>>
  /\ dump = "off" /\ out = <<>>

-----------------------------------------------------------------------------
(* send *)

\* bitrate*elapsedTime/1000, an integer division.
Budget(time) == (bitrate * time) \div Second
\* Mutant of Behind: a sender that is on time is behind.
OnTimeIsBehind == acc <= Budget(now)
Behind == acc < Budget(now)

\* A millisecond passes.
Pass ==
  /\ now < MaxTime
  /\ now' = now + 1 /\ tick' = TRUE
  /\ UNCHANGED <<params, sender, net, receiver>>

Wake ==
  /\ at = "waiting" /\ tick
  /\ at' = "pacing" /\ tick' = FALSE
  /\ UNCHANGED <<params, now, off, acc, sent, net, receiver>>

CaughtUp ==
  /\ at = "pacing" /\ ~Behind
  /\ at' = "waiting"
  /\ UNCHANGED <<params, clock, off, acc, sent, net, receiver>>

\* Mutant of Chunk: all of buf.
WholeBuffer == [i \in 1 .. UdpSize |-> off + i - 1]

\* buf[:n], the units the next Read returns.
Chunk == [i \in 1 .. (IF size - off < UdpSize THEN size - off ELSE UdpSize) |-> off + i - 1]

\* Who does not listen misses the datagram, and a full socket drops it.
Carried(d) == IF dump = "listening" /\ Len(net) < InFlight THEN Append(net, d) ELSE net

\* Mutant of SendNext: one datagram per tick.
OnePerTick ==
  /\ at = "pacing" /\ Behind
  /\ off < size
  /\ off' = off + Len(Chunk)
  /\ acc' = acc + Len(Chunk)
  /\ sent' = sent \o Chunk
  /\ net' = Carried([i \in 1 .. hdr |-> Header] \o Chunk)
  /\ at' = "waiting"
  /\ UNCHANGED <<params, clock, receiver>>

SendNext ==
  /\ at = "pacing" /\ Behind
  /\ off < size
  /\ off' = off + Len(Chunk)
  /\ acc' = acc + Len(Chunk)
  /\ sent' = sent \o Chunk
  /\ net' = Carried([i \in 1 .. hdr |-> Header] \o Chunk)
  /\ UNCHANGED <<params, clock, at, receiver>>

\* Write returns an error, and the process ends.
WriteFails ==
  /\ at = "pacing" /\ Behind
  /\ off < size
  /\ at' = "fatal" /\ off' = off + Len(Chunk) /\ acc' = acc + Len(Chunk)
  /\ UNCHANGED <<params, clock, sent, net, receiver>>

\* Mutant of EndOfFile: -loop is not looked at.
AlwaysLoops ==
  /\ at = "pacing" /\ Behind
  /\ off = size
  /\ off' = 0
  /\ UNCHANGED <<params, clock, at, acc, sent, net, receiver>>

\* Read returns nothing and io.EOF.
EndOfFile ==
  /\ at = "pacing" /\ Behind
  /\ off = size
  /\ IF loop THEN off' = 0 /\ UNCHANGED at
             ELSE at' = "done" /\ UNCHANGED off
  /\ UNCHANGED <<params, clock, acc, sent, net, receiver>>

-----------------------------------------------------------------------------
(* The network *)

LoseDatagram(i) == "loss" \in faults /\ net' = RemoveAt(net, i)
Duplicate(i) ==
  /\ "duplicate" \in faults
  /\ Len(net) < InFlight /\ Len(out) < MaxOut
  /\ net' = Append(net, net[i])
Overtake(i) == "reorder" \in faults /\ i > 1 /\ net' = <<net[i]>> \o RemoveAt(net, i)

Disturb ==
  /\ \E i \in DOMAIN net : LoseDatagram(i) \/ Duplicate(i) \/ Overtake(i)
  /\ UNCHANGED <<params, clock, sender, receiver>>

-----------------------------------------------------------------------------
(* dump *)

Listen ==
  /\ dump = "off"
  /\ dump' = "listening"
  /\ UNCHANGED <<params, clock, sender, net, out>>

\* b[:n]: what is longer than the buffer is cut off.
Received(d) == SubSeq(d, 1, IF Len(d) < MtuSize THEN Len(d) ELSE MtuSize)

\* Mutant of Written: the header is left, and the end cut off.
FromFront(b) == SubSeq(b, 1, UdpSize)

\* b[offset:n], for an offset of n - UdpSize.
Written(b) == SubSeq(b, Len(b) - UdpSize + 1, Len(b))

\* Mutant of Receive: a datagram without a header is not expected.
HeaderExpected ==
  /\ dump = "listening" /\ net # <<>>
  /\ net' = Tail(net)
  /\ LET b == Received(Head(net)) IN
     IF Len(b) <= UdpSize THEN dump' = "panic" /\ UNCHANGED out
                          ELSE out' = out \o Written(b) /\ UNCHANGED dump
  /\ UNCHANGED <<params, clock, sender>>

Receive ==
  /\ dump = "listening" /\ net # <<>>
  /\ net' = Tail(net)
  /\ LET b == Received(Head(net)) IN
     IF Len(b) < UdpSize THEN dump' = "panic" /\ UNCHANGED out
                         ELSE out' = out \o Written(b) /\ UNCHANGED dump
  /\ UNCHANGED <<params, clock, sender>>

-----------------------------------------------------------------------------
Send == Wake \/ CaughtUp \/ SendNext \/ WriteFails \/ EndOfFile

Next == Pass \/ Send \/ Disturb \/ Listen \/ Receive

Spec == Init /\ [][Next]_relayVars

\* Time passes, and the sender gets to run.
FairSpec == Spec /\ WF_relayVars(Pass) /\ WF_relayVars(Send)
-----------------------------------------------------------------------------
(* Properties *)

\* The sender is never ahead of its bit rate by a datagram or more, however the
\* ticks it misses and the reads of the clock within a tick fall.
OnPace == acc < Budget(now) + UdpSize

\* What was sent is the file, over and over or once, without a gap where the
\* last and the first datagram of two rounds meet, and nothing behind its end.
PlaysTheFile ==
  /\ \A i \in DOMAIN sent : sent[i] = (i - 1) % size
  /\ at # "fatal" => Len(sent) = acc
  /\ ~loop => Len(sent) <= size

\* A dump of what -send sends only survives if the file fills its datagrams: the
\* receiver's offset is negative for the short datagram at the end of another.
Filled == size % UdpSize = 0
SurvivesFullDatagrams == Filled => dump # "panic"

\* The chunks of the output file, by the first unit of each.
Chunks == {i \in DOMAIN out : i % UdpSize = 1 % UdpSize}

\* Whatever the network does, and whatever header it puts in front, the output
\* file is made of whole datagrams of the input file, as long as header and
\* payload fit the receiver's buffer.
WholeDatagrams ==
  Filled /\ hdr + UdpSize <= MtuSize =>
    /\ Len(out) % UdpSize = 0
    /\ \A i \in Chunks : /\ out[i] % UdpSize = 0
                         /\ \A j \in 0 .. UdpSize - 1 : out[i + j] = out[i] + j

\* Of a file that is sent once, a network that only loses datagrams delivers the
\* rest in order, none of it twice.
OrderKept ==
  ~loop /\ faults \subseteq {"loss"} /\ Filled /\ hdr + UdpSize <= MtuSize =>
    \A i, j \in DOMAIN out : i < j => out[i] < out[j]

\* The sender makes up for everything it owes, unless it is asked to loop over
\* an empty file, which it reads again and again within one tick.
CatchesUp ==
  size > 0 \/ ~loop => <>(at \in {"done", "fatal"} \/ acc >= Budget(MaxTime))
=============================================================================
