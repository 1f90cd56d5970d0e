------------------------------- MODULE PsiMux -------------------------------
(***************************************************************************)
(* PsiParser fed by a transport stream.  Every PSI PID is a carousel: the  *)
(* multiplexer cuts the current section into packets of Payload units,     *)
(* repeats it, and may go over to another section between two rounds.  The *)
(* file may start anywhere in a round, packets may be missing from it, and *)
(* the multiplexer may end a section and start the next in one packet.     *)
(*                                                                         *)
(* `hurt' remembers the PIDs the parser could not have read cleanly: those *)
(* it began to listen to in mid-section, and those of which a packet was   *)
(* lost or shared by two sections.                                         *)
(***************************************************************************)
EXTENDS PsiParser

CONSTANTS Payload,  \* the length units one packet carries
          Upsets    \* the disturbances this stream may show

ASSUME MuxAssumption ==
  /\ Payload \in HeaderLen .. MaxLen
  /\ Upsets \subseteq {"join", "loss", "shared"}
  /\ PatSection # {} /\ PmtSection # {}
  /\ \A s \in Section : Payload + s.size <= MaxLen

VARIABLES feed,   \* per PID on the air, the section being sent and the units already sent
          onAir,  \* the PIDs that are sent at all
          hurt

muxVars == <<feed, onAir, hurt>>
vars == <<psiVars, muxVars>>

SectionOf(p) == IF p = PatPid THEN PatSection ELSE PmtSection

\* The offsets in a section at which its packets start.
Cuts(s) == {0} \cup {i \in Payload .. s.size - 1 : i % Payload = 0}

MuxTypeOK ==
  /\ feed \in [PsiPid -> [sec : Section, off : 0 .. MaxLen]]
  /\ \A p \in PsiPid : feed[p].sec \in SectionOf(p) /\ feed[p].off < feed[p].sec.size
  /\ onAir \subseteq PsiPid
  /\ hurt \subseteq PsiPid

MuxInit ==
  /\ PsiInit
  /\ feed \in {f \in [PsiPid -> UNION {[sec : {s}, off : Cuts(s)] : s \in Section}] :
                 \A p \in PsiPid : /\ f[p].sec \in SectionOf(p)
                                   /\ "join" \notin Upsets => f[p].off = 0}
  /\ onAir \in SUBSET PsiPid
  /\ hurt = IF feed[PatPid].off = 0 THEN {} ELSE {PatPid}

\* A position in a round: within section s, or at the start of some section.
From(s, i, p) ==
  IF i < s.size THEN {[sec |-> s, off |-> i]}
                ELSE {[sec |-> t, off |-> 0] : t \in SectionOf(p)}

\* The next packet of p, stuffed up to Payload behind the end of a section.
PacketOf(p) ==
  [pid |-> p, pusi |-> feed[p].off = 0, sec |-> feed[p].sec,
   off |-> feed[p].off, tail |-> 0, len |-> Payload]

\* The parser begins to listen to the PIDs of the programs when it has the PAT,
\* wherever their rounds are then.
JoinedAmid ==
  IF pat = Nil /\ pat' # Nil THEN {p \in pat'.programs : feed'[p].off # 0} ELSE {}

Advance(p) ==
  \E f \in From(feed[p].sec, feed[p].off + Payload, p) : feed' = [feed EXCEPT ![p] = f]

Deliver(p) ==
  /\ p \in onAir
  /\ Parse(PacketOf(p))
  /\ Advance(p)
  /\ hurt' = hurt \cup JoinedAmid
  /\ UNCHANGED onAir

\* The packet is missing from the file.
Lose(p) ==
  /\ "loss" \in Upsets
  /\ status = "parsing" /\ p \in onAir
  /\ Advance(p)
  /\ hurt' = hurt \cup {p}
  /\ UNCHANGED <<psiVars, onAir>>

\* The last units of a section and the first of the next one in one packet,
\* the pointer field leading over the former.
DeliverShared(p) ==
  LET rest == feed[p].sec.size - feed[p].off IN
  /\ "shared" \in Upsets
  /\ p \in onAir
  /\ feed[p].off > 0 /\ rest < Payload
  /\ \E s \in SectionOf(p) :
       /\ Parse([pid |-> p, pusi |-> TRUE, sec |-> s, off |-> 0,
                 tail |-> rest, len |-> Payload])
       /\ \E f \in From(s, Payload - rest, p) : feed' = [feed EXCEPT ![p] = f]
  /\ hurt' = hurt \cup {p} \cup JoinedAmid
  /\ UNCHANGED onAir

StreamEnds == EndOfPackets /\ UNCHANGED muxVars
MuxFinish == Finish /\ UNCHANGED muxVars
MuxEnded == PsiEnded /\ UNCHANGED muxVars

MuxNext ==
  \/ \E p \in PsiPid : Deliver(p) \/ Lose(p) \/ DeliverShared(p)
  \/ StreamEnds
  \/ MuxFinish
  \/ MuxEnded

MuxSpec == MuxInit /\ [][MuxNext]_vars

\* Every carousel on the air keeps turning, and parse() goes on to Finish.
FairMuxSpec ==
  MuxSpec /\ (\A p \in PsiPid : WF_vars(Deliver(p))) /\ WF_vars(MuxFinish)
-----------------------------------------------------------------------------
(* Properties *)

\* BufferData and the section parsers panic about no packet of a PID that was not
\* disturbed itself, whatever became of the others; but beginning to listen to a PMT
\* in mid-section is such a disturbance.  Finish panics when the file holds no PAT.
PanicNeedsDisturbance ==
  [][ status # "panic" /\ status' = "panic" =>
        \/ status = "parsing" /\ \A p \in PsiPid \ hurt' : ~Deliver(p) /\ ~DeliverShared(p)
        \/ status = "done" /\ pat = Nil ]_vars

\* When all sections fit a packet and every start opens its packet, no join
\* offset, loss or change of table makes Parse panic, neither about a PAT nor about a
\* PMT: only Finish does, for want of a PAT.
OnePacketSections ==
  "shared" \notin Upsets /\ \A s \in Section : s.size <= Payload
OnePacketNeverPanics ==
  [][ OnePacketSections /\ status = "parsing" => status' # "panic" ]_vars

\* What is read on a PID nothing happened to is a section of the multiplexer,
\* whole and unmixed with the next version or the next round of the table.
UndisturbedIsUntorn ==
  /\ PatPid \notin hurt /\ patData # Nil => ~patData.torn /\ patData.tail = 0
  /\ \A p \in PmtPid \ hurt : pmtData[p] # Nil => ~pmtData[p].torn /\ pmtData[p].tail = 0

\* When the PAT and the PMTs of all its programs are on the air, the first pass
\* comes to an end by itself: Parse returns true, or the process panics.
Announced == PatPid \in onAir /\ \A s \in PatSection : s.programs # {} /\ s.programs \subseteq onAir
FirstPassEnds == Announced ~> status \in {"reported", "panic"}
=============================================================================
