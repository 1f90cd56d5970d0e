----------------------------- MODULE PsiTables -----------------------------
(***************************************************************************)
(* What the PSI parser promises the rest of tsparser, without packets or   *)
(* buffers: it learns one PAT, then at most one table for each program of  *)
(* that PAT, in any order; the routing tables are published in one step,   *)
(* with the last table or at the end of the file, and psi.json after them. *)
(* At any moment the process may die of a panic instead.                   *)
(***************************************************************************)
EXTENDS FiniteSets

CONSTANTS PmtPid, EsPid, Kind, PatSection, PmtSection, Nil

VARIABLES pat, pmts, strs, pcrs, info, status

vars == <<pat, pmts, strs, pcrs, info, status>>

Learnt(tables) == {p \in PmtPid : tables[p] # Nil}
Offers(tables, e) == {tables[p].streams[e] : p \in Learnt(tables)} \ {Nil}

Init ==
  /\ pat = Nil
  /\ pmts = [p \in PmtPid |-> Nil]
  /\ strs = [e \in EsPid |-> Nil]
  /\ pcrs = [e \in EsPid |-> {}]
  /\ info = Nil
  /\ status = "parsing"

\* Every stream gets a type some table offers, and is driven by the clock of
\* every table that lists it.
Publish(tables) ==
  /\ strs' \in [EsPid -> Kind \cup {Nil}]
  /\ \A e \in EsPid : IF Offers(tables, e) = {} THEN strs'[e] = Nil
                                                ELSE strs'[e] \in Offers(tables, e)
  /\ pcrs' = [c \in EsPid |->
                {e \in EsPid : \E p \in Learnt(tables) :
                   tables[p].pcr = c /\ tables[p].streams[e] # Nil}]
  /\ status' = "done"

LearnPat ==
  /\ status = "parsing" /\ pat = Nil
  /\ pat' \in PatSection
  /\ UNCHANGED <<pmts, strs, pcrs, info, status>>

LearnPmt(p) ==
  /\ status = "parsing" /\ pat # Nil
  /\ p \in pat.programs /\ pmts[p] = Nil
  /\ \E t \in PmtSection : pmts' = [pmts EXCEPT ![p] = t]
  /\ IF Learnt(pmts') = pat.programs THEN Publish(pmts')
                                     ELSE UNCHANGED <<strs, pcrs, status>>
  /\ UNCHANGED <<pat, info>>

EndOfFile ==
  /\ status = "parsing"
  /\ Publish(pmts)
  /\ UNCHANGED <<pat, pmts, info>>

Report ==
  /\ status = "done" /\ pat # Nil
  /\ info' = [p \in PmtPid |->
                IF p \notin pat.programs THEN Nil
                ELSE IF pmts[p] = Nil THEN [e \in EsPid |-> Nil]
                ELSE pmts[p].streams]
  /\ status' = "reported"
  /\ UNCHANGED <<pat, pmts, strs, pcrs>>

Die ==
  /\ status \in {"parsing", "done"}
  /\ status' = "panic"
  /\ UNCHANGED <<pat, pmts, strs, pcrs, info>>

Next ==
  \/ LearnPat
  \/ \E p \in PmtPid : LearnPmt(p)
  \/ EndOfFile
  \/ Report
  \/ Die

Spec == Init /\ [][Next]_vars
=============================================================================
