---------------------------- MODULE MCPsiParser ----------------------------
(* PsiParser on two programs, two elementary PIDs one of which both         *)
(* programs may list, sections of one and of two length units, and packets  *)
(* of every fragment.                                                       *)
EXTENDS PsiParser, TLC

CONSTANTS a, b, es1, es2, avc, scte

\* A PAT of one packet and a PAT of two, which drops one program.
MCPatSection == {[size |-> 1, programs |-> {a, b}], [size |-> 2, programs |-> {b}]}

\* The tables disagree about the type of es1 and about its clock.
MCPmtSection ==
  {[size |-> 1, pcr |-> es1, streams |-> (es1 :> avc @@ es2 :> Nil)],
   [size |-> 2, pcr |-> es2, streams |-> (es1 :> scte @@ es2 :> scte)],
   [size |-> 2, pcr |-> es1, streams |-> (es1 :> Nil @@ es2 :> avc)]}
=============================================================================
