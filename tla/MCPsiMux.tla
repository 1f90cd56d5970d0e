------------------------------ MODULE MCPsiMux ------------------------------
(* Two programs; sections of up to three units in packets of two.            *)
EXTENDS PsiMux, TLC

CONSTANTS a, b, es1, es2, avc, scte

MCPatSection == {[size |-> 3, programs |-> {a, b}]}
OneUnitPats == {[size |-> 1, programs |-> {a, b}], [size |-> 1, programs |-> {b}]}

MCPmtSection ==
  {[size |-> 3, pcr |-> es1, streams |-> (es1 :> avc @@ es2 :> Nil)],
   [size |-> 3, pcr |-> es2, streams |-> (es1 :> Nil @@ es2 :> scte)]}
OneUnitPmts ==
  {[size |-> 1, pcr |-> es1, streams |-> (es1 :> avc @@ es2 :> Nil)],
   [size |-> 2, pcr |-> es2, streams |-> (es1 :> Nil @@ es2 :> scte)]}
=============================================================================
