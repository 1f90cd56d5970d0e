------------------------------ MODULE MCDemux ------------------------------
(* One PID with a record of each kind in turn, and a second PID that may    *)
(* clock it, have a record of its own, or be unknown to the tables.         *)
EXTENDS Demux

CONSTANTS e1, e2

Two(x, y) == [e \in {e1, e2} |-> IF e = e1 THEN x ELSE y]

Tables(kind) ==
  {[strs |-> Two(kind, Nil), pcrs |-> Two({}, {e1})],       \* a PCR PID of its own
   [strs |-> Two(kind, "pes"), pcrs |-> Two({e1, e2}, {})]} \* one clock for two streams

MCRouting == UNION {Tables(kind) : kind \in StreamKind}

Payload1(len, head, hlen) ==
  {[pid |-> e1, pusi |-> TRUE, pcr |-> c, len |-> len, head |-> head, hlen |-> hlen,
    priv |-> "whole"] : c \in {len = 3}}
More(len) ==
  {[pid |-> e1, pusi |-> FALSE, pcr |-> FALSE, len |-> len, head |-> "raw", hlen |-> 0,
    priv |-> "whole"]}
Other(pusi, pcr) ==
  {[pid |-> e2, pusi |-> pusi, pcr |-> pcr, len |-> 1, head |-> "pes", hlen |-> 1,
    priv |-> "whole"]}

\* Private data the parser does not get through: with a start that is cut off as well,
\* in the middle of a unit, and with a PCR for the other PID.
Private(ks) == {[k EXCEPT !.priv = p] : k \in ks, p \in {"short", "endless"}}

MCPacket ==
  Payload1(3, "pes", 2) \cup Payload1(1, "pes", 2) \cup Payload1(0, "pes", 1)
    \cup Payload1(2, "padding", 1) \cup Payload1(1, "raw", 0) \cup Payload1(2, "unknown", 1)
    \cup More(0) \cup More(1)
    \cup Other(TRUE, FALSE) \cup Other(FALSE, TRUE)
    \cup Private(Payload1(0, "pes", 1) \cup More(1) \cup Other(FALSE, TRUE))
=============================================================================
