--------------------------- MODULE MCPrivateData ---------------------------
(* Fields as they are written: with all that is read of them, with more, and *)
(* with the lengths at which a byte overflows; fields that claim to have less *)
(* than is read; data that is complete, cut off or goes on.                  *)
EXTENDS PrivateData

F(tag, len) == {[tag |-> tag, len |-> len, need |-> BytesOf(c)] : c \in PrivCalls(tag, len)}

Written == F(2, 6) \cup F(160, 3) \cup F(169, 0) \cup F(169, 4) \cup F(99, 0) \cup F(99, 3)
Odd == F(99, 253) \cup F(99, 254) \cup F(99, 255) \cup F(173, 30)

Small(d) == \A i \in DOMAIN d : d[i].len < 253

\* Of the fields of one tag and length, those that are read longest and shortest.
Extreme(fs) ==
  {f \in fs : \A g \in fs : (g.tag = f.tag /\ g.len = f.len) => g.need >= f.need}
    \cup {f \in fs : \A g \in fs : (g.tag = f.tag /\ g.len = f.len) => g.need <= f.need}

Junks == {[tag |-> 99, len |-> 1, need |-> 0], [tag |-> 99, len |-> 254, need |-> 0]}

\* What follows the fields is looked at only if the parser does not end with them.
MCData ==
  LET full(d)  == Start(d, Len(d) + 1)
      sizes(d) == IF Small(d) THEN {full(d) + 1, full(d) + 2, IF full(d) > 0 THEN full(d) - 1 ELSE 0}
                  ELSE {5, full(d)}
      pairs    == {<<f, g>> : f, g \in Extreme(F(2, 6)) \cup F(99, 0) \cup F(169, 0)}
                    \cup {<<f, g>> : f \in {h \in Odd : h.tag = 99}, g \in Extreme(F(2, 6))}
      fields   == {<<>>} \cup {<<f>> : f \in Extreme(Written \cup Odd)} \cup pairs
  IN  {[fields |-> d, size |-> full(d), junk |-> CHOOSE j \in Junks : TRUE] : d \in fields}
        \cup UNION {{[fields |-> d, size |-> n, junk |-> j] : n \in sizes(d), j \in Junks} : d \in fields}
=============================================================================
