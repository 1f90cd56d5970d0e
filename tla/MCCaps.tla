------------------------------- MODULE MCCaps -------------------------------
(* Payloads of every length class: one and seven packets, with the header   *)
(* sizes caps knows, extensions that fit, leave a rest, use up the payload  *)
(* or exceed it, lengths it skips, and adaptation fields that are too long. *)
EXTENDS Caps

Is(n, kinds) == [i \in 1 .. n |-> IF i \in DOMAIN kinds THEN kinds[i] ELSE "plain"]
Contents == {<<"pcr">>, <<"plain", "bad", "pcr">>, <<"long", "pcr">>, <<"pcr", "plain", "plain", "plain", "plain", "pcr", "long">>}

Of(len, exts, contents) ==
  {[len |-> len, ext |-> e, kinds |-> Is(len \div TsPktSize, c)] : e \in exts, c \in contents}

MCPayload ==
  Of(0, {None}, {<<>>}) \cup Of(188, {None}, {<<"pcr">>, <<"long">>}) \cup Of(1316, {None}, Contents)
    \cup Of(44, {None}, {<<>>}) \cup Of(1328, {None}, Contents)
    \cup Of(1360, {None, 0, 2, 7, 336, 337}, Contents) \cup Of(1376, {None, 7}, Contents)
=============================================================================
