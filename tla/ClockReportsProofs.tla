------------------------- MODULE ClockReportsProofs -------------------------
(* The times parse-psi prints lie between the PCRs around them, for all      *)
(* files; and the PCR report marks the gaps of its list, and no others.      *)
EXTENDS ClockReports, SumProofs, SequenceTheorems, TLAPS

-----------------------------------------------------------------------------
(* Lists of positions *)

LEMMA ListsAppend ==
  ASSUME NEW s \in Seq(Nat), NEW S, Lists(s, S), NEW p \in Nat, \A x \in S : x < p
  PROVE  Append(s, p) \in Seq(Nat) /\ Lists(Append(s, p), S \cup {p})
<1> DEFINE t == Append(s, p)
<1>1. /\ t \in Seq(Nat) /\ Len(t) = Len(s) + 1 /\ t[Len(s) + 1] = p
      /\ \A i \in 1 .. Len(s) : t[i] = s[i]
  BY AppendProperties
<1>2. DOMAIN s = 1 .. Len(s) /\ DOMAIN t = 1 .. Len(s) + 1 /\ Len(s) \in Nat
  BY <1>1
<1> HIDE DEF t
<1>3. ASSUME NEW i \in DOMAIN t
      PROVE  \/ i \in DOMAIN s /\ t[i] = s[i] /\ t[i] \in S /\ t[i] < p
             \/ i = Len(s) + 1 /\ t[i] = p
  BY <1>1, <1>2 DEF Lists
<1>4. {t[i] : i \in DOMAIN t} = S \cup {p}
  <2>1. ASSUME NEW x \in S \cup {p} PROVE \E i \in DOMAIN t : t[i] = x
    <3>1. CASE x = p
      BY <1>1, <1>2, <3>1
    <3>2. CASE x \in S
      <4>1. PICK i \in DOMAIN s : s[i] = x
        BY <3>2 DEF Lists
      <4> QED
        BY <1>1, <1>2, <4>1
    <3> QED
      BY <3>1, <3>2
  <2> QED
    BY <1>3, <2>1
<1>5. ASSUME NEW i \in DOMAIN t, NEW j \in DOMAIN t, i < j PROVE t[i] < t[j]
  <2>1. i \in DOMAIN s /\ t[i] = s[i] /\ t[i] < p
    BY <1>2, <1>3, <1>5
  <2>2. CASE j \in DOMAIN s /\ t[j] = s[j]
    BY <1>5, <2>1, <2>2 DEF Lists
  <2>3. CASE t[j] = p
    BY <2>1, <2>3
  <2> QED
    BY <1>3, <2>2, <2>3
<1> QED
  BY <1>1, <1>4, <1>5 DEF Lists, t

LEMMA ListsConcat ==
  ASSUME NEW s \in Seq(Nat), NEW S, Lists(s, S), NEW t \in Seq(Nat), NEW T, Lists(t, T),
         \A x \in S : \A y \in T : x < y
  PROVE  s \o t \in Seq(Nat) /\ Lists(s \o t, S \cup T)
<1> DEFINE u == s \o t
<1>1. /\ u \in Seq(Nat) /\ Len(u) = Len(s) + Len(t)
      /\ \A i \in 1 .. Len(s) + Len(t) : u[i] = IF i <= Len(s) THEN s[i] ELSE t[i - Len(s)]
  BY ConcatProperties
<1>2. /\ DOMAIN s = 1 .. Len(s) /\ DOMAIN t = 1 .. Len(t) /\ DOMAIN u = 1 .. Len(s) + Len(t)
      /\ Len(s) \in Nat /\ Len(t) \in Nat
  BY <1>1
<1> HIDE DEF u
<1>3. ASSUME NEW i \in DOMAIN u
      PROVE  \/ i \in DOMAIN s /\ u[i] = s[i] /\ u[i] \in S
             \/ i > Len(s) /\ i - Len(s) \in DOMAIN t /\ u[i] = t[i - Len(s)] /\ u[i] \in T
  <2>1. CASE i <= Len(s)
    BY <1>1, <1>2, <2>1 DEF Lists
  <2>2. CASE i > Len(s)
    <3>1. i - Len(s) \in DOMAIN t /\ u[i] = t[i - Len(s)]
      BY <1>1, <1>2, <2>2
    <3> QED
      BY <2>2, <3>1 DEF Lists
  <2> QED
    BY <1>2, <2>1, <2>2
<1>4. {u[i] : i \in DOMAIN u} = S \cup T
  <2>1. ASSUME NEW x \in S \cup T PROVE \E i \in DOMAIN u : u[i] = x
    <3>1. CASE x \in S
      <4>1. PICK i \in DOMAIN s : s[i] = x
        BY <3>1 DEF Lists
      <4>2. i \in 1 .. Len(s) + Len(t) /\ i <= Len(s)
        BY <1>2, <4>1
      <4>3. u[i] = s[i]
        BY <1>1, <4>2
      <4> QED
        BY <1>2, <4>1, <4>2, <4>3
    <3>2. CASE x \in T
      <4>1. PICK i \in DOMAIN t : t[i] = x
        BY <3>2 DEF Lists
      <4>2. Len(s) + i \in DOMAIN u /\ ~(Len(s) + i <= Len(s)) /\ (Len(s) + i) - Len(s) = i
        BY <1>2, <4>1
      <4> QED
        BY <1>1, <1>2, <4>1, <4>2
    <3> QED
      BY <3>1, <3>2
  <2> QED
    BY <1>3, <2>1
<1>5. ASSUME NEW i \in DOMAIN u, NEW j \in DOMAIN u, i < j PROVE u[i] < u[j]
  <2>1. CASE i \in DOMAIN s /\ u[i] = s[i] /\ u[i] \in S
    <3>1. CASE j \in DOMAIN s /\ u[j] = s[j]
      BY <1>5, <2>1, <3>1 DEF Lists
    <3>2. CASE u[j] \in T
      BY <2>1, <3>2
    <3> QED
      BY <1>3, <3>1, <3>2
  <2>2. CASE i > Len(s) /\ i - Len(s) \in DOMAIN t /\ u[i] = t[i - Len(s)]
    <3>1. j > Len(s) /\ i \in Nat /\ j \in Nat
      BY <1>2, <1>5, <2>2
    <3>2. j - Len(s) \in DOMAIN t /\ u[j] = t[j - Len(s)]
      BY <1>2, <1>3, <3>1
    <3>3. i - Len(s) < j - Len(s)
      BY <1>2, <1>5, <3>1
    <3> QED
      BY <2>2, <3>2, <3>3 DEF Lists
  <2> QED
    BY <1>3, <2>1, <2>2
<1> QED
  BY <1>1, <1>4, <1>5 DEF Lists, u

-----------------------------------------------------------------------------
(* Interpolation *)

\* An integer division by a positive number is monotone, and undoes a product.
LEMMA DivMonotone ==
  ASSUME NEW a \in Nat, NEW c \in Nat, NEW d \in Nat \ {0}, a <= c
  PROVE  a \div d <= c \div d /\ a \div d \in Nat
<1> DEFINE q == a \div d
           r == c \div d
<1>1. q \in Int /\ r \in Int
  OBVIOUS
<1>2. d * q <= a /\ a < d * q + d
  OBVIOUS
<1>3. d * r <= c /\ c < d * r + d
  OBVIOUS
<1> QED
  BY <1>1, <1>2, <1>3

LEMMA DivExact ==
  ASSUME NEW n \in Nat, NEW d \in Nat \ {0}
  PROVE  (d * n) \div d = n
<1> DEFINE m == d * n
<1>1. m \in Nat /\ m = d * n
  OBVIOUS
<1> HIDE DEF m
<1> DEFINE q == m \div d
<1>2. q \in Int /\ d * q <= m /\ m < d * q + d
  BY <1>1
<1> HIDE DEF q
<1>3. CASE q >= n + 1
  <2>1. d * q >= d * (n + 1) /\ d * (n + 1) = d * n + d
    BY <1>2, <1>3
  <2> QED
    BY <1>1, <1>2, <2>1
<1>4. CASE n >= q + 1
  <2>1. d * n >= d * (q + 1) /\ d * (q + 1) = d * q + d
    BY <1>2, <1>4
  <2> QED
    BY <1>1, <1>2, <2>1
<1>5. q = n \/ q >= n + 1 \/ n >= q + 1
  BY <1>2
<1> QED
  BY <1>3, <1>4, <1>5 DEF q, m

\* A position between two others gets a part of the distance between their clocks,
\* all of it at the second one, and a later position no less.
LEMMA Parts ==
  ASSUME NEW y \in Nat \ {0}, NEW d \in Nat, NEW a \in Nat, NEW c \in Nat, a <= c, c <= y
  PROVE  /\ Quotient(a * d, y) \in 0 .. d /\ Quotient(c * d, y) \in 0 .. d
         /\ Quotient(a * d, y) <= Quotient(c * d, y)
         /\ a = y => Quotient(a * d, y) = d
<1>1. a * d \in Nat /\ c * d \in Nat /\ y * d \in Nat /\ a * d <= c * d /\ c * d <= y * d
  OBVIOUS
<1>2. Quotient(a * d, y) = (a * d) \div y /\ Quotient(c * d, y) = (c * d) \div y
  BY <1>1 DEF Quotient
<1>3. (y * d) \div y = d
  BY DivExact
<1>4. (a * d) \div y <= (c * d) \div y /\ (a * d) \div y \in Nat
  BY <1>1, DivMonotone
<1>5. (c * d) \div y <= d /\ (c * d) \div y \in Nat
  BY <1>1, <1>3, DivMonotone
<1> QED
  BY <1>2, <1>3, <1>4, <1>5

-----------------------------------------------------------------------------
(* What is printed *)

Value == 0 .. Wrap - 1
Seen == [pid : Nat, pcr : BOOLEAN, val : Value]
Line == [pos : Nat, time : Int]

\* What the properties say of the file, of any.
PcrsIn(f) == {i \in DOMAIN f : f[i].pcr}
PatsIn(f) == {i \in DOMAIN f : f[i].pid = PatPid}
OneClockIn(f) ==
  \A i, j \in PcrsIn(f) : f[i].pid = f[j].pid /\ (i < j => f[i].val <= f[j].val)
Shown(lines) == [i \in DOMAIN lines |-> lines[i].pos]

\* The last PCR of the file, or 0 at position 0.
IsLatest(f, pcr) ==
  /\ \A n \in PcrsIn(f) : n <= pcr.pos
  /\ IF pcr.pos = 0 THEN pcr.val = 0 ELSE pcr.pos \in PcrsIn(f) /\ pcr.val = f[pcr.pos].val

\* The time of a line lies between the PCRs around it.
IsBetween(f, line) ==
  /\ \E j \in PcrsIn(f) : /\ j >= line.pos /\ line.time <= f[j].val
                          /\ j = line.pos => line.time = f[j].val
                          /\ \A n \in PcrsIn(f) : n < line.pos => f[n].val <= line.time
                          /\ \A n \in PcrsIn(f) : n >= line.pos => j <= n
  /\ line.time >= 0

InTime(f, lines, pcr) ==
  /\ \A i \in DOMAIN lines : IsBetween(f, lines[i]) /\ lines[i].time <= pcr.val
  /\ \A i, j \in DOMAIN lines : i < j => lines[i].time <= lines[j].time

\* The PATs up to the last PCR are printed, those behind it wait, and no time is
\* beyond that PCR.
IsTimed(f, pcr, waiting, lines) ==
  /\ f \in Seq(Seen) /\ pcr \in [pos : Nat, val : Nat]
  /\ waiting \in Seq(Nat) /\ lines \in Seq(Line)
  /\ IsLatest(f, pcr)
  /\ Lists(waiting, {i \in PatsIn(f) : i > pcr.pos})
  /\ Lists(Shown(lines), {i \in PatsIn(f) : i <= pcr.pos})
  /\ OneClockIn(f) => InTime(f, lines, pcr)

\* Inductive.
TimedInv == b \in Seen /\ IsTimed(file, previous, pats, printed)

Found(k) == IF k.pid = PatPid THEN Append(pats, Len(file) + 1) ELSE pats
NewPcr(k) == [pos |-> Len(file) + 1, val |-> k.val]
NewLines(k) ==
  [i \in DOMAIN Found(k) |-> [pos |-> Found(k)[i], time |-> Interpolated(Found(k)[i], NewPcr(k))]]

LEMMA FileGrows ==
  ASSUME NEW f \in Seq(Seen), NEW k \in Seen
  PROVE  /\ Append(f, k) \in Seq(Seen) /\ Len(f) \in Nat /\ Append(f, k)[Len(f) + 1] = k
         /\ DOMAIN f = 1 .. Len(f)
         /\ \A i \in DOMAIN f : i \in Nat /\ 1 <= i /\ i <= Len(f) /\ Append(f, k)[i] = f[i]
         /\ PcrsIn(Append(f, k)) = PcrsIn(f) \cup (IF k.pcr THEN {Len(f) + 1} ELSE {})
         /\ PatsIn(Append(f, k)) = PatsIn(f) \cup (IF k.pid = PatPid THEN {Len(f) + 1} ELSE {})
         /\ OneClockIn(Append(f, k)) => OneClockIn(f)
<1> DEFINE g == Append(f, k)
           n == Len(f) + 1
<1>1. g \in Seq(Seen) /\ Len(f) \in Nat /\ Len(g) = n /\ g[n] = k /\ \A i \in 1 .. Len(f) : g[i] = f[i]
  BY AppendProperties
<1>2. DOMAIN f = 1 .. Len(f) /\ DOMAIN g = 1 .. n
  BY <1>1
<1> HIDE DEF g
<1>3. \A i \in DOMAIN f : i \in Nat /\ 1 <= i /\ i <= Len(f) /\ g[i] = f[i] /\ i \in DOMAIN g
  BY <1>1, <1>2
<1>4. \A i \in DOMAIN g : i \in DOMAIN f \/ i = n
  BY <1>1, <1>2
<1>5. n \in DOMAIN g
  BY <1>1, <1>2
<1>6. PcrsIn(g) = PcrsIn(f) \cup (IF k.pcr THEN {n} ELSE {})
  BY <1>1, <1>3, <1>4, <1>5 DEF PcrsIn
<1>7. PatsIn(g) = PatsIn(f) \cup (IF k.pid = PatPid THEN {n} ELSE {})
  BY <1>1, <1>3, <1>4, <1>5 DEF PatsIn
<1>8. PcrsIn(f) \subseteq PcrsIn(g) /\ \A i \in PcrsIn(f) : g[i] = f[i]
  BY <1>3, <1>6 DEF PcrsIn
<1>9. OneClockIn(g) => OneClockIn(f)
  BY <1>8 DEF OneClockIn
<1> QED
  BY <1>1, <1>2, <1>3, <1>6, <1>7, <1>9 DEF g

\* The PATs that wait are still those behind the last PCR.
LEMMA FoundLists ==
  ASSUME TimedInv, NEW k \in Seen
  PROVE  /\ Found(k) \in Seq(Nat)
         /\ Lists(Found(k), {i \in PatsIn(Append(file, k)) : i > previous.pos})
         /\ previous.pos \in Nat /\ previous.pos <= Len(file)
<1>1. /\ file \in Seq(Seen) /\ previous.pos \in Nat /\ pats \in Seq(Nat)
      /\ IsLatest(file, previous)
      /\ Lists(pats, {i \in PatsIn(file) : i > previous.pos})
  BY DEF TimedInv, IsTimed
<1>2. previous.pos <= Len(file)
  BY <1>1, FileGrows DEF IsLatest, PcrsIn
<1>3. PatsIn(file) \subseteq DOMAIN file
  BY DEF PatsIn
<1>4. CASE k.pid = PatPid
  <2>1. {i \in PatsIn(Append(file, k)) : i > previous.pos}
          = {i \in PatsIn(file) : i > previous.pos} \cup {Len(file) + 1}
    BY <1>1, <1>2, <1>4, FileGrows
  <2>2. Len(file) + 1 \in Nat /\ \A x \in {i \in PatsIn(file) : i > previous.pos} : x < Len(file) + 1
    BY <1>1, <1>3, FileGrows
  <2>3. Found(k) = Append(pats, Len(file) + 1)
    BY <1>4 DEF Found
  <2> QED
    BY <1>1, <1>2, <2>1, <2>2, <2>3, ListsAppend
<1>5. CASE k.pid # PatPid
  <2>1. PatsIn(Append(file, k)) = PatsIn(file)
    <3>1. PatsIn(Append(file, k)) = PatsIn(file) \cup {}
      BY <1>1, <1>5, FileGrows
    <3> QED
      BY <3>1
  <2> QED
    BY <1>1, <1>2, <1>5, <2>1 DEF Found
<1> QED
  BY <1>4, <1>5

LEMMA StaysBetween ==
  ASSUME NEW f \in Seq(Seen), NEW k \in Seen, NEW line \in Line, IsBetween(f, line)
  PROVE  IsBetween(Append(f, k), line)
<1> DEFINE g == Append(f, k)
<1>1. /\ PcrsIn(f) \subseteq PcrsIn(g)
      /\ \A i \in PcrsIn(f) : g[i] = f[i] /\ i \in Nat /\ i <= Len(f)
      /\ \A i \in PcrsIn(g) : i \in PcrsIn(f) \/ i = Len(f) + 1
      /\ Len(f) \in Nat
  BY FileGrows DEF PcrsIn
<1> HIDE DEF g
<1>2. PICK j \in PcrsIn(f) : /\ j >= line.pos /\ line.time <= f[j].val
                             /\ j = line.pos => line.time = f[j].val
                             /\ \A n \in PcrsIn(f) : n < line.pos => f[n].val <= line.time
                             /\ \A n \in PcrsIn(f) : n >= line.pos => j <= n
  BY DEF IsBetween
<1>3. line.pos \in Nat /\ line.time >= 0
  BY DEF IsBetween, Line
<1>4. ASSUME NEW n \in PcrsIn(g), n < line.pos PROVE g[n].val <= line.time
  BY <1>1, <1>2, <1>3, <1>4
<1>5. ASSUME NEW n \in PcrsIn(g), n >= line.pos PROVE j <= n
  BY <1>1, <1>2, <1>3, <1>5
<1>6. /\ j \in PcrsIn(g) /\ j >= line.pos /\ line.time <= g[j].val
      /\ j = line.pos => line.time = g[j].val
  BY <1>1, <1>2
<1> QED
  BY <1>3, <1>4, <1>5, <1>6 DEF IsBetween, g

\* A packet without a PCR.
LEMMA WaitsOn ==
  ASSUME TimedInv, NEW k \in Seen, ~k.pcr
  PROVE  IsTimed(Append(file, k), previous, Found(k), printed)
<1> DEFINE g == Append(file, k)
<1>1. /\ file \in Seq(Seen) /\ previous \in [pos : Nat, val : Nat] /\ printed \in Seq(Line)
      /\ IsLatest(file, previous)
      /\ Lists(Shown(printed), {i \in PatsIn(file) : i <= previous.pos})
      /\ OneClockIn(file) => InTime(file, printed, previous)
  BY DEF TimedInv, IsTimed
<1>2. /\ g \in Seq(Seen) /\ PcrsIn(g) = PcrsIn(file)
      /\ OneClockIn(g) => OneClockIn(file)
      /\ \A i \in PcrsIn(file) : g[i] = file[i]
  BY <1>1, FileGrows DEF PcrsIn
<1>3. {i \in PatsIn(g) : i <= previous.pos} = {i \in PatsIn(file) : i <= previous.pos}
  <2>1. previous.pos \in Nat /\ previous.pos <= Len(file) /\ Len(file) \in Nat
    BY <1>1, FoundLists, FileGrows
  <2>2. \A i : i \in PatsIn(g) <=> (i \in PatsIn(file) \/ (k.pid = PatPid /\ i = Len(file) + 1))
    BY <1>1, FileGrows
  <2> QED
    BY <2>1, <2>2
<1>4. IsLatest(g, previous)
  BY <1>1, <1>2 DEF IsLatest
<1>5. ASSUME OneClockIn(g) PROVE InTime(g, printed, previous)
  <2>1. InTime(file, printed, previous)
    BY <1>1, <1>2, <1>5
  <2>2. \A i \in DOMAIN printed : printed[i] \in Line
    BY <1>1
  <2> QED
    BY <1>1, <2>1, <2>2, StaysBetween DEF InTime
<1>6. Found(k) \in Seq(Nat) /\ Lists(Found(k), {i \in PatsIn(g) : i > previous.pos})
  BY FoundLists
<1> QED
  BY <1>1, <1>2, <1>3, <1>4, <1>5, <1>6 DEF IsTimed

\* One clock has not gone back when a PCR comes.
LEMMA OneClockMoves ==
  ASSUME TimedInv, NEW k \in Seen, k.pcr, OneClockIn(Append(file, k))
  PROVE  /\ previous.val <= k.val
         /\ \A i \in PcrsIn(file) : Append(file, k)[i].val <= previous.val
<1> DEFINE g == Append(file, k)
           n == Len(file) + 1
<1>1. file \in Seq(Seen) /\ IsLatest(file, previous) /\ previous.pos \in Nat /\ previous.val \in Nat
  BY DEF TimedInv, IsTimed
<1>2. /\ n \in Nat /\ g[n] = k /\ k.val \in Nat /\ n \in PcrsIn(g)
      /\ \A i \in PcrsIn(file) : i \in PcrsIn(g) /\ i \in Nat /\ 1 <= i /\ i < n /\ g[i] = file[i]
  <2>1. PcrsIn(file) \subseteq DOMAIN file
    BY DEF PcrsIn
  <2>2. k.val \in Nat
    BY ClockAssumption DEF Seen, Value
  <2> QED
    BY <1>1, <2>1, <2>2, FileGrows
<1>3. CASE previous.pos = 0
  BY <1>1, <1>2, <1>3 DEF IsLatest
<1>4. CASE previous.pos # 0
  <2>1. previous.pos \in PcrsIn(file) /\ previous.val = g[previous.pos].val
    BY <1>1, <1>2, <1>4 DEF IsLatest
  <2>2. previous.val <= k.val
    BY <1>1, <1>2, <2>1 DEF OneClockIn
  <2>3. \A i \in PcrsIn(file) : i = previous.pos \/ i < previous.pos
    BY <1>1, <1>2 DEF IsLatest
  <2>4. \A i \in PcrsIn(file) : i < previous.pos => g[i].val <= previous.val
    BY <1>2, <2>1 DEF OneClockIn
  <2>5. ASSUME NEW i \in PcrsIn(file) PROVE g[i].val <= previous.val
    <3>1. CASE i = previous.pos
      <4>1. g[i].val = previous.val
        BY <2>1, <3>1
      <4>2. previous.val <= previous.val
        BY <1>1
      <4> QED
        BY <4>1, <4>2
    <3> QED
      BY <2>3, <2>4, <3>1
  <2> QED
    BY <2>2, <2>5
<1> QED
  BY <1>3, <1>4

\* The lines a PCR adds, if there is one clock.
LEMMA LineIsBetween ==
  ASSUME TimedInv, NEW k \in Seen, k.pcr, OneClockIn(Append(file, k)),
         NEW p \in Nat, p \in PatsIn(Append(file, k)), p > previous.pos
  PROVE  /\ IsBetween(Append(file, k), [pos |-> p, time |-> Interpolated(p, NewPcr(k))])
         /\ previous.val <= Interpolated(p, NewPcr(k)) /\ Interpolated(p, NewPcr(k)) <= k.val
         /\ \A q \in Nat : p <= q /\ q <= Len(file) + 1
                             => Interpolated(p, NewPcr(k)) <= Interpolated(q, NewPcr(k))
<1> DEFINE g == Append(file, k)
           n == Len(file) + 1
           y == n - previous.pos
           d == k.val - previous.val
           time(q) == Interpolated(q, NewPcr(k))
<1>1. file \in Seq(Seen) /\ IsLatest(file, previous) /\ previous.pos \in Nat /\ previous.val \in Nat
  BY DEF TimedInv, IsTimed
<1>2. /\ n \in Nat /\ g[n] = k /\ previous.pos < n /\ k.val \in Nat
      /\ n \in PcrsIn(g) /\ p <= n
      /\ \A i \in PcrsIn(g) : i = n \/ i \in PcrsIn(file)
      /\ \A i \in PcrsIn(file) : i \in PcrsIn(g) /\ i \in Nat /\ 1 <= i /\ i < n /\ g[i] = file[i]
  <2>1. PatsIn(file) \subseteq DOMAIN file /\ PcrsIn(file) \subseteq DOMAIN file
    BY DEF PatsIn, PcrsIn
  <2>2. k.val \in Nat
    BY ClockAssumption DEF Seen, Value
  <2>3. previous.pos < n
    <3>1. previous.pos <= Len(file)
      BY FoundLists
    <3>2. Len(file) \in Nat
      BY <1>1
    <3> QED
      BY <1>1, <3>1, <3>2
  <2> QED
    BY <1>1, <2>1, <2>2, <2>3, FileGrows
<1>3. previous.val <= k.val /\ \A i \in PcrsIn(file) : g[i].val <= previous.val
  BY OneClockMoves
<1>4. y \in Nat \ {0} /\ d \in Nat
  BY <1>1, <1>2, <1>3
<1>5. NewPcr(k).pos = n /\ NewPcr(k).val = k.val
  BY DEF NewPcr
<1>6. \A q : time(q) = previous.val + Quotient((q - previous.pos) * d, y)
  BY <1>5 DEF Interpolated
<1> HIDE DEF g, n, time
<1>7. ASSUME NEW q \in Nat, p <= q, q <= n
      PROVE  /\ time(p) \in previous.val .. k.val /\ time(p) <= time(q)
             /\ p = n => time(p) = k.val
  <2>1. /\ p - previous.pos \in Nat /\ q - previous.pos \in Nat
        /\ p - previous.pos <= q - previous.pos /\ q - previous.pos <= y
    BY <1>1, <1>2, <1>7
  <2> DEFINE x == Quotient((p - previous.pos) * d, y)
             z == Quotient((q - previous.pos) * d, y)
  <2>2. x \in 0 .. d /\ z \in 0 .. d /\ x <= z /\ (p - previous.pos = y => x = d)
    BY <1>4, <2>1, Parts
  <2>3. time(p) = previous.val + x /\ time(q) = previous.val + z
    BY <1>6
  <2> HIDE DEF x, z
  <2> QED
    BY <1>1, <1>2, <1>3, <2>2, <2>3
<1>8. time(p) \in previous.val .. k.val /\ (p = n => time(p) = k.val)
  BY <1>2, <1>7
<1>9. IsBetween(g, [pos |-> p, time |-> time(p)])
  <2>1. ASSUME NEW m \in PcrsIn(g), m < p PROVE g[m].val <= time(p)
    <3>1. m \in PcrsIn(file) /\ m \in DOMAIN file /\ g[m] = file[m]
      BY <1>2, <2>1 DEF PcrsIn
    <3>2. file[m] \in Seen
      BY <1>1, <3>1
    <3>3. g[m].val \in Nat
      BY <3>1, <3>2, ClockAssumption DEF Seen, Value
    <3> QED
      BY <1>1, <1>2, <1>3, <1>8, <3>1, <3>3
  <2>2. \A m \in PcrsIn(g) : m >= p => n <= m
    BY <1>1, <1>2 DEF IsLatest
  <2>3. time(p) >= 0 /\ time(p) <= g[n].val /\ n >= p /\ (n = p => time(p) = g[n].val)
    BY <1>1, <1>2, <1>8
  <2> QED
    BY <1>2, <2>1, <2>2, <2>3 DEF IsBetween
<1> QED
  BY <1>1, <1>2, <1>7, <1>8, <1>9 DEF g, n, time

\* What a PCR adds.
LEMMA NewLinesAre ==
  ASSUME TimedInv, NEW k \in Seen
  PROVE  /\ NewLines(k) \in Seq(Line) /\ DOMAIN NewLines(k) = DOMAIN Found(k)
         /\ Shown(NewLines(k)) = Found(k)
         /\ \A i \in DOMAIN Found(k) :
              /\ Found(k)[i] \in Nat
              /\ NewLines(k)[i] = [pos |-> Found(k)[i], time |-> Interpolated(Found(k)[i], NewPcr(k))]
<1> DEFINE found == Found(k)
           new == NewLines(k)
<1>1. found \in Seq(Nat)
  BY FoundLists
<1>2. /\ previous.pos \in Nat /\ previous.val \in Nat /\ Len(file) \in Nat /\ k.val \in Nat
      /\ previous.pos <= Len(file)
  <2>1. file \in Seq(Seen) /\ previous.pos \in Nat /\ previous.val \in Nat
    BY DEF TimedInv, IsTimed
  <2>2. k.val \in Nat
    BY ClockAssumption DEF Seen, Value
  <2>3. Len(file) \in Nat
    BY <2>1
  <2>4. previous.pos <= Len(file)
    BY FoundLists
  <2> QED
    BY <2>1, <2>2, <2>3, <2>4
<1>3. DOMAIN found = 1 .. Len(found) /\ Len(found) \in Nat /\ \A i \in DOMAIN found : found[i] \in Nat
  BY <1>1
<1>4. /\ DOMAIN new = DOMAIN found
      /\ \A i \in DOMAIN found :
           new[i] = [pos |-> found[i], time |-> Interpolated(found[i], NewPcr(k))]
  BY DEF NewLines
<1>5. ASSUME NEW p \in Nat PROVE Interpolated(p, NewPcr(k)) \in Int
  <2> DEFINE a == (p - previous.pos) * (NewPcr(k).val - previous.val)
             y == NewPcr(k).pos - previous.pos
  <2>1. a \in Int /\ y \in Nat \ {0}
    BY <1>2 DEF NewPcr
  <2> HIDE DEF a, y
  <2>2. \A x \in Int : x \div y \in Int
    BY <2>1
  <2>3. Quotient(a, y) \in Int
    BY <2>1, <2>2 DEF Quotient
  <2>4. previous.val + Quotient(a, y) \in Int
    BY <1>2, <2>3
  <2> QED
    BY <2>4 DEF Interpolated, a, y
<1> HIDE DEF found, new
<1>6. \A i \in DOMAIN found : new[i] \in Line
  BY <1>3, <1>4, <1>5 DEF Line
<1>7. new \in Seq(Line)
  <2>1. new = [i \in 1 .. Len(found) |-> new[i]]
    BY <1>3, <1>4 DEF new, NewLines, found
  <2> QED
    BY <1>3, <1>6, <2>1
<1>8. Shown(new) = found
  <2>1. Shown(new) = [i \in 1 .. Len(found) |-> found[i]]
    BY <1>3, <1>4 DEF Shown
  <2>2. found = [i \in 1 .. Len(found) |-> found[i]]
    BY <1>1
  <2> QED
    BY <2>1, <2>2
<1> QED
  BY <1>3, <1>4, <1>7, <1>8 DEF found, new

\* The positions of lines put together.
LEMMA ShownConcat ==
  ASSUME NEW s \in Seq(Line), NEW t \in Seq(Line)
  PROVE  Shown(s \o t) = Shown(s) \o Shown(t) /\ Shown(s) \in Seq(Nat)
<1> DEFINE u == s \o t
<1>1. /\ u \in Seq(Line) /\ Len(u) = Len(s) + Len(t) /\ Len(s) \in Nat /\ Len(t) \in Nat
      /\ \A i \in 1 .. Len(s) + Len(t) : u[i] = IF i <= Len(s) THEN s[i] ELSE t[i - Len(s)]
  BY ConcatProperties
<1>2. ASSUME NEW x \in Seq(Line)
      PROVE  /\ Shown(x) \in Seq(Nat) /\ Len(Shown(x)) = Len(x) /\ DOMAIN x = 1 .. Len(x)
             /\ \A i \in DOMAIN x : Shown(x)[i] = x[i].pos
  <2>0. DOMAIN x = 1 .. Len(x) /\ Len(x) \in Nat /\ \A i \in 1 .. Len(x) : x[i] \in Line
    OBVIOUS
  <2>1. \A i \in 1 .. Len(x) : x[i].pos \in Nat
    BY <2>0 DEF Line
  <2>2. Shown(x) = [i \in 1 .. Len(x) |-> x[i].pos]
    BY <2>0 DEF Shown
  <2> QED
    BY <2>0, <2>1, <2>2
<1> HIDE DEF u
<1> DEFINE v == Shown(s)
           w == Shown(t)
           z == v \o w
<1>3. v \in Seq(Nat) /\ w \in Seq(Nat) /\ Len(v) = Len(s) /\ Len(w) = Len(t)
  BY <1>2
<1> HIDE DEF v, w
<1>4. /\ z \in Seq(Nat) /\ Len(z) = Len(s) + Len(t)
      /\ \A i \in 1 .. Len(s) + Len(t) : z[i] = IF i <= Len(s) THEN v[i] ELSE w[i - Len(s)]
  <2>1. /\ z \in Seq(Nat) /\ Len(z) = Len(v) + Len(w)
        /\ \A i \in 1 .. Len(v) + Len(w) : z[i] = IF i <= Len(v) THEN v[i] ELSE w[i - Len(v)]
    BY <1>3, ConcatProperties
  <2> HIDE DEF z
  <2> QED
    BY <1>3, <2>1
<1> HIDE DEF z
<1>5. ASSUME NEW i \in 1 .. Len(u) PROVE Shown(u)[i] = z[i]
  <2>1. Shown(u)[i] = u[i].pos
    BY <1>1, <1>2
  <2>2. CASE i <= Len(s)
    <3>1. i \in 1 .. Len(s) /\ u[i] = s[i] /\ z[i] = v[i]
      BY <1>1, <1>4, <2>2
    <3> QED
      BY <1>2, <2>1, <3>1 DEF v
  <2>3. CASE i > Len(s)
    <3>1. i - Len(s) \in 1 .. Len(t) /\ u[i] = t[i - Len(s)] /\ z[i] = w[i - Len(s)]
      BY <1>1, <1>4, <2>3
    <3> QED
      BY <1>2, <2>1, <3>1 DEF w
  <2> QED
    BY <1>1, <2>2, <2>3
<1>6. Shown(u) = z
  <2>1. Shown(u) \in Seq(Nat) /\ Len(Shown(u)) = Len(u)
    BY <1>1, <1>2
  <2> QED
    BY <1>1, <1>4, <1>5, <2>1, SeqEqual
<1> QED
  BY <1>3, <1>6 DEF u, v, w, z

\* A packet with a PCR.
LEMMA PrintsAll ==
  ASSUME TimedInv, NEW k \in Seen, k.pcr
  PROVE  IsTimed(Append(file, k), NewPcr(k), <<>>, printed \o NewLines(k))
<1> DEFINE g == Append(file, k)
           n == Len(file) + 1
           new == NewLines(k)
           all == printed \o new
<1>1. /\ file \in Seq(Seen) /\ printed \in Seq(Line)
      /\ previous.pos \in Nat /\ previous.val \in Nat
      /\ IsLatest(file, previous)
      /\ Lists(Shown(printed), {i \in PatsIn(file) : i <= previous.pos})
      /\ OneClockIn(file) => InTime(file, printed, previous)
  BY DEF TimedInv, IsTimed
<1>2. /\ g \in Seq(Seen) /\ Len(file) \in Nat /\ n \in Nat /\ g[n] = k /\ n # 0
      /\ n \in PcrsIn(g)
      /\ \A i \in PcrsIn(g) \cup PatsIn(g) : i \in Nat /\ i <= n
      /\ OneClockIn(g) => OneClockIn(file)
  <2>1. PatsIn(file) \subseteq DOMAIN file /\ PcrsIn(file) \subseteq DOMAIN file
    BY DEF PatsIn, PcrsIn
  <2> QED
    BY <1>1, <2>1, FileGrows
<1>3. NewPcr(k).pos = n /\ NewPcr(k).val = k.val /\ NewPcr(k) \in [pos : Nat, val : Nat] /\ k.val \in Nat
  BY <1>2, ClockAssumption DEF NewPcr, Seen, Value
<1>4. IsLatest(g, NewPcr(k))
  BY <1>2, <1>3 DEF IsLatest
<1>5. /\ new \in Seq(Line) /\ DOMAIN new = DOMAIN Found(k) /\ Shown(new) = Found(k)
      /\ \A i \in DOMAIN Found(k) :
           /\ Found(k)[i] \in Nat
           /\ new[i] = [pos |-> Found(k)[i], time |-> Interpolated(Found(k)[i], NewPcr(k))]
  BY NewLinesAre
<1>6. /\ Found(k) \in Seq(Nat) /\ previous.pos < n
      /\ Lists(Found(k), {i \in PatsIn(g) : i > previous.pos})
  <2>1. previous.pos <= Len(file)
    BY FoundLists
  <2> QED
    BY <1>1, <1>2, <2>1, FoundLists
<1> HIDE DEF new
<1>7. /\ all \in Seq(Line) /\ Len(all) = Len(printed) + Len(new)
      /\ Len(printed) \in Nat /\ Len(new) \in Nat
      /\ DOMAIN printed = 1 .. Len(printed) /\ DOMAIN new = 1 .. Len(new)
      /\ DOMAIN all = 1 .. Len(printed) + Len(new)
      /\ \A i \in 1 .. Len(printed) + Len(new) :
           all[i] = IF i <= Len(printed) THEN printed[i] ELSE new[i - Len(printed)]
  <2>1. /\ all \in Seq(Line) /\ Len(all) = Len(printed) + Len(new)
        /\ \A i \in 1 .. Len(printed) + Len(new) :
             all[i] = IF i <= Len(printed) THEN printed[i] ELSE new[i - Len(printed)]
    BY <1>1, <1>5, ConcatProperties
  <2> QED
    BY <1>1, <1>5, <2>1
<1>8. Shown(all) = Shown(printed) \o Found(k) /\ Shown(printed) \in Seq(Nat)
  BY <1>1, <1>5, ShownConcat
<1> HIDE DEF all
<1>9. Lists(Shown(all), {i \in PatsIn(g) : i <= n})
  <2> DEFINE S == {i \in PatsIn(file) : i <= previous.pos}
             T == {i \in PatsIn(g) : i > previous.pos}
  <2>1. \A i : i \in PatsIn(g) <=> (i \in PatsIn(file) \/ (k.pid = PatPid /\ i = n))
    BY <1>1, FileGrows
  <2>2. {i \in PatsIn(g) : i <= n} = S \cup T
    BY <1>1, <1>2, <1>6, <2>1
  <2>3. \A x \in S : \A y \in T : x < y
    BY <1>1, <1>2, <2>1
  <2>4. Lists(Shown(printed), S) /\ Lists(Found(k), T)
    BY <1>1, <1>6
  <2> HIDE DEF S, T
  <2> QED
    BY <1>6, <1>8, <2>2, <2>3, <2>4, ListsConcat
<1>10. Lists(<<>>, {i \in PatsIn(g) : i > n})
  <2>1. {i \in PatsIn(g) : i > n} = {}
    BY <1>2
  <2>2. DOMAIN <<>> = {}
    OBVIOUS
  <2> QED
    BY <2>1, <2>2 DEF Lists
<1>11. ASSUME OneClockIn(g) PROVE InTime(g, all, NewPcr(k))
  <2>1. InTime(file, printed, previous)
    BY <1>1, <1>2, <1>11
  <2>2. ASSUME NEW i \in DOMAIN printed
        PROVE  /\ IsBetween(g, printed[i]) /\ printed[i].time <= previous.val
               /\ printed[i].time \in Int
    <3>1. printed[i] \in Line
      BY <1>1
    <3>2. IsBetween(file, printed[i]) /\ printed[i].time <= previous.val
      BY <2>1 DEF InTime
    <3> QED
      BY <1>1, <3>1, <3>2, StaysBetween DEF Line
  <2>3. ASSUME NEW i \in DOMAIN new
        PROVE  /\ IsBetween(g, new[i]) /\ previous.val <= new[i].time /\ new[i].time <= k.val
               /\ new[i].time \in Int
               /\ \A j \in DOMAIN new : i < j => new[i].time <= new[j].time
    <3> DEFINE p == Found(k)[i]
    <3>1. p \in Nat /\ p \in PatsIn(g) /\ p > previous.pos
      BY <1>5, <1>6 DEF Lists
    <3>2. new[i] = [pos |-> p, time |-> Interpolated(p, NewPcr(k))]
      BY <1>5
    <3>3. new[i].time = Interpolated(p, NewPcr(k))
      BY <3>2
    <3>4. new[i].time \in Int
      BY <1>5, <1>7 DEF Line
    <3> HIDE DEF p
    <3>5. /\ IsBetween(g, [pos |-> p, time |-> Interpolated(p, NewPcr(k))])
          /\ previous.val <= Interpolated(p, NewPcr(k)) /\ Interpolated(p, NewPcr(k)) <= k.val
          /\ \A q \in Nat : p <= q /\ q <= Len(file) + 1
                              => Interpolated(p, NewPcr(k)) <= Interpolated(q, NewPcr(k))
      BY <1>11, <3>1, LineIsBetween
    <3>6. ASSUME NEW j \in DOMAIN new, i < j PROVE new[i].time <= new[j].time
      <4>1. p < Found(k)[j] /\ Found(k)[j] \in PatsIn(g) /\ Found(k)[j] \in Nat
        BY <1>5, <1>6, <3>6 DEF Lists, p
      <4>2. p <= Found(k)[j] /\ Found(k)[j] <= n
        BY <1>2, <3>1, <4>1
      <4>3. new[j].time = Interpolated(Found(k)[j], NewPcr(k))
        BY <1>5
      <4> QED
        BY <3>3, <3>5, <4>1, <4>2, <4>3
    <3> QED
      BY <3>2, <3>3, <3>4, <3>5, <3>6
  <2>4. previous.val <= k.val
    BY <1>11, OneClockMoves
  <2>5. ASSUME NEW i \in DOMAIN all
        PROVE  \/ i \in DOMAIN printed /\ all[i] = printed[i]
               \/ i > Len(printed) /\ i - Len(printed) \in DOMAIN new /\ all[i] = new[i - Len(printed)]
    <3>1. CASE i <= Len(printed)
      BY <1>7, <3>1
    <3>2. CASE i > Len(printed)
      BY <1>7, <3>2
    <3> QED
      BY <1>7, <3>1, <3>2
  <2>6. ASSUME NEW i \in DOMAIN all PROVE IsBetween(g, all[i]) /\ all[i].time <= k.val
    <3>1. CASE i \in DOMAIN printed /\ all[i] = printed[i]
      BY <1>1, <1>3, <2>2, <2>4, <3>1
    <3>2. CASE i - Len(printed) \in DOMAIN new /\ all[i] = new[i - Len(printed)]
      BY <2>3, <3>2
    <3> QED
      BY <2>5, <3>1, <3>2
  <2>7. ASSUME NEW i \in DOMAIN all, NEW j \in DOMAIN all, i < j
        PROVE  all[i].time <= all[j].time
    <3>1. CASE i \in DOMAIN printed /\ all[i] = printed[i]
      <4>1. CASE j \in DOMAIN printed /\ all[j] = printed[j]
        BY <2>1, <2>7, <3>1, <4>1 DEF InTime
      <4>2. CASE j - Len(printed) \in DOMAIN new /\ all[j] = new[j - Len(printed)]
        <5>1. all[i].time \in Int /\ all[j].time \in Int
          BY <2>2, <2>3, <3>1, <4>2
        <5>2. all[i].time <= previous.val /\ previous.val <= all[j].time
          BY <2>2, <2>3, <3>1, <4>2
        <5> QED
          BY <1>1, <5>1, <5>2
      <4> QED
        BY <2>5, <4>1, <4>2
    <3>2. CASE i > Len(printed) /\ i - Len(printed) \in DOMAIN new /\ all[i] = new[i - Len(printed)]
      <4>1. j > Len(printed) /\ i \in Nat /\ j \in Nat
        BY <1>7, <2>7, <3>2
      <4>2. j - Len(printed) \in DOMAIN new /\ all[j] = new[j - Len(printed)]
        BY <1>7, <2>5, <4>1
      <4>3. i - Len(printed) < j - Len(printed)
        BY <1>7, <2>7, <4>1
      <4> QED
        BY <2>3, <3>2, <4>2, <4>3
    <3> QED
      BY <2>5, <3>1, <3>2
  <2> QED
    BY <1>3, <2>6, <2>7 DEF InTime
<1>12. <<>> \in Seq(Nat)
  OBVIOUS
<1> QED
  BY <1>2, <1>3, <1>4, <1>7, <1>9, <1>10, <1>11, <1>12 DEF IsTimed, all, new

LEMMA RoundKeeps ==
  ASSUME TimedInv, NEW k \in Seen, Round(k)
  PROVE  TimedInv'
<1>1. b' \in Seen /\ file' = Append(file, k)
  BY DEF Round
<1>2. CASE ~k.pcr
  <2>1. pats' = Found(k) /\ printed' = printed /\ previous' = previous
    BY <1>2 DEF Round, Found
  <2>2. IsTimed(Append(file, k), previous, Found(k), printed)
    BY <1>2, WaitsOn
  <2> QED
    BY <1>1, <2>1, <2>2 DEF TimedInv
<1>3. CASE k.pcr
  <2>1. pats' = <<>> /\ previous' = NewPcr(k) /\ printed' = printed \o NewLines(k)
    BY <1>3 DEF Round, Timed, Found, NewPcr, NewLines
  <2>2. IsTimed(Append(file, k), NewPcr(k), <<>>, printed \o NewLines(k))
    BY <1>3, PrintsAll
  <2> QED
    BY <1>1, <2>1, <2>2 DEF TimedInv
<1> QED
  BY <1>2, <1>3

LEMMA PacketsAreSeen == Packet \subseteq Seen
  BY ClockAssumption DEF Seen, Value

\* What a packet that is cut passes for could be a whole one.
LEMMA BlendsAreSeen ==
  ASSUME b \in Seen, NEW k \in Packet
  PROVE  Blends(k) \subseteq Seen
<1>1. k \in Seen /\ Wrap - 1 \in Value /\ 0 \in Value
  BY PacketsAreSeen, ClockAssumption DEF Value
<1>2. ASSUME NEW q \in Packet \cup {b} PROVE [b EXCEPT !.pid = q.pid] \in Seen
  BY PacketsAreSeen DEF Seen
<1>3. ASSUME NEW f \in AnyPcr(k) PROVE f[1] \in BOOLEAN /\ f[2] \in Value
  <2>1. k.val \in Value /\ b.val \in Value
    BY <1>1 DEF Seen
  <2>2. f = <<FALSE, 0>> \/ \E v \in {k.val, b.val, 0, Wrap - 1} : f = <<TRUE, v>>
    BY DEF AnyPcr
  <2>3. \A v \in {k.val, b.val, 0, Wrap - 1} : v \in Value
    BY <1>1, <2>1
  <2>4. CASE f = <<FALSE, 0>>
    BY <1>1, <2>4
  <2>5. ASSUME NEW v \in {k.val, b.val, 0, Wrap - 1}, f = <<TRUE, v>>
        PROVE  f[1] \in BOOLEAN /\ f[2] \in Value
    BY <2>3, <2>5
  <2> QED
    BY <2>2, <2>4, <2>5
<1>4. ASSUME NEW f \in AnyPcr(k) PROVE [pid |-> k.pid, pcr |-> f[1], val |-> f[2]] \in Seen
  BY <1>1, <1>3 DEF Seen
<1> QED
  BY <1>2, <1>4 DEF Blends

LEMMA TimedInit == Init => TimedInv
<1> SUFFICES ASSUME Init PROVE TimedInv
  OBVIOUS
<1>1. /\ file = <<>> /\ b = Blank /\ previous = [pos |-> 0, val |-> 0]
      /\ pats = <<>> /\ printed = <<>> /\ DOMAIN <<>> = {}
  BY DEF Init
<1>2. b \in Seen
  BY <1>1, ClockAssumption DEF Blank, Seen, Value
<1>3. PcrsIn(file) = {} /\ PatsIn(file) = {}
  BY <1>1 DEF PcrsIn, PatsIn
<1>4. Lists(pats, {i \in PatsIn(file) : i > previous.pos})
  BY <1>1, <1>3 DEF Lists
<1>5. DOMAIN Shown(printed) = {}
  BY <1>1 DEF Shown
<1>6. Lists(Shown(printed), {i \in PatsIn(file) : i <= previous.pos})
  BY <1>3, <1>5 DEF Lists
<1>7. IsLatest(file, previous) /\ InTime(file, printed, previous)
  BY <1>1, <1>3 DEF IsLatest, InTime
<1>8. file \in Seq(Seen) /\ pats \in Seq(Nat) /\ printed \in Seq(Line)
  BY <1>1
<1> QED
  BY <1>1, <1>2, <1>4, <1>6, <1>7, <1>8 DEF TimedInv, IsTimed

LEMMA TimedStep == TimedInv /\ [Next]_vars => TimedInv'
<1> SUFFICES ASSUME TimedInv, [Next]_vars PROVE TimedInv'
  OBVIOUS
<1>1. ASSUME NEW k \in Packet, ReadPacket(k) PROVE TimedInv'
  BY <1>1, PacketsAreSeen, RoundKeeps DEF ReadPacket
<1>2. ASSUME NEW k \in Packet, ReadRest(k) PROVE TimedInv'
  <2>1. PICK seen \in Blends(k) : Round(seen)
    BY <1>2 DEF ReadRest
  <2>2. seen \in Seen
    BY BlendsAreSeen DEF TimedInv
  <2> QED
    BY <2>1, <2>2, RoundKeeps
<1>3. CASE EndOfFile
  BY <1>3 DEF EndOfFile, TimedInv
<1>4. CASE UNCHANGED vars
  BY <1>4 DEF vars, TimedInv
<1> QED
  BY <1>1, <1>2, <1>3, <1>4 DEF Next, Ended

LEMMA AlwaysTimed == Spec => []TimedInv
  BY TimedInit, TimedStep, PTL DEF Spec

\* Every PAT parse-psi reads is printed once, in order, or waits for a PCR; on one
\* clock its time lies between the PCRs around it and times do not decrease.
THEOREM PatsHaveTheirTime == Spec => []PatsAreTimed
<1>1. ASSUME TimedInv PROVE PatsAreTimed
  <2> DEFINE S == {i \in PatsIn(file) : i <= previous.pos}
             T == {i \in PatsIn(file) : i > previous.pos}
  <2>1. /\ Lists(Shown(printed), S) /\ Lists(pats, T) /\ previous.pos \in Nat
        /\ pats \in Seq(Nat) /\ printed \in Seq(Line) /\ file \in Seq(Seen)
        /\ OneClockIn(file) => InTime(file, printed, previous)
    BY <1>1 DEF TimedInv, IsTimed
  <2>2. Pats = PatsIn(file) /\ Pcrs = PcrsIn(file) /\ OneClock = OneClockIn(file)
    BY DEF Pats, PatsIn, Pcrs, PcrsIn, OneClock, OneClockIn
  <2>3. S \cup T = Pats
    <3>1. PatsIn(file) \subseteq Nat
      BY <2>1, FileGrows DEF PatsIn
    <3> QED
      BY <2>1, <2>2, <3>1
  <2>4. \A x \in S : \A y \in T : x < y
    <3>1. PatsIn(file) \subseteq Nat
      BY <2>1, FileGrows DEF PatsIn
    <3> QED
      BY <2>1, <3>1
  <2>5. \A i \in DOMAIN pats : pats[i] > previous.pos
    BY <2>1 DEF Lists
  <2>6. Shown(printed) \in Seq(Nat)
    BY <2>1, ShownConcat
  <2> HIDE DEF S, T
  <2>7. Lists(Shown(printed) \o pats, Pats)
    BY <2>1, <2>3, <2>4, <2>6, ListsConcat
  <2>8. ASSUME OneClock, NEW i \in DOMAIN printed PROVE IsBetween(file, printed[i])
    BY <2>1, <2>2, <2>8 DEF InTime
  <2>9. OneClock => \A i, j \in DOMAIN printed : i < j => printed[i].time <= printed[j].time
    BY <2>1, <2>2 DEF InTime
  <2> QED
    BY <2>2, <2>5, <2>7, <2>8, <2>9 DEF PatsAreTimed, Shown, IsBetween
<1> QED
  BY <1>1, AlwaysTimed, PTL

-----------------------------------------------------------------------------
(* The PCR report *)

Listed == [pos : Nat, val : Value]
Rows == [pos : Nat, pcr : Int, diff : Int, err : BOOLEAN]
Checks == [prev : Int, diff : Int, rows : Seq(Rows)]
NoRows == [prev |-> NoPcr, diff |-> 0, rows |-> <<>>]

LEMMA ValuesAreNat == Value \subseteq Nat
  BY ClockAssumption DEF Value

LEMMA CheckedIs ==
  ASSUME NEW s \in Checks, NEW k \in Listed
  PROVE  Checked(s, k) \in Checks
<1> DEFINE diff == IF s.prev # NoPcr THEN k.val - s.prev ELSE s.diff
           row == Row(k.pos, k.val, diff)
<1>1. s.prev \in Int /\ s.diff \in Int /\ s.rows \in Seq(Rows) /\ k.val \in Int /\ k.pos \in Nat
  <2>1. s.prev \in Int /\ s.diff \in Int /\ s.rows \in Seq(Rows)
    BY DEF Checks
  <2>2. k.val \in Value /\ k.pos \in Nat
    BY DEF Listed
  <2>3. k.val \in Nat
    BY <2>2, ValuesAreNat
  <2> QED
    BY <2>1, <2>2, <2>3
<1>2. diff \in Int
  BY <1>1
<1>3. Checked(s, k) = [prev |-> k.val, diff |-> diff, rows |-> Append(s.rows, row)]
  BY DEF Checked
<1> HIDE DEF diff
<1>4. row \in Rows
  BY <1>1, <1>2 DEF Row, Rows
<1> HIDE DEF row
<1>5. Append(s.rows, row) \in Seq(Rows)
  BY <1>1, <1>4
<1> QED
  BY <1>1, <1>2, <1>3, <1>5 DEF Checks

\* CheckPcrInterval goes through its list by Checked.
LEMMA CheckSteps ==
  ASSUME NEW list \in Seq(Listed)
  PROVE  \E u \in [Nat -> Checks] :
           /\ u[0] = NoRows /\ CheckPcrInterval(list) = u[Len(list)].rows
           /\ \A n \in Nat : n + 1 \in DOMAIN list => u[n + 1] = Checked(u[n], list[n + 1])
<1> DEFINE next(x, i) == IF i \in DOMAIN list THEN Checked(x, list[i]) ELSE x
<1>1. NoRows \in Checks
  BY DEF NoRows, Checks, NoPcr
<1>2. ASSUME NEW x \in Checks, NEW i PROVE next(x, i) \in Checks
  BY CheckedIs
<1>3. \A x, i : i \in DOMAIN list => next(x, i) = Checked(x, list[i])
  OBVIOUS
<1> HIDE DEF next
<1>4. PICK g : /\ g \in [Nat \X Checks -> Checks]
               /\ \A n \in Nat : \A x \in Checks : g[<<n, x>>] = next(x, n + 1)
  <2> DEFINE h == [p \in Nat \X Checks |-> next(p[2], p[1] + 1)]
  <2>1. h \in [Nat \X Checks -> Checks] /\ \A n \in Nat : \A x \in Checks : h[<<n, x>>] = next(x, n + 1)
    BY <1>2
  <2> QED
    BY <2>1
<1>5. \E s : Computes(s, Checks, NoRows, g)
  BY <1>1, <1>4, RecursionExists
<1>6. PICK s : /\ s \in [Nat -> Checks] /\ s[0] = NoRows
               /\ \A n \in Nat : s[n + 1] = g[<<n, s[n]>>]
  BY <1>5 DEF Computes
<1>7. \A n \in Nat : s[n + 1] = next(s[n], n + 1)
  BY <1>4, <1>6
<1>8. s = [i \in Nat |-> IF i = 0 THEN NoRows ELSE next(s[i - 1], i)]
  <2>1. ASSUME NEW i \in Nat, i # 0 PROVE s[i] = next(s[i - 1], i)
    <3>1. i - 1 \in Nat /\ (i - 1) + 1 = i
      BY <2>1
    <3> QED
      BY <1>7, <3>1
  <2> QED
    BY <1>6, <2>1
<1> DEFINE Upto == CHOOSE u : u = [i \in Nat |-> IF i = 0 THEN NoRows ELSE next(u[i - 1], i)]
<1>9. Upto = [i \in Nat |-> IF i = 0 THEN NoRows ELSE next(Upto[i - 1], i)]
  BY <1>8
<1>10. CheckPcrInterval(list) = Upto[Len(list)].rows
  BY DEF CheckPcrInterval, next, NoRows
<1> HIDE DEF Upto
<1>11. Upto[0] = NoRows /\ \A n \in Nat : Upto[n + 1] = next(Upto[n], n + 1)
  BY <1>9
<1> DEFINE S == {n \in Nat : Upto[n] \in Checks}
<1>12. \A n \in Nat : n \in S
  <2>1. 0 \in S
    BY <1>1, <1>11
  <2>2. \A n \in Nat : Upto[n] \in Checks => Upto[n + 1] \in Checks
    BY <1>2, <1>11
  <2>3. \A n \in Nat : n \in S => n + 1 \in S
    BY <2>2
  <2> HIDE DEF S
  <2> QED
    BY <2>1, <2>3, ReachesAll
<1>13. Upto \in [Nat -> Checks]
  <2>1. \A n \in Nat : Upto[n] \in Checks
    BY <1>12
  <2> QED
    BY <1>9, <2>1
<1> QED
  BY <1>3, <1>10, <1>11, <1>13

\* What the report says of its list.
LEMMA ReportIs ==
  ASSUME NEW list \in Seq(Listed)
  PROVE  /\ CheckPcrInterval(list) \in Seq(Rows) /\ Len(CheckPcrInterval(list)) = Len(list)
         /\ \A j \in 1 .. Len(list) :
              LET row == CheckPcrInterval(list)[j]
              IN  /\ row.pcr = list[j].val
                  /\ row.diff = IF j = 1 THEN 0 ELSE list[j].val - list[j - 1].val
                  /\ row.err <=> row.diff > MaxInterval
<1>1. PICK u \in [Nat -> Checks] :
        /\ u[0] = NoRows /\ CheckPcrInterval(list) = u[Len(list)].rows
        /\ \A n \in Nat : n + 1 \in DOMAIN list => u[n + 1] = Checked(u[n], list[n + 1])
  BY CheckSteps
<1>2. DOMAIN list = 1 .. Len(list) /\ Len(list) \in Nat /\ \A i \in 1 .. Len(list) : list[i].val \in Nat
  <2>1. DOMAIN list = 1 .. Len(list) /\ Len(list) \in Nat /\ \A i \in 1 .. Len(list) : list[i] \in Listed
    OBVIOUS
  <2> QED
    BY <2>1, ValuesAreNat DEF Listed
<1> DEFINE IsRow(row, j) == /\ row.pcr = list[j].val
                            /\ row.diff = IF j = 1 THEN 0 ELSE list[j].val - list[j - 1].val
                            /\ row.err <=> row.diff > MaxInterval
           Good(s, n) == /\ Len(s.rows) = n
                         /\ s.prev = IF n = 0 THEN NoPcr ELSE list[n].val
                         /\ n = 0 => s.diff = 0
                         /\ \A j \in 1 .. n : IsRow(s.rows[j], j)
           S == {n \in Nat : n <= Len(list) => Good(u[n], n)}
<1>3. 0 \in S
  BY <1>1, <1>2 DEF NoRows
<1>4. ASSUME NEW n \in Nat, n \in S, n + 1 <= Len(list) PROVE Good(u[n + 1], n + 1)
  <2> DEFINE s == u[n]
             k == list[n + 1]
             diff == IF s.prev # NoPcr THEN k.val - s.prev ELSE s.diff
             row == Row(k.pos, k.val, diff)
             t == Append(s.rows, row)
  <2>1. Good(s, n) /\ n + 1 \in DOMAIN list
    BY <1>2, <1>4
  <2>2. u[n + 1] = Checked(s, k)
    BY <1>1, <2>1
  <2>3. u[n + 1].prev = k.val /\ u[n + 1].rows = t
    BY <2>2 DEF Checked
  <2>4. s.rows \in Seq(Rows) /\ k \in Listed /\ k.val \in Nat
    BY <1>2, <2>1 DEF Checks
  <2>5. diff = IF n + 1 = 1 THEN 0 ELSE list[n + 1].val - list[n].val
    <3>1. CASE n = 0
      BY <2>1, <3>1
    <3>2. CASE n # 0
      <4>1. n \in 1 .. Len(list)
        BY <1>2, <1>4, <3>2
      <4>2. s.prev = list[n].val /\ list[n].val \in Nat
        BY <1>2, <2>1, <3>2, <4>1
      <4> QED
        BY <3>2, <4>2 DEF NoPcr
    <3> QED
      BY <3>1, <3>2
  <2>6. row.pcr = k.val /\ row.diff = diff /\ (row.err <=> diff > MaxInterval)
    BY DEF Row
  <2>7. row \in Rows
    <3>1. diff \in Int /\ k.pos \in Nat
      <4>1. CASE n = 0
        BY <2>4, <2>5, <4>1 DEF Listed
      <4>2. CASE n # 0
        <5>1. list[n].val \in Nat
          BY <1>2, <1>4, <4>2
        <5> QED
          BY <2>4, <2>5, <5>1 DEF Listed
      <4> QED
        BY <4>1, <4>2
    <3> HIDE DEF diff
    <3> QED
      BY <2>4, <3>1 DEF Row, Rows
  <2> HIDE DEF diff, row
  <2>8. /\ Len(t) = n + 1 /\ t[n + 1] = row
        /\ \A j \in 1 .. n : t[j] = s.rows[j]
    BY <2>1, <2>4, <2>7, AppendProperties
  <2> HIDE DEF t, s, IsRow
  <2>9. IsRow(row, n + 1)
    BY <2>5, <2>6 DEF IsRow
  <2>10. \A j \in 1 .. n + 1 : IsRow(t[j], j)
    BY <2>1, <2>8, <2>9
  <2> QED
    BY <2>3, <2>8, <2>10
<1>5. \A n \in Nat : n \in S => n + 1 \in S
  <2>1. ASSUME NEW n \in Nat, n \in S PROVE n + 1 \in S
    BY <1>4, <2>1
  <2> QED
    BY <2>1
<1>6. Len(list) \in S
  <2> HIDE DEF S
  <2> QED
    BY <1>2, <1>3, <1>5, ReachesAll
<1>7. Good(u[Len(list)], Len(list)) /\ u[Len(list)].rows \in Seq(Rows)
  BY <1>2, <1>6 DEF Checks
<1> QED
  BY <1>1, <1>7

\* The list of a PID goes through the file.
LEMMA ListIs ==
  ASSUME file \in Seq(Seen), NEW pid
  PROVE  ListOf(pid) \in Seq(Listed)
<1> DEFINE next(x, i) == IF i \in DOMAIN file /\ file[i].pcr /\ file[i].pid = pid
                           THEN Append(x, [pos |-> i, val |-> file[i].val])
                         ELSE x
           PcrLists == Seq(Listed)
<1>1. ASSUME NEW x \in PcrLists, NEW i \in Nat PROVE next(x, i) \in PcrLists
  <2>1. CASE i \in DOMAIN file
    <3>1. file[i] \in Seen
      BY <2>1
    <3>2. [pos |-> i, val |-> file[i].val] \in Listed
      BY <3>1 DEF Seen, Listed
    <3> QED
      BY <3>2
  <2> QED
    BY <2>1
<1>2. <<>> \in PcrLists
  OBVIOUS
<1> HIDE DEF next, PcrLists
<1>4. PICK g : /\ g \in [Nat \X PcrLists -> PcrLists]
               /\ \A n \in Nat : \A x \in PcrLists : g[<<n, x>>] = next(x, n + 1)
  <2> DEFINE h == [p \in Nat \X PcrLists |-> next(p[2], p[1] + 1)]
  <2>1. h \in [Nat \X PcrLists -> PcrLists] /\ \A n \in Nat : \A x \in PcrLists : h[<<n, x>>] = next(x, n + 1)
    BY <1>1
  <2> QED
    BY <2>1
<1>5. \E s : Computes(s, PcrLists, <<>>, g)
  BY <1>2, <1>4, RecursionExists
<1>6. PICK s : /\ s \in [Nat -> PcrLists] /\ s[0] = <<>>
               /\ \A n \in Nat : s[n + 1] = g[<<n, s[n]>>]
  BY <1>5 DEF Computes
<1>7. \A n \in Nat : s[n + 1] = next(s[n], n + 1)
  BY <1>4, <1>6
<1>8. s = [i \in Nat |-> IF i = 0 THEN <<>> ELSE next(s[i - 1], i)]
  <2>1. ASSUME NEW i \in Nat, i # 0 PROVE s[i] = next(s[i - 1], i)
    <3>1. i - 1 \in Nat /\ (i - 1) + 1 = i
      BY <2>1
    <3> QED
      BY <1>7, <3>1
  <2> QED
    BY <1>6, <2>1
<1> DEFINE Upto == CHOOSE u : u = [i \in Nat |-> IF i = 0 THEN <<>> ELSE next(u[i - 1], i)]
<1>9. Upto = [i \in Nat |-> IF i = 0 THEN <<>> ELSE next(Upto[i - 1], i)]
  BY <1>8
<1>10. ListOf(pid) = Upto[Len(file)]
  BY DEF ListOf, next
<1> HIDE DEF Upto
<1>11. Upto[0] = <<>> /\ \A n \in Nat : Upto[n + 1] = next(Upto[n], n + 1)
  BY <1>9
<1> DEFINE S == {n \in Nat : Upto[n] \in PcrLists}
<1>12. \A n \in Nat : n \in S
  <2>1. 0 \in S
    BY <1>2, <1>11
  <2>2. \A n \in Nat : Upto[n] \in PcrLists => Upto[n + 1] \in PcrLists
    <3>1. ASSUME NEW n \in Nat, Upto[n] \in PcrLists PROVE Upto[n + 1] \in PcrLists
      <4>1. n + 1 \in Nat
        OBVIOUS
      <4>2. next(Upto[n], n + 1) \in PcrLists
        BY <1>1, <3>1, <4>1
      <4> QED
        BY <1>11, <4>2
    <3> QED
      BY <3>1
  <2>3. \A n \in Nat : n \in S => n + 1 \in S
    BY <2>2
  <2> HIDE DEF S
  <2> QED
    BY <2>1, <2>3, ReachesAll
<1>13. Len(file) \in Nat
  OBVIOUS
<1> QED
  BY <1>10, <1>12, <1>13 DEF PcrLists

\* A gap of one clock: with values below Wrap the difference and the time elapsed
\* are the same, unless the clock wrapped around.
LEMMA Elapsed ==
  ASSUME NEW x \in Value, NEW y \in Value
  PROVE  /\ y >= x => (y - x) % Wrap = y - x
         /\ y < x => ~(y - x > MaxInterval)
<1>1. x \in Nat /\ y \in Nat /\ y < Wrap /\ Wrap \in Nat \ {0} /\ MaxInterval \in Nat
  BY ClockAssumption DEF Value
<1>2. ASSUME y >= x PROVE (y - x) % Wrap = y - x
  <2>1. y - x \in Nat /\ y - x < Wrap
    BY <1>1, <1>2
  <2> QED
    BY <1>1, <2>1
<1> QED
  BY <1>1, <1>2

\* The PCR report marks exactly the gaps of its PID's clock that are longer than
\* the limit, of whatever value the PCR before was, but for a clock that wrapped.
THEOREM MarkedAreTheGaps == Spec => []GapsAreMarked
<1>1. ASSUME TimedInv PROVE GapsAreMarked
  <2> SUFFICES ASSUME NEW pid \in {file[i].pid : i \in DOMAIN file}
               PROVE  LET rows == CheckPcrInterval(ListOf(pid))
                          elapsed(i) == (rows[i].pcr - rows[i - 1].pcr) % Wrap
                          wrapped(i) == rows[i].pcr < rows[i - 1].pcr
                      IN  \A i \in DOMAIN rows :
                            /\ rows[i].err <=> i > 1 /\ ~wrapped(i) /\ elapsed(i) > MaxInterval
                            /\ i > 1 => rows[i].diff % Wrap = elapsed(i)
    BY DEF GapsAreMarked
  <2> DEFINE list == ListOf(pid)
             rows == CheckPcrInterval(list)
  <2>1. list \in Seq(Listed)
    BY <1>1, ListIs DEF TimedInv, IsTimed
  <2> HIDE DEF list
  <2>2. /\ rows \in Seq(Rows) /\ Len(rows) = Len(list)
        /\ \A j \in 1 .. Len(list) :
             /\ rows[j].pcr = list[j].val
             /\ rows[j].diff = IF j = 1 THEN 0 ELSE list[j].val - list[j - 1].val
             /\ rows[j].err <=> rows[j].diff > MaxInterval
    BY <2>1, ReportIs
  <2> HIDE DEF rows
  <2>3. DOMAIN rows = 1 .. Len(list) /\ Len(list) \in Nat /\ \A j \in 1 .. Len(list) : list[j].val \in Value
    <3>1. Len(list) \in Nat /\ \A j \in 1 .. Len(list) : list[j] \in Listed
      BY <2>1
    <3>2. DOMAIN rows = 1 .. Len(rows)
      BY <2>2
    <3> QED
      BY <2>2, <3>1, <3>2 DEF Listed
  <2>4. ASSUME NEW i \in DOMAIN rows
        PROVE  /\ rows[i].err <=> i > 1 /\ ~(rows[i].pcr < rows[i - 1].pcr)
                                  /\ (rows[i].pcr - rows[i - 1].pcr) % Wrap > MaxInterval
               /\ i > 1 => rows[i].diff % Wrap = (rows[i].pcr - rows[i - 1].pcr) % Wrap
    <3>1. CASE i = 1
      <4>1. rows[1].diff = 0 /\ (rows[1].err <=> 0 > MaxInterval)
        BY <2>2, <2>3, <3>1
      <4> QED
        BY <3>1, <4>1, ClockAssumption
    <3>2. CASE i # 1
      <4>1. i \in 1 .. Len(list) /\ i - 1 \in 1 .. Len(list) /\ i > 1
        BY <2>3, <3>2
      <4>2. PICK x \in Value : x = list[i - 1].val
        BY <2>3, <4>1
      <4>3. PICK y \in Value : y = list[i].val
        BY <2>3, <4>1
      <4>4. rows[i - 1].pcr = x /\ rows[i].pcr = y /\ rows[i].diff = y - x /\ (rows[i].err <=> y - x > MaxInterval)
        BY <2>2, <3>2, <4>1, <4>2, <4>3
      <4>5. x \in Nat /\ y \in Nat
        BY ClockAssumption DEF Value
      <4> QED
        BY <4>1, <4>4, <4>5, Elapsed
    <3> QED
      BY <3>1, <3>2
  <2> QED
    BY <2>4 DEF rows, list
<1> QED
  BY <1>1, AlwaysTimed, PTL
=============================================================================
