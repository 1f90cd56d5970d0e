----------------------------- MODULE VideoProofs -----------------------------
(* The rows of video units: whatever the PES packets are and however they are *)
(* cut, the key frames, NAL types and user data logged are those of the units *)
(* that have ended.                                                           *)
EXTENDS VideoRecord, SumProofs, SequenceTheorems, TLAPS

-----------------------------------------------------------------------------
(* Sequences *)

LEMMA SliceOf ==
  ASSUME NEW S, NEW s \in Seq(S), NEW n \in 0 .. Len(s)
  PROVE  /\ SubSeq(s, 1, n) \in Seq(S) /\ Len(SubSeq(s, 1, n)) = n
         /\ \A i \in 1 .. n : SubSeq(s, 1, n)[i] = s[i]
  BY SubSeqProperties

LEMMA DropOf ==
  ASSUME NEW S, NEW s \in Seq(S), NEW n \in 0 .. Len(s)
  PROVE  /\ Drop(s, n) \in Seq(S) /\ Len(Drop(s, n)) = Len(s) - n
         /\ \A i \in 1 .. Len(s) - n : Drop(s, n)[i] = s[n + i]
<1>1. n + 1 \in 1 .. Len(s) + 1
  OBVIOUS
<1>2. CASE n < Len(s)
  BY <1>1, <1>2, SubSeqProperties DEF Drop
<1>3. CASE n = Len(s)
  BY <1>1, <1>3, SubSeqProperties DEF Drop
<1> QED
  BY <1>2, <1>3

\* What is cut in two is the one behind the other.
LEMMA CutInTwo ==
  ASSUME NEW S, NEW s \in Seq(S), NEW n \in 0 .. Len(s)
  PROVE  s = SubSeq(s, 1, n) \o Drop(s, n)
<1> DEFINE a == SubSeq(s, 1, n)
           b == Drop(s, n)
<1>1. a \in Seq(S) /\ Len(a) = n /\ \A i \in 1 .. n : a[i] = s[i]
  BY SliceOf
<1>2. b \in Seq(S) /\ Len(b) = Len(s) - n /\ \A i \in 1 .. Len(s) - n : b[i] = s[n + i]
  BY DropOf
<1> HIDE DEF a, b
<1>3. /\ a \o b \in Seq(S) /\ Len(a \o b) = Len(s)
      /\ \A i \in 1 .. Len(s) : (a \o b)[i] = IF i <= n THEN a[i] ELSE b[i - n]
  BY <1>1, <1>2, ConcatProperties
<1>4. ASSUME NEW i \in 1 .. Len(s) PROVE (a \o b)[i] = s[i]
  <2>1. CASE i <= n
    BY <1>1, <1>3, <2>1
  <2>2. CASE ~(i <= n)
    <3>1. i - n \in 1 .. Len(s) - n /\ n + (i - n) = i
      BY <2>2
    <3> QED
      BY <1>2, <1>3, <2>2, <3>1
  <2> QED
    BY <2>1, <2>2
<1>5. a \o b = s
  BY <1>3, <1>4, SeqEqual
<1> QED
  BY <1>5 DEF a, b

\* What is dropped of a sequence does not depend on what follows.
LEMMA DropConcat ==
  ASSUME NEW S, NEW s \in Seq(S), NEW t \in Seq(S), NEW n \in 0 .. Len(s)
  PROVE  Drop(s \o t, n) = Drop(s, n) \o t
<1> DEFINE c == s \o t
           b == Drop(s, n)
           d == Drop(c, n)
<1>1. /\ c \in Seq(S) /\ Len(c) = Len(s) + Len(t)
      /\ \A i \in 1 .. Len(s) + Len(t) : c[i] = IF i <= Len(s) THEN s[i] ELSE t[i - Len(s)]
  BY ConcatProperties
<1>2. b \in Seq(S) /\ Len(b) = Len(s) - n /\ \A i \in 1 .. Len(s) - n : b[i] = s[n + i]
  BY DropOf
<1> HIDE DEF c
<1>3. n \in 0 .. Len(c)
  BY <1>1
<1>4. d \in Seq(S) /\ Len(d) = Len(c) - n /\ \A i \in 1 .. Len(c) - n : d[i] = c[n + i]
  BY <1>1, <1>3, DropOf
<1> HIDE DEF b, d
<1>5. /\ b \o t \in Seq(S) /\ Len(b \o t) = Len(b) + Len(t)
      /\ \A i \in 1 .. Len(b) + Len(t) : (b \o t)[i] = IF i <= Len(b) THEN b[i] ELSE t[i - Len(b)]
  BY <1>2, ConcatProperties
<1>6. ASSUME NEW i \in 1 .. Len(d) PROVE d[i] = (b \o t)[i]
  <2>1. d[i] = c[n + i] /\ n + i \in 1 .. Len(s) + Len(t) /\ i \in 1 .. Len(b) + Len(t)
    BY <1>1, <1>2, <1>4, <1>6
  <2>2. CASE i <= Len(b)
    BY <1>1, <1>2, <1>5, <2>1, <2>2
  <2>3. CASE ~(i <= Len(b))
    <3>1. i - Len(b) = (n + i) - Len(s) /\ ~(n + i <= Len(s))
      BY <1>2, <2>3
    <3> QED
      BY <1>1, <1>5, <2>1, <2>3, <3>1
  <2> QED
    BY <2>2, <2>3
<1>7. Len(d) = Len(b \o t)
  BY <1>1, <1>2, <1>4, <1>5
<1>8. d = b \o t
  BY <1>4, <1>5, <1>6, <1>7, SeqEqual
<1> QED
  BY <1>8 DEF b, c, d

\* A function on 1 .. n is a sequence of its values.
LEMMA Listed ==
  ASSUME NEW S, NEW n \in Nat, NEW f, f = [i \in 1 .. n |-> f[i]], \A i \in 1 .. n : f[i] \in S
  PROVE  f \in Seq(S) /\ Len(f) = n
<1>1. f \in [1 .. n -> S]
  OBVIOUS
<1> QED
  BY <1>1, SeqDef

-----------------------------------------------------------------------------
(* Start codes *)

LEMMA CodeBytes ==
  ASSUME NEW d \in Seq(Int), NEW p \in Nat, p + 3 <= Len(d)
  PROVE  CodeAt(d, p) <=> d[p + 1] = 0 /\ d[p + 2] = 0 /\ d[p + 3] = 1
<1> DEFINE a == SubSeq(d, p + 1, p + 3)
<1>0. p + 1 \in Int /\ p + 3 \in Int /\ \A i \in p + 1 .. p + 3 : d[i] \in Int
  OBVIOUS
<1>1. a \in Seq(Int) /\ Len(a) = 3 /\ \A i \in 1 .. 3 : a[i] = d[(p + 1) + i - 1]
  BY <1>0, SubSeqProperties
<1>2. a[1] = d[p + 1] /\ a[2] = d[p + 2] /\ a[3] = d[p + 3]
  <2>1. (p + 1) + 1 - 1 = p + 1 /\ (p + 1) + 2 - 1 = p + 2 /\ (p + 1) + 3 - 1 = p + 3
    OBVIOUS
  <2>2. a[1] = d[(p + 1) + 1 - 1] /\ a[2] = d[(p + 1) + 2 - 1] /\ a[3] = d[(p + 1) + 3 - 1]
    BY <1>1
  <2> QED
    BY <2>1, <2>2
<1>3. StartCode \in Seq(Int) /\ Len(StartCode) = 3
      /\ StartCode[1] = 0 /\ StartCode[2] = 0 /\ StartCode[3] = 1
  BY DEF StartCode
<1> HIDE DEF a
<1>4. a = StartCode <=> a[1] = 0 /\ a[2] = 0 /\ a[3] = 1
  <2>1. ASSUME a[1] = 0, a[2] = 0, a[3] = 1 PROVE a = StartCode
    <3>1. \A i \in 1 .. 3 : a[i] = StartCode[i]
      BY <2>1, <1>3
    <3> QED
      BY <1>1, <1>3, <3>1, SeqEqual
  <2> QED
    BY <2>1, <1>3
<1> QED
  BY <1>2, <1>4 DEF a, CodeAt

\* A start code does not overlap another.
LEMMA CodesDoNotOverlap ==
  ASSUME NEW d \in Seq(Int), NEW p \in Nat, CodeAt(d, p), p + 5 <= Len(d)
  PROVE  ~CodeAt(d, p + 1) /\ ~CodeAt(d, p + 2)
<1>1. d[p + 2] = 0 /\ d[p + 3] = 1
  BY CodeBytes
<1>2. p + 1 \in Nat /\ (p + 1) + 3 <= Len(d) /\ (p + 1) + 2 = p + 3
      /\ p + 2 \in Nat /\ (p + 2) + 3 <= Len(d) /\ (p + 2) + 1 = p + 3
  OBVIOUS
<1>3. ~CodeAt(d, p + 1)
  BY <1>1, <1>2, CodeBytes
<1>4. ~CodeAt(d, p + 2)
  BY <1>1, <1>2, CodeBytes
<1> QED
  BY <1>3, <1>4

\* One step of a scan that ends `tail' bytes before the data does.
OneScan(g, d, tail, p) ==
  IF p + tail >= Len(d) THEN <<>> ELSE IF CodeAt(d, p) THEN <<p>> \o g[p + 4] ELSE g[p + 1]

\* The steps determine what is found.
LEMMA ScanUnique ==
  ASSUME NEW d \in Seq(Int), NEW tail \in Nat, tail >= 4, NEW g, NEW r,
         \A p \in 0 .. Len(d) : g[p] = OneScan(g, d, tail, p),
         \A p \in 0 .. Len(d) : r[p] = OneScan(r, d, tail, p)
  PROVE  \A p \in 0 .. Len(d) : g[p] = r[p]
<1> DEFINE n == Len(d)
           T == {m \in Nat : \A p \in 0 .. n : p >= n - m => g[p] = r[p]}
<1>n. n \in Nat
  OBVIOUS
<1>s. ASSUME NEW p \in 0 .. n, \A q \in 0 .. n : q > p => g[q] = r[q] PROVE g[p] = r[p]
  <2>1. CASE p + tail >= n
    BY <2>1 DEF OneScan
  <2>2. CASE ~(p + tail >= n)
    <3>1. p + 1 \in 0 .. n /\ p + 4 \in 0 .. n /\ p + 1 > p /\ p + 4 > p
      BY <2>2, <1>n
    <3>2. g[p + 1] = r[p + 1] /\ g[p + 4] = r[p + 4]
      BY <3>1, <1>s
    <3> QED
      BY <2>2, <3>2 DEF OneScan
  <2> QED
    BY <2>1, <2>2
<1> HIDE DEF n
<1>1. 0 \in T
  BY <1>s, <1>n
<1>2. ASSUME NEW m \in Nat, m \in T PROVE m + 1 \in T
  <2>1. ASSUME NEW p \in 0 .. n, p >= n - (m + 1) PROVE g[p] = r[p]
    <3>1. \A q \in 0 .. n : q > p => q >= n - m
      BY <2>1, <1>n
    <3> QED
      BY <3>1, <1>2, <1>s
  <2> QED
    BY <2>1
<1> HIDE DEF T
<1>3. \A m \in Nat : m \in T
  BY <1>1, <1>2, ReachesAll
<1>4. n \in T
  BY <1>3, <1>n
<1>5. \A p \in 0 .. n : p >= n - n
  BY <1>n
<1> QED
  BY <1>4, <1>5 DEF T, n

\* The list of codes, one byte after the other.
CodeList(d, more) ==
  [p \in 1 .. Len(d) |->
     IF p + 3 + more <= Len(d) /\ CodeAt(d, p - 1) THEN <<p - 1>> ELSE <<>>]

LEMMA CodeListTyped ==
  ASSUME NEW d \in Seq(Int), NEW more \in Nat
  PROVE  DOMAIN CodeList(d, more) = 1 .. Len(d)
         /\ \A p \in DOMAIN CodeList(d, more) : CodeList(d, more)[p] \in Seq(Nat)
<1>1. \A p \in 1 .. Len(d) : <<p - 1>> \in Seq(Nat)
  OBVIOUS
<1> QED
  BY <1>1, EmptySeq DEF CodeList

LEMMA CodesTyped ==
  ASSUME NEW d \in Seq(Int), NEW more \in Nat
  PROVE  Codes(d, more) \in Seq(Nat)
<1>1. Codes(d, more) = Joined(CodeList(d, more), Len(d))
  BY DEF Codes, CodeList
<1> DEFINE f == CodeList(d, more)
<1>2. \A p \in DOMAIN f : f[p] \in Seq(Nat)
  BY CodeListTyped
<1>3. Len(d) \in Nat
  OBVIOUS
<1> HIDE DEF f
<1>4. Joined(f, Len(d)) \in Seq(Nat)
  BY <1>2, <1>3, JoinedSteps
<1> QED
  BY <1>1, <1>4 DEF f

\* What follows a byte in the list of codes is what a scan finds that has come there.
LEMMA ListIsAScan ==
  ASSUME NEW d \in Seq(Int), Apart(d), NEW more \in Nat, more >= 1,
         NEW r, BuiltBack(r, Nat, CodeList(d, more), Len(d))
  PROVE  \A p \in 0 .. Len(d) : r[p] = OneScan(r, d, 3 + more, p)
<1> DEFINE n == Len(d)
           f == CodeList(d, more)
<1>n. n \in Nat
  OBVIOUS
<1>f. \A p \in 0 .. n - 1 :
        f[p + 1] = IF p + 1 + 3 + more <= n /\ CodeAt(d, p) THEN <<p>> ELSE <<>>
  <2>1. ASSUME NEW p \in 0 .. n - 1
        PROVE  f[p + 1] = IF p + 1 + 3 + more <= n /\ CodeAt(d, p) THEN <<p>> ELSE <<>>
    <3>1. p + 1 \in 1 .. n /\ (p + 1) - 1 = p
      OBVIOUS
    <3> QED
      BY <3>1 DEF CodeList
  <2> QED
    BY <2>1
<1>r. /\ \A p \in 0 .. n : r[p] \in Seq(Nat)
      /\ r[n] = <<>>
      /\ \A p \in 0 .. n - 1 : r[p] = f[p + 1] \o r[p + 1]
  BY DEF BuiltBack
<1>a. \A p \in 0 .. n - 6 : CodeAt(d, p) => ~CodeAt(d, p + 3)
  BY DEF Apart
<1>o. \A p \in 0 .. n - 5 : CodeAt(d, p) => ~CodeAt(d, p + 1) /\ ~CodeAt(d, p + 2)
  BY CodesDoNotOverlap
<1> HIDE DEF n, f
<1>e. \A s \in Seq(Nat) : <<>> \o s = s
  BY ConcatEmptySeq
\* A byte without a code adds nothing.
<1>1. ASSUME NEW p \in 0 .. n - 1, ~(p + 1 + 3 + more <= n /\ CodeAt(d, p)) PROVE r[p] = r[p + 1]
  <2>1. r[p] = <<>> \o r[p + 1]
    BY <1>1, <1>f, <1>r
  <2>2. p + 1 \in 0 .. n
    BY <1>n
  <2> QED
    BY <2>1, <2>2, <1>e, <1>r
\* Behind the last byte that may have one nothing is found.
<1>2. ASSUME NEW p \in 0 .. n, p + 3 + more >= n PROVE r[p] = <<>>
  <2> DEFINE T == {m \in Nat : \A q \in p .. n : q >= n - m => r[q] = <<>>}
  <2>1. 0 \in T
    BY <1>r, <1>n
  <2>2. ASSUME NEW m \in Nat, m \in T PROVE m + 1 \in T
    <3>1. ASSUME NEW q \in p .. n, q >= n - (m + 1) PROVE r[q] = <<>>
      <4>1. CASE q = n
        BY <4>1, <1>r
      <4>2. CASE q # n
        <5>1. q \in 0 .. n - 1 /\ ~(q + 1 + 3 + more <= n) /\ q + 1 \in p .. n /\ q + 1 >= n - m
          BY <4>2, <3>1, <1>2, <1>n
        <5>2. r[q] = r[q + 1]
          BY <5>1, <1>1
        <5>3. r[q + 1] = <<>>
          BY <5>1, <2>2
        <5> QED
          BY <5>2, <5>3
      <4> QED
        BY <4>1, <4>2
    <3> QED
      BY <3>1
  <2> HIDE DEF T
  <2>3. \A m \in Nat : m \in T
    BY <2>1, <2>2, ReachesAll
  <2>4. n \in T /\ p \in p .. n /\ p >= n - n
    BY <2>3, <1>n
  <2> QED
    BY <2>4 DEF T
<1>3. ASSUME NEW p \in 0 .. n PROVE r[p] = OneScan(r, d, 3 + more, p)
  <2>1. CASE p + (3 + more) >= n
    BY <2>1, <1>2 DEF OneScan, n
  <2>2. CASE ~(p + (3 + more) >= n)
    <3>0. p \in 0 .. n - 1 /\ p + 1 + 3 + more <= n /\ p + 5 <= n
      BY <2>2, <1>n
    <3>1. CASE ~CodeAt(d, p)
      BY <2>2, <3>0, <3>1, <1>1 DEF OneScan, n
    <3>2. CASE CodeAt(d, p)
      <4>1. r[p] = <<p>> \o r[p + 1]
        BY <3>0, <3>2, <1>f, <1>r
      <4>2. ~CodeAt(d, p + 1) /\ ~CodeAt(d, p + 2)
        BY <3>0, <3>2, <1>o, <1>n
      <4>3. r[p + 1] = r[p + 2]
        <5>1. p + 1 \in 0 .. n - 1 /\ (p + 1) + 1 = p + 2
          BY <3>0, <1>n
        <5> QED
          BY <5>1, <4>2, <1>1
      <4>4. r[p + 2] = r[p + 3]
        <5>1. p + 2 \in 0 .. n - 1 /\ (p + 2) + 1 = p + 3
          BY <3>0, <1>n
        <5> QED
          BY <5>1, <4>2, <1>1
      <4>5. r[p + 3] = r[p + 4]
        <5>1. p + 3 \in 0 .. n - 1 /\ (p + 3) + 1 = p + 4
          BY <3>0, <1>n
        <5>2. ~(p + 3 + 1 + 3 + more <= n /\ CodeAt(d, p + 3))
          BY <3>0, <3>2, <1>a, <1>n
        <5> QED
          BY <5>1, <5>2, <1>1
      <4> QED
        BY <2>2, <3>2, <4>1, <4>3, <4>4, <4>5 DEF OneScan, n
    <3> QED
      BY <3>1, <3>2
  <2> QED
    BY <2>1, <2>2
<1> QED
  BY <1>3 DEF n

\* Where no start code begins with the byte behind another, a scan finds them all.
LEMMA FoundIsCodes ==
  ASSUME NEW d \in Seq(Int), Apart(d), NEW more \in Nat, more >= 1
  PROVE  Found(d, 3 + more) = Codes(d, more)
<1> DEFINE tail == 3 + more
           n == Len(d)
           E(g) == [p \in 0 .. n |->
                      IF p + tail >= n THEN <<>>
                      ELSE IF SubSeq(d, p + 1, p + 3) = StartCode THEN <<p>> \o g[p + 4]
                      ELSE g[p + 1]]
           from == CHOOSE g : g = E(g)
<1>1. PICK r : BuiltBack(r, Nat, CodeList(d, more), n)
  <2> DEFINE f == CodeList(d, more)
  <2>1. DOMAIN f = 1 .. n /\ \A p \in DOMAIN f : f[p] \in Seq(Nat)
    BY CodeListTyped
  <2>2. n \in Nat
    OBVIOUS
  <2> HIDE DEF f, n
  <2>3. \E r : BuiltBack(r, Nat, f, n)
    BY <2>1, <2>2, JoinedFromTheEnd
  <2> QED
    BY <2>3 DEF f
<1>2. \A p \in 0 .. n : r[p] = OneScan(r, d, tail, p)
  BY <1>1, ListIsAScan
<1>3. r = E(r)
  <2>1. r = [p \in 0 .. n |-> r[p]]
    BY <1>1 DEF BuiltBack
  <2> QED
    BY <1>2, <2>1 DEF OneScan, CodeAt
<1>4. from = E(from)
  BY <1>3
<1>5. Found(d, tail) = from[0]
  BY DEF Found
<1> HIDE DEF from
<1>6. \A p \in 0 .. n : from[p] = OneScan(from, d, tail, p)
  BY <1>4 DEF OneScan, CodeAt
<1>7. tail \in Nat /\ tail >= 4 /\ 0 \in 0 .. n
  OBVIOUS
<1> HIDE DEF tail
<1>8. from[0] = r[0]
  BY <1>2, <1>6, <1>7, ScanUnique
<1>9. r[0] = Codes(d, more)
  BY <1>1 DEF BuiltBack, Codes, CodeList
<1> QED
  BY <1>5, <1>8, <1>9 DEF tail

-----------------------------------------------------------------------------
(* Headers *)

\* What has come tells whether there is a header, and has the whole of it.
Enough(d) == Len(d) >= 3 /\ (IsCode(d) => ~ReadCut(d))

LEMMA StampsBound == \A x : Stamps(x) \in 0 .. 2
  BY DEF Stamps

LEMMA HeaderLenBound == \A d : HeaderLen(d) \in 0 .. 7
<1>1. ASSUME NEW d PROVE HeaderLen(d) \in 0 .. 7
  <2>1. PICK n \in 0 .. 2 : n = Stamps(d[5])
    BY StampsBound
  <2>2. HeaderLen(d) = IF HasHeader(d[4]) THEN 5 + n ELSE 0
    BY <2>1 DEF HeaderLen
  <2> QED
    BY <2>1, <2>2
<1> QED
  BY <1>1

LEMMA HeaderFits ==
  ASSUME NEW d \in Seq(Int), Len(d) >= 3, ~ReadCut(d)
  PROVE  /\ 4 <= Len(d) /\ HeaderLen(d) \in 0 .. Len(d)
         /\ HasHeader(d[4]) => 5 <= Len(d) /\ (Stamps(d[5]) > 0 => 6 <= Len(d))
<1> DEFINE h == HeaderLen(d)
           w == Stamps(d[5])
           b == HasHeader(d[4])
<1>1. h \in 0 .. 7 /\ w \in 0 .. 2 /\ Len(d) \in Nat
  BY HeaderLenBound, StampsBound
<1>2. Len(d) >= IF Len(d) < 4 THEN 4 ELSE IF b /\ Len(d) < 5 THEN 5 ELSE h
  BY <1>1 DEF ReadCut, Needed
<1>3. h = IF b THEN 5 + w ELSE 0
  BY DEF HeaderLen
<1> HIDE DEF h, w, b
<1>4. 4 <= Len(d) /\ (b => 5 <= Len(d)) /\ h <= Len(d)
  BY <1>1, <1>2
<1>5. b /\ w > 0 => 6 <= Len(d)
  BY <1>1, <1>3, <1>4
<1> QED
  BY <1>1, <1>4, <1>5 DEF h, w, b

LEMMA LongIsEnough ==
  ASSUME NEW d \in Seq(Int), Len(d) >= 7
  PROVE  Enough(d)
<1> DEFINE h == HeaderLen(d)
<1>1. h \in 0 .. 7 /\ Len(d) \in Nat
  BY HeaderLenBound
<1>2. Needed(d) \in {4, 5, h}
  BY DEF Needed
<1> HIDE DEF h
<1>3. ~ReadCut(d)
  BY <1>1, <1>2 DEF ReadCut
<1> QED
  BY <1>1, <1>3 DEF Enough

LEMMA IsCodeBytes ==
  ASSUME NEW d \in Seq(Int), Len(d) >= 3
  PROVE  IsCode(d) <=> d[1] = 0 /\ d[2] = 0 /\ d[3] = 1
<1>1. IsCode(d) <=> CodeAt(d, 0)
  BY DEF IsCode, CodeAt
<1>2. 0 \in Nat /\ 0 + 3 <= Len(d)
  BY LenProperties
<1>3. CodeAt(d, 0) <=> d[0 + 1] = 0 /\ d[0 + 2] = 0 /\ d[0 + 3] = 1
  BY <1>2, CodeBytes
<1> QED
  BY <1>1, <1>3

\* Whatever follows, the header stays what it is.
LEMMA HeaderStays ==
  ASSUME NEW d \in Seq(Int), NEW x \in Seq(Int), Enough(d)
  PROVE  /\ Enough(d \o x) /\ (IsCode(d \o x) <=> IsCode(d))
         /\ Payload(d \o x) = Payload(d) \o x /\ Pts(d \o x) = Pts(d)
<1> DEFINE c == d \o x
<1>1. /\ c \in Seq(Int) /\ Len(c) = Len(d) + Len(x) /\ Len(d) \in Nat /\ Len(x) \in Nat
      /\ \A i \in 1 .. Len(d) : c[i] = d[i]
  <2>1. /\ c \in Seq(Int) /\ Len(c) = Len(d) + Len(x)
        /\ \A i \in 1 .. Len(d) + Len(x) : c[i] = IF i <= Len(d) THEN d[i] ELSE x[i - Len(d)]
    BY ConcatProperties
  <2> HIDE DEF c
  <2>2. Len(d) \in Nat /\ Len(x) \in Nat
    BY LenProperties
  <2>3. ASSUME NEW i \in 1 .. Len(d) PROVE c[i] = d[i]
    <3>1. i \in 1 .. Len(d) + Len(x) /\ i <= Len(d)
      BY <2>2
    <3> QED
      BY <2>1, <3>1
  <2> QED
    BY <2>1, <2>2, <2>3
<1> HIDE DEF c
<1>2. Len(d) >= 3 /\ Len(c) >= 3
  BY <1>1 DEF Enough
<1>a. ASSUME NEW i \in Nat, 1 <= i, i <= Len(d) PROVE c[i] = d[i]
  <2>1. i \in 1 .. Len(d)
    BY <1>1, <1>a
  <2> QED
    BY <1>1, <2>1
<1>3. IsCode(c) <=> IsCode(d)
  <2>1. c[1] = d[1] /\ c[2] = d[2] /\ c[3] = d[3]
    <3>1. /\ 1 \in Nat /\ 1 <= 1 /\ 1 <= Len(d) /\ 2 \in Nat /\ 1 <= 2 /\ 2 <= Len(d)
          /\ 3 \in Nat /\ 1 <= 3 /\ 3 <= Len(d)
      BY <1>1, <1>2
    <3> QED
      BY <1>a, <3>1
  <2> QED
    BY <1>1, <1>2, <2>1, IsCodeBytes
<1>4. CASE ~IsCode(d)
  BY <1>1, <1>2, <1>3, <1>4 DEF Enough, Payload, Pts, c
<1>5. CASE IsCode(d)
  <2>1. ~ReadCut(d)
    BY <1>5 DEF Enough
  <2>2. /\ 4 <= Len(d) /\ HeaderLen(d) \in 0 .. Len(d)
        /\ HasHeader(d[4]) => 5 <= Len(d) /\ (Stamps(d[5]) > 0 => 6 <= Len(d))
    BY <1>2, <2>1, HeaderFits
  <2>a. \A i \in Nat : 1 <= i /\ i <= Len(d) => c[i] = d[i]
    BY <1>a
  <2>3. c[4] = d[4]
    <3>1. 4 \in Nat /\ 1 <= 4
      OBVIOUS
    <3> QED
      BY <3>1, <2>a, <2>2
  <2>4. HasHeader(d[4]) => c[5] = d[5]
    <3>1. 5 \in Nat /\ 1 <= 5
      OBVIOUS
    <3> QED
      BY <3>1, <2>a, <2>2
  <2>5. HasHeader(d[4]) /\ Stamps(d[5]) > 0 => c[6] = d[6]
    <3>1. 6 \in Nat /\ 1 <= 6
      OBVIOUS
    <3> QED
      BY <3>1, <2>a, <2>2
  <2>6. HeaderLen(c) = HeaderLen(d)
    BY <2>3, <2>4 DEF HeaderLen
  <2>7. Pts(c) = Pts(d)
    BY <1>3, <2>3, <2>4, <2>5 DEF Pts
  <2>8. Payload(c) = Payload(d) \o x
    <3>1. Drop(c, HeaderLen(d)) = Drop(d, HeaderLen(d)) \o x
      BY <2>2, DropConcat DEF c
    <3> QED
      BY <1>3, <1>5, <2>6, <3>1 DEF Payload
  <2>9. ~ReadCut(c)
    <3> DEFINE h == HeaderLen(d)
               b == HasHeader(d[4])
    <3>1. h <= Len(c) /\ 4 <= Len(c) /\ (b => 5 <= Len(c)) /\ h \in Nat
      BY <1>1, <2>2
    <3>2. Needed(c) = IF Len(c) < 4 THEN 4 ELSE IF b /\ Len(c) < 5 THEN 5 ELSE h
      BY <2>3, <2>6 DEF Needed
    <3> HIDE DEF h, b
    <3>3. ~(Len(c) < Needed(c))
      BY <1>1, <3>1, <3>2
    <3> QED
      BY <3>3 DEF ReadCut
  <2> QED
    BY <1>2, <1>3, <2>7, <2>8, <2>9 DEF Enough, c
<1> QED
  BY <1>4, <1>5

\* Of the payload is a sequence, and apart if the bytes are.
LEMMA DropAny ==
  ASSUME NEW d \in Seq(Int), NEW n \in Nat
  PROVE  Drop(d, n) \in Seq(Int) /\ (Apart(d) => Apart(Drop(d, n)))
<1>n. Len(d) \in Nat
  OBVIOUS
<1>1. CASE n <= Len(d)
  <2> DEFINE e == Drop(d, n)
  <2>1. /\ e \in Seq(Int) /\ Len(e) = Len(d) - n
        /\ \A i \in 1 .. Len(d) - n : e[i] = d[n + i]
    BY <1>1, <1>n, DropOf
  <2> HIDE DEF e
  <2>2. ASSUME NEW p \in Nat, p + 3 <= Len(e) PROVE CodeAt(e, p) <=> CodeAt(d, n + p)
    <3>1. n + p \in Nat /\ (n + p) + 3 <= Len(d)
      BY <2>1, <2>2, <1>n
    <3>2. e[p + 1] = d[(n + p) + 1] /\ e[p + 2] = d[(n + p) + 2] /\ e[p + 3] = d[(n + p) + 3]
      <4>0. p + 3 <= Len(d) - n
        BY <2>1, <2>2
      <4>1. ASSUME NEW k \in 1 .. 3 PROVE p + k \in 1 .. Len(d) - n /\ n + (p + k) = (n + p) + k
        BY <4>0, <1>n
      <4>2. \A k \in 1 .. 3 : e[p + k] = d[(n + p) + k]
        BY <4>1, <2>1
      <4> QED
        BY <4>2
    <3>3. CodeAt(e, p) <=> e[p + 1] = 0 /\ e[p + 2] = 0 /\ e[p + 3] = 1
      BY <2>1, <2>2, CodeBytes
    <3>4. CodeAt(d, n + p) <=> d[(n + p) + 1] = 0 /\ d[(n + p) + 2] = 0 /\ d[(n + p) + 3] = 1
      BY <3>1, CodeBytes
    <3> QED
      BY <3>2, <3>3, <3>4
  <2>3. ASSUME Apart(d), NEW p \in 0 .. Len(e) - 6, CodeAt(e, p) PROVE ~CodeAt(e, p + 3)
    <3>1. p \in Nat /\ p + 3 \in Nat /\ p + 3 <= Len(e) /\ (p + 3) + 3 <= Len(e)
      BY <2>1, <1>n
    <3>2. n + p \in 0 .. Len(d) - 6 /\ n + (p + 3) = (n + p) + 3
      BY <2>1, <1>n
    <3>3. CodeAt(d, n + p)
      BY <2>2, <2>3, <3>1
    <3>4. ~CodeAt(d, (n + p) + 3)
      BY <2>3, <3>2, <3>3 DEF Apart
    <3> QED
      BY <2>2, <3>1, <3>2, <3>4
  <2> QED
    BY <2>1, <2>3 DEF Apart, e
<1>2. CASE ~(n <= Len(d))
  <2>1. Drop(d, n) = <<>>
    BY <1>2, <1>n, SubSeqEmpty DEF Drop
  <2>2. <<>> \in Seq(Int) /\ Len(<<>>) = 0
    BY EmptySeq
  <2>3. Apart(<<>>)
    BY <2>2 DEF Apart
  <2> QED
    BY <2>1, <2>2, <2>3
<1> QED
  BY <1>1, <1>2

LEMMA PayloadTyped ==
  ASSUME NEW d \in Seq(Int)
  PROVE  Payload(d) \in Seq(Int) /\ (Apart(d) => Apart(Payload(d)))
<1>1. HeaderLen(d) \in Nat
  BY HeaderLenBound
<1>2. Drop(d, HeaderLen(d)) \in Seq(Int) /\ (Apart(d) => Apart(Drop(d, HeaderLen(d))))
  BY <1>1, DropAny
<1> QED
  BY <1>2 DEF Payload

-----------------------------------------------------------------------------
(* Rows *)

IsList(f) == \E n \in Nat : f = [i \in 1 .. n |-> f[i]]

LEMMA SeqIsList ==
  ASSUME NEW S, NEW s \in Seq(S)
  PROVE  IsList(s) /\ \A i \in DOMAIN s : s[i] \in S
  BY LenProperties DEF IsList

LEMMA EmptyIsList == IsList(<<>>) /\ DOMAIN <<>> = {} /\ Len(<<>>) = 0
<1>1. <<>> \in Seq(Nat) /\ Len(<<>>) = 0
  BY EmptySeq
<1>2. DOMAIN <<>> = 1 .. Len(<<>>)
  BY <1>1, LenProperties
<1>3. IsList(<<>>)
  BY <1>1, SeqIsList
<1> QED
  BY <1>1, <1>2, <1>3

\* Lists are sequences of whatever is in any of them.
LEMMA ListsTyped ==
  ASSUME NEW F, \A i \in DOMAIN F : IsList(F[i])
  PROVE  \E S : \A i \in DOMAIN F : F[i] \in Seq(S)
<1> DEFINE S == UNION {{F[i][j] : j \in DOMAIN F[i]} : i \in DOMAIN F}
<1>1. ASSUME NEW i \in DOMAIN F PROVE F[i] \in Seq(S)
  <2>1. PICK n \in Nat : F[i] = [j \in 1 .. n |-> F[i][j]]
    BY DEF IsList
  <2>2. DOMAIN F[i] = 1 .. n
    BY <2>1
  <2>3. \A j \in 1 .. n : F[i][j] \in S
    BY <2>2
  <2>4. PICK f : f = F[i]
    OBVIOUS
  <2>5. f = [j \in 1 .. n |-> f[j]] /\ \A j \in 1 .. n : f[j] \in S
    BY <2>1, <2>3, <2>4
  <2> HIDE DEF S
  <2>6. f \in Seq(S)
    BY <2>5, Listed
  <2> QED
    BY <2>4, <2>6
<1> QED
  BY <1>1

\* One list more is one list behind the others.
LEMMA JoinedGrows ==
  ASSUME NEW n \in Nat, NEW F, NEW G, DOMAIN F = 1 .. n, DOMAIN G = 1 .. n + 1,
         \A i \in 1 .. n : F[i] = G[i], \A i \in 1 .. n + 1 : IsList(G[i])
  PROVE  Joined(G, n + 1) = Joined(F, n) \o G[n + 1]
<1>1. PICK S : \A i \in DOMAIN G : G[i] \in Seq(S)
  BY ListsTyped
<1>2. \A i \in 1 .. n : i \in DOMAIN F /\ i \in DOMAIN G
  OBVIOUS
<1>3. \A i \in DOMAIN F : F[i] \in Seq(S)
  BY <1>1, <1>2
<1>4. Joined(F, n) = Joined(G, n)
  BY <1>1, <1>2, <1>3, JoinedAgrees
<1>5. n + 1 \in DOMAIN G
  OBVIOUS
<1>6. Joined(G, n + 1) = Joined(G, n) \o G[n + 1]
  BY <1>1, <1>5, JoinedSteps
<1> QED
  BY <1>4, <1>6

LEMMA JoinedNone ==
  ASSUME NEW F, DOMAIN F = {}
  PROVE  Joined(F, 0) = <<>>
<1>1. \A i \in DOMAIN F : F[i] \in Seq(Nat)
  OBVIOUS
<1> QED
  BY <1>1, JoinedSteps

IsListTo(f, n) == f = [i \in 1 .. n |-> f[i]]

LEMMA AppendGrows ==
  ASSUME NEW n \in Nat, NEW f, NEW g, IsListTo(f, n), IsListTo(g, n + 1),
         \A i \in 1 .. n : f[i] = g[i]
  PROVE  Append(f, g[n + 1]) = g
<1> DEFINE S == {g[i] : i \in 1 .. n + 1}
           h == Append(f, g[n + 1])
<1>2. \A i \in 1 .. n + 1 : g[i] \in S
  OBVIOUS
<1>1. ASSUME NEW i \in 1 .. n PROVE f[i] \in S
  <2>1. i \in 1 .. n + 1 /\ f[i] = g[i]
    OBVIOUS
  <2> HIDE DEF S
  <2> QED
    BY <2>1, <1>2
<1>3. g[n + 1] \in S /\ n + 1 \in Nat
  OBVIOUS
<1> HIDE DEF S
<1>4. f \in Seq(S) /\ Len(f) = n
  BY <1>1, Listed DEF IsListTo
<1>5. g \in Seq(S) /\ Len(g) = n + 1
  BY <1>2, <1>3, Listed DEF IsListTo
<1>6. /\ h \in Seq(S) /\ Len(h) = Len(f) + 1
      /\ \A i \in 1 .. Len(f) : h[i] = f[i]
      /\ h[Len(f) + 1] = g[n + 1]
  BY <1>3, <1>4, AppendProperties
<1> HIDE DEF h
<1>7. \A i \in 1 .. n + 1 : h[i] = g[i]
  <2>1. \A i \in 1 .. n + 1 : i \in 1 .. n \/ i = n + 1
    OBVIOUS
  <2> QED
    BY <2>1, <1>4, <1>6
<1>8. h = g
  BY <1>4, <1>5, <1>6, <1>7, SeqEqual
<1> QED
  BY <1>8 DEF h

LEMMA MarkedTyped ==
  ASSUME NEW at \in Seq(Nat), NEW data, NEW code
  PROVE  Marked(at, data, code) \in Seq(Nat)
<1> DEFINE f == [i \in DOMAIN at |-> IF data[at[i] + 4] = code THEN <<at[i]>> ELSE <<>>]
<1>1. \A i \in DOMAIN f : f[i] \in Seq(Nat)
  <2>1. \A i \in DOMAIN at : at[i] \in Nat /\ <<at[i]>> \in Seq(Nat) /\ <<>> \in Seq(Nat)
    BY EmptySeq
  <2> QED
    BY <2>1
<1>2. Len(at) \in Nat
  OBVIOUS
<1>3. Marked(at, data, code) = Joined(f, Len(at))
  BY DEF Marked
<1> HIDE DEF f
<1> QED
  BY <1>1, <1>2, <1>3, JoinedSteps

LEMMA IdrsTyped ==
  ASSUME NEW n \in Nat, NEW nals, DOMAIN nals = 1 .. n, nals = [i \in 1 .. n |-> nals[i]]
  PROVE  Idrs(nals) \in Seq(Int)
<1> DEFINE f == [i \in DOMAIN nals |-> IF nals[i] \in Idr THEN <<nals[i]>> ELSE <<>>]
<1>1. \A i \in DOMAIN f : f[i] \in Seq(Int)
  <2>1. \A x \in Idr : x \in Int
    BY DEF Idr
  <2>2. \A x \in Idr : <<x>> \in Seq(Int)
    BY <2>1
  <2> QED
    BY <2>2, EmptySeq
<1>2. Len(nals) = n
  <2> DEFINE S == {nals[i] : i \in 1 .. n}
  <2>1. \A i \in 1 .. n : nals[i] \in S
    OBVIOUS
  <2> HIDE DEF S
  <2> QED
    BY <2>1, Listed
<1>3. Idrs(nals) = Joined(f, n)
  BY <1>2 DEF Idrs
<1> HIDE DEF f
<1> QED
  BY <1>1, <1>3, JoinedSteps

LEMMA TypesList ==
  ASSUME NEW u, u.bytes \in Seq(Int)
  PROVE  \E n \in Nat : DOMAIN Types(u) = 1 .. n /\ Types(u) = [i \in 1 .. n |-> Types(u)[i]]
<1>1. Codes(Payload(u.bytes), 2) \in Seq(Nat)
  BY PayloadTyped, CodesTyped
<1>2. PICK n \in Nat : DOMAIN Codes(Payload(u.bytes), 2) = 1 .. n
  BY <1>1, LenProperties
<1> QED
  BY <1>2 DEF Types

LEMMA RowsListed ==
  ASSUME NEW u, u.bytes \in Seq(Int)
  PROVE  IsList(KeyRows(u)) /\ IsList(UserRows(u))
<1> DEFINE d == Payload(u.bytes)
<1>1. d \in Seq(Int)
  BY PayloadTyped
<1>2. IsList(UserRows(u))
  <2> DEFINE at == Marked(Codes(d, 1), d, UserCode)
  <2>1. at \in Seq(Nat)
    BY <1>1, CodesTyped, MarkedTyped
  <2>2. PICK n \in Nat : DOMAIN at = 1 .. n
    BY <2>1, LenProperties
  <2>3. UserRows(u) = [i \in DOMAIN at |-> UserData(u.pos, Elem(d, at[i]))]
    BY DEF UserRows
  <2> HIDE DEF at
  <2> QED
    BY <2>2, <2>3 DEF IsList
<1>3. CASE codec # "mp2v"
  <2>1. PICK n \in Nat : DOMAIN Types(u) = 1 .. n /\ Types(u) = [i \in 1 .. n |-> Types(u)[i]]
    BY TypesList
  <2>2. Idrs(Types(u)) \in Seq(Int)
    BY <2>1, IdrsTyped
  <2>3. PICK m \in Nat : DOMAIN Idrs(Types(u)) = 1 .. m
    BY <2>2, LenProperties
  <2>4. KeyRows(u) = [i \in 1 .. m |-> [pos |-> u.pos, pts |-> Pts(u.bytes), key |-> TRUE]]
    BY <1>3, <2>3 DEF KeyRows
  <2> QED
    BY <1>2, <2>4 DEF IsList
<1>4. CASE codec = "mp2v"
  <2>1. KeyRows(u) = <<>> \/ \E x : KeyRows(u) = <<x>>
    BY <1>4 DEF KeyRows
  <2>2. \A x : IsList(<<x>>)
    <3>1. ASSUME NEW x PROVE IsList(<<x>>)
      <4>1. <<x>> \in Seq({x})
        OBVIOUS
      <4> QED
        BY <4>1, SeqIsList
    <3> QED
      BY <3>1
  <2> QED
    BY <1>2, <2>1, <2>2, EmptyIsList
<1> QED
  BY <1>3, <1>4

-----------------------------------------------------------------------------
(* The parts of Process *)

Parts == {"cur", "pkts", "nals", "iframes", "user", "wait", "acc"}

\* What the rows are, r and s having the same.
SameRows(r, s) == r.iframes = s.iframes /\ r.user = s.user /\ r.nals = s.nals

\* The current unit of a record is u, of which `sent' has come.
Opened(r, u, sent) ==
  /\ r.cur \in Unit /\ r.cur.pos = u.pos
  /\ IF r.wait
       THEN /\ codec # "mp2v" /\ u.first < MinHeader /\ ~(Len(sent) >= MinHeader /\ IsCode(sent))
            /\ r.cur.data = <<>> /\ r.cur.pts = 0
            /\ r.acc \in Held /\ r.acc.data = sent
     ELSE /\ Enough(sent)
          /\ codec # "mp2v" => Len(sent) >= MinHeader /\ (u.first >= MinHeader \/ IsCode(sent))
          /\ r.cur.data = Payload(sent) /\ r.cur.pts = Pts(sent)

LEMMA UnitIsNotNil == \A u \in Unit : u # Nil
  BY VideoAssumption

LEMMA ScansAgree ==
  ASSUME NEW d \in Seq(Int), Apart(d)
  PROVE  Found(d, 5) = Codes(d, 2) /\ Found(d, 4) = Codes(d, 1)
<1>1. 2 \in Nat /\ 2 >= 1 /\ 3 + 2 = 5 /\ 1 \in Nat /\ 1 >= 1 /\ 3 + 1 = 4
  OBVIOUS
<1>2. Found(d, 3 + 2) = Codes(d, 2)
  BY <1>1, FoundIsCodes
<1>3. Found(d, 3 + 1) = Codes(d, 1)
  BY <1>1, FoundIsCodes
<1> QED
  BY <1>1, <1>2, <1>3

\* A unit that has all its bytes gets the rows of the unit.
LEMMA ClosedRows ==
  ASSUME NEW r, DOMAIN r = Parts, r.wait = FALSE,
         NEW u, u.bytes \in Seq(Int), Apart(u.bytes),
         Opened(r, u, u.bytes)
  PROVE  /\ DOMAIN Close(r) = Parts /\ Close(r).wait = FALSE
         /\ Close(r).iframes = r.iframes \o KeyRows(u)
         /\ codec = "mp2v" => Close(r).user = r.user \o UserRows(u)
         /\ codec # "mp2v" => Close(r).nals = Append(r.nals, Types(u))
<1> DEFINE d == Payload(u.bytes)
<1>1. d \in Seq(Int) /\ Apart(d)
  BY PayloadTyped
<1>2. Found(d, 5) = Codes(d, 2) /\ Found(d, 4) = Codes(d, 1)
  BY <1>1, ScansAgree
<1>3. r.cur # Nil /\ r.cur.pos = u.pos /\ r.cur.data = d /\ r.cur.pts = Pts(u.bytes)
  BY UnitIsNotNil DEF Opened
<1>4. CASE codec # "mp2v"
  <2>1. NalUnits(r.cur.data) = Types(u)
    BY <1>2, <1>3 DEF NalUnits, Types
  <2>2. [i \in DOMAIN Idrs(NalUnits(r.cur.data)) |-> IFrame(r.cur, TRUE)] = KeyRows(u)
    BY <1>3, <1>4, <2>1 DEF KeyRows, IFrame
  <2>3. Close(r) = Closed(r)
    BY <1>3, <1>4 DEF Close
  <2>4. /\ DOMAIN Closed(r) = Parts /\ Closed(r).wait = r.wait
        /\ Closed(r).iframes
             = r.iframes \o [i \in DOMAIN Idrs(NalUnits(r.cur.data)) |-> IFrame(r.cur, TRUE)]
        /\ Closed(r).nals = Append(r.nals, NalUnits(r.cur.data))
    BY DEF Closed, Parts
  <2> QED
    BY <1>4, <2>1, <2>2, <2>3, <2>4
<1>5. CASE codec = "mp2v"
  <2> DEFINE pics == Headers(d, PictureCode)
             gops == Headers(d, GopCode)
             user == Headers(d, UserCode)
             keys == IF pics # <<>> /\ CodingType(Elem(d, Last(pics))) = 1
                     THEN <<IFrame(r.cur, gops # <<>> /\ ClosedGop(Elem(d, Last(gops))))>>
                     ELSE <<>>
             uses == [i \in DOMAIN user |-> UserData(r.cur.pos, Elem(d, user[i]))]
  <2>1. \A code : Headers(d, code) = Marked(Codes(d, 1), d, code)
    BY <1>2 DEF Headers
  <2>2. keys = KeyRows(u)
    BY <1>3, <1>5, <2>1 DEF KeyRows, IFrame
  <2>3. uses = UserRows(u)
    BY <1>3, <2>1 DEF UserRows
  <2>4. Close(r) = ClosedMp2v(r)
    BY <1>3, <1>5 DEF Close
  <2>5. ClosedMp2v(r) = [r EXCEPT !.pkts = Append(@, r.cur), !.user = @ \o uses, !.iframes = @ \o keys]
    BY <1>3 DEF ClosedMp2v
  <2> HIDE DEF keys, uses
  <2>6. /\ DOMAIN ClosedMp2v(r) = Parts /\ ClosedMp2v(r).wait = r.wait
        /\ ClosedMp2v(r).iframes = r.iframes \o keys /\ ClosedMp2v(r).user = r.user \o uses
    BY <2>5 DEF Parts
  <2> QED
    BY <1>5, <2>2, <2>3, <2>4, <2>6
<1> QED
  BY <1>4, <1>5

\* A header that has all come is read as Payload and Pts say.
LEMMA ReadIs ==
  ASSUME NEW v \in Unit, NEW d \in Seq(Int), Enough(d), IsCode(d), NEW from \in Int
  PROVE  /\ ReadInto(v, d, from) \in Unit
         /\ ReadInto(v, d, from).pos = v.pos /\ ReadInto(v, d, from).data = v.data
         /\ v.pts = 0 => ReadInto(v, d, from).pts = Pts(d)
<1>1. HasHeader(d[4]) => 5 <= Len(d) /\ (Stamps(d[5]) > 0 => 6 <= Len(d))
  BY HeaderFits DEF Enough
<1>2. HasHeader(d[4]) /\ Stamps(d[5]) > 0 => d[6] \in Int
  <2>1. 6 <= Len(d) => 6 \in DOMAIN d
    BY LenProperties
  <2> QED
    BY <1>1, <2>1, ElementOfSeq
<1>3. CASE ~HasHeader(d[4])
  BY <1>3 DEF ReadInto, Pts
<1>4. CASE HasHeader(d[4])
  <2>1. ReadInto(v, d, from) = [v EXCEPT !.hdr = from, !.pts = IF Stamps(d[5]) > 0 THEN d[6] ELSE @]
    BY <1>4 DEF ReadInto
  <2>2. Pts(d) = IF Stamps(d[5]) > 0 THEN d[6] ELSE 0
    BY <1>4 DEF Pts
  <2>3. CASE Stamps(d[5]) > 0
    BY <1>2, <1>4, <2>1, <2>2, <2>3 DEF Unit
  <2>4. CASE ~(Stamps(d[5]) > 0)
    BY <2>1, <2>2, <2>4 DEF Unit
  <2> QED
    BY <2>3, <2>4
<1> QED
  BY <1>3, <1>4

LEMMA GrownIs ==
  ASSUME NEW r, DOMAIN r = Parts, r.cur \in Unit, NEW x \in Seq(Int)
  PROVE  /\ DOMAIN Grown(r, x) = Parts /\ SameRows(Grown(r, x), r)
         /\ Grown(r, x).wait = r.wait
         /\ Grown(r, x).cur \in Unit /\ Grown(r, x).cur.pos = r.cur.pos
         /\ Grown(r, x).cur.pts = r.cur.pts /\ Grown(r, x).cur.data = r.cur.data \o x
<1>1. r.cur # Nil /\ r.cur.data \in Seq(Int)
  BY UnitIsNotNil DEF Unit
<1>2. r.cur.data \o x \in Seq(Int)
  BY <1>1, ConcatProperties
<1>3. Grown(r, x) = [r EXCEPT !.cur.data = @ \o x]
  BY <1>1 DEF Grown
<1> QED
  BY <1>2, <1>3 DEF Parts, SameRows, Unit

LEMMA NewUnitIs ==
  ASSUME NEW pos \in Int
  PROVE  NewUnit(pos) \in Unit /\ NewUnit(pos).pos = pos /\ NewUnit(pos).pts = 0
         /\ NewUnit(pos).data = <<>>
<1>1. NoPos \in Int
  BY DEF NoPos, R!NoPos
<1>2. <<>> \in Seq(Int)
  BY EmptySeq
<1> QED
  BY <1>1, <1>2 DEF NewUnit, Unit

\* A record that waits has the beginning collected so far.
LEMMA CollectedIs ==
  ASSUME NEW r, DOMAIN r = Parts, r.wait = TRUE, NEW u, NEW sent \in Seq(Int), NEW k, k.pos \in Int,
         Left(k) \in Seq(Int), codec # "mp2v", u.first < MinHeader,
         r.cur \in Unit, r.cur.pos = u.pos, r.cur.data = <<>>, r.cur.pts = 0,
         r.acc \in Held, r.acc.data = sent
  PROVE  /\ DOMAIN Collected(r, k) = Parts /\ SameRows(Collected(r, k), r)
         /\ Collected(r, k).wait \in BOOLEAN
         /\ Opened(Collected(r, k), u, sent \o Left(k))
<1> DEFINE acc == [from |-> IF r.acc.data = <<>> THEN (IF k.pusi THEN k.pos ELSE r.acc.from) ELSE r.acc.from,
                   data |-> r.acc.data \o Left(k)]
           got == [r EXCEPT !.acc = acc]
           d == sent \o Left(k)
<1>1. acc \in Held /\ acc.from \in Int /\ acc.data = d /\ d \in Seq(Int)
  <2>1. d \in Seq(Int)
    BY ConcatProperties
  <2> QED
    BY <2>1 DEF Held
<1>2. Collected(r, k) =
        IF Len(acc.data) < MinHeader \/ ~IsCode(acc.data) THEN got
        ELSE Grown([got EXCEPT !.wait = FALSE, !.cur = ReadInto(@, acc.data, acc.from)],
                   Drop(acc.data, HeaderLen(acc.data)))
  BY DEF Collected
<1> HIDE DEF acc, d
<1>3. /\ DOMAIN got = Parts /\ got.cur = r.cur /\ got.wait = r.wait /\ got.acc = acc
      /\ SameRows(got, r)
  BY DEF Parts, SameRows
<1> HIDE DEF got
<1>m. MinHeader = 7 /\ Len(d) \in Nat
  BY <1>1, VideoAssumption, LenProperties
<1>4. CASE Len(d) < MinHeader \/ ~IsCode(d)
  <2>1. Collected(r, k) = got
    BY <1>1, <1>2, <1>4
  <2>2. ~(Len(d) >= MinHeader /\ IsCode(d))
    BY <1>4, <1>m
  <2>3. Opened(got, u, d)
    BY <1>1, <1>3, <2>2 DEF Opened
  <2> QED
    BY <1>3, <2>1, <2>3 DEF d
<1>5. CASE ~(Len(d) < MinHeader \/ ~IsCode(d))
  <2>1. Len(d) >= 7 /\ IsCode(d)
    BY <1>5, <1>m
  <2>2. Enough(d)
    BY <1>1, <2>1, LongIsEnough
  <2> DEFINE v == ReadInto(r.cur, d, acc.from)
             s == [got EXCEPT !.wait = FALSE, !.cur = ReadInto(@, d, acc.from)]
             x == Drop(d, HeaderLen(d))
  <2>3. v \in Unit /\ v.pos = u.pos /\ v.data = <<>> /\ v.pts = Pts(d)
    BY <1>1, <2>1, <2>2, ReadIs
  <2>4. DOMAIN s = Parts /\ s.cur = v /\ s.wait = FALSE /\ SameRows(s, r)
    BY <1>3 DEF Parts, SameRows
  <2>5. x \in Seq(Int)
    <3>0. HeaderLen(d) \in 0 .. 7
      BY HeaderLenBound
    <3>1. HeaderLen(d) \in Nat
      BY <3>0
    <3> QED
      BY <1>1, <3>1, DropAny
  <2>6. Collected(r, k) = Grown(s, x)
    BY <1>1, <1>2, <1>5
  <2> HIDE DEF s, v
  <2>7. /\ DOMAIN Grown(s, x) = Parts /\ SameRows(Grown(s, x), s)
        /\ Grown(s, x).wait = s.wait
        /\ Grown(s, x).cur \in Unit /\ Grown(s, x).cur.pos = s.cur.pos
        /\ Grown(s, x).cur.pts = s.cur.pts /\ Grown(s, x).cur.data = s.cur.data \o x
    BY <2>3, <2>4, <2>5, GrownIs
  <2>8. s.cur.data \o x = Payload(d)
    <3>1. <<>> \o x = x
      BY <2>5, ConcatEmptySeq
    <3> QED
      BY <2>1, <2>3, <2>4, <3>1 DEF Payload
  <2>9. Opened(Grown(s, x), u, d)
    BY <1>m, <2>1, <2>2, <2>3, <2>4, <2>7, <2>8 DEF Opened
  <2> QED
    BY <2>4, <2>6, <2>7, <2>9 DEF d, SameRows
<1> QED
  BY <1>4, <1>5

\* A packet that goes on with a unit.
LEMMA GoesOn ==
  ASSUME NEW r, DOMAIN r = Parts, r.wait \in BOOLEAN, NEW u, NEW sent \in Seq(Int), Opened(r, u, sent),
         NEW k, k.pos \in Int, k.pusi = FALSE, k.data \in Seq(Int)
  PROVE  /\ DOMAIN Process(r, k) = Parts /\ SameRows(Process(r, k), r)
         /\ Process(r, k).wait \in BOOLEAN
         /\ Opened(Process(r, k), u, sent \o k.data)
<1>0. Left(k) = k.data
  BY DEF Left
<1>1. Process(r, k) = IF r.wait THEN Collected(r, k) ELSE Grown(r, k.data)
  BY <1>0 DEF Process
<1>2. CASE r.wait
  <2>1. Process(r, k) = Collected(r, k)
    BY <1>1, <1>2
  <2>2. r.wait = TRUE
    BY <1>2
  <2>3. /\ codec # "mp2v" /\ u.first < MinHeader
        /\ r.cur \in Unit /\ r.cur.pos = u.pos /\ r.cur.data = <<>> /\ r.cur.pts = 0
        /\ r.acc \in Held /\ r.acc.data = sent
    BY <1>2 DEF Opened
  <2>4. Left(k) \in Seq(Int)
    BY <1>0
  <2>5. /\ DOMAIN Collected(r, k) = Parts /\ SameRows(Collected(r, k), r)
        /\ Collected(r, k).wait \in BOOLEAN
        /\ Opened(Collected(r, k), u, sent \o Left(k))
    BY <2>2, <2>3, <2>4, CollectedIs
  <2> QED
    BY <1>0, <2>1, <2>5
<1>3. CASE ~r.wait
  <2>1. Process(r, k) = Grown(r, k.data)
    BY <1>1, <1>3
  <2>2. /\ Enough(sent)
        /\ codec # "mp2v" => Len(sent) >= MinHeader /\ (u.first >= MinHeader \/ IsCode(sent))
        /\ r.cur \in Unit /\ r.cur.pos = u.pos
        /\ r.cur.data = Payload(sent) /\ r.cur.pts = Pts(sent)
    BY <1>3 DEF Opened
  <2> DEFINE s == Grown(r, k.data)
             d == sent \o k.data
  <2>3. /\ DOMAIN s = Parts /\ SameRows(s, r) /\ s.wait = r.wait
        /\ s.cur \in Unit /\ s.cur.pos = r.cur.pos
        /\ s.cur.pts = r.cur.pts /\ s.cur.data = r.cur.data \o k.data
    BY <2>2, GrownIs
  <2>4. /\ Enough(d) /\ (IsCode(d) <=> IsCode(sent))
        /\ Payload(d) = Payload(sent) \o k.data /\ Pts(d) = Pts(sent)
    BY <2>2, HeaderStays
  <2>5. codec # "mp2v" => Len(d) >= MinHeader /\ (u.first >= MinHeader \/ IsCode(d))
    <3>1. Len(d) = Len(sent) + Len(k.data) /\ Len(sent) \in Nat /\ Len(k.data) \in Nat
      BY ConcatProperties, LenProperties
    <3>2. MinHeader = 7
      BY VideoAssumption
    <3> HIDE DEF d
    <3> QED
      BY <2>2, <2>4, <3>1, <3>2
  <2> HIDE DEF s, d
  <2>6. Opened(s, u, d)
    BY <1>3, <2>2, <2>3, <2>4, <2>5 DEF Opened
  <2> QED
    BY <2>1, <2>3, <2>6 DEF s, d
<1> QED
  BY <1>2, <1>3

\* A packet that begins a unit.
LEMMA Begins ==
  ASSUME NEW r, DOMAIN Close(r) = Parts, Close(r).wait = FALSE,
         NEW k, k.pos \in Int, k.pusi = TRUE, k.data \in Seq(Int), ~HeaderCut(k),
         NEW u, u.pos = k.pos, u.first = Len(k.data)
  PROVE  /\ DOMAIN Process(r, k) = Parts /\ SameRows(Process(r, k), Close(r))
         /\ Process(r, k).wait \in BOOLEAN
         /\ Opened(Process(r, k), u, k.data)
<1> DEFINE d == k.data
           b == Started(r, k)
           n == NewUnit(k.pos)
<1>1. n \in Unit /\ n.pos = u.pos /\ n.pts = 0 /\ n.data = <<>>
  BY NewUnitIs
<1> HIDE DEF n
<1>2. Process(r, k) = IF b.wait THEN Collected(b, k) ELSE Grown(b, Left(k))
  BY DEF Process
<1>m. MinHeader = 7 /\ Len(d) \in Nat
  BY VideoAssumption, LenProperties
<1>3. CASE Short(d)
  <2>1. b = [Close(r) EXCEPT !.cur = n, !.wait = TRUE, !.acc = [from |-> k.pos, data |-> <<>>]]
    BY <1>3 DEF Started, n
  <2>2. /\ DOMAIN b = Parts /\ SameRows(b, Close(r)) /\ b.wait = TRUE /\ b.cur = n
        /\ b.acc = [from |-> k.pos, data |-> <<>>]
    BY <2>1 DEF Parts, SameRows
  <2>3. Left(k) = d /\ codec # "mp2v" /\ u.first < MinHeader
    BY <1>3 DEF Left, Short
  <2>4. <<>> \in Seq(Int) /\ <<>> \o d = d
    BY EmptySeq, ConcatEmptySeq
  <2>5. b.acc \in Held /\ b.acc.data = <<>>
    BY <2>2, <2>4 DEF Held
  <2> HIDE DEF b
  <2>6. /\ DOMAIN Collected(b, k) = Parts /\ SameRows(Collected(b, k), b)
        /\ Collected(b, k).wait \in BOOLEAN
        /\ Opened(Collected(b, k), u, <<>> \o Left(k))
    BY <1>1, <2>2, <2>3, <2>4, <2>5, CollectedIs
  <2> QED
    BY <1>2, <2>2, <2>3, <2>4, <2>6 DEF SameRows
<1>4. CASE ~Short(d)
  <2>1. Enough(d) /\ (codec # "mp2v" => Len(d) >= MinHeader)
    <3>1. CASE codec = "mp2v"
      BY <3>1, <1>m DEF HeaderCut, Enough
    <3>2. CASE codec # "mp2v"
      <4>1. Len(d) >= 7 /\ Len(d) >= MinHeader
        BY <1>4, <1>m, <3>2 DEF Short
      <4> QED
        BY <4>1, LongIsEnough
    <3> QED
      BY <3>1, <3>2
  <2>2. /\ DOMAIN b = Parts /\ SameRows(b, Close(r)) /\ b.wait = FALSE
        /\ b.cur \in Unit /\ b.cur.pos = u.pos /\ b.cur.data = <<>> /\ b.cur.pts = Pts(d)
        /\ Left(k) = Payload(d)
    <3>1. CASE IsCode(d)
      <4>1. b = [Close(r) EXCEPT !.cur = ReadInto(n, d, k.pos)]
        BY <1>4, <3>1 DEF Started, n
      <4>2. /\ ReadInto(n, d, k.pos) \in Unit /\ ReadInto(n, d, k.pos).pos = u.pos
            /\ ReadInto(n, d, k.pos).data = <<>> /\ ReadInto(n, d, k.pos).pts = Pts(d)
        BY <1>1, <2>1, <3>1, ReadIs
      <4>3. Left(k) = Payload(d)
        BY <1>4, <3>1 DEF Left, Payload
      <4>4. /\ DOMAIN b = Parts /\ SameRows(b, Close(r)) /\ b.wait = FALSE
            /\ b.cur = ReadInto(n, d, k.pos)
        BY <4>1 DEF Parts, SameRows
      <4> QED
        BY <4>2, <4>3, <4>4
    <3>2. CASE ~IsCode(d)
      <4>1. b = [Close(r) EXCEPT !.cur = n]
        BY <1>4, <3>2 DEF Started, n
      <4>2. /\ DOMAIN b = Parts /\ SameRows(b, Close(r)) /\ b.wait = FALSE /\ b.cur = n
        BY <4>1 DEF Parts, SameRows
      <4>3. Pts(d) = 0 /\ Left(k) = Payload(d)
        BY <3>2 DEF Pts, Left, Payload
      <4> QED
        BY <1>1, <4>2, <4>3
    <3> QED
      BY <3>1, <3>2
  <2> HIDE DEF b
  <2>3. Process(r, k) = Grown(b, Payload(d))
    BY <1>2, <2>2
  <2>4. Payload(d) \in Seq(Int) /\ <<>> \o Payload(d) = Payload(d)
    BY PayloadTyped, ConcatEmptySeq
  <2> DEFINE s == Grown(b, Payload(d))
  <2>5. /\ DOMAIN s = Parts /\ SameRows(s, b) /\ s.wait = b.wait
        /\ s.cur \in Unit /\ s.cur.pos = b.cur.pos
        /\ s.cur.pts = b.cur.pts /\ s.cur.data = b.cur.data \o Payload(d)
    BY <2>2, <2>4, GrownIs
  <2> HIDE DEF s
  <2>6. Opened(s, u, d)
    <3>1. codec # "mp2v" => u.first >= MinHeader
      BY <2>1
    <3> QED
      BY <2>1, <2>2, <2>4, <2>5, <3>1 DEF Opened
  <2> QED
    BY <2>2, <2>3, <2>5, <2>6 DEF s, SameRows
<1> QED
  BY <1>3, <1>4

-----------------------------------------------------------------------------
(* The invariant *)

SentUnit == [pos : Int, first : Nat, bytes : Seq(Int)]

Before(s) == IF s = <<>> THEN 0 ELSE Len(s) - 1
KeyList(s) == [i \in 1 .. Before(s) |-> KeyRows(s[i])]
UserList(s) == [i \in 1 .. Before(s) |-> UserRows(s[i])]
NalList(s, n) == [i \in 1 .. n |-> IF i > Before(s) /\ ~Settled(s[i]) THEN <<>> ELSE Types(s[i])]

\* A record has the rows of the units in s but the last, which is its current one and
\* has come but for w; n units have NAL rows.
Kept(r, s, w, n) ==
  /\ DOMAIN r = Parts /\ r.wait \in BOOLEAN
  /\ IF s = <<>> THEN r.cur = Nil /\ r.wait = FALSE
     ELSE \E sent \in Seq(Int) : s[Len(s)].bytes = sent \o w /\ Opened(r, s[Len(s)], sent)
  /\ r.iframes = Joined(KeyList(s), Before(s))
  /\ codec = "mp2v" => r.user = Joined(UserList(s), Before(s))
  /\ codec # "mp2v" => r.nals = NalList(s, n)

LEMMA NoTuple ==
  ASSUME NEW f, f = [i \in 1 .. 0 |-> f[i]]
  PROVE  f = <<>>
<1>1. \A i \in 1 .. 0 : f[i] \in Nat
  OBVIOUS
<1>2. f \in Seq(Nat) /\ Len(f) = 0
  BY <1>1, Listed
<1> QED
  BY <1>2, EmptySeq

LEMMA StartKeeps ==
  ASSUME NEW r, NEW s \in Seq(SentUnit), Kept(r, s, <<>>, Before(s)),
         \A i \in 1 .. Len(s) : Apart(s[i].bytes),
         codec # "mp2v" => \A i \in 1 .. Len(s) : Settled(s[i]),
         NEW u \in SentUnit, NEW x \in Seq(Int), NEW w \in Seq(Int),
         u.bytes = x \o w, u.first = Len(x),
         NEW k, k.pos = u.pos, k.pusi = TRUE, k.data = x, ~HeaderCut(k)
  PROVE  Kept(Process(r, k), Append(s, u), w, Before(Append(s, u)))
<1> DEFINE z == Append(s, u)
           n == Len(s)
           p == Process(r, k)
<1>1. /\ z \in Seq(SentUnit) /\ z # <<>> /\ Len(z) = n + 1 /\ n \in Nat
      /\ \A i \in 1 .. n : z[i] = s[i]
      /\ z[n + 1] = u
  BY AppendProperties, LenProperties
<1>2. \A i \in 1 .. n : s[i] \in SentUnit
  BY ElementOfSeq
<1>3. k.pos \in Int /\ k.data \in Seq(Int)
  BY DEF SentUnit
<1> HIDE DEF z
<1>4. Before(z) = n
  BY <1>1 DEF Before
<1>5. ASSUME DOMAIN Close(r) = Parts, Close(r).wait = FALSE
      PROVE  /\ DOMAIN p = Parts /\ p.wait \in BOOLEAN /\ SameRows(p, Close(r))
             /\ \E sent \in Seq(Int) : z[Len(z)].bytes = sent \o w /\ Opened(p, z[Len(z)], sent)
  <2>1. DOMAIN p = Parts /\ SameRows(p, Close(r)) /\ p.wait \in BOOLEAN /\ Opened(p, u, x)
    BY <1>3, <1>5, Begins
  <2>2. z[Len(z)] = u
    BY <1>1
  <2> QED
    BY <2>1, <2>2
<1>6. CASE s = <<>>
  <2>1. n = 0
    BY <1>6, EmptySeq
  <2>2. Close(r) = r /\ DOMAIN r = Parts /\ r.wait = FALSE
    BY <1>6 DEF Close, Kept
  <2>3. /\ DOMAIN p = Parts /\ p.wait \in BOOLEAN /\ SameRows(p, r)
        /\ \E sent \in Seq(Int) : z[Len(z)].bytes = sent \o w /\ Opened(p, z[Len(z)], sent)
    BY <1>5, <2>2
  <2>4. Before(s) = 0 /\ Before(z) = 0
    BY <1>4, <1>6, <2>1 DEF Before
  <2>5. /\ Joined(KeyList(s), 0) = <<>> /\ Joined(KeyList(z), 0) = <<>>
        /\ Joined(UserList(s), 0) = <<>> /\ Joined(UserList(z), 0) = <<>>
    <3>1. /\ DOMAIN KeyList(s) = {} /\ DOMAIN KeyList(z) = {}
          /\ DOMAIN UserList(s) = {} /\ DOMAIN UserList(z) = {}
      BY <2>4 DEF KeyList, UserList
    <3> QED
      BY <3>1, JoinedNone
  <2>6. NalList(s, 0) = <<>> /\ NalList(z, 0) = <<>>
    BY NoTuple DEF NalList
  <2> HIDE DEF p
  <2>7. /\ p.iframes = <<>> /\ (codec = "mp2v" => p.user = <<>>)
        /\ (codec # "mp2v" => p.nals = <<>>)
    BY <2>3, <2>4, <2>5, <2>6 DEF Kept, SameRows
  <2>8. Kept(p, z, w, Before(z))
    BY <1>1, <2>3, <2>4, <2>5, <2>6, <2>7 DEF Kept
  <2> QED
    BY <2>8 DEF p, z
<1>7. CASE s # <<>>
  <2> DEFINE v == s[n]
             m == n - 1
  <2>1. n >= 1 /\ m \in Nat /\ m + 1 = n /\ n \in 1 .. n /\ Before(s) = m
    BY <1>1, <1>7, EmptySeq DEF Before
  <2>2. v.bytes \in Seq(Int) /\ Apart(v.bytes) /\ (codec # "mp2v" => Settled(v))
    BY <1>2, <2>1 DEF SentUnit
  <2>3. Opened(r, v, v.bytes)
    <3>1. PICK sent \in Seq(Int) : v.bytes = sent \o <<>> /\ Opened(r, v, sent)
      BY <1>7 DEF Kept
    <3>2. sent \o <<>> = sent
      BY ConcatEmptySeq
    <3> QED
      BY <3>1, <3>2
  <2>4. DOMAIN r = Parts /\ r.wait = FALSE
    <3>1. DOMAIN r = Parts /\ r.wait \in BOOLEAN
      BY DEF Kept
    <3>2. ASSUME r.wait PROVE FALSE
      <4>1. /\ codec # "mp2v" /\ v.first < MinHeader
            /\ ~(Len(v.bytes) >= MinHeader /\ IsCode(v.bytes))
        BY <2>3, <3>2 DEF Opened
      <4>2. Len(v.bytes) >= MinHeader /\ (v.first >= MinHeader \/ IsCode(v.bytes))
        BY <2>2, <4>1 DEF Settled
      <4>3. v.first \in Nat /\ MinHeader = 7
        BY <1>2, <2>1, VideoAssumption DEF SentUnit
      <4> QED
        BY <4>1, <4>2, <4>3
    <3> QED
      BY <3>1, <3>2
  <2>5. /\ DOMAIN Close(r) = Parts /\ Close(r).wait = FALSE
        /\ Close(r).iframes = r.iframes \o KeyRows(v)
        /\ codec = "mp2v" => Close(r).user = r.user \o UserRows(v)
        /\ codec # "mp2v" => Close(r).nals = Append(r.nals, Types(v))
    BY <2>2, <2>3, <2>4, ClosedRows
  <2>6. /\ DOMAIN p = Parts /\ p.wait \in BOOLEAN /\ SameRows(p, Close(r))
        /\ \E sent \in Seq(Int) : z[Len(z)].bytes = sent \o w /\ Opened(p, z[Len(z)], sent)
    BY <1>5, <2>5
  <2>7. \A i \in 1 .. m + 1 : z[i] = s[i] /\ IsList(KeyRows(s[i])) /\ IsList(UserRows(s[i]))
    <3>1. ASSUME NEW i \in 1 .. m + 1
          PROVE  z[i] = s[i] /\ IsList(KeyRows(s[i])) /\ IsList(UserRows(s[i]))
      <4>1. i \in 1 .. n
        BY <2>1
      <4>2. s[i].bytes \in Seq(Int)
        BY <1>2, <4>1 DEF SentUnit
      <4> QED
        BY <1>1, <4>1, <4>2, RowsListed
    <3> QED
      BY <3>1
  <2>8. KeyList(z)[m + 1] = KeyRows(v) /\ UserList(z)[m + 1] = UserRows(v)
    BY <1>4, <2>1, <2>7 DEF KeyList, UserList
  <2>9. Joined(KeyList(z), m + 1) = Joined(KeyList(s), m) \o KeyRows(v)
    <3> DEFINE F == KeyList(s)
               G == KeyList(z)
    <3>1. /\ DOMAIN F = 1 .. m /\ DOMAIN G = 1 .. m + 1
          /\ \A i \in 1 .. m : F[i] = KeyRows(s[i])
          /\ \A i \in 1 .. m + 1 : G[i] = KeyRows(s[i])
      BY <1>4, <2>1, <2>7 DEF KeyList
    <3> HIDE DEF F, G, m
    <3>2. \A i \in 1 .. m : F[i] = G[i]
      BY <2>1, <3>1
    <3>3. \A i \in 1 .. m + 1 : IsList(G[i])
      BY <2>7, <3>1
    <3>4. Joined(G, m + 1) = Joined(F, m) \o G[m + 1]
      BY <2>1, <3>1, <3>2, <3>3, JoinedGrows
    <3> QED
      BY <2>8, <3>4 DEF F, G
  <2>10. Joined(UserList(z), m + 1) = Joined(UserList(s), m) \o UserRows(v)
    <3> DEFINE F == UserList(s)
               G == UserList(z)
    <3>1. /\ DOMAIN F = 1 .. m /\ DOMAIN G = 1 .. m + 1
          /\ \A i \in 1 .. m : F[i] = UserRows(s[i])
          /\ \A i \in 1 .. m + 1 : G[i] = UserRows(s[i])
      BY <1>4, <2>1, <2>7 DEF UserList
    <3> HIDE DEF F, G, m
    <3>2. \A i \in 1 .. m : F[i] = G[i]
      BY <2>1, <3>1
    <3>3. \A i \in 1 .. m + 1 : IsList(G[i])
      BY <2>7, <3>1
    <3>4. Joined(G, m + 1) = Joined(F, m) \o G[m + 1]
      BY <2>1, <3>1, <3>2, <3>3, JoinedGrows
    <3> QED
      BY <2>8, <3>4 DEF F, G
  <2>11. Append(NalList(s, m), Types(v)) = NalList(z, m + 1)
    <3> DEFINE f == NalList(s, m)
               g == NalList(z, m + 1)
    <3>1. IsListTo(f, m) /\ IsListTo(g, m + 1)
      BY DEF NalList, IsListTo
    <3>2. (\A i \in 1 .. m : f[i] = Types(s[i])) /\ (\A i \in 1 .. m + 1 : g[i] = Types(s[i]))
      BY <1>4, <2>1, <2>7 DEF NalList
    <3>3. (\A i \in 1 .. m : f[i] = g[i]) /\ g[m + 1] = Types(v)
      BY <2>1, <3>2
    <3> HIDE DEF f, g, m, v
    <3>4. Append(f, g[m + 1]) = g
      BY <2>1, <3>1, <3>3, AppendGrows
    <3> QED
      BY <3>3, <3>4 DEF f, g
  <2> HIDE DEF p, v
  <2>12. /\ p.iframes = Joined(KeyList(z), m + 1)
         /\ codec = "mp2v" => p.user = Joined(UserList(z), m + 1)
         /\ codec # "mp2v" => p.nals = NalList(z, m + 1)
    BY <2>1, <2>5, <2>6, <2>9, <2>10, <2>11 DEF Kept, SameRows
  <2>13. Kept(p, z, w, Before(z))
    BY <1>1, <1>4, <2>1, <2>6, <2>12 DEF Kept
  <2> QED
    BY <2>13 DEF p, z
<1> QED
  BY <1>6, <1>7

LEMMA GoOnKeeps ==
  ASSUME NEW r, NEW s \in Seq(SentUnit), s # <<>>, NEW n, NEW x \in Seq(Int), NEW w \in Seq(Int),
         Kept(r, s, x \o w, n),
         NEW k, k.pos \in Int, k.pusi = FALSE, k.data = x
  PROVE  Kept(Process(r, k), s, w, n)
<1> DEFINE p == Process(r, k)
           u == s[Len(s)]
<1>1. PICK sent \in Seq(Int) : u.bytes = sent \o (x \o w) /\ Opened(r, u, sent)
  BY DEF Kept
<1>2. DOMAIN r = Parts /\ r.wait \in BOOLEAN
  BY DEF Kept
<1>3. /\ DOMAIN p = Parts /\ SameRows(p, r) /\ p.wait \in BOOLEAN
      /\ Opened(p, u, sent \o x)
  BY <1>1, <1>2, GoesOn
<1>4. sent \o x \in Seq(Int) /\ u.bytes = (sent \o x) \o w
  <2>1. \A a, b \in Seq(Int) : a \o b \in Seq(Int)
    BY ConcatProperties
  <2>2. (sent \o x) \o w = sent \o (x \o w)
    BY ConcatAssociative
  <2> QED
    BY <1>1, <2>1, <2>2
<1> HIDE DEF p
<1>5. Kept(p, s, w, n)
  BY <1>3, <1>4 DEF Kept, SameRows
<1> QED
  BY <1>5 DEF p

LEMMA NoBytesNoTypes == NalUnits(<<>>) = <<>>
<1> DEFINE d == <<>>
<1>1. d \in Seq(Int) /\ Len(d) = 0
  BY EmptySeq
<1>2. Apart(d)
  BY <1>1 DEF Apart
<1>3. CodeList(d, 2) = [i \in 1 .. 0 |-> CodeList(d, 2)[i]]
  BY <1>1 DEF CodeList
<1>4. Codes(d, 2) = Joined(CodeList(d, 2), 0)
  BY <1>1 DEF Codes, CodeList
<1> HIDE DEF d
<1>5. Found(d, 5) = Codes(d, 2)
  BY <1>1, <1>2, ScansAgree
<1>6. DOMAIN CodeList(d, 2) = {}
  BY <1>3
<1>7. Codes(d, 2) = <<>>
  BY <1>4, <1>6, JoinedNone
<1>8. DOMAIN Found(d, 5) = 1 .. 0
  BY <1>5, <1>7, EmptyIsList
<1>9. NalUnits(d) = [i \in 1 .. 0 |-> NalUnits(d)[i]]
  BY <1>8 DEF NalUnits
<1>10. NalUnits(d) = <<>>
  BY <1>9, NoTuple
<1> QED
  BY <1>10 DEF d

LEMMA FlushKeeps ==
  ASSUME NEW r, NEW s \in Seq(SentUnit), Kept(r, s, <<>>, Before(s)),
         \A i \in 1 .. Len(s) : Apart(s[i].bytes)
  PROVE  Kept(Flush(r), s, <<>>, Len(s))
<1> DEFINE p == Flush(r)
           n == Len(s)
<1>n. n \in Nat /\ DOMAIN r = Parts /\ r.wait \in BOOLEAN
  BY LenProperties DEF Kept
<1>1. CASE s = <<>>
  <2>1. n = 0 /\ Before(s) = 0 /\ r.cur = Nil
    BY <1>1, EmptySeq DEF Before, Kept
  <2>2. p = r
    BY <2>1 DEF Flush
  <2> QED
    BY <2>1, <2>2
<1>2. CASE s # <<>>
  <2> DEFINE v == s[n]
             m == n - 1
  <2>1. n >= 1 /\ m \in Nat /\ m + 1 = n /\ n \in 1 .. n /\ Before(s) = m
    BY <1>n, <1>2, EmptySeq DEF Before
  <2>2. v \in SentUnit /\ v.bytes \in Seq(Int) /\ Apart(v.bytes)
    <3>1. v \in SentUnit
      BY <2>1, ElementOfSeq
    <3> QED
      BY <2>1, <3>1 DEF SentUnit
  <2>3. Opened(r, v, v.bytes)
    <3>1. PICK sent \in Seq(Int) : v.bytes = sent \o <<>> /\ Opened(r, v, sent)
      BY <1>2 DEF Kept
    <3>2. sent \o <<>> = sent
      BY ConcatEmptySeq
    <3> QED
      BY <3>1, <3>2
  <2>4. r.cur # Nil
    BY <2>3, UnitIsNotNil DEF Opened
  <2>5. /\ DOMAIN p = Parts /\ p.wait = r.wait /\ p.cur = r.cur /\ p.acc = r.acc
        /\ p.iframes = r.iframes /\ p.user = r.user
        /\ codec # "mp2v" => p.nals = Append(r.nals, NalUnits(r.cur.data))
    <3>1. CASE codec = "mp2v"
      <4>1. p = [r EXCEPT !.pkts = Append(@, r.cur)]
        BY <2>4, <3>1 DEF Flush
      <4> QED
        BY <4>1, <3>1, <1>n DEF Parts
    <3>2. CASE codec # "mp2v"
      <4>1. p = [r EXCEPT !.nals = Append(@, NalUnits(r.cur.data)), !.pkts = Append(@, r.cur)]
        BY <2>4, <3>2 DEF Flush
      <4> QED
        BY <4>1, <3>2, <1>n DEF Parts
    <3> QED
      BY <3>1, <3>2
  <2>6. Opened(p, v, v.bytes) /\ v.bytes = v.bytes \o <<>>
    BY <2>2, <2>3, <2>5, ConcatEmptySeq DEF Opened
  <2>7. ASSUME codec # "mp2v"
        PROVE  NalUnits(r.cur.data) = IF ~Settled(v) THEN <<>> ELSE Types(v)
    <3>0. v.first \in Nat /\ Len(v.bytes) \in Nat /\ MinHeader = 7
      BY <2>2, VideoAssumption, LenProperties DEF SentUnit
    <3>1. CASE r.wait
      <4>1. /\ r.cur.data = <<>> /\ v.first < MinHeader
            /\ ~(Len(v.bytes) >= MinHeader /\ IsCode(v.bytes))
        BY <2>3, <3>1 DEF Opened
      <4>2. ~Settled(v)
        BY <3>0, <4>1 DEF Settled
      <4> QED
        BY <4>1, <4>2, NoBytesNoTypes
    <3>2. CASE ~r.wait
      <4>1. /\ r.cur.data = Payload(v.bytes)
            /\ Len(v.bytes) >= MinHeader /\ (v.first >= MinHeader \/ IsCode(v.bytes))
        BY <2>3, <2>7, <3>2 DEF Opened
      <4>2. Settled(v)
        BY <4>1 DEF Settled
      <4>3. Payload(v.bytes) \in Seq(Int) /\ Apart(Payload(v.bytes))
        BY <2>2, PayloadTyped
      <4>4. Found(Payload(v.bytes), 5) = Codes(Payload(v.bytes), 2)
        BY <4>3, ScansAgree
      <4>5. NalUnits(Payload(v.bytes)) = Types(v)
        BY <4>4 DEF NalUnits, Types
      <4> QED
        BY <4>1, <4>2, <4>5
    <3> QED
      BY <3>1, <3>2
  <2>8. Append(NalList(s, m), IF ~Settled(v) THEN <<>> ELSE Types(v)) = NalList(s, m + 1)
    <3> DEFINE f == NalList(s, m)
               g == NalList(s, m + 1)
    <3>1. IsListTo(f, m) /\ IsListTo(g, m + 1)
      BY DEF NalList, IsListTo
    <3>2. (\A i \in 1 .. m : f[i] = g[i]) /\ g[m + 1] = IF ~Settled(v) THEN <<>> ELSE Types(v)
      BY <2>1 DEF NalList
    <3> HIDE DEF f, g, m, v
    <3>3. Append(f, g[m + 1]) = g
      BY <2>1, <3>1, <3>2, AppendGrows
    <3> QED
      BY <3>2, <3>3 DEF f, g
  <2> HIDE DEF p, v
  <2>9. codec # "mp2v" => p.nals = NalList(s, n)
    BY <2>1, <2>5, <2>7, <2>8 DEF Kept
  <2>10. Kept(p, s, <<>>, n)
    BY <1>2, <1>n, <2>2, <2>5, <2>6, <2>9 DEF Kept, v
  <2> QED
    BY <2>10 DEF p
<1> QED
  BY <1>1, <1>2

-----------------------------------------------------------------------------
(* The record over a whole file *)

\* How many units have their NAL rows.
Named(s, at) == IF at = "flushed" THEN Len(s) ELSE Before(s)

\* The rows are looked at as long as nothing disturbed them.
Good == pc # "panic" /\ Undisturbed /\ Parted

VideoInv ==
  /\ codec \in Codec
  /\ stream \in Seq(SentUnit) /\ rest \in Seq(Int) /\ pkt.pos \in Int
  /\ stream = <<>> => rest = <<>>
  /\ Good => Kept(rec, stream, rest, Named(stream, pc))

LEMMA SameCodec ==
  ASSUME codec' = codec
  PROVE  (\A u : Types(u)' = Types(u)) /\ (\A u : KeyRows(u)' = KeyRows(u))
<1>1. \A u : Types(u)' = Types(u)
  BY DEF NalType, Types
<1>2. \A u : KeyRows(u)' = KeyRows(u)
  BY DEF KeyRows, Types, Idrs, NalType, Idr
<1> QED
  BY <1>1, <1>2

LEMMA KeptAfter ==
  ASSUME codec' = codec, Kept(rec', stream', rest', Named(stream', pc'))
  PROVE  Kept(rec, stream, rest, Named(stream, pc))'
<1>1. (\A u : Types(u)' = Types(u)) /\ (\A u : KeyRows(u)' = KeyRows(u))
  BY SameCodec
<1>2. KeyList(stream)' = KeyList(stream')
  BY <1>1 DEF KeyList, Before
<1>3. UserList(stream)' = UserList(stream')
  BY DEF UserList, UserRows, Before
<1>4. NalList(stream, Named(stream, pc))' = NalList(stream', Named(stream', pc'))
  BY <1>1 DEF NalList, Named, Before
<1> QED
  BY <1>2, <1>3, <1>4 DEF Kept, Opened, Before

LEMMA SizesFit ==
  ASSUME NEW d \in Seq(Int), NEW n \in Sizes(d)
  PROVE  n \in 0 .. Len(d)
<1>1. Len(d) \in Nat
  BY LenProperties
<1>2. n \in Nat /\ n <= Len(d)
  BY <1>1, VideoAssumption DEF Sizes
<1> QED
  BY <1>1, <1>2

LEMMA VideoInvInit == Init => VideoInv
<1> SUFFICES ASSUME Init PROVE VideoInv
  OBVIOUS
<1>1. /\ codec \in Codec /\ stream = <<>> /\ rest = <<>> /\ rec = NewRecord /\ pc = "feeding"
      /\ pkt.pos = NoPos
  BY DEF Init
<1>2. <<>> \in Seq(SentUnit) /\ <<>> \in Seq(Int) /\ NoPos \in Int
  BY EmptySeq DEF NoPos, R!NoPos
<1>3. Before(<<>>) = 0 /\ Named(<<>>, "feeding") = 0
  BY DEF Before, Named
<1>4. Joined(KeyList(<<>>), 0) = <<>> /\ Joined(UserList(<<>>), 0) = <<>>
  <2>1. DOMAIN KeyList(<<>>) = {} /\ DOMAIN UserList(<<>>) = {}
    BY <1>3 DEF KeyList, UserList
  <2> QED
    BY <2>1, JoinedNone
<1>5. NalList(<<>>, 0) = <<>>
  BY NoTuple DEF NalList
<1>6. Kept(NewRecord, <<>>, <<>>, 0)
  BY <1>3, <1>4, <1>5 DEF Kept, NewRecord, Parts
<1> QED
  BY <1>1, <1>2, <1>3, <1>6 DEF VideoInv

LEMMA StartInv ==
  ASSUME VideoInv, NEW p \in Pes[codec], NEW n \in Sizes(p), StartPes(p, n)
  PROVE  VideoInv'
<1> DEFINE k == [pos |-> pkt.pos + 1, pusi |-> TRUE, data |-> SubSeq(p, 1, n)]
           u == [pos |-> pkt.pos + 1, first |-> n, bytes |-> p]
           x == SubSeq(p, 1, n)
           w == Drop(p, n)
<1>1. /\ pc = "feeding" /\ rest = <<>> /\ stream' = Append(stream, u) /\ rest' = w
      /\ Feed(k)
  BY DEF StartPes
<1>2. codec' = codec /\ pkt' = k /\ pkt.pos \in Int /\ codec \in Codec /\ stream \in Seq(SentUnit)
  BY <1>1 DEF Feed, VideoInv
<1>3. p \in Seq(Int)
  <2>1. p \in Seq(0 .. 255)
    BY <1>2, VideoAssumption
  <2>2. 0 .. 255 \subseteq Int
    OBVIOUS
  <2> QED
    BY <2>1, <2>2, SeqMonotonic
<1>4. n \in 0 .. Len(p)
  BY <1>3, SizesFit
<1>5. x \in Seq(Int) /\ Len(x) = n /\ w \in Seq(Int) /\ p = x \o w
  BY <1>3, <1>4, SliceOf, DropOf, CutInTwo
<1>6. k.pos \in Int /\ k.pos = u.pos /\ k.pusi = TRUE /\ k.data = x /\ u \in SentUnit
      /\ u.bytes = x \o w /\ u.first = Len(x)
  BY <1>2, <1>3, <1>4, <1>5 DEF SentUnit
<1> HIDE DEF x, w, u
<1>7. /\ stream' \in Seq(SentUnit) /\ stream' # <<>> /\ Len(stream') = Len(stream) + 1
      /\ \A i \in 1 .. Len(stream) : stream'[i] = stream[i]
      /\ Len(stream) \in Nat /\ DOMAIN stream = 1 .. Len(stream) /\ DOMAIN stream' = 1 .. Len(stream')
  BY <1>1, <1>2, <1>6, AppendProperties, LenProperties
<1>8. ASSUME Good' PROVE Kept(rec, stream, rest, Named(stream, pc))'
  <2>1. ~HeaderCut(k) /\ rec' = Process(rec, k) /\ pc' = "feeding"
    BY <1>1, <1>8 DEF Good, Feed
  <2>2. \A i \in 1 .. Len(stream) : i \in 1 .. Len(stream') - 1 /\ i \in DOMAIN stream'
    BY <1>7
  <2>3. \A i \in 1 .. Len(stream) : Apart(stream[i].bytes)
    BY <1>7, <1>8, <2>2 DEF Good, Parted
  <2>4. codec # "mp2v" => \A i \in 1 .. Len(stream) : Settled(stream[i])
    BY <1>2, <1>7, <1>8, <2>2 DEF Good, Undisturbed
  <2>5. Good
    <3>1. Parted
      BY <1>7, <2>3 DEF Parted
    <3>2. Undisturbed
      BY <1>7, <2>4 DEF Undisturbed
    <3> QED
      BY <1>1, <3>1, <3>2 DEF Good
  <2>6. Kept(rec, stream, <<>>, Before(stream))
    BY <1>1, <2>5 DEF VideoInv, Named
  <2> HIDE DEF k
  <2>7. Kept(Process(rec, k), Append(stream, u), w, Before(Append(stream, u)))
    BY <1>2, <1>5, <1>6, <2>1, <2>3, <2>4, <2>6, StartKeeps
  <2>8. Named(stream', pc') = Before(stream')
    BY <2>1 DEF Named
  <2>9. Kept(rec', stream', rest', Named(stream', pc'))
    BY <1>1, <2>1, <2>7, <2>8
  <2> QED
    BY <1>2, <2>9, KeptAfter
<1> HIDE DEF k
<1> QED
  BY <1>1, <1>2, <1>5, <1>6, <1>7, <1>8 DEF VideoInv

LEMMA GoOnInv ==
  ASSUME VideoInv, rest # <<>>, NEW n \in Sizes(rest), GoOn(n)
  PROVE  VideoInv'
<1> DEFINE k == [pos |-> pkt.pos + 1, pusi |-> FALSE, data |-> SubSeq(rest, 1, n)]
           x == SubSeq(rest, 1, n)
           w == Drop(rest, n)
<1>1. pc = "feeding" /\ stream' = stream /\ rest' = w /\ Feed(k)
  BY DEF GoOn
<1>2. /\ codec' = codec /\ pkt' = k /\ pkt.pos \in Int /\ codec \in Codec
      /\ stream \in Seq(SentUnit) /\ rest \in Seq(Int) /\ stream # <<>>
  BY <1>1 DEF Feed, VideoInv
<1>3. n \in 0 .. Len(rest)
  BY <1>2, SizesFit
<1>4. x \in Seq(Int) /\ w \in Seq(Int) /\ rest = x \o w
  BY <1>2, <1>3, SliceOf, DropOf, CutInTwo
<1> HIDE DEF x, w
<1>5. k.pos \in Int /\ k.pusi = FALSE /\ k.data = x
  <2>1. pkt.pos + 1 \in Int
    BY <1>2
  <2> QED
    BY <2>1 DEF x
<1>6. ASSUME Good' PROVE Kept(rec, stream, rest, Named(stream, pc))'
  <2>1. rec' = Process(rec, k) /\ pc' = "feeding"
    BY <1>1, <1>6 DEF Good, Feed
  <2>2. Good
    BY <1>1, <1>2, <1>6 DEF Good, Parted, Undisturbed
  <2>3. Kept(rec, stream, x \o w, Before(stream))
    BY <1>1, <1>4, <2>2 DEF VideoInv, Named
  <2> HIDE DEF k
  <2>4. Kept(Process(rec, k), stream, w, Before(stream))
    BY <1>2, <1>4, <1>5, <2>3, GoOnKeeps
  <2>5. Named(stream', pc') = Before(stream)
    BY <1>1, <2>1 DEF Named
  <2>6. Kept(rec', stream', rest', Named(stream', pc'))
    BY <1>1, <2>1, <2>4, <2>5
  <2> QED
    BY <1>2, <2>6, KeptAfter
<1> HIDE DEF k
<1> QED
  BY <1>1, <1>2, <1>4, <1>5, <1>6 DEF VideoInv

LEMMA FlushInv ==
  ASSUME VideoInv, EndOfFile
  PROVE  VideoInv'
<1>1. /\ pc = "feeding" /\ rest = <<>> /\ rec' = Flush(rec) /\ pc' = "flushed"
      /\ UNCHANGED <<codec, stream, rest, pkt>>
  BY DEF EndOfFile
<1>2. codec \in Codec /\ stream \in Seq(SentUnit) /\ rest \in Seq(Int) /\ pkt.pos \in Int
  BY DEF VideoInv
<1>3. ASSUME Good' PROVE Kept(rec, stream, rest, Named(stream, pc))'
  <2>1. Good
    BY <1>1, <1>3 DEF Good, Parted, Undisturbed
  <2>2. Kept(rec, stream, <<>>, Before(stream))
    BY <1>1, <2>1 DEF VideoInv, Named
  <2>3. \A i \in 1 .. Len(stream) : Apart(stream[i].bytes)
    <3>1. DOMAIN stream = 1 .. Len(stream)
      BY <1>2, LenProperties
    <3> QED
      BY <2>1, <3>1 DEF Good, Parted
  <2>4. Kept(Flush(rec), stream, <<>>, Len(stream))
    BY <1>2, <2>2, <2>3, FlushKeeps
  <2>5. Named(stream', pc') = Len(stream)
    BY <1>1 DEF Named
  <2>6. Kept(rec', stream', rest', Named(stream', pc'))
    BY <1>1, <2>4, <2>5
  <2> QED
    BY <1>1, <2>6, KeptAfter
<1> QED
  BY <1>1, <1>2, <1>3 DEF VideoInv

LEMMA StutterInv ==
  ASSUME VideoInv, UNCHANGED vars
  PROVE  VideoInv'
<1>1. /\ codec' = codec /\ stream' = stream /\ rest' = rest /\ pkt' = pkt /\ rec' = rec /\ pc' = pc
  BY DEF vars
<1>2. ASSUME Good' PROVE Kept(rec, stream, rest, Named(stream, pc))'
  <2>1. Good
    BY <1>1, <1>2 DEF Good, Parted, Undisturbed
  <2>2. Kept(rec', stream', rest', Named(stream', pc'))
    BY <1>1, <2>1 DEF VideoInv
  <2> QED
    BY <1>1, <2>2, KeptAfter
<1> QED
  BY <1>1, <1>2 DEF VideoInv

LEMMA VideoInvStep == VideoInv /\ [Next]_vars => VideoInv'
<1> SUFFICES ASSUME VideoInv, [Next]_vars PROVE VideoInv'
  OBVIOUS
<1>1. ASSUME NEW p \in Pes[codec], NEW n \in Sizes(p), StartPes(p, n) PROVE VideoInv'
  BY <1>1, StartInv
<1>2. ASSUME rest # <<>>, NEW n \in Sizes(rest), GoOn(n) PROVE VideoInv'
  BY <1>2, GoOnInv
<1>3. CASE EndOfFile
  BY <1>3, FlushInv
<1>4. CASE Ended
  BY <1>4, StutterInv DEF Ended
<1>5. CASE UNCHANGED vars
  BY <1>5, StutterInv
<1> QED
  BY <1>1, <1>2, <1>3, <1>4, <1>5 DEF Next

THEOREM VideoInvariant == Spec => []VideoInv
<1> QED
  BY VideoInvInit, VideoInvStep, PTL DEF Spec

\* Process and Flush of the three records: for PES packets of any bytes, cut into any
\* packets, the key frames reported are those of the units that have ended.
THEOREM KeyFrames == Spec => []KeyFramesLogged
<1>1. VideoInv => KeyFramesLogged
  <2> SUFFICES ASSUME VideoInv, pc # "panic", Undisturbed, Parted
               PROVE  rec.iframes = Joined([i \in 1 .. Past |-> KeyRows(stream[i])], Past)
    BY DEF KeyFramesLogged
  <2>1. Kept(rec, stream, rest, Named(stream, pc))
    BY DEF VideoInv, Good
  <2>2. Past = Before(stream)
    BY DEF Past, Before
  <2> QED
    BY <2>1, <2>2 DEF Kept, KeyList
<1> QED
  BY <1>1, VideoInvariant, PTL

\* Process and Flush: each unit has the row of its NAL types, and each but the last the
\* rows of its user data, for PES packets of any bytes, cut into any packets.
THEOREM UnitRows == Spec => []UnitRowsMatch
<1>1. VideoInv => UnitRowsMatch
  <2> SUFFICES ASSUME VideoInv, pc # "panic", Undisturbed, Parted
               PROVE  LET n == IF pc = "flushed" THEN Len(stream) ELSE Past IN
                      IF codec = "mp2v" THEN rec.user = Joined([i \in 1 .. Past |-> UserRows(stream[i])], Past)
                      ELSE rec.nals = [i \in 1 .. n |-> IF i > Past /\ ~Settled(stream[i]) THEN <<>>
                                                        ELSE Types(stream[i])]
    BY DEF UnitRowsMatch
  <2>1. Kept(rec, stream, rest, Named(stream, pc))
    BY DEF VideoInv, Good
  <2>2. Past = Before(stream)
    BY DEF Past, Before
  <2> QED
    BY <2>1, <2>2 DEF Kept, UserList, NalList, Named
<1> QED
  BY <1>1, VideoInvariant, PTL
-----------------------------------------------------------------------------
(* Records, on bytes *)

\* AsRecord, by its parts.
View(c, u, w, a) ==
  [kind |-> "video", clock |-> NoPos, cur |-> c, units |-> u, wait |-> w, acc |-> a]
UnitsOf(s) == [i \in DOMAIN s |-> AsUnit(s[i])]
AccOf(a, h) ==
  IF a = Nil THEN Nil ELSE [from |-> a.from, len |-> Len(a.data), head |-> h[1], hlen |-> h[2]]

LEMMA ViewIs ==
  \A r, h : AsRecord(r, h) = View(AsUnit(r.cur), UnitsOf(r.pkts), r.wait, AccOf(r.acc, h))
  BY DEF AsRecord, View, UnitsOf, AccOf

LEMMA AsUnitIs ==
  ASSUME NEW u \in Unit
  PROVE  /\ AsUnit(u) = [pos |-> u.pos, clock |-> NoPos, hdr |-> u.hdr, size |-> Len(u.data)]
         /\ AsUnit(u) # Nil /\ AsUnit(Nil) = Nil
<1>1. u # Nil
  BY UnitIsNotNil
<1>2. [pos |-> u.pos, clock |-> NoPos, hdr |-> u.hdr, size |-> Len(u.data)] \in R!Unit
  <2>1. u.pos \in Int /\ u.hdr \in Int /\ u.data \in Seq(Int)
    BY DEF Unit
  <2>2. Len(u.data) \in Nat /\ NoPos \in Int
    BY <2>1, LenProperties DEF NoPos, R!NoPos
  <2> QED
    BY <2>1, <2>2 DEF R!Unit
<1> QED
  BY <1>1, <1>2, VideoAssumption DEF AsUnit

LEMMA UnitsAppend ==
  ASSUME NEW s \in Seq(Unit), NEW u \in Unit
  PROVE  UnitsOf(Append(s, u)) = Append(UnitsOf(s), AsUnit(u))
<1> DEFINE T == {AsUnit(v) : v \in Unit}
           a == UnitsOf(Append(s, u))
           b == Append(UnitsOf(s), AsUnit(u))
           n == Len(s)
<1>1. /\ Append(s, u) \in Seq(Unit) /\ Len(Append(s, u)) = n + 1 /\ n \in Nat
      /\ \A i \in 1 .. n : Append(s, u)[i] = s[i]
      /\ Append(s, u)[n + 1] = u
      /\ DOMAIN Append(s, u) = 1 .. n + 1 /\ DOMAIN s = 1 .. n
  BY AppendProperties, LenProperties
<1>2. \A i \in 1 .. n : s[i] \in Unit
  BY ElementOfSeq
<1>3. UnitsOf(s) \in Seq(T) /\ Len(UnitsOf(s)) = n /\ \A i \in 1 .. n : UnitsOf(s)[i] = AsUnit(s[i])
  <2>1. \A i \in 1 .. n : AsUnit(s[i]) \in T
    BY <1>2
  <2> QED
    BY <1>1, <2>1, Listed DEF UnitsOf
<1>4. AsUnit(u) \in T
  OBVIOUS
<1>5. /\ a \in Seq(T) /\ Len(a) = n + 1
      /\ \A i \in 1 .. n + 1 : a[i] = AsUnit(Append(s, u)[i])
  <2>1. \A i \in 1 .. n + 1 : Append(s, u)[i] \in Unit
    BY <1>1, ElementOfSeq
  <2>2. \A i \in 1 .. n + 1 : AsUnit(Append(s, u)[i]) \in T
    BY <2>1
  <2>3. n + 1 \in Nat
    BY <1>1
  <2> QED
    BY <1>1, <2>2, <2>3, Listed DEF UnitsOf
<1> HIDE DEF T
<1>6. /\ b \in Seq(T) /\ Len(b) = n + 1
      /\ \A i \in 1 .. n : b[i] = UnitsOf(s)[i]
      /\ b[n + 1] = AsUnit(u)
  BY <1>3, <1>4, AppendProperties
<1> HIDE DEF a, b, n
<1>7. ASSUME NEW i \in 1 .. n + 1 PROVE a[i] = b[i]
  <2>1. CASE i \in 1 .. n
    BY <1>1, <1>3, <1>5, <1>6, <2>1
  <2>2. CASE i = n + 1
    BY <1>1, <1>5, <1>6, <2>2
  <2> QED
    BY <1>1, <2>1, <2>2
<1>8. a = b
  BY <1>5, <1>6, <1>7, SeqEqual
<1> QED
  BY <1>8 DEF a, b

-----------------------------------------------------------------------------
(* Beginnings *)

LEMMA MayStartIs ==
  ASSUME NEW d \in Seq(Int)
  PROVE  /\ Len(d) >= 3 => (MayStart(d) <=> IsCode(d))
         /\ IsCode(d) => Len(d) >= 3 /\ MayStart(d)
<1>1. StartCode[1] = 0 /\ StartCode[2] = 0 /\ StartCode[3] = 1
  BY DEF StartCode
<1>2. Len(d) \in Nat
  BY LenProperties
<1>3. Len(d) >= 3 => (MayStart(d) <=> d[1] = 0 /\ d[2] = 0 /\ d[3] = 1)
  <2> SUFFICES ASSUME Len(d) >= 3 PROVE MayStart(d) <=> d[1] = 0 /\ d[2] = 0 /\ d[3] = 1
    OBVIOUS
  <2>1. MayStart(d) <=> \A i \in 1 .. 3 : d[i] = StartCode[i]
    BY <1>2 DEF MayStart
  <2> QED
    BY <1>1, <2>1
<1>4. IsCode(d) => Len(d) >= 3
  BY DEF IsCode
<1> QED
  BY <1>3, <1>4, IsCodeBytes

\* Whatever the bytes are, Records has a word for how they begin.
LEMMA SomeHeading ==
  ASSUME NEW d \in Seq(Int)
  PROVE  \E h \in Heading : Looks(d, h[1], h[2])
<1>0. MinHeader = 7 /\ Len(d) \in Nat
  BY VideoAssumption, LenProperties
<1>1. CASE ~IsCode(d)
  <2>1. <<"raw", 0>> \in Heading /\ Looks(d, "raw", 0)
    BY <1>1 DEF Heading, Looks
  <2> QED
    BY <2>1
<1>2. CASE IsCode(d) /\ (Len(d) >= 4 => ~HasHeader(d[4]))
  <2>1. <<"unknown", 0>> \in Heading /\ Looks(d, "unknown", 0)
    BY <1>2, MayStartIs DEF Heading, Looks
  <2> QED
    BY <2>1
<1>3. CASE IsCode(d) /\ HasHeader(d[4])
  <2> DEFINE n == IF Len(d) >= 5 THEN 5 + Stamps(d[5]) ELSE 5
  <2>1. n \in 5 .. 7
    BY StampsBound
  <2>2. Looks(d, "pes", n)
    BY <1>0, <1>3, <2>1, MayStartIs DEF Looks
  <2> HIDE DEF n
  <2>3. <<"pes", n>> \in Heading
    BY <1>0, <2>1 DEF Heading
  <2> QED
    BY <2>2, <2>3
<1> QED
  BY <1>1, <1>2, <1>3

\* What bytes look like they looked like before there were more.
LEMMA LooksBefore ==
  ASSUME NEW d \in Seq(Int), NEW x \in Seq(Int), NEW h \in Heading, Looks(d \o x, h[1], h[2])
  PROVE  Looks(d, h[1], h[2])
<1> DEFINE c == d \o x
<1>0. MinHeader = 7
  BY VideoAssumption
<1>1. /\ c \in Seq(Int) /\ Len(c) = Len(d) + Len(x) /\ Len(d) \in Nat /\ Len(x) \in Nat
      /\ \A i \in 1 .. Len(d) + Len(x) : c[i] = IF i <= Len(d) THEN d[i] ELSE x[i - Len(d)]
  BY ConcatProperties, LenProperties
<1> HIDE DEF c
<1>2. ASSUME NEW i \in Nat, 1 <= i, i <= Len(d) PROVE i <= Len(c) /\ c[i] = d[i]
  BY <1>1, <1>2
<1>3. IsCode(d) => IsCode(c)
  <2> SUFFICES ASSUME IsCode(d) PROVE IsCode(c)
    OBVIOUS
  <2>1. Len(d) >= 3 /\ d[1] = 0 /\ d[2] = 0 /\ d[3] = 1
    BY IsCodeBytes DEF IsCode
  <2>2. c[1] = d[1] /\ c[2] = d[2] /\ c[3] = d[3] /\ Len(c) >= 3
    BY <1>1, <1>2, <2>1
  <2> QED
    BY <1>1, <2>1, <2>2, IsCodeBytes
<1>4. MayStart(c) => MayStart(d)
  <2> SUFFICES ASSUME MayStart(c), NEW i \in 1 .. 3, i <= Len(d) PROVE d[i] = StartCode[i]
    BY DEF MayStart
  <2>1. i <= Len(c) /\ c[i] = d[i]
    BY <1>2
  <2> QED
    BY <2>1 DEF MayStart
<1>5. /\ Len(d) >= 4 => Len(c) >= 4 /\ c[4] = d[4]
      /\ Len(d) >= 5 => Len(c) >= 5 /\ c[5] = d[5]
  BY <1>1, <1>2
<1>6. CASE h[1] = "raw"
  BY <1>3, <1>6 DEF Looks, c
<1>7. CASE h[1] = "unknown"
  BY <1>4, <1>5, <1>7 DEF Looks, c
<1>8. CASE h[1] = "pes"
  <2>1. /\ MayStart(c) /\ (Len(c) >= 4 => HasHeader(c[4]))
        /\ IF Len(c) >= 5 THEN h[2] = 5 + Stamps(c[5]) ELSE h[2] \in 5 .. MinHeader
    BY <1>8 DEF Looks, c
  <2>2. Len(d) >= 5 => h[2] = 5 + Stamps(d[5])
    BY <1>5, <2>1
  <2>3. ~(Len(d) >= 5) => h[2] \in 5 .. MinHeader
    <3>1. CASE Len(c) >= 5
      <4>1. PICK n \in 0 .. 2 : n = Stamps(c[5])
        BY StampsBound
      <4> QED
        BY <1>0, <2>1, <3>1, <4>1
    <3> QED
      BY <2>1, <3>1
  <2> QED
    BY <1>4, <1>5, <1>8, <2>1, <2>2, <2>3 DEF Looks
<1> QED
  BY <1>6, <1>7, <1>8 DEF Heading

\* What Records says of a header is so once all of it has come.
LEMMA LooksRight ==
  ASSUME NEW d \in Seq(Int), Len(d) >= MinHeader, NEW h \in Heading, Looks(d, h[1], h[2])
  PROVE  /\ IsCode(d) <=> h[1] # "raw"
         /\ h[1] = "pes" => HasHeader(d[4])
         /\ h[1] = "unknown" => ~HasHeader(d[4])
         /\ IsCode(d) => /\ h[2] = HeaderLen(d)
                         /\ Drop(d, HeaderLen(d)) \in Seq(Int)
                         /\ Len(Drop(d, HeaderLen(d))) = Len(d) - h[2]
         /\ h[2] \in 0 .. 7
         /\ h[1] = "unknown" => h[2] = 0
<1>0. MinHeader = 7 /\ Len(d) \in Nat
  BY VideoAssumption, LenProperties
<1>1. Len(d) >= 3 /\ Len(d) >= 4 /\ Len(d) >= 5 /\ Len(d) >= 7
  BY <1>0
<1>2. MayStart(d) <=> IsCode(d)
  BY <1>1, MayStartIs
<1>3. h[1] \in {"raw", "unknown", "pes"} /\ h[2] \in 0 .. 7
  BY <1>0 DEF Heading
<1>4. (IsCode(d) <=> h[1] # "raw") /\ (h[1] = "pes" => HasHeader(d[4]))
      /\ (h[1] = "unknown" => ~HasHeader(d[4]))
  BY <1>1, <1>2, <1>3 DEF Looks
<1>5. IsCode(d) => h[2] = HeaderLen(d)
  BY <1>1, <1>3, <1>4 DEF Looks, HeaderLen
<1>6. HeaderLen(d) \in 0 .. 7
  BY HeaderLenBound
<1>7. HeaderLen(d) \in 0 .. Len(d)
  BY <1>0, <1>1, <1>6
<1>8. Drop(d, HeaderLen(d)) \in Seq(Int) /\ Len(Drop(d, HeaderLen(d))) = Len(d) - HeaderLen(d)
  BY <1>7, DropOf
<1>9. h[1] = "unknown" => h[2] = 0
  BY DEF Looks
<1> QED
  BY <1>3, <1>4, <1>5, <1>8, <1>9

-----------------------------------------------------------------------------
(* The parts of Process, on bytes and on lengths *)

\* A record of H.264 or HEVC packets; one that waits has bytes of the current unit.
Sound(r) ==
  /\ DOMAIN r = Parts
  /\ r.cur \in Unit \cup {Nil} /\ r.pkts \in Seq(Unit) /\ r.wait \in BOOLEAN
  /\ r.acc \in Held \cup {Nil}
  /\ r.wait => r.cur # Nil /\ r.acc # Nil

\* Nothing but the current unit and what was collected is told apart from here on.
LEMMA GrownView ==
  ASSUME NEW r, Sound(r), r.cur # Nil, NEW x \in Seq(Int)
  PROVE  /\ Sound(Grown(r, x)) /\ Grown(r, x).cur # Nil
         /\ Grown(r, x).wait = r.wait /\ Grown(r, x).acc = r.acc
         /\ \A h : AsRecord(Grown(r, x), h) = R!Grown(AsRecord(r, h), Len(x))
<1> DEFINE u == [r.cur EXCEPT !.data = @ \o x]
<1>1. r.cur \in Unit /\ r.cur.data \in Seq(Int)
  BY DEF Sound, Unit
<1>2. r.cur.data \o x \in Seq(Int) /\ Len(r.cur.data \o x) = Len(r.cur.data) + Len(x)
  BY <1>1, ConcatProperties
<1>3. u \in Unit /\ u.pos = r.cur.pos /\ u.hdr = r.cur.hdr /\ u.data = r.cur.data \o x
  BY <1>1, <1>2 DEF Unit
<1>4. Grown(r, x) = [r EXCEPT !.cur = u]
  BY DEF Grown
<1> HIDE DEF u
<1>5. u # Nil /\ AsUnit(u) = [AsUnit(r.cur) EXCEPT !.size = @ + Len(x)]
  <2>1. /\ AsUnit(u) = [pos |-> r.cur.pos, clock |-> NoPos, hdr |-> r.cur.hdr,
                         size |-> Len(r.cur.data) + Len(x)]
        /\ AsUnit(r.cur) = [pos |-> r.cur.pos, clock |-> NoPos, hdr |-> r.cur.hdr,
                             size |-> Len(r.cur.data)]
    BY <1>1, <1>2, <1>3, AsUnitIs
  <2> QED
    BY <1>3, <2>1, UnitIsNotNil
<1>6. /\ DOMAIN Grown(r, x) = Parts /\ Grown(r, x).cur = u /\ Grown(r, x).pkts = r.pkts
      /\ Grown(r, x).wait = r.wait /\ Grown(r, x).acc = r.acc
  BY <1>4 DEF Sound, Parts
<1>7. Sound(Grown(r, x))
  BY <1>3, <1>5, <1>6 DEF Sound
<1>8. ASSUME NEW h PROVE AsRecord(Grown(r, x), h) = R!Grown(AsRecord(r, h), Len(x))
  <2>1. AsRecord(Grown(r, x), h) = View(AsUnit(u), UnitsOf(r.pkts), r.wait, AccOf(r.acc, h))
    BY <1>6, ViewIs
  <2>2. AsRecord(r, h) = View(AsUnit(r.cur), UnitsOf(r.pkts), r.wait, AccOf(r.acc, h))
    BY ViewIs
  <2> QED
    BY <1>5, <2>1, <2>2 DEF View, R!Grown
<1> QED
  BY <1>3, <1>5, <1>6, <1>7, <1>8

LEMMA CloseView ==
  ASSUME NEW r, Sound(r), codec # "mp2v"
  PROVE  /\ DOMAIN Close(r) = Parts /\ Close(r).pkts \in Seq(Unit)
         /\ Close(r).cur = r.cur /\ Close(r).wait = r.wait /\ Close(r).acc = r.acc
         /\ \A h : UnitsOf(Close(r).pkts) = R!Pushed(AsRecord(r, h))
<1>1. CASE r.cur = Nil
  <2>1. Close(r) = r
    BY <1>1 DEF Close
  <2>2. ASSUME NEW h PROVE UnitsOf(r.pkts) = R!Pushed(AsRecord(r, h))
    <3>1. AsRecord(r, h) = View(Nil, UnitsOf(r.pkts), r.wait, AccOf(r.acc, h))
      BY <1>1, ViewIs DEF AsUnit
    <3> QED
      BY <3>1 DEF View, R!Pushed
  <2> QED
    BY <2>1, <2>2 DEF Sound
<1>2. CASE r.cur # Nil
  <2>1. r.cur \in Unit /\ r.pkts \in Seq(Unit)
    BY <1>2 DEF Sound
  <2>2. Close(r) = Closed(r)
    BY <1>2 DEF Close
  <2>3. /\ DOMAIN Closed(r) = Parts /\ Closed(r).pkts = Append(r.pkts, r.cur)
        /\ Closed(r).cur = r.cur /\ Closed(r).wait = r.wait /\ Closed(r).acc = r.acc
    BY DEF Closed, Sound, Parts
  <2>4. Append(r.pkts, r.cur) \in Seq(Unit)
    BY <2>1, AppendProperties
  <2>5. UnitsOf(Append(r.pkts, r.cur)) = Append(UnitsOf(r.pkts), AsUnit(r.cur))
    BY <2>1, UnitsAppend
  <2>6. AsUnit(r.cur) # Nil
    BY <2>1, AsUnitIs
  <2>7. ASSUME NEW h PROVE UnitsOf(Append(r.pkts, r.cur)) = R!Pushed(AsRecord(r, h))
    <3>1. AsRecord(r, h) = View(AsUnit(r.cur), UnitsOf(r.pkts), r.wait, AccOf(r.acc, h))
      BY ViewIs
    <3> QED
      BY <2>5, <2>6, <3>1 DEF View, R!Pushed
  <2> QED
    BY <2>2, <2>3, <2>4, <2>7
<1> QED
  BY <1>1, <1>2

\* A header that is there is what the unit is stamped by.
LEMMA ReadView ==
  ASSUME NEW u \in Unit, NEW d \in Seq(Int), Len(d) >= MinHeader, IsCode(d),
         NEW h \in Heading, Looks(d, h[1], h[2]), NEW from \in Int
  PROVE  /\ ReadInto(u, d, from) \in Unit
         /\ AsUnit(ReadInto(u, d, from)) = IF h[1] = "pes" THEN [AsUnit(u) EXCEPT !.hdr = from] ELSE AsUnit(u)
<1>1. Enough(d)
  BY LongIsEnough, VideoAssumption
<1>2. /\ ReadInto(u, d, from) \in Unit
      /\ ReadInto(u, d, from).pos = u.pos /\ ReadInto(u, d, from).data = u.data
  BY <1>1, ReadIs
<1>3. HasHeader(d[4]) <=> h[1] = "pes"
  BY LooksRight DEF Heading
<1>4. CASE h[1] = "pes"
  <2>1. ReadInto(u, d, from).hdr = from
    BY <1>3, <1>4 DEF ReadInto, Unit
  <2> QED
    BY <1>2, <1>4, <2>1, AsUnitIs
<1>5. CASE h[1] # "pes"
  <2>1. ReadInto(u, d, from) = u
    BY <1>3, <1>5 DEF ReadInto
  <2> QED
    BY <1>2, <1>5, <2>1
<1> QED
  BY <1>4, <1>5

Put(v, c, w, a) == [v EXCEPT !.cur = c, !.wait = w, !.acc = a]
Start(v, us, c) == [v EXCEPT !.units = us, !.cur = c]
Fresh(pos, hdr) == [pos |-> pos, clock |-> NoPos, hdr |-> hdr, size |-> 0]
Await(v, b, a) == [v EXCEPT !.cur.hdr = NoPos, !.wait = b, !.acc = a]

LEMMA ViewPut ==
  ASSUME NEW c, NEW u, NEW w, NEW a, NEW m, NEW b, NEW n
  PROVE  Put(View(c, u, w, a), m, b, n) = View(m, u, b, n)
<1>1. [View(c, u, w, a) EXCEPT !.cur = m] = View(m, u, w, a)
  BY DEF View
<1>2. [View(m, u, w, a) EXCEPT !.wait = b] = View(m, u, b, a)
  BY DEF View
<1>3. [View(m, u, b, a) EXCEPT !.acc = n] = View(m, u, b, n)
  BY DEF View
<1> QED
  BY <1>1, <1>2, <1>3 DEF Put

LEMMA ViewStarts ==
  ASSUME NEW c, NEW u, NEW w, NEW a, NEW us, NEW m
  PROVE  Start(View(c, u, w, a), us, m) = View(m, us, w, a)
<1>1. [View(c, u, w, a) EXCEPT !.units = us] = View(c, us, w, a)
  BY DEF View
<1>2. [View(c, us, w, a) EXCEPT !.cur = m] = View(m, us, w, a)
  BY DEF View
<1> QED
  BY <1>1, <1>2 DEF Start

LEMMA ViewWaits ==
  ASSUME NEW u, NEW w, NEW a, NEW m, NEW b, NEW pos, NEW hdr
  PROVE  Await(View(Fresh(pos, hdr), u, w, a), b, m) = View(Fresh(pos, NoPos), u, b, m)
<1> DEFINE c == Fresh(pos, hdr)
           d == Fresh(pos, NoPos)
           v == View(c, u, w, a)
<1>1. Await(v, b, m) = Put(v, [v.cur EXCEPT !.hdr = NoPos], b, m)
  <2> HIDE DEF v
  <2> QED
    BY DEF Put, Await
<1>2. v.cur = c
  BY DEF View
<1>3. [v.cur EXCEPT !.hdr = NoPos] = d
  BY <1>2 DEF Fresh
<1> HIDE DEF c, d, v
<1>4. Put(v, d, b, m) = View(d, u, b, m)
  BY ViewPut DEF v
<1> QED
  BY <1>1, <1>3, <1>4 DEF c, d, v

\* The part of Process under PUSI, when the packet is too short to be parsed at once.
LEMMA ShortView ==
  ASSUME NEW r, Sound(r), codec # "mp2v",
         NEW k, k.pos \in Int, k.pusi = TRUE, k.data \in Seq(Int), Len(k.data) < MinHeader,
         NEW o \in Heading, NEW g
  PROVE  /\ Sound(Started(r, k)) /\ Started(r, k).wait = TRUE
         /\ Started(r, k).acc = [from |-> k.pos, data |-> <<>>]
         /\ Left(k) = k.data
         /\ R!Left(AsPacket(k, o)) = Len(k.data) /\ R!Short(AsPacket(k, o))
         /\ R!Started(AsRecord(r, g), AsPacket(k, o)) = AsRecord(Started(r, k), o)
<1> DEFINE b == Started(r, k)
           p == AsPacket(k, o)
           c == Close(r)
           n == NewUnit(k.pos)
           a == [from |-> k.pos, data |-> <<>>]
<1>0. Short(k.data) /\ Len(k.data) \in Nat
  BY LenProperties DEF Short
<1>1. /\ DOMAIN c = Parts /\ c.pkts \in Seq(Unit)
      /\ UnitsOf(c.pkts) = R!Pushed(AsRecord(r, g))
  BY CloseView
<1>2. n \in Unit /\ n # Nil /\ AsUnit(n) = [pos |-> k.pos, clock |-> NoPos, hdr |-> NoPos, size |-> 0]
  <2>1. n \in Unit
    BY NewUnitIs
  <2>2. n = [pos |-> k.pos, pts |-> 0, hdr |-> NoPos, data |-> <<>>]
    BY DEF NewUnit
  <2>3. Len(<<>>) = 0
    OBVIOUS
  <2> HIDE DEF n
  <2> QED
    BY <2>1, <2>2, <2>3, AsUnitIs, UnitIsNotNil
<1>3. a \in Held /\ a # Nil
  <2>1. <<>> \in Seq(Int)
    BY EmptySeq
  <2>2. a \in Held
    BY <2>1 DEF Held
  <2> QED
    BY <2>2, VideoAssumption
<1>4. b = [c EXCEPT !.cur = n, !.wait = TRUE, !.acc = a]
  BY <1>0 DEF Started
<1>5. AccOf(a, o) = [from |-> k.pos, len |-> 0, head |-> o[1], hlen |-> o[2]]
  BY <1>3 DEF AccOf
<1> HIDE DEF c, n, a
<1>6. DOMAIN b = Parts /\ b.cur = n /\ b.wait = TRUE /\ b.acc = a /\ b.pkts = c.pkts
  BY <1>1, <1>4 DEF Parts
<1> HIDE DEF b
<1>7. Sound(b)
  BY <1>1, <1>2, <1>3, <1>6 DEF Sound
<1>8. p = [pos |-> k.pos, pusi |-> TRUE, len |-> Len(k.data), head |-> o[1], hlen |-> o[2]]
  BY DEF AsPacket
<1>9. R!Short(p) /\ R!Left(p) = Len(k.data)
  BY <1>8 DEF R!Short, R!Left
<1>10. AsRecord(b, o) = View(AsUnit(n), UnitsOf(c.pkts), TRUE, AccOf(a, o))
  BY <1>6, ViewIs
<1>11. R!Started(AsRecord(r, g), p) = AsRecord(b, o)
  <2> DEFINE v == AsRecord(r, g)
             us == R!Pushed(v)
  <2>1. v = View(AsUnit(r.cur), UnitsOf(r.pkts), r.wait, AccOf(r.acc, g))
    BY ViewIs
  <2> HIDE DEF p, us
  <2>2. R!Started(v, p) = [[v EXCEPT !.units = us, !.cur = [R!Opened(v, p) EXCEPT !.size = 0]]
                             EXCEPT !.cur.hdr = NoPos, !.wait = TRUE,
                                    !.acc = [from |-> k.pos, len |-> 0, head |-> o[1], hlen |-> o[2]]]
    BY <1>8, <1>9 DEF R!Started, NoPos, us
  <2>3. R!Opened(v, p) = [pos |-> k.pos, clock |-> NoPos, hdr |-> R!Stamp(p), size |-> R!Strip(p)]
    BY <1>8, <2>1 DEF R!Opened, View
  <2> HIDE DEF v
  <2>4. R!Started(v, p) = View([pos |-> k.pos, clock |-> NoPos, hdr |-> NoPos, size |-> 0], us, TRUE,
                               [from |-> k.pos, len |-> 0, head |-> o[1], hlen |-> o[2]])
    <3>1. [R!Opened(v, p) EXCEPT !.size = 0]
            = [pos |-> k.pos, clock |-> NoPos, hdr |-> R!Stamp(p), size |-> 0]
      BY <2>3
    <3>2. Start(v, us, [R!Opened(v, p) EXCEPT !.size = 0])
            = View([pos |-> k.pos, clock |-> NoPos, hdr |-> R!Stamp(p), size |-> 0], us,
                   r.wait, AccOf(r.acc, g))
      <4> DEFINE m == [R!Opened(v, p) EXCEPT !.size = 0]
                 aa == AccOf(r.acc, g)
                 w == r.wait
      <4>1. v = View(AsUnit(r.cur), UnitsOf(r.pkts), w, aa)
        BY <2>1
      <4> HIDE DEF m, aa, w
      <4>2. Start(v, us, m) = View(m, us, w, aa)
        BY <4>1, ViewStarts
      <4> QED
        BY <3>1, <4>2 DEF m, aa, w
    <3>3. Await(View([pos |-> k.pos, clock |-> NoPos, hdr |-> R!Stamp(p), size |-> 0], us,
                     r.wait, AccOf(r.acc, g)), TRUE,
                [from |-> k.pos, len |-> 0, head |-> o[1], hlen |-> o[2]])
            = View([pos |-> k.pos, clock |-> NoPos, hdr |-> NoPos, size |-> 0], us, TRUE,
                   [from |-> k.pos, len |-> 0, head |-> o[1], hlen |-> o[2]])
      <4> DEFINE m == [from |-> k.pos, len |-> 0, head |-> o[1], hlen |-> o[2]]
                 aa == AccOf(r.acc, g)
                 w == r.wait
                 pos == k.pos
                 hdr == R!Stamp(p)
      <4> HIDE DEF m, aa, w, pos, hdr
      <4>1. \A x : Await(View(Fresh(pos, hdr), us, w, aa), x, m) = View(Fresh(pos, NoPos), us, x, m)
        BY ViewWaits
      <4>2. Await(View(Fresh(pos, hdr), us, w, aa), TRUE, m) = View(Fresh(pos, NoPos), us, TRUE, m)
        BY <4>1, Zenon
      <4> QED
        BY <4>2 DEF m, aa, w, pos, hdr, Fresh
    <3> QED
      BY <2>2, <3>2, <3>3 DEF Start, Await
  <2> QED
    BY <1>1, <1>2, <1>5, <1>10, <2>4 DEF us, v
<1> QED
  BY <1>0, <1>6, <1>7, <1>9, <1>11 DEF Left, a, b, p

\* The same when it can be parsed; what was collected of another unit is left alone.
LEMMA LongView ==
  ASSUME NEW r, Sound(r), codec # "mp2v",
         NEW k, k.pos \in Int, k.pusi = TRUE, k.data \in Seq(Int), ~(Len(k.data) < MinHeader),
         NEW o \in Heading, Looks(k.data, o[1], o[2])
  PROVE  /\ Sound(Started(r, k)) /\ Started(r, k).cur # Nil
         /\ Started(r, k).wait = r.wait /\ Started(r, k).acc = r.acc
         /\ Left(k) \in Seq(Int) /\ R!Left(AsPacket(k, o)) = Len(Left(k)) /\ ~R!Short(AsPacket(k, o))
         /\ \A g : R!Started(AsRecord(r, g), AsPacket(k, o)) = AsRecord(Started(r, k), g)
<1> DEFINE b == Started(r, k)
           d == k.data
           p == AsPacket(k, o)
           c == Close(r)
           n == NewUnit(k.pos)
           u == IF IsCode(d) THEN ReadInto(n, d, k.pos) ELSE n
<1>0. ~Short(d) /\ Len(d) \in Nat /\ Len(d) >= MinHeader /\ MinHeader = 7
  BY LenProperties, VideoAssumption DEF Short
<1>1. /\ DOMAIN c = Parts /\ c.pkts \in Seq(Unit) /\ c.wait = r.wait /\ c.acc = r.acc
      /\ \A g : UnitsOf(c.pkts) = R!Pushed(AsRecord(r, g))
  BY CloseView
<1>2. n \in Unit /\ AsUnit(n) = [pos |-> k.pos, clock |-> NoPos, hdr |-> NoPos, size |-> 0]
  <2>1. n \in Unit
    BY NewUnitIs
  <2>2. n = [pos |-> k.pos, pts |-> 0, hdr |-> NoPos, data |-> <<>>]
    BY DEF NewUnit
  <2>3. Len(<<>>) = 0
    OBVIOUS
  <2> HIDE DEF n
  <2> QED
    BY <2>1, <2>2, <2>3, AsUnitIs
<1>3. /\ IsCode(d) <=> o[1] # "raw"
      /\ IsCode(d) => /\ o[2] = HeaderLen(d) /\ Drop(d, HeaderLen(d)) \in Seq(Int)
                      /\ Len(Drop(d, HeaderLen(d))) = Len(d) - o[2]
      /\ o[1] = "unknown" => o[2] = 0
      /\ o[1] \in {"raw", "unknown", "pes"}
  BY <1>0, LooksRight DEF Heading
<1>4. b = [c EXCEPT !.cur = u]
  BY <1>0 DEF Started
<1> HIDE DEF n, c
<1>5. /\ u \in Unit
      /\ AsUnit(u) = [pos |-> k.pos, clock |-> NoPos, hdr |-> IF o[1] = "pes" THEN k.pos ELSE NoPos,
                       size |-> 0]
  <2>1. CASE IsCode(d)
    <3>1. /\ ReadInto(n, d, k.pos) \in Unit
          /\ AsUnit(ReadInto(n, d, k.pos)) = IF o[1] = "pes" THEN [AsUnit(n) EXCEPT !.hdr = k.pos] ELSE AsUnit(n)
      BY <1>0, <1>2, <2>1, ReadView
    <3> QED
      BY <1>2, <2>1, <3>1
  <2>2. CASE ~IsCode(d)
    BY <1>2, <1>3, <2>2
  <2> QED
    BY <2>1, <2>2
<1> HIDE DEF u
<1>6. DOMAIN b = Parts /\ b.cur = u /\ b.wait = r.wait /\ b.acc = r.acc /\ b.pkts = c.pkts
  BY <1>1, <1>4 DEF Parts
<1> HIDE DEF b
<1>7. Sound(b) /\ b.cur # Nil
  BY <1>1, <1>5, <1>6, UnitIsNotNil DEF Sound
<1>8. p = [pos |-> k.pos, pusi |-> TRUE, len |-> Len(d), head |-> o[1], hlen |-> o[2]]
  BY DEF AsPacket
<1>9. ~R!Short(p) /\ R!Left(p) = R!Strip(p)
  BY <1>8 DEF R!Short, R!Left
<1>10. Left(k) \in Seq(Int) /\ R!Left(p) = Len(Left(k))
  <2>1. R!Strip(p) = IF o[1] = "pes" THEN Len(d) - o[2] ELSE Len(d)
    BY <1>8 DEF R!Strip
  <2>2. Left(k) = IF IsCode(d) THEN Drop(d, HeaderLen(d)) ELSE d
    BY <1>0 DEF Left
  <2>3. CASE IsCode(d)
    <3>1. Len(Left(k)) = Len(d) - o[2] /\ Left(k) \in Seq(Int)
      BY <1>3, <2>2, <2>3
    <3>2. o[1] = "unknown" => Len(d) - o[2] = Len(d)
      BY <1>0, <1>3
    <3> QED
      BY <1>3, <1>9, <2>1, <2>3, <3>1, <3>2
  <2>4. CASE ~IsCode(d)
    BY <1>3, <1>9, <2>1, <2>2, <2>4
  <2> QED
    BY <2>3, <2>4
<1>11. ASSUME NEW g PROVE R!Started(AsRecord(r, g), p) = AsRecord(b, g)
  <2> DEFINE v == AsRecord(r, g)
             us == R!Pushed(v)
  <2>1. v = View(AsUnit(r.cur), UnitsOf(r.pkts), r.wait, AccOf(r.acc, g))
    BY ViewIs
  <2> HIDE DEF p, us
  <2>2. R!Started(v, p) = [v EXCEPT !.units = us, !.cur = [R!Opened(v, p) EXCEPT !.size = 0]]
    BY <1>9 DEF R!Started, us
  <2>3. R!Opened(v, p) = [pos |-> k.pos, clock |-> NoPos, hdr |-> R!Stamp(p), size |-> R!Strip(p)]
    BY <1>8, <2>1 DEF R!Opened, View
  <2>4. R!Stamp(p) = IF o[1] = "pes" THEN k.pos ELSE NoPos
    BY <1>8 DEF R!Stamp, NoPos
  <2>5. AsRecord(b, g) = View(AsUnit(u), UnitsOf(c.pkts), r.wait, AccOf(r.acc, g))
    BY <1>6, ViewIs
  <2>6. us = UnitsOf(c.pkts)
    BY <1>1 DEF us
  <2> HIDE DEF v
  <2>7. R!Started(v, p) = View([pos |-> k.pos, clock |-> NoPos, hdr |-> R!Stamp(p), size |-> 0], us,
                               r.wait, AccOf(r.acc, g))
    <3>1. [R!Opened(v, p) EXCEPT !.size = 0]
            = [pos |-> k.pos, clock |-> NoPos, hdr |-> R!Stamp(p), size |-> 0]
      BY <2>3
    <3>2. Start(v, us, [R!Opened(v, p) EXCEPT !.size = 0])
            = View([pos |-> k.pos, clock |-> NoPos, hdr |-> R!Stamp(p), size |-> 0], us,
                   r.wait, AccOf(r.acc, g))
      <4> DEFINE m == [R!Opened(v, p) EXCEPT !.size = 0]
                 aa == AccOf(r.acc, g)
                 w == r.wait
      <4>1. v = View(AsUnit(r.cur), UnitsOf(r.pkts), w, aa)
        BY <2>1
      <4> HIDE DEF m, aa, w
      <4>2. Start(v, us, m) = View(m, us, w, aa)
        BY <4>1, ViewStarts
      <4> QED
        BY <3>1, <4>2 DEF m, aa, w
    <3> QED
      BY <2>2, <3>2 DEF Start
  <2> QED
    BY <1>5, <2>4, <2>5, <2>6, <2>7 DEF v
<1> QED
  BY <1>6, <1>7, <1>9, <1>10, <1>11 DEF b, p

-----------------------------------------------------------------------------
(* Records, on bytes: the part under WorkaroundPESFlag *)

Stamped(c, a) == [c EXCEPT !.hdr = a.from, !.size = @ + a.len - a.hlen]
Filled(c, a) == [c EXCEPT !.size = @ + a.len]
Unwaiting(c, u, a) == View(c, u, FALSE, a)
Whole(a) == ~(a.len < MinHeader \/ a.head = "raw")

\* What Resumed makes of a header that has all come, and of one that has not.
LEMMA ViewResumed ==
  ASSUME NEW c, NEW u, NEW w, NEW x, NEW a
  PROVE  /\ ~Whole(a) => R!Resumed(View(c, u, w, x), a) = View(c, u, w, a)
         /\ Whole(a) /\ a.head = "pes" => R!Resumed(View(c, u, w, x), a) = Unwaiting(Stamped(c, a), u, a)
         /\ Whole(a) /\ a.head # "pes" => R!Resumed(View(c, u, w, x), a) = Unwaiting(Filled(c, a), u, a)
<1> DEFINE v == View(c, u, w, x)
           p == [c EXCEPT !.hdr = a.from, !.size = @ + a.len - a.hlen]
           q == [c EXCEPT !.size = @ + a.len]
<1>1. v.cur = c
  BY DEF View
<1>2. \A b : \A m : Put(v, m, b, a) = View(m, u, b, a)
  BY ViewPut
<1>3. \A m : Put(v, m, FALSE, a) = View(m, u, FALSE, a)
  BY <1>2, Zenon
<1>4. [v EXCEPT !.acc = a] = View(c, u, w, a)
  BY DEF View
<1> HIDE DEF v
<1>5. [v EXCEPT !.acc = a, !.wait = FALSE, !.cur.hdr = a.from, !.cur.size = @ + a.len - a.hlen]
        = Put(v, [v.cur EXCEPT !.hdr = a.from, !.size = @ + a.len - a.hlen], FALSE, a)
  BY DEF Put
<1>6. [v EXCEPT !.acc = a, !.wait = FALSE, !.cur.size = @ + a.len]
        = Put(v, [v.cur EXCEPT !.size = @ + a.len], FALSE, a)
  BY DEF Put
<1>7. Put(v, p, FALSE, a) = View(p, u, FALSE, a) /\ Put(v, q, FALSE, a) = View(q, u, FALSE, a)
  <2> HIDE DEF p, q
  <2> QED
    BY <1>3
<1>8. ~Whole(a) => R!Resumed(v, a) = [v EXCEPT !.acc = a]
  BY DEF R!Resumed, Whole
<1>9. Whole(a) /\ a.head = "pes" => R!Resumed(v, a) = Put(v, p, FALSE, a)
  BY <1>1, <1>5 DEF R!Resumed, Whole
<1>10. Whole(a) /\ a.head # "pes" => R!Resumed(v, a) = Put(v, q, FALSE, a)
  BY <1>1, <1>6 DEF R!Resumed, Whole
<1>11. p = Stamped(c, a) /\ q = Filled(c, a)
  BY DEF Stamped, Filled
<1> HIDE DEF p, q
<1>12. Put(v, p, FALSE, a) = Unwaiting(p, u, a) /\ Put(v, q, FALSE, a) = Unwaiting(q, u, a)
  BY <1>7 DEF Unwaiting
<1> QED
  BY <1>4, <1>8, <1>9, <1>10, <1>11, <1>12 DEF v

\* The part of Process under WorkaroundPESFlag.
Gathered(r, k) ==
  [from |-> IF r.acc.data = <<>> THEN (IF k.pusi THEN k.pos ELSE r.acc.from) ELSE r.acc.from,
   data |-> r.acc.data \o Left(k)]

LEMMA CollectedView ==
  ASSUME NEW r, Sound(r), r.wait, NEW k, k.pos \in Int, Left(k) \in Seq(Int)
  PROVE  /\ Gathered(r, k) \in Held
         /\ Sound(Collected(r, k)) /\ Collected(r, k).acc = Gathered(r, k)
         /\ \A h \in Heading : Looks(Gathered(r, k).data, h[1], h[2]) =>
              \A g : AsRecord(Collected(r, k), h) = R!Resumed(AsRecord(r, g), AccOf(Gathered(r, k), h))
<1> DEFINE a == Gathered(r, k)
           d == a.data
           got == [r EXCEPT !.acc = a]
           q == Collected(r, k)
<1>0. r.cur \in Unit /\ r.cur # Nil /\ r.acc \in Held /\ r.pkts \in Seq(Unit) /\ MinHeader = 7
  BY VideoAssumption DEF Sound
<1>1. a \in Held /\ a # Nil /\ a.from \in Int /\ d \in Seq(Int)
  <2>1. r.acc.from \in Int /\ r.acc.data \in Seq(Int)
    BY <1>0 DEF Held
  <2>2. r.acc.data \o Left(k) \in Seq(Int)
    BY <2>1, ConcatProperties
  <2>3. a \in Held
    BY <2>1, <2>2 DEF Gathered, Held
  <2> HIDE DEF a
  <2> QED
    BY <2>3, VideoAssumption DEF Held
<1>2. q = IF Len(d) < MinHeader \/ ~IsCode(d) THEN got
          ELSE Grown([got EXCEPT !.wait = FALSE, !.cur = ReadInto(@, d, a.from)], Drop(d, HeaderLen(d)))
  BY DEF Collected, Gathered
<1>3. Len(d) \in Nat
  BY <1>1, LenProperties
<1> HIDE DEF a, q
<1>4. /\ DOMAIN got = Parts /\ got.cur = r.cur /\ got.pkts = r.pkts /\ got.wait = r.wait
      /\ got.acc = a
  BY DEF Sound, Parts
<1>5. \A h : AccOf(a, h) = [from |-> a.from, len |-> Len(d), head |-> h[1], hlen |-> h[2]]
  BY <1>1 DEF AccOf
<1>6. \A g : AsRecord(r, g) = View(AsUnit(r.cur), UnitsOf(r.pkts), r.wait, AccOf(r.acc, g))
  BY ViewIs
<1>7. CASE Len(d) < MinHeader \/ ~IsCode(d)
  <2>1. q = got
    BY <1>2, <1>7
  <2> HIDE DEF got
  <2>2. Sound(got)
    BY <1>0, <1>1, <1>4 DEF Sound
  <2>3. ASSUME NEW h \in Heading, Looks(d, h[1], h[2]), NEW g
        PROVE  AsRecord(q, h) = R!Resumed(AsRecord(r, g), AccOf(a, h))
    <3>1. Len(d) < MinHeader \/ h[1] = "raw"
      <4>1. CASE Len(d) < MinHeader
        BY <4>1
      <4>2. CASE ~(Len(d) < MinHeader)
        <5>1. Len(d) >= MinHeader
          BY <1>0, <1>3, <4>2
        <5> QED
          BY <1>1, <1>7, <2>3, <4>2, <5>1, LooksRight
      <4> QED
        BY <4>1, <4>2
    <3>2. ~Whole(AccOf(a, h))
      <4>1. AccOf(a, h) = [from |-> a.from, len |-> Len(d), head |-> h[1], hlen |-> h[2]]
        BY <1>5
      <4> QED
        BY <3>1, <4>1 DEF Whole
    <3>3. R!Resumed(AsRecord(r, g), AccOf(a, h)) = View(AsUnit(r.cur), UnitsOf(r.pkts), r.wait, AccOf(a, h))
      <4> DEFINE v == AsRecord(r, g)
                 c == AsUnit(r.cur)
                 us == UnitsOf(r.pkts)
                 w == r.wait
                 y == AccOf(r.acc, g)
                 e == AccOf(a, h)
      <4>1. v = View(c, us, w, y)
        BY <1>6
      <4>2. ~Whole(e)
        BY <3>2
      <4> HIDE DEF v, c, us, w, y, e
      <4>3. R!Resumed(v, e) = View(c, us, w, e)
        BY <4>1, <4>2, ViewResumed
      <4> QED
        BY <4>3 DEF v, c, us, w, e
    <3>4. AsRecord(got, h) = View(AsUnit(r.cur), UnitsOf(r.pkts), r.wait, AccOf(a, h))
      BY <1>4, ViewIs
    <3> QED
      BY <2>1, <3>3, <3>4
  <2> QED
    BY <1>1, <1>4, <2>1, <2>2, <2>3 DEF a, q
<1>8. CASE ~(Len(d) < MinHeader \/ ~IsCode(d))
  <2> DEFINE n == HeaderLen(d)
             x == Drop(d, n)
             u == ReadInto(r.cur, d, a.from)
             s == [got EXCEPT !.wait = FALSE, !.cur = u]
  <2>0. Len(d) >= MinHeader /\ IsCode(d)
    BY <1>0, <1>3, <1>8
  <2>1. q = Grown([got EXCEPT !.wait = FALSE, !.cur = ReadInto(@, d, a.from)], Drop(d, HeaderLen(d)))
    BY <1>2, <1>8
  <2>2. [got EXCEPT !.wait = FALSE, !.cur = ReadInto(@, d, a.from)] = s
    BY <1>4
  <2>3. u \in Unit
    <3>1. Enough(d)
      BY <1>0, <1>1, <2>0, LongIsEnough
    <3> QED
      BY <1>0, <1>1, <2>0, <3>1, ReadIs
  <2>4. x \in Seq(Int)
    <3>1. n \in 0 .. 7
      BY HeaderLenBound
    <3>2. n \in Nat
      BY <3>1
    <3> QED
      BY <1>1, <3>2, DropAny
  <2> HIDE DEF u, n
  <2>5. /\ DOMAIN s = Parts /\ s.cur = u /\ s.pkts = r.pkts /\ s.wait = FALSE /\ s.acc = a
    BY <1>4 DEF Parts
  <2> HIDE DEF s, got
  <2>6. u # Nil
    BY <2>3, UnitIsNotNil
  <2>7. Sound(s) /\ s.cur # Nil
    BY <1>0, <1>1, <2>3, <2>5, <2>6 DEF Sound
  <2> HIDE DEF x
  <2>8. /\ Sound(Grown(s, x)) /\ Grown(s, x).acc = a
        /\ \A h : AsRecord(Grown(s, x), h) = R!Grown(AsRecord(s, h), Len(x))
    BY <2>4, <2>5, <2>7, GrownView
  <2>9. q = Grown(s, x)
    BY <2>1, <2>2 DEF x, n
  <2>10. ASSUME NEW h \in Heading, Looks(d, h[1], h[2]), NEW g
         PROVE  AsRecord(q, h) = R!Resumed(AsRecord(r, g), AccOf(a, h))
    <3> DEFINE c == AsUnit(r.cur)
               e == AccOf(a, h)
    <3>1. AsUnit(u) = IF h[1] = "pes" THEN [c EXCEPT !.hdr = a.from] ELSE c
      BY <1>0, <1>1, <2>0, <2>10, ReadView DEF u
    <3>2. Len(x) = Len(d) - h[2] /\ h[2] \in 0 .. 7 /\ h[1] # "raw" /\ (h[1] # "pes" => h[2] = 0)
      <4>1. h[1] \in {"raw", "unknown", "pes"}
        BY DEF Heading
      <4> QED
        BY <1>1, <2>0, <2>10, <4>1, LooksRight DEF x, n
    <3>3. /\ e.from = a.from /\ e.len = Len(d) /\ e.head = h[1] /\ e.hlen = h[2]
          /\ Whole(e)
      <4>1. e = [from |-> a.from, len |-> Len(d), head |-> h[1], hlen |-> h[2]]
        BY <1>5
      <4> QED
        BY <1>8, <3>2, <4>1 DEF Whole
    <3>4. c = [pos |-> r.cur.pos, clock |-> NoPos, hdr |-> r.cur.hdr, size |-> Len(r.cur.data)]
          /\ Len(r.cur.data) \in Nat
      <4>1. r.cur.data \in Seq(Int)
        BY <1>0 DEF Unit
      <4> QED
        BY <1>0, <4>1, AsUnitIs, LenProperties
    <3>5. AsRecord(s, h) = View(AsUnit(u), UnitsOf(r.pkts), FALSE, e)
      BY <2>5, ViewIs
    <3>6. AsRecord(r, g) = View(c, UnitsOf(r.pkts), r.wait, AccOf(r.acc, g))
      BY <1>6
    <3> DEFINE m == [AsUnit(u) EXCEPT !.size = @ + Len(x)]
    <3> HIDE DEF c, e, m
    <3>7. R!Grown(AsRecord(s, h), Len(x)) = View(m, UnitsOf(r.pkts), FALSE, e)
      <4> DEFINE v == AsRecord(s, h)
      <4>1. v.cur = AsUnit(u)
        BY <3>5 DEF View
      <4>2. \A b : [View(AsUnit(u), UnitsOf(r.pkts), b, e) EXCEPT !.cur = m] = View(m, UnitsOf(r.pkts), b, e)
        BY DEF View
      <4>3. [View(AsUnit(u), UnitsOf(r.pkts), FALSE, e) EXCEPT !.cur = m] = View(m, UnitsOf(r.pkts), FALSE, e)
        BY <4>2, Zenon
      <4> HIDE DEF v
      <4>4. R!Grown(v, Len(x)) = [v EXCEPT !.cur = [v.cur EXCEPT !.size = @ + Len(x)]]
        BY DEF R!Grown
      <4> QED
        BY <3>5, <4>1, <4>3, <4>4 DEF v, m
    <3>8. R!Resumed(AsRecord(r, g), e) = View(m, UnitsOf(r.pkts), FALSE, e)
      <4>1. CASE h[1] = "pes"
        <5>1. R!Resumed(AsRecord(r, g), e) = Unwaiting(Stamped(c, e), UnitsOf(r.pkts), e)
          <6> DEFINE v == AsRecord(r, g)
                     us == UnitsOf(r.pkts)
                     w == r.wait
                     y == AccOf(r.acc, g)
          <6>1. v = View(c, us, w, y)
            BY <3>6
          <6>2. Whole(e) /\ (e.head = "pes" <=> h[1] = "pes")
            BY <3>3
          <6> HIDE DEF v, us, w, y
          <6>3. R!Resumed(v, e) = Unwaiting(Stamped(c, e), us, e)
            BY <4>1, <6>1, <6>2, ViewResumed
          <6> QED
            BY <6>3 DEF v, us
        <5>2. Stamped(c, e) = m
          BY <1>3, <3>1, <3>2, <3>3, <3>4, <4>1 DEF m, Stamped
        <5> QED
          BY <5>1, <5>2 DEF Unwaiting
      <4>2. CASE h[1] # "pes"
        <5>1. R!Resumed(AsRecord(r, g), e) = Unwaiting(Filled(c, e), UnitsOf(r.pkts), e)
          <6> DEFINE v == AsRecord(r, g)
                     us == UnitsOf(r.pkts)
                     w == r.wait
                     y == AccOf(r.acc, g)
          <6>1. v = View(c, us, w, y)
            BY <3>6
          <6>2. Whole(e) /\ (e.head = "pes" <=> h[1] = "pes")
            BY <3>3
          <6> HIDE DEF v, us, w, y
          <6>3. R!Resumed(v, e) = Unwaiting(Filled(c, e), us, e)
            BY <4>2, <6>1, <6>2, ViewResumed
          <6> QED
            BY <6>3 DEF v, us
        <5>2. Filled(c, e) = m
          <6>1. Len(x) = e.len
            BY <1>3, <3>2, <3>3, <4>2
          <6>2. AsUnit(u) = c
            BY <3>1, <4>2
          <6> QED
            BY <6>1, <6>2 DEF m, Filled
        <5> QED
          BY <5>1, <5>2 DEF Unwaiting
      <4> QED
        BY <4>1, <4>2
    <3> QED
      BY <2>8, <2>9, <3>7, <3>8 DEF e
  <2> QED
    BY <1>1, <2>8, <2>9, <2>10 DEF a, q
<1> QED
  BY <1>7, <1>8

LEMMA PacketIs ==
  ASSUME NEW k, NEW o
  PROVE  /\ AsPacket(k, o).pos = k.pos /\ AsPacket(k, o).pusi = k.pusi
         /\ AsPacket(k, o).len = Len(k.data)
  BY DEF AsPacket

\* What is collected of one unit only looks like what it looked like before.
LEMMA GrownAcc ==
  ASSUME NEW r, Sound(r), r.wait, NEW k, Left(k) \in Seq(Int), NEW h \in Heading,
         Gathered(r, k).from = r.acc.from,
         NEW p, ~(p.pusi /\ ~R!Short(p)), R!Left(p) = Len(Left(k))
  PROVE  AccOf(Gathered(r, k), h) \in R!Collected(AsRecord(r, h), p)
<1> DEFINE a == Gathered(r, k)
           v == AsRecord(r, h)
<1>1. r.acc \in Held /\ r.acc # Nil /\ r.acc.data \in Seq(Int) /\ r.acc.from \in Int
  BY DEF Sound, Held
<1>2. a.data = r.acc.data \o Left(k) /\ a.data \in Seq(Int)
  BY <1>1, ConcatProperties DEF Gathered
<1>3. Len(a.data) = Len(r.acc.data) + Len(Left(k))
  BY <1>1, <1>2, ConcatProperties
<1>4. a \in Held
  BY <1>1, <1>2 DEF Gathered, Held
<1> HIDE DEF a
<1>5. a # Nil
  BY <1>4, VideoAssumption
<1>6. v.acc = [from |-> r.acc.from, len |-> Len(r.acc.data), head |-> h[1], hlen |-> h[2]]
  BY <1>1, ViewIs DEF View, AccOf
<1>7. AccOf(a, h) = [from |-> r.acc.from, len |-> Len(r.acc.data) + Len(Left(k)), head |-> h[1], hlen |-> h[2]]
  BY <1>3, <1>5 DEF AccOf, a
<1> HIDE DEF v
<1>8. R!Collected(v, p) = {[v.acc EXCEPT !.len = @ + R!Left(p)]}
  BY DEF R!Collected
<1>9. [v.acc EXCEPT !.len = @ + R!Left(p)] = AccOf(a, h)
  BY <1>6, <1>7
<1> QED
  BY <1>8, <1>9 DEF a, v

LEMMA HeaderSizes ==
  ASSUME NEW d, NEW h \in Heading, Looks(d, h[1], h[2]), h[1] = "pes"
  PROVE  h[2] \in 1 .. MinHeader
<1>0. MinHeader = 7
  BY VideoAssumption
<1>1. IF Len(d) >= 5 THEN h[2] = 5 + Stamps(d[5]) ELSE h[2] \in 5 .. MinHeader
  BY DEF Looks
<1>2. PICK n \in 0 .. 2 : n = Stamps(d[5])
  BY StampsBound
<1> QED
  BY <1>0, <1>1, <1>2

Mixture(acc, n, pos) == [[acc EXCEPT !.len = @ + n] EXCEPT !.from = IF acc.len = 0 THEN pos ELSE @]
Headless(m, b) == [m EXCEPT !.head = b]
Headed(m, i) == [m EXCEPT !.head = "pes", !.hlen = i]

\* A mixture of two units may look like anything.
LEMMA MixedAcc ==
  ASSUME NEW r, Sound(r), r.wait, NEW k, k.pusi, Left(k) \in Seq(Int), NEW h \in Heading,
         Gathered(r, k) \in Held, Looks(Gathered(r, k).data, h[1], h[2]),
         NEW p, p.pusi, ~R!Short(p), p.pos = k.pos, R!Left(p) = Len(Left(k))
  PROVE  AccOf(Gathered(r, k), h) \in R!Collected(AsRecord(r, h), p)
<1> DEFINE a == Gathered(r, k)
           v == AsRecord(r, h)
           f == IF r.acc.data = <<>> THEN k.pos ELSE r.acc.from
           n == Len(r.acc.data) + Len(Left(k))
           m == [from |-> f, len |-> n, head |-> h[1], hlen |-> h[2]]
<1>1. r.acc \in Held /\ r.acc # Nil /\ r.acc.data \in Seq(Int)
  BY DEF Sound, Held
<1>2. a.data = r.acc.data \o Left(k) /\ a.from = f
  BY DEF Gathered
<1>3. Len(a.data) = n
  BY <1>1, <1>2, ConcatProperties
<1>4. AccOf(a, h) = m
  <2>1. a # Nil
    BY VideoAssumption
  <2> QED
    BY <1>2, <1>3, <2>1 DEF AccOf
<1>5. v.acc = [from |-> r.acc.from, len |-> Len(r.acc.data), head |-> h[1], hlen |-> h[2]]
  BY <1>1, ViewIs DEF View, AccOf
<1>6. Len(r.acc.data) = 0 <=> r.acc.data = <<>>
  BY <1>1, EmptySeq
<1> HIDE DEF a, v, f
<1>7. Mixture(v.acc, R!Left(p), p.pos) = m
  <2> DEFINE g == [v.acc EXCEPT !.len = @ + R!Left(p)]
             e == IF v.acc.len = 0 THEN p.pos ELSE g.from
  <2>1. g = [from |-> r.acc.from, len |-> n, head |-> h[1], hlen |-> h[2]]
    BY <1>5
  <2>2. e = f
    BY <1>5, <1>6, <2>1 DEF f
  <2>3. Mixture(v.acc, R!Left(p), p.pos) = [g EXCEPT !.from = e]
    BY DEF Mixture
  <2> HIDE DEF g, e
  <2> QED
    BY <2>1, <2>2, <2>3
<1> HIDE DEF m
<1>8. R!Collected(v, p) = {Headless(m, b) : b \in {"unknown", "raw"}} \cup {Headed(m, i) : i \in 1 .. MinHeader}
  <2> DEFINE x == Mixture(v.acc, R!Left(p), p.pos)
  <2>1. R!Collected(v, p) = {Headless(x, b) : b \in {"unknown", "raw"}} \cup {Headed(x, i) : i \in 1 .. MinHeader}
    BY DEF R!Collected, Mixture, Headless, Headed
  <2> HIDE DEF x
  <2> QED
    BY <1>7, <2>1 DEF x
<1>9. CASE h[1] = "pes"
  <2>1. h[2] \in 1 .. MinHeader
    BY <1>9, HeaderSizes DEF a
  <2>2. Headed(m, h[2]) = m
    <3> DEFINE b == h[1]
               i == h[2]
    <3>1. m = [from |-> f, len |-> n, head |-> b, hlen |-> i]
      BY DEF m
    <3>2. b = "pes"
      BY <1>9
    <3> HIDE DEF b, i
    <3>3. [m EXCEPT !.head = b] = m
      BY <3>1
    <3>4. [m EXCEPT !.hlen = i] = m
      BY <3>1
    <3>5. Headed(m, i) = [[m EXCEPT !.head = b] EXCEPT !.hlen = i]
      BY <3>2 DEF Headed
    <3>6. Headed(m, i) = m
      BY <3>3, <3>4, <3>5
    <3> QED
      BY <3>6 DEF i
  <2> QED
    <3>1. m \in {Headed(m, i) : i \in 1 .. MinHeader}
      BY <2>1, <2>2
    <3> QED
      BY <1>4, <1>8, <3>1 DEF a, v
<1>10. CASE h[1] # "pes"
  <2>1. h[1] \in {"unknown", "raw"}
    BY <1>10 DEF Heading
  <2>2. Headless(m, h[1]) = m
    BY DEF Headless, m
  <2> QED
    <3>1. m \in {Headless(m, b) : b \in {"unknown", "raw"}}
      BY <2>1, <2>2
    <3> QED
      BY <1>4, <1>8, <3>1 DEF a, v
<1> QED
  BY <1>9, <1>10 DEF a, v

-----------------------------------------------------------------------------
(* Records, on bytes: Process, and a whole file *)

LEMMA ViewFields ==
  ASSUME NEW r, Sound(r), NEW g
  PROVE  AsRecord(r, g).wait = r.wait /\ (AsRecord(r, g).cur = Nil <=> r.cur = Nil)
<1>1. AsRecord(r, g).wait = r.wait /\ AsRecord(r, g).cur = AsUnit(r.cur)
  BY DEF AsRecord
<1>2. AsUnit(r.cur) = Nil <=> r.cur = Nil
  <2>1. CASE r.cur = Nil
    BY <2>1 DEF AsUnit
  <2>2. CASE r.cur # Nil
    <3>1. r.cur \in Unit
      BY <2>2 DEF Sound
    <3> QED
      BY <2>2, <3>1, AsUnitIs
  <2> QED
    BY <2>1, <2>2
<1> QED
  BY <1>1, <1>2

\* A record and a packet, a step of the record on its bytes, and one on lengths.
Follows(r, k, q) ==
  \A h \in Headings(q) : \E g \in Headings(r) : \E o \in Openings(k) :
    AsRecord(q, h) \in R!VideoProcess(AsRecord(r, g), AsPacket(k, o))

LEMMA SomeLooks ==
  ASSUME NEW r, Sound(r)
  PROVE  \E g \in Heading : g \in Headings(r)
<1>1. CASE r.acc = Nil
  <2>1. \E g \in Heading : Looks(<<>>, g[1], g[2])
    BY EmptySeq, SomeHeading
  <2> QED
    BY <1>1, <2>1 DEF Headings
<1>2. CASE r.acc # Nil
  <2>1. r.acc.data \in Seq(Int)
    BY <1>2 DEF Sound, Held
  <2>2. \E g \in Heading : Looks(r.acc.data, g[1], g[2])
    BY <2>1, SomeHeading
  <2> QED
    BY <2>2 DEF Headings
<1> QED
  BY <1>1, <1>2

LEMMA SomeOpening ==
  ASSUME NEW k, k.data \in Seq(Int)
  PROVE  \E o \in Heading : o \in Openings(k) /\ Looks(k.data, o[1], o[2])
BY SomeHeading DEF Openings

\* A packet that goes on with a unit.
LEMMA GoOnFollows ==
  ASSUME NEW r, Sound(r), NEW k, k.pos \in Int, k.pusi = FALSE, k.data \in Seq(Int)
  PROVE  Sound(Process(r, k)) /\ Follows(r, k, Process(r, k))
<1>0. Left(k) = k.data
  BY DEF Left
<1>1. Process(r, k) = IF r.wait THEN Collected(r, k) ELSE Grown(r, k.data)
  BY <1>0 DEF Process
<1>2. PICK o \in Heading : o \in Openings(k)
  BY SomeOpening
<1> DEFINE p == AsPacket(k, o)
<1>3. ~p.pusi /\ R!Left(p) = Len(k.data)
  <2>1. ~p.pusi /\ p.len = Len(k.data)
    BY PacketIs
  <2> QED
    BY <2>1 DEF R!Left
<1> HIDE DEF p
<1>4. CASE r.wait
  <2> DEFINE q == Collected(r, k)
             a == Gathered(r, k)
  <2>1. /\ a \in Held /\ Sound(q) /\ q.acc = a
        /\ \A h \in Heading : Looks(a.data, h[1], h[2]) =>
             \A g : AsRecord(q, h) = R!Resumed(AsRecord(r, g), AccOf(a, h))
    BY <1>0, <1>4, CollectedView
  <2>2. a.data = r.acc.data \o Left(k) /\ a.from = r.acc.from /\ r.acc.data \in Seq(Int)
    BY <1>4 DEF Gathered, Sound, Held
  <2> HIDE DEF a, q
  <2>3. a # Nil
    BY <2>1, VideoAssumption
  <2>4. ASSUME NEW h \in Headings(q)
        PROVE  h \in Headings(r) /\ AsRecord(q, h) \in R!VideoProcess(AsRecord(r, h), p)
    <3>1. h \in Heading /\ Looks(a.data, h[1], h[2])
      BY <2>1, <2>3 DEF Headings
    <3>2. Looks(r.acc.data, h[1], h[2])
      BY <1>0, <2>2, <3>1, LooksBefore
    <3>3. AccOf(a, h) \in R!Collected(AsRecord(r, h), p)
      BY <1>0, <1>3, <1>4, <2>2, <3>1, GrownAcc DEF a
    <3>4. AsRecord(q, h) = R!Resumed(AsRecord(r, h), AccOf(a, h))
      BY <2>1, <3>1
    <3>5. AsRecord(r, h).wait
      BY <1>4, ViewFields
    <3>6. R!VideoProcess(AsRecord(r, h), p) = {R!Resumed(AsRecord(r, h), x) : x \in R!Collected(AsRecord(r, h), p)}
      BY <1>3, <3>5 DEF R!VideoProcess
    <3>7. h \in Headings(r)
      BY <3>1, <3>2 DEF Headings
    <3> QED
      BY <3>3, <3>4, <3>6, <3>7
  <2>5. Follows(r, k, q)
    BY <1>2, <2>4 DEF Follows, p
  <2> QED
    BY <1>1, <1>4, <2>1, <2>5 DEF q
<1>5. CASE ~r.wait /\ r.cur # Nil
  <2> DEFINE q == Grown(r, k.data)
  <2>1. /\ Sound(q) /\ q.acc = r.acc
        /\ \A h : AsRecord(q, h) = R!Grown(AsRecord(r, h), Len(k.data))
    BY <1>5, GrownView
  <2> HIDE DEF q
  <2>2. ASSUME NEW h \in Headings(q)
        PROVE  h \in Headings(r) /\ AsRecord(q, h) \in R!VideoProcess(AsRecord(r, h), p)
    <3>1. h \in Headings(r)
      BY <2>1 DEF Headings
    <3>2. ~AsRecord(r, h).wait /\ AsRecord(r, h).cur # Nil
      BY <1>5, ViewFields
    <3>3. R!VideoProcess(AsRecord(r, h), p) = {R!Grown(AsRecord(r, h), R!Left(p))}
      BY <1>3, <3>2 DEF R!VideoProcess
    <3> QED
      BY <1>3, <2>1, <3>1, <3>3
  <2>3. Follows(r, k, q)
    BY <1>2, <2>2 DEF Follows, p
  <2> QED
    BY <1>1, <1>5, <2>1, <2>3 DEF q
<1>6. CASE ~r.wait /\ r.cur = Nil
  <2>1. Process(r, k) = r
    BY <1>1, <1>6 DEF Grown
  <2>2. ASSUME NEW h \in Headings(r)
        PROVE  AsRecord(r, h) \in R!VideoProcess(AsRecord(r, h), p)
    <3>1. ~AsRecord(r, h).wait /\ AsRecord(r, h).cur = Nil
      BY <1>6, ViewFields
    <3>2. R!VideoProcess(AsRecord(r, h), p) = {AsRecord(r, h)}
      BY <1>3, <3>1 DEF R!VideoProcess
    <3> QED
      BY <3>2
  <2> QED
    BY <1>2, <2>1, <2>2 DEF Follows, p
<1> QED
  BY <1>4, <1>5, <1>6

\* A packet that begins one too short to be parsed at once.
LEMMA ShortFollows ==
  ASSUME NEW r, Sound(r), codec # "mp2v",
         NEW k, k.pos \in Int, k.pusi = TRUE, k.data \in Seq(Int), Len(k.data) < MinHeader
  PROVE  Sound(Process(r, k)) /\ Follows(r, k, Process(r, k))
<1> DEFINE b == Started(r, k)
           q == Process(r, k)
           a == Gathered(b, k)
<1>1. PICK g \in Heading : g \in Headings(r)
  BY SomeLooks
<1>2. /\ Sound(b) /\ b.wait = TRUE /\ b.acc = [from |-> k.pos, data |-> <<>>]
      /\ Left(k) = k.data
  <2>1. PICK o \in Heading : o \in Openings(k)
    BY SomeOpening
  <2> QED
    BY ShortView
<1>3. \A o \in Heading :
        /\ R!Left(AsPacket(k, o)) = Len(k.data) /\ R!Short(AsPacket(k, o))
        /\ R!Started(AsRecord(r, g), AsPacket(k, o)) = AsRecord(b, o)
  BY ShortView
<1> HIDE DEF b
<1>4. q = Collected(b, k)
  BY <1>2 DEF Process, b
<1>5. /\ a \in Held /\ Sound(q) /\ q.acc = a
      /\ \A h \in Heading : Looks(a.data, h[1], h[2]) =>
           \A x : AsRecord(q, h) = R!Resumed(AsRecord(b, x), AccOf(a, h))
  BY <1>2, <1>4, CollectedView
<1>6. a.data = k.data /\ a.from = b.acc.from
  <2>1. a = [from |-> k.pos, data |-> <<>> \o k.data]
    BY <1>2 DEF Gathered
  <2>2. <<>> \o k.data = k.data
    BY ConcatEmptySeq
  <2> QED
    BY <1>2, <2>1, <2>2
<1> HIDE DEF a, q
<1>7. a # Nil
  BY <1>5, VideoAssumption
<1>8. ASSUME NEW h \in Headings(q)
      PROVE  h \in Openings(k) /\ AsRecord(q, h) \in R!VideoProcess(AsRecord(r, g), AsPacket(k, h))
  <2> DEFINE p == AsPacket(k, h)
             v == AsRecord(r, g)
             w == AsRecord(b, h)
  <2>1. h \in Heading /\ Looks(a.data, h[1], h[2])
    BY <1>5, <1>7 DEF Headings
  <2>2. h \in Openings(k)
    BY <1>6, <2>1 DEF Openings
  <2>3. R!Left(p) = Len(k.data) /\ R!Short(p) /\ R!Started(v, p) = w /\ p.pusi
    BY <1>3, <2>1, PacketIs
  <2>4. AccOf(a, h) \in R!Collected(w, p)
    BY <1>2, <1>6, <2>1, <2>3, GrownAcc DEF a
  <2>5. AsRecord(q, h) = R!Resumed(w, AccOf(a, h))
    BY <1>5, <2>1
  <2>6. w.wait
    BY <1>2, ViewFields
  <2> HIDE DEF p, v, w
  <2>7. R!VideoProcess(v, p) = {R!Resumed(w, x) : x \in R!Collected(w, p)}
    BY <2>3, <2>6 DEF R!VideoProcess
  <2>8. AsRecord(q, h) \in R!VideoProcess(v, p)
    BY <2>4, <2>5, <2>7
  <2> QED
    BY <2>2, <2>8 DEF p, v
<1> QED
  BY <1>1, <1>5, <1>8 DEF Follows, q

\* A packet that begins one long enough.
LEMMA LongFollows ==
  ASSUME NEW r, Sound(r), codec # "mp2v",
         NEW k, k.pos \in Int, k.pusi = TRUE, k.data \in Seq(Int), ~(Len(k.data) < MinHeader)
  PROVE  Sound(Process(r, k)) /\ Follows(r, k, Process(r, k))
<1> DEFINE b == Started(r, k)
           q == Process(r, k)
           x == Left(k)
<1>1. PICK o \in Heading : o \in Openings(k) /\ Looks(k.data, o[1], o[2])
  BY SomeOpening
<1> DEFINE p == AsPacket(k, o)
<1>2. /\ Sound(b) /\ b.cur # Nil /\ b.wait = r.wait /\ b.acc = r.acc /\ x \in Seq(Int)
      /\ R!Left(p) = Len(x) /\ ~R!Short(p)
      /\ \A g : R!Started(AsRecord(r, g), p) = AsRecord(b, g)
  BY <1>1, LongView
<1>3. p.pusi /\ p.pos = k.pos
  BY PacketIs
<1>4. q = IF b.wait THEN Collected(b, k) ELSE Grown(b, x)
  BY DEF Process
<1> HIDE DEF b, q, p
<1>5. CASE r.wait
  <2> DEFINE a == Gathered(b, k)
  <2>1. q = Collected(b, k) /\ b.wait
    BY <1>2, <1>4, <1>5
  <2>2. /\ a \in Held /\ Sound(q) /\ q.acc = a
        /\ \A h \in Heading : Looks(a.data, h[1], h[2]) =>
             \A g : AsRecord(q, h) = R!Resumed(AsRecord(b, g), AccOf(a, h))
    BY <1>2, <2>1, CollectedView
  <2>3. a.data = r.acc.data \o x /\ r.acc.data \in Seq(Int)
    BY <1>2, <1>5 DEF Gathered, Sound, Held
  <2> HIDE DEF a
  <2>4. a # Nil
    BY <2>2, VideoAssumption
  <2>5. ASSUME NEW h \in Headings(q)
        PROVE  h \in Headings(r) /\ AsRecord(q, h) \in R!VideoProcess(AsRecord(r, h), p)
    <3> DEFINE w == AsRecord(b, h)
    <3>1. h \in Heading /\ Looks(a.data, h[1], h[2])
      BY <2>2, <2>4 DEF Headings
    <3>2. Looks(r.acc.data, h[1], h[2])
      BY <1>2, <2>3, <3>1, LooksBefore
    <3>3. AccOf(a, h) \in R!Collected(w, p)
      BY <1>2, <1>3, <2>1, <2>2, <3>1, MixedAcc DEF a
    <3>4. AsRecord(q, h) = R!Resumed(w, AccOf(a, h))
      BY <2>2, <3>1
    <3>5. w.wait
      BY <1>2, <2>1, ViewFields
    <3>6. R!Started(AsRecord(r, h), p) = w
      BY <1>2
    <3> HIDE DEF w
    <3>7. R!VideoProcess(AsRecord(r, h), p) = {R!Resumed(w, y) : y \in R!Collected(w, p)}
      BY <1>3, <3>5, <3>6 DEF R!VideoProcess
    <3>8. h \in Headings(r)
      BY <3>1, <3>2 DEF Headings
    <3> QED
      BY <3>3, <3>4, <3>7, <3>8
  <2>6. Follows(r, k, q)
    BY <1>1, <2>5 DEF Follows, p
  <2> QED
    BY <2>2, <2>6 DEF q
<1>6. CASE ~r.wait
  <2>1. q = Grown(b, x)
    BY <1>2, <1>4, <1>6
  <2>2. /\ Sound(q) /\ q.acc = r.acc
        /\ \A h : AsRecord(q, h) = R!Grown(AsRecord(b, h), Len(x))
    BY <1>2, <2>1, GrownView
  <2>3. ASSUME NEW h \in Headings(q)
        PROVE  h \in Headings(r) /\ AsRecord(q, h) \in R!VideoProcess(AsRecord(r, h), p)
    <3> DEFINE w == AsRecord(b, h)
    <3>1. h \in Headings(r)
      BY <2>2 DEF Headings
    <3>2. ~w.wait /\ w.cur # Nil
      BY <1>2, <1>6, ViewFields
    <3>3. R!Started(AsRecord(r, h), p) = w
      BY <1>2
    <3>4. AsRecord(q, h) = R!Grown(w, R!Left(p))
      BY <1>2, <2>2
    <3> HIDE DEF w
    <3>5. R!VideoProcess(AsRecord(r, h), p) = {R!Grown(w, R!Left(p))}
      BY <1>3, <3>2, <3>3 DEF R!VideoProcess
    <3> QED
      BY <3>1, <3>4, <3>5
  <2>4. Follows(r, k, q)
    BY <1>1, <2>3 DEF Follows, p
  <2> QED
    BY <2>2, <2>4 DEF q
<1> QED
  BY <1>5, <1>6

LEMMA FlushFollows ==
  ASSUME NEW r, Sound(r), codec # "mp2v"
  PROVE  /\ Sound(Flush(r)) /\ Headings(Flush(r)) = Headings(r)
         /\ \A h : AsRecord(Flush(r), h) = R!Flush(AsRecord(r, h))
<1>1. CASE r.cur = Nil
  <2>1. Flush(r) = r
    BY <1>1 DEF Flush
  <2>2. ASSUME NEW h PROVE AsRecord(r, h) = R!Flush(AsRecord(r, h))
    <3> DEFINE us == UnitsOf(r.pkts)
               w == r.wait
               a == AccOf(r.acc, h)
    <3>1. AsRecord(r, h) = View(Nil, us, w, a)
      BY <1>1, ViewIs DEF AsUnit
    <3> HIDE DEF us, w, a
    <3>2. R!Flush(View(Nil, us, w, a)) = View(Nil, us, w, a)
      BY DEF View, R!Flush, R!Pushed
    <3> QED
      BY <3>1, <3>2
  <2> QED
    BY <2>1, <2>2
<1>2. CASE r.cur # Nil
  <2>1. r.cur \in Unit /\ r.pkts \in Seq(Unit)
    BY <1>2 DEF Sound
  <2>2. Flush(r) = [r EXCEPT !.nals = Append(@, NalUnits(r.cur.data)), !.pkts = Append(@, r.cur)]
    BY <1>2 DEF Flush
  <2>3. /\ DOMAIN Flush(r) = Parts /\ Flush(r).pkts = Append(r.pkts, r.cur)
        /\ Flush(r).cur = r.cur /\ Flush(r).wait = r.wait /\ Flush(r).acc = r.acc
    BY <2>2 DEF Sound, Parts
  <2>4. Append(r.pkts, r.cur) \in Seq(Unit)
    BY <2>1, AppendProperties
  <2>5. UnitsOf(Append(r.pkts, r.cur)) = Append(UnitsOf(r.pkts), AsUnit(r.cur))
    BY <2>1, UnitsAppend
  <2>6. AsUnit(r.cur) # Nil
    BY <2>1, AsUnitIs
  <2>7. ASSUME NEW h PROVE AsRecord(Flush(r), h) = R!Flush(AsRecord(r, h))
    <3> DEFINE c == AsUnit(r.cur)
               us == UnitsOf(r.pkts)
               w == r.wait
               a == AccOf(r.acc, h)
    <3>1. AsRecord(r, h) = View(c, us, w, a)
      BY ViewIs
    <3>2. AsRecord(Flush(r), h) = View(c, Append(us, c), w, a)
      BY <2>3, <2>5, ViewIs
    <3>3. c # Nil
      BY <2>6
    <3> HIDE DEF c, us, w, a
    <3>4. R!Flush(View(c, us, w, a)) = View(c, Append(us, c), w, a)
      BY <3>3 DEF View, R!Flush, R!Pushed
    <3> QED
      BY <3>1, <3>2, <3>4
  <2>8. Sound(Flush(r)) /\ Headings(Flush(r)) = Headings(r)
    BY <2>3, <2>4 DEF Sound, Headings
  <2> QED
    BY <2>7, <2>8
<1> QED
  BY <1>1, <1>2

LEMMA ProcessFollows ==
  ASSUME NEW r, Sound(r), codec # "mp2v",
         NEW k, k.pos \in Int, k.pusi \in BOOLEAN, k.data \in Seq(Int)
  PROVE  Sound(Process(r, k)) /\ Follows(r, k, Process(r, k))
<1>1. CASE ~k.pusi
  <2>1. k.pusi = FALSE
    BY <1>1
  <2> QED
    BY <2>1, GoOnFollows
<1>2. CASE k.pusi
  <2>1. k.pusi = TRUE
    BY <1>2
  <2>2. CASE Len(k.data) < MinHeader
    BY <2>1, <2>2, ShortFollows
  <2>3. CASE ~(Len(k.data) < MinHeader)
    BY <2>1, <2>3, LongFollows
  <2> QED
    BY <2>2, <2>3
<1> QED
  BY <1>1, <1>2

\* One transport packet.
LEMMA FeedFollows ==
  ASSUME Sound(rec), codec # "mp2v", pc = "feeding",
         NEW k, k.pos \in Int, k.pusi \in BOOLEAN, k.data \in Seq(Int), Feed(k)
  PROVE  Sound(rec') /\ codec' = codec /\ RecordsStep
<1>1. pkt' = k /\ rec' = Process(rec, k) /\ pc' = "feeding" /\ codec' = codec
  BY DEF Feed, HeaderCut, Scans
<1>2. Sound(rec') /\ Follows(rec, pkt', rec')
  BY <1>1, ProcessFollows
<1> QED
  BY <1>1, <1>2 DEF Follows, RecordsStep

BytesInv == VideoInv /\ (codec # "mp2v" => Sound(rec))

LEMMA BytesInit == Init => BytesInv
<1> SUFFICES ASSUME Init PROVE Sound(rec)
  BY VideoInvInit DEF BytesInv
<1>1. rec = NewRecord
  BY DEF Init
<1>2. <<>> \in Seq(Unit)
  BY EmptySeq
<1> QED
  BY <1>1, <1>2 DEF Sound, NewRecord, Parts

LEMMA BytesStep ==
  BytesInv /\ [Next]_vars => BytesInv' /\ (RecordsStep \/ UNCHANGED <<rec, pkt, pc>>)
<1> SUFFICES ASSUME BytesInv, [Next]_vars
             PROVE  BytesInv' /\ (RecordsStep \/ UNCHANGED <<rec, pkt, pc>>)
  OBVIOUS
<1>1. VideoInv'
  BY VideoInvStep DEF BytesInv
<1>2. ASSUME codec # "mp2v"
      PROVE  Sound(rec') /\ (RecordsStep \/ UNCHANGED <<rec, pkt, pc>>)
  <2>0. Sound(rec) /\ codec \in Codec /\ rest \in Seq(Int) /\ pkt.pos \in Int
    BY <1>2 DEF BytesInv, VideoInv
  <2>1. ASSUME NEW p \in Pes[codec], NEW n \in Sizes(p), StartPes(p, n)
        PROVE  Sound(rec') /\ RecordsStep
    <3> DEFINE k == [pos |-> pkt.pos + 1, pusi |-> TRUE, data |-> SubSeq(p, 1, n)]
    <3>1. pc = "feeding" /\ Feed(k)
      BY <2>1 DEF StartPes
    <3>2. p \in Seq(Int)
      <4>1. p \in Seq(0 .. 255)
        BY <2>0, VideoAssumption
      <4>2. 0 .. 255 \subseteq Int
        OBVIOUS
      <4> QED
        BY <4>1, <4>2, SeqMonotonic
    <3>3. SubSeq(p, 1, n) \in Seq(Int)
      BY <3>2, SizesFit, SliceOf
    <3>4. k.pos \in Int /\ k.pusi \in BOOLEAN /\ k.data \in Seq(Int)
      BY <2>0, <3>3
    <3> HIDE DEF k
    <3> QED
      BY <1>2, <2>0, <3>1, <3>4, FeedFollows
  <2>2. ASSUME rest # <<>>, NEW n \in Sizes(rest), GoOn(n)
        PROVE  Sound(rec') /\ RecordsStep
    <3> DEFINE k == [pos |-> pkt.pos + 1, pusi |-> FALSE, data |-> SubSeq(rest, 1, n)]
    <3>1. pc = "feeding" /\ Feed(k)
      BY <2>2 DEF GoOn
    <3>2. SubSeq(rest, 1, n) \in Seq(Int)
      BY <2>0, SizesFit, SliceOf
    <3>3. k.pos \in Int /\ k.pusi \in BOOLEAN /\ k.data \in Seq(Int)
      BY <2>0, <3>2
    <3> HIDE DEF k
    <3> QED
      BY <1>2, <2>0, <3>1, <3>3, FeedFollows
  <2>3. CASE EndOfFile
    <3>1. rec' = Flush(rec) /\ pc' = "flushed"
      BY <2>3 DEF EndOfFile
    <3>2. /\ Sound(Flush(rec)) /\ Headings(Flush(rec)) = Headings(rec)
          /\ \A h : AsRecord(Flush(rec), h) = R!Flush(AsRecord(rec, h))
      BY <1>2, <2>0, FlushFollows
    <3> QED
      BY <3>1, <3>2 DEF RecordsStep
  <2>4. CASE Ended
    BY <2>0, <2>4 DEF Ended, vars
  <2>5. CASE UNCHANGED vars
    BY <2>0, <2>5 DEF vars
  <2> QED
    BY <2>1, <2>2, <2>3, <2>4, <2>5 DEF Next
<1>3. codec' = codec
  BY DEF Next, StartPes, GoOn, Feed, EndOfFile, Ended, vars
<1>4. codec # "mp2v" \/ RecordsStep
  BY DEF RecordsStep
<1>5. (codec # "mp2v" => Sound(rec))'
  BY <1>2, <1>3 DEF Sound
<1> QED
  BY <1>1, <1>2, <1>4, <1>5 DEF BytesInv

\* H264Record and H265Record, bytes and all, are the records of Records: each packet
\* does to a record what VideoProcess says, whatever the bytes are.
THEOREM BytesAreRecords == Spec => ImplementsRecords
<1> QED
  BY BytesInit, BytesStep, PTL DEF Spec, ImplementsRecords
=============================================================================
