--------------------------- MODULE PositionProofs ---------------------------
(* That a reader stands where it should: the bit reader before the bits it   *)
(* is asked for, caps at the packet in its file whose line it prints, and the *)
(* parsers of private data and of splice sections before the field that was  *)
(* written next.  The last three have variables of their own.                *)
EXTENDS BitReader, Caps, PrivateData, SpliceSection, SumProofs, SequenceTheorems, TLAPS

-----------------------------------------------------------------------------
(* Runs of bits *)

Run(first, len) == [k \in 1 .. len |-> first + k - 1]

LEMMA RunIsSeq ==
  ASSUME NEW f \in Int, NEW p \in Nat
  PROVE  Run(f, p) \in Seq(Int)
BY DEF Run

\* A run and the one that begins where it ends are a run.
LEMMA RunsConcat ==
  ASSUME NEW f \in Int, NEW p \in Nat, NEW q \in Nat
  PROVE  Run(f, p) \o Run(f + p, q) = Run(f, p + q)
<1> DEFINE s == Run(f, p)
           t == Run(f + p, q)
           u == Run(f, p + q)
<1>1. /\ s \in Seq(Int) /\ Len(s) = p /\ \A k \in 1 .. p : s[k] = f + k - 1
      /\ t \in Seq(Int) /\ Len(t) = q /\ \A k \in 1 .. q : t[k] = f + p + k - 1
      /\ u \in Seq(Int) /\ Len(u) = p + q /\ \A k \in 1 .. p + q : u[k] = f + k - 1
  BY DEF Run
<1> HIDE DEF s, t, u
<1>2. /\ s \o t \in Seq(Int) /\ Len(s \o t) = p + q
      /\ \A k \in 1 .. p + q : (s \o t)[k] = IF k <= p THEN s[k] ELSE t[k - p]
  BY <1>1, ConcatProperties
<1>3. ASSUME NEW k \in 1 .. p + q PROVE (s \o t)[k] = u[k]
  BY <1>1, <1>2
<1>4. s \o t = u
  BY <1>1, <1>2, <1>3, SeqEqual
<1> QED
  BY <1>4 DEF s, t, u

LEMMA EmptyRun == ASSUME NEW f \in Int PROVE Run(f, 0) = <<>>
<1>1. Run(f, 0) \in Seq(Int) /\ Len(Run(f, 0)) = 0
  BY DEF Run
<1>2. <<>> \in Seq(Int) /\ Len(<<>>) = 0
  BY EmptySeq
<1> QED
  BY <1>1, <1>2, SeqEqual

LEMMA BitsAreRuns ==
  ASSUME base \in Int, NEW i \in Nat, NEW j \in Nat, i <= j
  PROVE  Bits(i, j) = Run(Byte * base + i, j - i) /\ Byte * base \in Int
BY ReaderAssumption DEF Bits, Run

LEMMA BitsAreSeq ==
  ASSUME base \in Int, NEW i \in Nat, NEW j \in Nat, i <= j
  PROVE  Bits(i, j) \in Seq(Int)
<1> DEFINE f == Byte * base + i
           p == j - i
<1>1. Bits(i, j) = Run(f, p) /\ f \in Int /\ p \in Nat
  BY BitsAreRuns
<1> HIDE DEF f, p
<1> QED
  BY <1>1, RunIsSeq

-----------------------------------------------------------------------------
(* The reader *)

LEMMA CallsAreTyped ==
  ASSUME TypeOK, NEW op, Calling(op)
  PROVE  /\ prog[at].n \in Int
         /\ op # "bytes" => /\ prog[at].n \in Nat
                            /\ prog[at].n \div Byte \in Nat /\ prog[at].n % Byte \in Nat
<1>1. prog \in Seq(Calls)
  BY ReaderAssumption DEF TypeOK
<1>2. prog[at] \in Calls
  BY <1>1 DEF Calling
<1>3. prog[at].n \in Int /\ (op # "bytes" => prog[at].n \in Nat)
  BY <1>2 DEF Calls, Calling
<1>4. Byte \in Nat \ {0}
  BY ReaderAssumption
<1> QED
  BY <1>3, <1>4

\* Inductive: the read under way has returned the bits from where it began, and
\* its offset does not go beyond the byte.
ReadInv ==
  /\ TypeOK
  /\ pc # "ready" /\ reach => off <= Byte
  /\ ReadsItsBits

LEMMA ReadInit == Init => ReadInv
BY ReaderAssumption DEF Init, ReadInv, TypeOK, ReadsItsBits

\* What is read of a byte continues what was read before it.
LEMMA ReadOn ==
  ASSUME ReadInv, pc = "loop", reach,
         NEW j \in Nat, off <= j, j - off <= n
  PROVE  v \o Bits(off, j) = [k \in 1 .. wide - (n - (j - off)) |-> from + k - 1]
<1>1. /\ base \in Int /\ off \in Nat /\ n \in Nat /\ from \in Int /\ wide \in Nat
  BY DEF ReadInv, TypeOK
<1>2. v = Run(from, wide - n) /\ n <= wide /\ Byte * base + off = from + (wide - n)
  BY <1>1 DEF ReadInv, ReadsItsBits, Run, Position
<1>3. Bits(off, j) = Run(from + (wide - n), j - off)
  BY <1>1, <1>2, BitsAreRuns
<1>4. wide - n \in Nat /\ j - off \in Nat
  BY <1>1, <1>2
<1>5. v \o Bits(off, j) = Run(from, (wide - n) + (j - off))
  <2>1. Run(from, wide - n) \o Run(from + (wide - n), j - off) = Run(from, (wide - n) + (j - off))
    BY <1>1, <1>4, RunsConcat
  <2> QED
    BY <1>2, <1>3, <2>1
<1>6. (wide - n) + (j - off) = wide - (n - (j - off))
  BY <1>1
<1> QED
  BY <1>5, <1>6 DEF Run

LEMMA RestOfByteKeeps == ASSUME ReadInv, RestOfByte PROVE ReadInv'
<1>1. /\ base \in Int /\ off \in Nat /\ n \in Nat /\ from \in Int /\ wide \in Nat
      /\ v \in Seq(Int) /\ Byte \in Nat \ {0}
  BY ReaderAssumption DEF ReadInv, TypeOK
<1>2. n' = n - (Byte - off) /\ n' \in Nat /\ off' = 0 /\ base' = base + 1
  BY <1>1 DEF RestOfByte
<1>3. v' \in Seq(Int)
  <2>1. CASE off <= Byte
    <3>1. Bits(off, Byte) \in Seq(Int)
      BY <1>1, <2>1, BitsAreSeq
    <3> QED
      BY <1>1, <2>1, <3>1, ConcatProperties DEF RestOfByte
  <2>2. CASE ~(off <= Byte)
    <3>1. Bits(0, Byte) \in Seq(Int)
      BY <1>1, BitsAreSeq
    <3> QED
      BY <2>2, <3>1 DEF RestOfByte
  <2> QED
    BY <2>1, <2>2
<1>4. TypeOK'
  BY <1>1, <1>2, <1>3 DEF RestOfByte, ReadInv, TypeOK, history
<1>5. ASSUME reach' PROVE ReadsItsBits'
  <2>1. reach /\ pc = "loop" /\ off <= Byte /\ wide' = wide /\ from' = from
    BY <1>5 DEF RestOfByte, ReadInv, history
  <2>2. v' = v \o Bits(off, Byte)
    BY <2>1 DEF RestOfByte
  <2>3. v' = [k \in 1 .. wide - n' |-> from + k - 1]
    BY <1>1, <1>2, <2>1, <2>2, ReadOn DEF RestOfByte
  <2>4. n <= wide /\ Byte * base + off = from + wide - n
    BY <2>1 DEF ReadInv, ReadsItsBits, Position
  <2>5. Byte * (base + 1) = Byte * base + Byte /\ Byte * base \in Int
    BY <1>1
  <2>6. n' <= wide /\ Position' = from + wide - n'
    BY <1>1, <1>2, <2>1, <2>4, <2>5 DEF Position
  <2> QED
    BY <2>1, <2>3, <2>6 DEF ReadsItsBits
<1> QED
  BY <1>1, <1>2, <1>4, <1>5 DEF ReadInv, ReadsItsBits

LEMMA PartOfByteKeeps == ASSUME ReadInv, PartOfByte PROVE ReadInv'
<1>1. /\ base \in Int /\ off \in Nat /\ n \in Nat /\ from \in Int /\ wide \in Nat
      /\ v \in Seq(Int) /\ Byte \in Nat \ {0}
  BY ReaderAssumption DEF ReadInv, TypeOK
<1>2. n' = 0 /\ off' = off + n /\ base' = base /\ v' = v \o Bits(off, off + n) /\ off + n < Byte
  BY DEF PartOfByte
<1>3. Bits(off, off + n) \in Seq(Int)
  <2>1. off + n \in Nat /\ off <= off + n
    BY <1>1
  <2> QED
    BY <1>1, <2>1, BitsAreSeq
<1>4. v' \in Seq(Int)
  BY <1>1, <1>2, <1>3, ConcatProperties
<1>5. TypeOK'
  BY <1>1, <1>2, <1>4 DEF PartOfByte, ReadInv, TypeOK, history
<1>6. ASSUME reach' PROVE ReadsItsBits'
  <2>1. reach /\ pc = "loop" /\ wide' = wide /\ from' = from
    BY <1>6 DEF PartOfByte, history
  <2>2. v' = [k \in 1 .. wide - n' |-> from + k - 1]
    <3>1. off + n \in Nat /\ off <= off + n /\ (off + n) - off <= n /\ n - ((off + n) - off) = n'
      BY <1>1, <1>2
    <3>2. v \o Bits(off, off + n) = [k \in 1 .. wide - (n - ((off + n) - off)) |-> from + k - 1]
      BY <2>1, <3>1, ReadOn
    <3> QED
      BY <1>2, <3>1, <3>2
  <2>3. n <= wide /\ Byte * base + off = from + wide - n
    BY <2>1 DEF ReadInv, ReadsItsBits, Position
  <2>4. n' <= wide /\ Position' = from + wide - n'
    <3>1. Byte * base \in Int
      BY <1>1
    <3> QED
      BY <1>1, <1>2, <2>1, <2>3, <3>1 DEF Position
  <2> QED
    BY <2>1, <2>2, <2>4 DEF ReadsItsBits
<1>7. reach' => off' <= Byte
  BY <1>1, <1>2
<1> QED
  BY <1>5, <1>6, <1>7 DEF ReadInv, ReadsItsBits

LEMMA ReadStep == ReadInv /\ [Next]_vars => ReadInv'
<1> SUFFICES ASSUME ReadInv, [Next]_vars PROVE ReadInv'
  OBVIOUS
<1>0. /\ TypeOK /\ Byte \in Nat \ {0}
      /\ base \in Int /\ off \in Nat /\ at \in Nat /\ n \in Nat
  BY ReaderAssumption DEF ReadInv, TypeOK
<1>1. CASE SkipBytes
  <2>1. prog[at].n \in Int
    BY <1>0, <1>1, CallsAreTyped DEF SkipBytes
  <2> QED
    BY <1>0, <1>1, <2>1 DEF SkipBytes, Calling, ReadInv, TypeOK, ReadsItsBits, history
<1>2. CASE SkipBits
  <2>1. prog[at].n \div Byte \in Nat /\ prog[at].n % Byte \in Nat
    BY <1>0, <1>2, CallsAreTyped DEF SkipBits
  <2> QED
    BY <1>0, <1>2, <2>1 DEF SkipBits, Calling, ReadInv, TypeOK, ReadsItsBits, history
<1>3. CASE Call
  <2>1. prog[at].n \in Nat
    BY <1>0, <1>3, CallsAreTyped DEF Call
  <2>2. Position \in Int /\ Position' = Position
    BY <1>0, <1>3 DEF Call, Position
  <2>3. n' = wide' /\ v' = <<>> /\ from' = Position
    BY <1>3 DEF Call
  <2>4. v' \in Seq(Int)
    BY <2>3
  <2>5. TypeOK'
    BY <1>0, <1>3, <2>1, <2>2, <2>3, <2>4 DEF Call, TypeOK
  <2>6. ReadsItsBits'
    <3>1. wide' \in Nat /\ wide' - n' = 0
      BY <2>1, <2>3, <1>3 DEF Call
    <3>2. v' = [k \in 1 .. wide' - n' |-> from' + k - 1]
      <4>1. Run(Position, 0) = <<>>
        BY <2>2, EmptyRun
      <4> QED
        BY <2>3, <3>1, <4>1 DEF Run
    <3>3. from' \in Int /\ Position' = from' /\ n' \in Nat /\ n' = wide'
      BY <2>2, <2>3, <3>1
    <3>4. n' <= wide'
      BY <3>3
    <3>5. \A a \in Int, b \in Nat : a = a + b - b
      OBVIOUS
    <3>6. Position' = from' + wide' - n'
      BY <3>3, <3>5, Zenon
    <3> QED
      BY <3>2, <3>4, <3>6 DEF ReadsItsBits
  <2> QED
    BY <1>3, <2>5, <2>6 DEF Call, ReadInv
<1>4. CASE RestOfByte
  BY <1>4, RestOfByteKeeps
<1>5. CASE PartOfByte
  BY <1>5, PartOfByteKeeps
<1>6. CASE Return
  BY <1>0, <1>6 DEF Return, ReadInv, TypeOK, ReadsItsBits, history
<1>7. CASE Panic
  BY <1>0, <1>7 DEF Panic, ReadInv, TypeOK, ReadsItsBits, Position, history
<1>8. CASE UNCHANGED vars
  BY <1>8 DEF vars, ReadInv, TypeOK, ReadsItsBits, Position
<1> QED
  BY <1>1, <1>2, <1>3, <1>4, <1>5, <1>6, <1>7, <1>8 DEF Next, Finished

\* The state of the reader stays well typed, whatever it is asked and wherever the
\* skips leave it: the loop of ReadBit64 never comes to a negative count.
THEOREM ReaderTyped == Spec => []TypeOK
<1>1. ReadInv => TypeOK
  BY DEF ReadInv
<1> QED
  BY ReadInit, ReadStep, <1>1, PTL DEF Spec

\* A read that begins in a byte or right behind it returns its bits, in order, and
\* moves on by as many, for every sequence of calls and all data.
THEOREM ReadsAreRight == Spec => []ReadsItsBits
<1>1. ReadInv => ReadsItsBits
  BY DEF ReadInv
<1> QED
  BY ReadInit, ReadStep, <1>1, PTL DEF Spec

-----------------------------------------------------------------------------
(* The capture converter *)

\* What is dealt with, and how many packets of each.
Dealt(x) == x = None \/ (x \in Payload /\ ~TooLong(x))
CountOf(x) == IF x = None THEN 0 ELSE Count(x)
Counts(cap) == [i \in DOMAIN cap |-> CountOf(cap[i])]

\* Lines that have the number of packets in front of theirs for an index.
RightLines(cap) ==
  {l \in [index : Int, entry : Int, of : Nat, nth : Nat] :
     /\ l.of \in DOMAIN cap /\ cap[l.of] \in Payload
     /\ l.nth \in 1 .. Count(cap[l.of])
     /\ cap[l.of].kinds[l.nth] = "pcr"
     /\ l.index = Total(Counts(cap), l.of - 1) + l.nth - 1}

\* Inductive: the index counts the packets of the capture so far.
CapsInv ==
  /\ capture \in Seq(Payload \cup {None}) /\ \A i \in DOMAIN capture : Dealt(capture[i])
  /\ written \in Seq(Nat) /\ Len(written) = Len(capture)
  /\ index = Total(Counts(capture), Len(capture))
  /\ lines \in Seq(RightLines(capture))

LEMMA PayloadData ==
  ASSUME NEW p \in Payload, ~TooLong(p)
  PROVE  /\ DataLen(p) \in Nat /\ Count(p) \in Nat
         /\ DataLen(p) = TsPktSize * Count(p) + (DataLen(p) % TsPktSize)
         /\ (DataLen(p) % TsPktSize) \in Nat
<1>0. p.len \in Nat
  BY CapsAssumption
<1>1. p.ext # None => p.ext \in Nat
  <2>1. p.ext \in 0 .. MaxUint16 \cup {None}
    BY CapsAssumption
  <2> QED
    BY <2>1
<1>2. DataLen(p) \in Nat
  <2>1. CASE Skipped(p)
    BY <2>1 DEF DataLen
  <2>2. CASE ~Skipped(p) /\ p.len % TsPktSize = 0
    BY <1>0, <2>2 DEF DataLen, Offset, TsPktSize
  <2>3. CASE ~Skipped(p) /\ p.len % TsPktSize # 0
    <3>1. p.len \in {1376, 1360, 1328}
      BY <2>3 DEF Skipped, SrtHrtp, Hrtp, Rtp
    <3>2. CASE Extended(p)
      <4>1. p.ext \in Nat
        BY <1>1, <3>2 DEF Extended
      <4>2. ~(p.len < Offset(p))
        BY <3>2 DEF TooLong
      <4>3. Offset(p) \in Nat
        BY <2>3, <3>2, <4>1 DEF Offset, SrtLen
      <4> QED
        BY <1>0, <2>3, <4>2, <4>3 DEF DataLen
    <3>3. CASE ~Extended(p)
      <4>1. Offset(p) \in 0 .. 28
        BY <2>3, <3>3 DEF Offset, SrtLen
      <4> QED
        BY <1>0, <2>3, <3>1, <4>1 DEF DataLen
    <3> QED
      BY <3>2, <3>3
  <2> QED
    BY <2>1, <2>2, <2>3
<1> DEFINE d == DataLen(p)
<1> HIDE DEF d
<1>3. d \in Nat
  BY <1>2 DEF d
<1>4. d \div 188 \in Nat /\ (d % 188) \in Nat /\ d = 188 * (d \div 188) + (d % 188)
  BY <1>3
<1> QED
  BY <1>3, <1>4 DEF d, Count, TsPktSize

LEMMA DealtData ==
  ASSUME NEW cap, \A i \in DOMAIN cap : Dealt(cap[i])
  PROVE  \A i \in DOMAIN Counts(cap) : Counts(cap)[i] \in Nat /\ Counts(cap)[i] \in Int
<1> SUFFICES ASSUME NEW i \in DOMAIN cap PROVE CountOf(cap[i]) \in Nat
  BY DEF Counts
<1>1. CASE cap[i] = None
  BY <1>1 DEF CountOf
<1>2. CASE cap[i] # None
  BY <1>2, PayloadData DEF CountOf, Dealt
<1> QED
  BY <1>1, <1>2

\* A further payload adds its packets and leaves the sums before it as they are.
GoesOn(cap, x, more) ==
  /\ \A i \in DOMAIN more : Dealt(more[i])
  /\ \A m \in 0 .. Len(cap) : Total(Counts(more), m) = Total(Counts(cap), m)
  /\ Total(Counts(more), Len(cap) + 1) = Total(Counts(cap), Len(cap)) + CountOf(x)
  /\ RightLines(cap) \subseteq RightLines(more)

LEMMA CountsAppend ==
  ASSUME NEW S, NEW cap \in Seq(S), NEW x \in S, Dealt(x),
         \A i \in DOMAIN cap : Dealt(cap[i])
  PROVE  GoesOn(cap, x, Append(cap, x))
<1> DEFINE more == Append(cap, x)
<1>1. /\ more \in Seq(S) /\ Len(more) = Len(cap) + 1
      /\ \A i \in 1 .. Len(cap) : more[i] = cap[i]
      /\ more[Len(cap) + 1] = x
      /\ Len(cap) \in Nat /\ DOMAIN cap = 1 .. Len(cap) /\ DOMAIN more = 1 .. Len(cap) + 1
  BY AppendProperties, LenProperties
<1> HIDE DEF more
<1>2. \A i \in DOMAIN more : Dealt(more[i])
  BY <1>1
<1>3. /\ \A i \in DOMAIN Counts(cap) : Counts(cap)[i] \in Int
      /\ \A i \in DOMAIN Counts(more) : Counts(more)[i] \in Int
  BY <1>2, DealtData
<1>4. \A i \in 1 .. Len(cap) :
        /\ i \in DOMAIN Counts(cap) /\ i \in DOMAIN Counts(more) /\ Counts(cap)[i] = Counts(more)[i]
  BY <1>1 DEF Counts
<1>5. \A m \in 0 .. Len(cap) : Total(Counts(more), m) = Total(Counts(cap), m)
  <2> TAKE m \in 0 .. Len(cap)
  <2>1. m \in Nat /\ \A i \in 1 .. m : i \in 1 .. Len(cap)
    BY <1>1
  <2> QED
    BY <1>3, <1>4, <2>1, TotalAgrees
<1>6. Total(Counts(more), Len(cap) + 1) = Total(Counts(cap), Len(cap)) + CountOf(x)
  <2>1. Len(cap) + 1 \in DOMAIN Counts(more) /\ Counts(more)[Len(cap) + 1] = CountOf(x)
    BY <1>1 DEF Counts
  <2>2. Total(Counts(more), Len(cap) + 1) = Total(Counts(more), Len(cap)) + CountOf(x)
    BY <1>1, <1>3, <2>1, TotalSteps
  <2>3. Total(Counts(more), Len(cap)) = Total(Counts(cap), Len(cap))
    BY <1>1, <1>5
  <2> QED
    BY <1>1, <2>2, <2>3
<1>7. ASSUME NEW l \in RightLines(cap) PROVE l \in RightLines(more)
  <2>1. l.of \in DOMAIN cap /\ l.of \in 1 .. Len(cap) /\ l.of - 1 \in 0 .. Len(cap)
    BY <1>1, <1>7 DEF RightLines
  <2>2. more[l.of] = cap[l.of] /\ Total(Counts(more), l.of - 1) = Total(Counts(cap), l.of - 1) /\ l.of \in DOMAIN more
    BY <1>1, <1>5, <2>1
  <2> QED
    BY <1>7, <2>2 DEF RightLines
<1> QED
  BY <1>2, <1>5, <1>6, <1>7 DEF GoesOn, more

\* The lines printed of a payload are right, once it is counted.
LEMMA NewLines ==
  ASSUME CapsInv, NEW p \in Payload, ~TooLong(p)
  PROVE  Lines(p) \in Seq(RightLines(Append(capture, p)))
<1> DEFINE more == Append(capture, p)
           S == RightLines(more)
           F == [i \in 1 .. Count(p) |->
                   IF p.kinds[i] = "pcr" THEN <<Line(p, i)>> ELSE <<>>]
<1>1. Count(p) \in Nat /\ p.ext \in 0 .. MaxUint16 \cup {None}
  BY PayloadData, CapsAssumption
<1>2. /\ capture \in Seq(Payload \cup {None}) /\ Len(capture) \in Nat /\ Dealt(p)
      /\ \A i \in DOMAIN capture : Dealt(capture[i])
      /\ index = Total(Counts(capture), Len(capture))
  BY LenProperties DEF CapsInv, Dealt
<1>3. Len(capture) + 1 \in DOMAIN more /\ more[Len(capture) + 1] = p
  <2>1. p \in Payload \cup {None}
    OBVIOUS
  <2> QED
    BY <1>2, <2>1, AppendProperties, LenProperties
<1>4. Total(Counts(more), Len(capture)) = index
  <2>1. \A m \in 0 .. Len(capture) : Total(Counts(more), m) = Total(Counts(capture), m)
    <3>1. GoesOn(capture, p, more)
      BY <1>2, CountsAppend
    <3> QED
      BY <3>1 DEF GoesOn
  <2> QED
    BY <1>2, <2>1
<1>5. index \in Int
  BY <1>2, DealtData, TotalSteps
<1> HIDE DEF more
<1>6. ASSUME NEW i \in 1 .. Count(p), p.kinds[i] = "pcr" PROVE Line(p, i) \in S
  <2> DEFINE l == Line(p, i)
  <2>1. l = [index |-> index + i - 1, entry |-> Entry(p, i), of |-> Len(capture) + 1, nth |-> i]
    BY DEF Line
  <2>2. Entry(p, i) \in Int
    BY <1>1 DEF Entry
  <2>3. l \in [index : Int, entry : Int, of : Nat, nth : Nat]
    BY <1>1, <1>2, <1>5, <2>1, <2>2
  <2>4. l.of = Len(capture) + 1 /\ l.nth = i /\ l.index = index + i - 1
    BY <2>1
  <2> HIDE DEF l
  <2>5. (Len(capture) + 1) - 1 = Len(capture)
    BY <1>2
  <2>6. l \in S
    BY <1>3, <1>4, <1>6, <2>3, <2>4, <2>5 DEF RightLines
  <2> QED
    BY <2>6 DEF l
<1> HIDE DEF S
<1>7. \A i \in DOMAIN F : F[i] \in Seq(S)
  <2> SUFFICES ASSUME NEW i \in 1 .. Count(p) PROVE F[i] \in Seq(S)
    OBVIOUS
  <2>1. CASE p.kinds[i] = "pcr"
    <3>1. F[i] = <<Line(p, i)>> /\ Line(p, i) \in S
      BY <1>6, <2>1
    <3> QED
      BY <3>1
  <2>2. CASE p.kinds[i] # "pcr"
    <3>1. F[i] = <<>>
      BY <2>2
    <3> QED
      BY <3>1, EmptySeq
  <2> QED
    BY <2>1, <2>2
<1>8. Lines(p) = Joined(F, Count(p))
  BY DEF Lines
<1> HIDE DEF F
<1>9. Joined(F, Count(p)) \in Seq(S)
  BY <1>1, <1>7, JoinedSteps
<1> QED
  BY <1>8, <1>9 DEF S, more

LEMMA CapsBegins == CapsInit => CapsInv
<1> SUFFICES ASSUME CapsInit PROVE CapsInv
  OBVIOUS
<1>1. capture = <<>> /\ index = 0 /\ written = <<>> /\ lines = <<>>
  BY DEF CapsInit
<1>2. \A S : <<>> \in Seq(S)
  BY EmptySeq
<1>3. Len(<<>>) = 0 /\ DOMAIN <<>> = {}
  OBVIOUS
<1>4. Total(Counts(<<>>), 0) = 0
  <2>1. \A i \in DOMAIN Counts(<<>>) : Counts(<<>>)[i] \in Int
    BY <1>3 DEF Counts
  <2> QED
    BY <2>1, TotalSteps
<1> QED
  BY <1>1, <1>2, <1>3, <1>4, Zenon DEF CapsInv

\* A packet is added to the capture, written in part, and its lines printed.
LEMMA CapsGoesOn ==
  ASSUME CapsInv, NEW x \in Payload \cup {None}, Dealt(x),
         NEW w \in Nat, NEW ls \in Seq(RightLines(Append(capture, x))),
         capture' = Append(capture, x), written' = Append(written, w),
         index' = index + CountOf(x), lines' = lines \o ls
  PROVE  CapsInv'
<1> DEFINE more == Append(capture, x)
<1>1. /\ capture \in Seq(Payload \cup {None}) /\ \A i \in DOMAIN capture : Dealt(capture[i])
      /\ written \in Seq(Nat) /\ Len(written) = Len(capture)
      /\ index = Total(Counts(capture), Len(capture))
      /\ lines \in Seq(RightLines(capture))
  BY DEF CapsInv
<1>2. /\ \A i \in DOMAIN more : Dealt(more[i])
      /\ Total(Counts(more), Len(capture) + 1) = Total(Counts(capture), Len(capture)) + CountOf(x)
      /\ RightLines(capture) \subseteq RightLines(more)
  <2>1. GoesOn(capture, x, more)
    BY <1>1, CountsAppend
  <2> HIDE DEF more
  <2> QED
    BY <2>1 DEF GoesOn
<1>3. /\ more \in Seq(Payload \cup {None}) /\ Len(more) = Len(capture) + 1
      /\ Append(written, w) \in Seq(Nat) /\ Len(Append(written, w)) = Len(written) + 1
  BY <1>1, AppendProperties
<1>4. lines \in Seq(RightLines(more))
  <2>1. \A S, T : S \subseteq T => Seq(S) \subseteq Seq(T)
    <3> TAKE S, T
    <3> HAVE S \subseteq T
    <3>1. ASSUME NEW s \in Seq(S) PROVE s \in Seq(T)
      <4>1. Len(s) \in Nat /\ s = [i \in 1 .. Len(s) |-> s[i]] /\ \A i \in 1 .. Len(s) : s[i] \in T
        BY LenProperties, ElementOfSeq
      <4> QED
        BY <4>1, IsASeq
    <3> QED
      BY <3>1
  <2> QED
    BY <1>1, <1>2, <2>1
<1> HIDE DEF more
<1>5. lines \o ls \in Seq(RightLines(more))
  <2>1. ls \in Seq(RightLines(more))
    BY DEF more
  <2> QED
    BY <1>4, <2>1, ConcatProperties
<1>6. capture' = more
  BY DEF more
<1> QED
  BY <1>1, <1>2, <1>3, <1>5, <1>6 DEF CapsInv

LEMMA CapsStep ==
  ASSUME CapsInv, [CapsNext]_capsVars
  PROVE  CapsInv'
<1>1. ASSUME NEW p \in Payload, Process(p) PROVE CapsInv'
  <2>1. ~TooLong(p) /\ p # None /\ Dealt(p) /\ CountOf(p) = Count(p)
    BY <1>1, CapsAssumption DEF Process, Dealt, CountOf
  <2>2. DataLen(p) \in Nat /\ Lines(p) \in Seq(RightLines(Append(capture, p)))
    BY <2>1, PayloadData, NewLines
  <2>3. PICK w \in {0, DataLen(p) \div 2, DataLen(p)} : written' = Append(written, w)
    BY <1>1 DEF Process
  <2>4. w \in Nat
    BY <2>2, <2>3
  <2> QED
    BY <1>1, <2>1, <2>2, <2>3, <2>4, CapsGoesOn DEF Process
<1>2. CASE NoPayload
  <2>1. Dealt(None) /\ CountOf(None) = 0
    BY DEF Dealt, CountOf
  <2>2. <<>> \in Seq(RightLines(Append(capture, None))) /\ lines \in Seq(RightLines(capture))
    BY EmptySeq DEF CapsInv
  <2>3. lines' = lines \o <<>>
    BY <1>2, <2>2, ConcatEmptySeq DEF NoPayload
  <2>4. index' = index + 0
    <3>1. index \in Int
      BY DealtData, TotalSteps, LenProperties DEF CapsInv
    <3> QED
      BY <1>2, <3>1 DEF NoPayload
  <2>5. None \in Payload \cup {None} /\ 0 \in Nat
    OBVIOUS
  <2>6. capture' = Append(capture, None) /\ written' = Append(written, 0)
    BY <1>2 DEF NoPayload
  <2> QED
    BY <2>1, <2>2, <2>3, <2>4, <2>5, <2>6, CapsGoesOn, Zenon
<1>3. CASE UNCHANGED <<capture, index, written, lines>>
  BY <1>3 DEF CapsInv
<1>4. CASE \E p \in Payload : OutOfRange(p)
  BY <1>3, <1>4 DEF OutOfRange
<1>5. CASE EndOfCapture \/ CapsEnded \/ UNCHANGED capsVars
  BY <1>3, <1>5 DEF EndOfCapture, CapsEnded, capsVars
<1> QED
  BY <1>1, <1>2, <1>4, <1>5 DEF CapsNext

\* What was written of a payload is its whole packets, and what it has beyond them.
LEMMA BytesInFront ==
  ASSUME CapsInv, \A i \in DOMAIN capture : written[i] = DataOf(i),
         NEW m \in 0 .. Len(capture)
  PROVE  /\ Total(written, m) = 188 * Total(Counts(capture), m) + Total(Rests, m)
         /\ Total(Counts(capture), m) \in Int /\ Total(Rests, m) \in Int
<1> DEFINE F == Counts(capture)
           G == Rests
<1>0. /\ Len(capture) \in Nat /\ DOMAIN capture = 1 .. Len(capture)
      /\ DOMAIN written = 1 .. Len(capture) /\ DOMAIN F = 1 .. Len(capture) /\ DOMAIN G = 1 .. Len(capture)
      /\ \A i \in DOMAIN capture : Dealt(capture[i])
  BY LenProperties DEF CapsInv, Rests, Counts
<1>1. ASSUME NEW i \in 1 .. Len(capture)
      PROVE  written[i] = 188 * F[i] + G[i] /\ written[i] \in Int /\ F[i] \in Int /\ G[i] \in Int
  <2>0. written[i] = DataOf(i) /\ F[i] = CountOf(capture[i]) /\ G[i] = DataOf(i) % 188
    BY <1>0 DEF Rests, Counts, TsPktSize
  <2>1. CASE capture[i] = None
    <3>1. DataOf(i) = 0 /\ F[i] = 0
      BY <2>0, <2>1 DEF DataOf, CountOf
    <3> QED
      BY <2>0, <3>1
  <2>2. CASE capture[i] # None
    <3>1. capture[i] \in Payload /\ ~TooLong(capture[i])
      BY <1>0, <2>2 DEF Dealt
    <3>2. DataOf(i) = DataLen(capture[i]) /\ F[i] = Count(capture[i])
      BY <2>0, <2>2 DEF DataOf, CountOf
    <3> QED
      BY <2>0, <3>1, <3>2, PayloadData DEF TsPktSize
  <2> QED
    BY <2>1, <2>2
<1> HIDE DEF F, G
<1>2. /\ \A i \in DOMAIN written : written[i] \in Int
      /\ \A i \in DOMAIN F : F[i] \in Int
      /\ \A i \in DOMAIN G : G[i] \in Int
  BY <1>0, <1>1
<1>3. \A j \in Nat : Total(written, j) \in Int /\ Total(F, j) \in Int /\ Total(G, j) \in Int
  BY <1>2, TotalSteps
<1> DEFINE S == {j \in Nat : j <= Len(capture) => Total(written, j) = 188 * Total(F, j) + Total(G, j)}
<1>4. 0 \in S
  BY <1>2, TotalSteps
<1>5. ASSUME NEW j \in Nat, j \in S PROVE j + 1 \in S
  <2>1. ASSUME j + 1 <= Len(capture)
        PROVE  Total(written, j + 1) = 188 * Total(F, j + 1) + Total(G, j + 1)
    <3>1. j + 1 \in 1 .. Len(capture) /\ Total(written, j) = 188 * Total(F, j) + Total(G, j)
      BY <1>0, <1>5, <2>1
    <3>2. /\ Total(written, j + 1) = Total(written, j) + written[j + 1]
          /\ Total(F, j + 1) = Total(F, j) + F[j + 1]
          /\ Total(G, j + 1) = Total(G, j) + G[j + 1]
      BY <1>0, <1>2, <3>1, TotalSteps
    <3>3. /\ written[j + 1] = 188 * F[j + 1] + G[j + 1]
          /\ written[j + 1] \in Int /\ F[j + 1] \in Int /\ G[j + 1] \in Int
      BY <1>1, <3>1
    <3>4. Total(written, j) \in Int /\ Total(F, j) \in Int /\ Total(G, j) \in Int
      BY <1>3
    <3>5. \A a, b, c, d, e, f \in Int :
            a = 188 * b + c /\ d = 188 * e + f => a + d = 188 * (b + e) + (c + f)
      OBVIOUS
    <3>6. Total(written, j) + written[j + 1] = 188 * (Total(F, j) + F[j + 1]) + (Total(G, j) + G[j + 1])
      BY <3>1, <3>3, <3>4, <3>5
    <3> QED
      BY <3>2, <3>6
  <2> QED
    BY <2>1
<1> HIDE DEF S
<1>6. m \in S /\ m \in Nat /\ m <= Len(capture)
  BY <1>0, <1>4, <1>5, ReachesAll
<1> QED
  BY <1>3, <1>6 DEF S, F, G

LEMMA CapsInvPoints == ASSUME CapsInv PROVE LinesPointIntoTheFile
<1> SUFFICES ASSUME \A i \in DOMAIN capture : written[i] = DataOf(i), NEW j \in DOMAIN lines
             PROVE  /\ Total(written, lines[j].of - 1) + (lines[j].nth - 1) * TsPktSize
                         = lines[j].index * TsPktSize + Total(Rests, lines[j].of - 1)
                    /\ capture[lines[j].of].kinds[lines[j].nth] = "pcr"
  BY DEF LinesPointIntoTheFile
<1> DEFINE l == lines[j]
<1>1. l \in RightLines(capture)
  BY ElementOfSeq, LenProperties DEF CapsInv
<1>2. Len(capture) \in Nat /\ DOMAIN capture = 1 .. Len(capture)
  BY LenProperties DEF CapsInv
<1> HIDE DEF l
<1> DEFINE m == l.of - 1
<1>3. /\ m \in 0 .. Len(capture) /\ l.nth \in Int /\ l.index \in Int
      /\ l.index = Total(Counts(capture), m) + l.nth - 1
      /\ capture[l.of].kinds[l.nth] = "pcr"
  BY <1>1, <1>2 DEF RightLines
<1> HIDE DEF m
<1>4. /\ Total(written, m) = 188 * Total(Counts(capture), m) + Total(Rests, m)
      /\ Total(Counts(capture), m) \in Int /\ Total(Rests, m) \in Int
  BY <1>3, BytesInFront
<1>5. Total(written, m) + (l.nth - 1) * 188 = l.index * 188 + Total(Rests, m)
  BY <1>3, <1>4
<1> QED
  BY <1>3, <1>5 DEF l, m, TsPktSize

\* While every write goes through, the packet a line is about stands in the file
\* where its index says, but for what payloads in front of it have beyond whole
\* packets: for captures of any length, with payloads of any lengths and contents.
THEOREM LinesPoint == CapsSpec => []LinesPointIntoTheFile
<1>1. CapsInit => CapsInv
  BY CapsBegins
<1>2. CapsInv /\ [CapsNext]_capsVars => CapsInv'
  BY CapsStep
<1>3. CapsInv => LinesPointIntoTheFile
  BY CapsInvPoints
<1> QED
  BY <1>1, <1>2, <1>3, PTL DEF CapsSpec

-----------------------------------------------------------------------------
(* The private data of adaptation fields *)

Lengths(fields) == [j \in DOMAIN fields |-> 2 + fields[j].len]

LEMMA StartIsTotal == \A fields, i : Start(fields, i) = Total(Lengths(fields), i - 1)
BY DEF Start, Lengths

LEMMA FieldsTyped ==
  ASSUME NEW d \in Data
  PROVE  /\ d.fields \in Seq(Field) /\ Len(d.fields) \in Nat /\ DOMAIN d.fields = 1 .. Len(d.fields)
         /\ d.size \in Nat /\ Len(d.fields) <= MaxList /\ MaxList \in Nat
         /\ \A i \in 1 .. Len(d.fields) :
              d.fields[i] \in Field /\ d.fields[i].len \in Nat /\ d.fields[i].need \in Nat
<1>1. d.fields \in Seq(Field) /\ d.size \in Nat /\ Len(d.fields) <= MaxList /\ MaxList \in Nat
  BY PrivAssumption
<1>2. \A f \in Field : f.len \in Nat /\ f.need \in Nat
  BY DEF Field
<1> QED
  BY <1>1, <1>2, LenProperties, ElementOfSeq

\* A field begins where the one before it ends, and behind all before that.
LEMMA FieldsFollow ==
  ASSUME NEW d \in Data,
         NEW i \in 0 .. Len(d.fields), NEW j \in 0 .. Len(d.fields), i < j
  PROVE  /\ Total(Lengths(d.fields), i) \in Nat /\ Total(Lengths(d.fields), j) \in Nat
         /\ Total(Lengths(d.fields), i + 1) = Total(Lengths(d.fields), i) + 2 + d.fields[i + 1].len
         /\ Total(Lengths(d.fields), i) + 2 + d.fields[i + 1].len <= Total(Lengths(d.fields), j)
<1> DEFINE f == Lengths(d.fields)
           len == Len(d.fields)
<1>1. /\ len \in Nat /\ DOMAIN f = 1 .. len
      /\ \A m \in 1 .. len : f[m] = 2 + d.fields[m].len /\ d.fields[m].len \in Nat
  BY FieldsTyped DEF Lengths
<1> HIDE DEF f, len
<1>2. /\ \A m \in DOMAIN f : f[m] \in Nat \ {0}
      /\ \A m \in DOMAIN f : f[m] \in Nat
      /\ \A m \in DOMAIN f : f[m] \in Int
  <2>1. ASSUME NEW m \in DOMAIN f PROVE f[m] \in Nat \ {0} /\ f[m] \in Nat /\ f[m] \in Int
    <3>1. f[m] = 2 + d.fields[m].len /\ d.fields[m].len \in Nat
      BY <1>1
    <3> QED
      BY <3>1
  <2> QED
    BY <2>1
<1>3. i \in Nat /\ j \in Nat /\ i < j /\ 1 .. j \subseteq DOMAIN f /\ i + 1 \in DOMAIN f /\ i + 1 \in 1 .. len
  BY <1>1 DEF len
<1>4. Total(f, i) + f[i + 1] <= Total(f, j)
  BY <1>2, <1>3, TotalIncreases
<1>5. Total(f, i) \in Nat /\ Total(f, j) \in Nat
  BY <1>2, <1>3, TotalGrows
<1>6. Total(f, i + 1) = Total(f, i) + f[i + 1]
  BY <1>2, <1>3, TotalSteps
<1>7. f[i + 1] = 2 + d.fields[i + 1].len /\ d.fields[i + 1].len \in Nat
  BY <1>1, <1>3
<1> QED
  BY <1>4, <1>5, <1>6, <1>7 DEF f

\* Where the parser stands at a field of well-formed data, it sees that field, has
\* what it reads of it, and moves on to where the next one begins.
LEMMA AtItsField ==
  ASSUME NEW d \in Data, pkts[packet] = d, WellFormed(d),
         NEW m \in 0 .. Len(d.fields), offset = Start(d.fields, m + 1), offset < d.size
  PROVE  /\ m < Len(d.fields) /\ FieldSeen = d.fields[m + 1]
         /\ Readable(FieldSeen)
         /\ offset + Moved(FieldSeen) = Start(d.fields, m + 2)
<1> DEFINE f == Lengths(d.fields)
           len == Len(d.fields)
           e == d.fields[m + 1]
<1>0. len \in Nat /\ DOMAIN d.fields = 1 .. len /\ d.size \in Nat
  BY FieldsTyped
<1>1. offset = Total(f, m) /\ d.size = Total(f, len)
  <2>1. (m + 1) - 1 = m /\ (len + 1) - 1 = len
    BY <1>0
  <2> QED
    BY <2>1, StartIsTotal DEF WellFormed
<1>2. m < len
  BY <1>0, <1>1
<1>3. /\ Total(f, m) \in Nat /\ Total(f, m + 1) = Total(f, m) + 2 + e.len
      /\ Total(f, m) + 2 + e.len <= Total(f, len)
  BY <1>0, <1>2, FieldsFollow
<1>4. m + 1 \in 1 .. len /\ e.len \in Nat /\ e.need \in Nat
      /\ e.need <= d.size - Start(d.fields, m + 1) - 2 /\ e.len < Values - 2
  <2>1. m + 1 \in 1 .. len
    BY <1>0, <1>2
  <2> HIDE DEF len
  <2> QED
    BY <1>0, <2>1, FieldsTyped DEF WellFormed, len
<1>5. \A i \in 1 .. len : Total(f, i - 1) = Total(f, m) => i = m + 1
  <2> SUFFICES ASSUME NEW i \in 1 .. len, i - 1 # m PROVE Total(f, i - 1) # Total(f, m)
    BY <1>0, <1>2
  <2>0. i - 1 \in 0 .. len
    BY <1>0
  <2>1. CASE i - 1 < m
    <3>1. /\ Total(f, i - 1) \in Nat /\ Total(f, i - 1) + 2 + d.fields[(i - 1) + 1].len <= Total(f, m)
          /\ (i - 1) + 1 = i
      BY <2>0, <2>1, FieldsFollow
    <3>2. d.fields[i].len \in Nat
      BY FieldsTyped
    <3> QED
      BY <1>3, <3>1, <3>2
  <2>2. CASE m < i - 1
    <3>1. Total(f, i - 1) \in Nat /\ Total(f, m) + 2 + e.len <= Total(f, i - 1)
      BY <2>0, <2>2, FieldsFollow
    <3> QED
      BY <1>3, <1>4, <3>1
  <2> QED
    BY <1>0, <2>0, <2>1, <2>2
<1>6. FieldSeen = e
  <2> DEFINE here == {i \in DOMAIN d.fields : Start(d.fields, i) = offset}
  <2>1. \A i \in 1 .. len : Start(d.fields, i) = Total(f, i - 1)
    BY StartIsTotal
  <2>2. (m + 1) - 1 = m
    OBVIOUS
  <2>3. here = {m + 1}
    BY <1>0, <1>1, <1>4, <1>5, <2>1, <2>2
  <2> HIDE DEF here
  <2>4. (CHOOSE i \in here : TRUE) = m + 1 /\ here # {}
    BY <2>3
  <2> QED
    BY <2>4 DEF FieldSeen, here
<1> HIDE DEF e
<1>7. Moved(e) = 2 + e.len
  <2>1. Values \in Nat /\ 2 + e.len \in Nat /\ 2 + e.len < Values
    BY <1>4, PrivAssumption
  <2>2. \A a, b \in Nat : a < b => a % b = a
    OBVIOUS
  <2> QED
    BY <2>1, <2>2 DEF Moved
<1>8. Readable(e)
  <2>1. pkts[packet].size - offset = Total(f, len) - Total(f, m)
    BY <1>1
  <2>2. Total(f, len) \in Int
    BY <1>0, <1>1
  <2>3. e.need <= (pkts[packet].size - offset) - 2
    BY <1>4
  <2> QED
    BY <1>3, <1>4, <1>7, <2>1, <2>2, <2>3 DEF Readable
<1>9. offset + Moved(e) = Start(d.fields, m + 2)
  <2>1. (m + 2) - 1 = m + 1
    OBVIOUS
  <2> QED
    BY <1>1, <1>3, <1>4, <1>7, <2>1, StartIsTotal
<1> QED
  BY <1>2, <1>6, <1>8, <1>9 DEF e

\* Inductive: for well-formed data the report is that of the packets dealt with, and
\* within the loop the list has the fields in front of which the parser stands.
Whole == \A i \in DOMAIN pkts : pkts[i] # Nil => WellFormed(pkts[i])

Reported == IF log = Nil THEN \A i \in 1 .. packet - 1 : pkts[i] = Nil ELSE log = Expected(packet - 1)

InFields(fields) ==
  /\ Len(privList) \in 0 .. Len(fields) /\ privList \in Seq(Field)
  /\ \A i \in 1 .. Len(privList) : privList[i] = fields[i]
  /\ offset = Start(fields, Len(privList) + 1)

InLoop == pkts[packet] # Nil /\ log # Nil /\ InFields(pkts[packet].fields)

PrivInv ==
  /\ pkts \in Seq(Data \cup {Nil}) /\ packet \in 1 .. Len(pkts) + 1
  /\ stage = "loop" => packet <= Len(pkts)
  /\ Whole => stage # "panic" /\ Reported /\ (stage = "loop" => InLoop)

LEMMA LinesTyped ==
  ASSUME NEW pos \in Nat, NEW d \in Data
  PROVE  LogLines(pos, d.fields) \in Seq(LogLine)
<1> DEFINE l(i) == [pos |-> pos, tag |-> d.fields[i].tag, len |-> d.fields[i].len]
<1>1. Len(d.fields) \in Nat /\ DOMAIN d.fields = 1 .. Len(d.fields)
  BY FieldsTyped
<1>2. \A i \in 1 .. Len(d.fields) : l(i) \in LogLine
  BY FieldsTyped DEF Field, LogLine
<1>3. LogLines(pos, d.fields) = [i \in 1 .. Len(d.fields) |-> l(i)]
  BY <1>1 DEF LogLines
<1> HIDE DEF l
<1> QED
  BY <1>1, <1>2, <1>3, IsASeq

\* What is expected of the first j packets, and of one more.
LEMMA ExpectedSteps ==
  ASSUME pkts \in Seq(Data \cup {Nil})
  PROVE  /\ Expected(0) = <<>>
         /\ \A j \in 0 .. Len(pkts) - 1 :
              /\ Expected(j) \in Seq(LogLine)
              /\ pkts[j + 1] = Nil => Expected(j + 1) = Expected(j)
              /\ pkts[j + 1] # Nil => Expected(j + 1) = Expected(j) \o LogLines(j + 1, pkts[j + 1].fields)
         /\ Expected(Len(pkts)) \in Seq(LogLine)
<1> DEFINE F == [i \in DOMAIN pkts |-> IF pkts[i] = Nil THEN <<>> ELSE LogLines(i, pkts[i].fields)]
<1>1. Len(pkts) \in Nat /\ DOMAIN pkts = 1 .. Len(pkts)
      /\ \A i \in 1 .. Len(pkts) : pkts[i] \in Data \cup {Nil}
  BY LenProperties, ElementOfSeq
<1>2. \A i \in DOMAIN F : F[i] \in Seq(LogLine)
  <2> SUFFICES ASSUME NEW i \in 1 .. Len(pkts) PROVE F[i] \in Seq(LogLine)
    BY <1>1
  <2>1. CASE pkts[i] = Nil
    BY <1>1, <2>1, EmptySeq
  <2>2. CASE pkts[i] # Nil
    <3>1. pkts[i] \in Data /\ i \in Nat /\ F[i] = LogLines(i, pkts[i].fields)
      BY <1>1, <2>2
    <3> QED
      BY <3>1, LinesTyped
  <2> QED
    BY <2>1, <2>2
<1>3. \A j : Expected(j) = Joined(F, j)
  BY DEF Expected
<1>4. ASSUME NEW j \in 0 .. Len(pkts) - 1
      PROVE  /\ j \in Nat /\ j + 1 \in DOMAIN F
             /\ pkts[j + 1] = Nil => F[j + 1] = <<>>
             /\ pkts[j + 1] # Nil => F[j + 1] = LogLines(j + 1, pkts[j + 1].fields)
  BY <1>1
<1> HIDE DEF F
<1>5. /\ Joined(F, 0) = <<>>
      /\ \A j \in Nat : /\ Joined(F, j) \in Seq(LogLine)
                        /\ j + 1 \in DOMAIN F => Joined(F, j + 1) = Joined(F, j) \o F[j + 1]
  BY <1>2, JoinedSteps
<1>6. ASSUME NEW j \in 0 .. Len(pkts) - 1
      PROVE  /\ Expected(j) \in Seq(LogLine)
             /\ pkts[j + 1] = Nil => Expected(j + 1) = Expected(j)
             /\ pkts[j + 1] # Nil => Expected(j + 1) = Expected(j) \o LogLines(j + 1, pkts[j + 1].fields)
  <2>1. Joined(F, j) \in Seq(LogLine) /\ Joined(F, j + 1) = Joined(F, j) \o F[j + 1]
    BY <1>4, <1>5
  <2>2. Joined(F, j) \o <<>> = Joined(F, j)
    BY <2>1, ConcatEmptySeq
  <2> QED
    BY <1>3, <1>4, <2>1, <2>2
<1>7. Expected(0) = <<>> /\ Expected(Len(pkts)) \in Seq(LogLine)
  BY <1>1, <1>3, <1>5
<1> QED
  BY <1>6, <1>7

\* Packets without private data add nothing.
LEMMA ExpectedOfNone ==
  ASSUME pkts \in Seq(Data \cup {Nil}), NEW m \in 0 .. Len(pkts),
         \A i \in 1 .. m : pkts[i] = Nil
  PROVE  Expected(m) = <<>>
<1> DEFINE S == {j \in Nat : j <= m => Expected(j) = <<>>}
<1>0. Len(pkts) \in Nat
  BY LenProperties
<1>1. 0 \in S
  BY ExpectedSteps
<1>2. ASSUME NEW j \in Nat, j \in S PROVE j + 1 \in S
  <2>1. ASSUME j + 1 <= m PROVE Expected(j + 1) = <<>>
    <3>1. j \in 0 .. Len(pkts) - 1 /\ j + 1 \in 1 .. m /\ Expected(j) = <<>>
      BY <1>0, <1>2, <2>1
    <3> QED
      BY <3>1, ExpectedSteps
  <2> QED
    BY <2>1
<1> HIDE DEF S
<1>3. m \in S
  BY <1>0, <1>1, <1>2, ReachesAll
<1> QED
  BY <1>0, <1>3 DEF S

LEMMA PrivBegins == PrivInit => PrivInv
<1> SUFFICES ASSUME PrivInit PROVE PrivInv
  OBVIOUS
<1>1. PICK m \in 0 .. MaxPkts : pkts \in [1 .. m -> Data \cup {Nil}]
  BY DEF PrivInit, BoundedSeq, SeqOf
<1>2. m \in Nat
  BY PrivAssumption
<1>3. pkts \in Seq(Data \cup {Nil}) /\ Len(pkts) = m
  BY <1>1, <1>2
<1>4. packet = 1 /\ stage = "next" /\ log = Nil
  BY DEF PrivInit
<1> QED
  BY <1>2, <1>3, <1>4 DEF PrivInv, Reported

\* A packet is dealt with: the report is as expected of one packet more.
LEMMA PacketDone ==
  ASSUME PrivInv, Whole, packet <= Len(pkts),
         NEW l,
         \/ pkts[packet] = Nil /\ l = log
         \/ pkts[packet] # Nil /\ log # Nil /\ l = log \o LogLines(packet, pkts[packet].fields)
  PROVE  IF l = Nil THEN \A i \in 1 .. packet : pkts[i] = Nil ELSE l = Expected(packet)
<1>1. /\ pkts \in Seq(Data \cup {Nil}) /\ packet \in 1 .. Len(pkts) + 1 /\ Reported
      /\ Len(pkts) \in Nat
  BY LenProperties DEF PrivInv
<1>2. packet - 1 \in 0 .. Len(pkts) - 1 /\ (packet - 1) + 1 = packet /\ packet \in Nat
  BY <1>1
<1>3. /\ Expected(packet - 1) \in Seq(LogLine)
      /\ pkts[packet] = Nil => Expected(packet) = Expected(packet - 1)
      /\ pkts[packet] # Nil => Expected(packet) = Expected(packet - 1) \o LogLines(packet, pkts[packet].fields)
  BY <1>1, <1>2, ExpectedSteps
<1>4. CASE pkts[packet] = Nil /\ l = log
  <2>1. CASE l = Nil
    <3>1. \A i \in 1 .. packet - 1 : pkts[i] = Nil
      BY <1>1, <1>4, <2>1 DEF Reported
    <3>2. \A i \in 1 .. packet : i = packet \/ i \in 1 .. packet - 1
      BY <1>2
    <3> QED
      BY <1>4, <2>1, <3>1, <3>2
  <2>2. CASE l # Nil
    BY <1>1, <1>3, <1>4, <2>2 DEF Reported
  <2> QED
    BY <2>1, <2>2
<1>5. CASE pkts[packet] # Nil /\ log # Nil /\ l = log \o LogLines(packet, pkts[packet].fields)
  <2>1. l = Expected(packet)
    BY <1>1, <1>3, <1>5 DEF Reported
  <2>2. l \in Seq(LogLine)
    <3>1. pkts[packet] \in Data
      BY <1>1, <1>5, ElementOfSeq
    <3>2. LogLines(packet, pkts[packet].fields) \in Seq(LogLine)
      BY <1>2, <3>1, LinesTyped
    <3> QED
      BY <1>3, <1>5, <2>1, <3>2, ConcatProperties
  <2>3. l # Nil
    BY <2>2, PrivAssumption
  <2> QED
    BY <2>1, <2>3
<1> QED
  BY <1>4, <1>5

LEMMA PrivStep ==
  ASSUME PrivInv, [PrivNext]_privVars
  PROVE  PrivInv'
<1>0. /\ pkts \in Seq(Data \cup {Nil}) /\ packet \in 1 .. Len(pkts) + 1 /\ Len(pkts) \in Nat
  BY LenProperties DEF PrivInv
<1>u. pkts' = pkts
  BY DEF PrivNext, Step, privVars, Without, Begin, ParseField, BeyondData, WriteLines,
         NoMore, PrivEnded
<1>w. Whole' = Whole /\ \A j : Expected(j)' = Expected(j)
  BY <1>u DEF Whole, Expected
<1>s. Whole => Reported /\ stage # "panic"
  BY DEF PrivInv
<1>f. ASSUME Whole, stage = "loop"
      PROVE  /\ pkts[packet] \in Data /\ WellFormed(pkts[packet]) /\ InLoop
             /\ Len(pkts[packet].fields) \in Nat /\ packet <= Len(pkts)
             /\ pkts[packet].fields \in Seq(Field)
  <2>1. InLoop
    BY <1>f DEF PrivInv
  <2>2. packet \in 1 .. Len(pkts) /\ pkts[packet] # Nil
    BY <1>0, <1>f, <2>1 DEF InLoop, PrivInv
  <2>3. pkts[packet] \in Data
    BY <1>0, <2>2, ElementOfSeq
  <2> QED
    BY <1>0, <1>f, <2>1, <2>2, <2>3, FieldsTyped DEF Whole
<1>1. CASE Without
  <2>1. /\ stage' = "next" /\ packet' = packet + 1 /\ log' = log
        /\ packet <= Len(pkts) /\ pkts[packet] = Nil
    BY <1>1 DEF Without
  <2>2. Whole => IF log = Nil THEN \A i \in 1 .. packet : pkts[i] = Nil ELSE log = Expected(packet)
    BY <2>1, PacketDone
  <2>3. packet' - 1 = packet /\ packet' \in 1 .. Len(pkts') + 1
    BY <1>0, <1>u, <2>1
  <2>4. Whole => Reported'
    BY <1>u, <1>w, <2>1, <2>2, <2>3 DEF Reported
  <2> QED
    BY <1>0, <1>u, <1>w, <2>1, <2>3, <2>4 DEF PrivInv
<1>2. CASE Begin
  <2>1. /\ stage' = "loop" /\ packet' = packet /\ offset' = 0 /\ privList' = <<>>
        /\ packet <= Len(pkts) /\ pkts[packet] # Nil /\ packet \in 1 .. Len(pkts)
        /\ log' = IF log = Nil THEN <<>> ELSE log
    BY <1>0, <1>2 DEF Begin
  <2>2. <<>> # Nil
    BY EmptySeq, PrivAssumption
  <2>3. Whole => Reported' /\ log' # Nil
    <3>1. CASE log = Nil
      <4>1. ASSUME Whole PROVE Expected(packet - 1) = <<>>
        <5>1. packet - 1 \in 0 .. Len(pkts) /\ \A i \in 1 .. packet - 1 : pkts[i] = Nil
          BY <1>0, <1>s, <3>1, <4>1 DEF Reported
        <5> QED
          BY <1>0, <5>1, ExpectedOfNone
      <4> QED
        BY <1>w, <2>1, <2>2, <3>1, <4>1 DEF Reported
    <3>2. CASE log # Nil
      BY <1>s, <1>w, <2>1, <3>2 DEF Reported
    <3> QED
      BY <3>1, <3>2
  <2>4. ASSUME Whole PROVE InFields(pkts[packet].fields)'
    <3>1. pkts[packet] \in Data
      BY <1>0, <2>1, ElementOfSeq
    <3>2. Start(pkts[packet].fields, 1) = 0
      <4>1. Total(Lengths(pkts[packet].fields), 0) = 0
        <5> DEFINE f == pkts[packet].fields
        <5>1. DOMAIN f = 1 .. Len(f) /\ \A i \in 1 .. Len(f) : f[i].len \in Nat
          BY <3>1, FieldsTyped
        <5> HIDE DEF f
        <5>2. \A i \in DOMAIN Lengths(f) : Lengths(f)[i] \in Int
          BY <5>1 DEF Lengths
        <5>3. Total(Lengths(f), 0) = 0
          BY <5>2, TotalSteps
        <5> QED
          BY <5>3 DEF f
      <4> QED
        BY <4>1, StartIsTotal
    <3>3. Len(pkts[packet].fields) \in Nat
      BY <3>1, FieldsTyped
    <3>4. Len(privList') = 0 /\ privList' \in Seq(Field)
      BY <2>1, EmptySeq
    <3>5. Len(privList') + 1 = 1 /\ \A i \in 1 .. Len(privList') : FALSE
      BY <3>4
    <3>6. Start(pkts'[packet'].fields, Len(privList') + 1) = 0
      BY <1>u, <2>1, <3>2, <3>5
    <3> QED
      BY <1>u, <2>1, <3>3, <3>4, <3>5, <3>6 DEF InFields, Start
  <2> QED
    BY <1>0, <1>u, <1>w, <2>1, <2>3, <2>4 DEF PrivInv, InLoop
<1>3. CASE ParseField
  <2>1. /\ stage = "loop" /\ offset < pkts[packet].size
        /\ privList' = IF Len(privList) < MaxList THEN Append(privList, FieldSeen) ELSE privList
        /\ offset' = offset + Moved(FieldSeen)
        /\ stage' = stage /\ packet' = packet /\ log' = log
    BY <1>3 DEF ParseField
  <2>2. ASSUME Whole PROVE InFields(pkts[packet].fields)'
    <3> DEFINE d == pkts[packet]
               m == Len(privList)
    <3>1. /\ d \in Data /\ WellFormed(d) /\ m \in 0 .. Len(d.fields) /\ offset = Start(d.fields, m + 1)
          /\ privList \in Seq(Field) /\ \A i \in 1 .. m : privList[i] = d.fields[i]
      BY <1>f, <2>1, <2>2 DEF InLoop, InFields
    <3>2. /\ m < Len(d.fields) /\ FieldSeen = d.fields[m + 1]
          /\ offset + Moved(FieldSeen) = Start(d.fields, m + 2)
      BY <2>1, <3>1, AtItsField
    <3>3. Len(d.fields) \in Nat /\ Len(d.fields) <= MaxList /\ MaxList \in Nat /\ m \in Nat
          /\ d.fields[m + 1] \in Field
      BY <3>1, <3>2, FieldsTyped
    <3>4. privList' = Append(privList, d.fields[m + 1])
      BY <2>1, <3>2, <3>3
    <3>5. /\ privList' \in Seq(Field) /\ Len(privList') = m + 1 /\ privList'[m + 1] = d.fields[m + 1]
          /\ \A i \in 1 .. m : privList'[i] = privList[i]
      BY <3>1, <3>3, <3>4, AppendProperties
    <3>6. d' = d
      BY <1>u, <2>1
    <3>7. offset' = Start(d.fields, Len(privList') + 1)
      <4>1. (m + 1) + 1 = m + 2
        BY <3>3
      <4> QED
        BY <2>1, <3>2, <3>5, <4>1
    <3> HIDE DEF d, m
    <3>8. \A i \in 1 .. Len(privList') : privList'[i] = d.fields[i]
      BY <3>1, <3>3, <3>5
    <3>9. Len(privList') \in 0 .. Len(d.fields)
      BY <3>2, <3>3, <3>5
    <3> QED
      BY <3>5, <3>6, <3>7, <3>8, <3>9 DEF InFields, Start, d
  <2>3. Whole => Reported' /\ pkts'[packet'] # Nil /\ log' # Nil
    BY <1>f, <1>s, <1>u, <1>w, <2>1 DEF Reported, InLoop
  <2> QED
    BY <1>0, <1>u, <1>w, <2>1, <2>2, <2>3 DEF PrivInv, InLoop
<1>4. CASE BeyondData
  <2>1. ASSUME Whole PROVE FALSE
    <3> DEFINE d == pkts[packet]
               m == Len(privList)
    <3>1. stage = "loop" /\ offset < d.size /\ ~Readable(FieldSeen)
      BY <1>4 DEF BeyondData
    <3>2. d \in Data /\ WellFormed(d) /\ m \in 0 .. Len(d.fields) /\ offset = Start(d.fields, m + 1)
      BY <1>f, <2>1, <3>1 DEF InLoop, InFields
    <3> QED
      BY <3>1, <3>2, AtItsField
  <2> QED
    BY <1>0, <1>4, <1>u, <1>w, <2>1 DEF BeyondData, PrivInv
<1>5. CASE WriteLines
  <2>1. /\ stage = "loop" /\ offset >= pkts[packet].size
        /\ log' = log \o LogLines(packet, privList)
        /\ stage' = "next" /\ packet' = packet + 1
    BY <1>5 DEF WriteLines
  <2>2. ASSUME Whole PROVE Reported'
    <3> DEFINE d == pkts[packet]
               m == Len(privList)
    <3>1. /\ d \in Data /\ WellFormed(d) /\ m \in 0 .. Len(d.fields) /\ offset = Start(d.fields, m + 1)
          /\ privList \in Seq(Field) /\ \A i \in 1 .. m : privList[i] = d.fields[i]
          /\ d.fields \in Seq(Field) /\ Len(d.fields) \in Nat /\ d.size \in Nat
          /\ packet <= Len(pkts) /\ d # Nil /\ log # Nil
      BY <1>f, <2>1, <2>2, FieldsTyped DEF InLoop, InFields
    <3>2. m = Len(d.fields)
      <4> SUFFICES ASSUME m < Len(d.fields) PROVE FALSE
        BY <3>1
      <4>1. offset = Total(Lengths(d.fields), m) /\ d.size = Total(Lengths(d.fields), Len(d.fields))
        <5>1. (m + 1) - 1 = m /\ (Len(d.fields) + 1) - 1 = Len(d.fields)
          BY <3>1
        <5> QED
          BY <3>1, <5>1, StartIsTotal DEF WellFormed
      <4>2. /\ Total(Lengths(d.fields), m) \in Nat
            /\ Total(Lengths(d.fields), m) + 2 + d.fields[m + 1].len <= Total(Lengths(d.fields), Len(d.fields))
        <5>1. Len(d.fields) \in 0 .. Len(d.fields)
          BY <3>1
        <5> QED
          BY <3>1, <5>1, FieldsFollow
      <4>3. d.fields[m + 1].len \in Nat
        <5>1. m + 1 \in 1 .. Len(d.fields)
          BY <3>1
        <5> QED
          BY <3>1, <5>1, FieldsTyped
      <4> QED
        BY <2>1, <3>1, <4>1, <4>2, <4>3
    <3>3. privList = d.fields
      BY <3>1, <3>2, SeqEqual
    <3>4. log' = log \o LogLines(packet, d.fields)
      BY <2>1, <3>3
    <3>5. IF log' = Nil THEN \A i \in 1 .. packet : pkts[i] = Nil ELSE log' = Expected(packet)
      BY <2>2, <3>1, <3>4, PacketDone
    <3>6. packet' - 1 = packet
      BY <1>0, <2>1
    <3> QED
      BY <1>0, <1>u, <1>w, <2>1, <3>1, <3>5, <3>6 DEF Reported
  <2>3. packet' \in 1 .. Len(pkts') + 1
    BY <1>0, <1>u, <2>1 DEF PrivInv
  <2> QED
    BY <1>0, <1>u, <1>w, <2>1, <2>2, <2>3 DEF PrivInv
<1>6. CASE NoMore \/ PrivEnded \/ UNCHANGED privVars
  <2>1. packet' = packet /\ log' = log /\ offset' = offset /\ privList' = privList
        /\ (stage' = stage \/ stage' = "done")
    BY <1>6 DEF NoMore, PrivEnded, privVars
  <2>2. Reported' = Reported
    BY <1>u, <1>w, <2>1 DEF Reported
  <2>3. stage' = stage => InLoop' = InLoop
    BY <1>u, <2>1 DEF InLoop, InFields, Start
  <2> QED
    BY <1>0, <1>u, <1>w, <2>1, <2>2, <2>3 DEF PrivInv
<1> QED
  BY <1>1, <1>2, <1>3, <1>4, <1>5, <1>6 DEF PrivNext, Step

\* The report has every field of every packet dealt with, in order, and the parser
\* does not panic, when the data is well formed: for packets in any number, with
\* fields in any number and of any lengths that fit a byte.
THEOREM LogIs == PrivSpec => []LogIsTheStream
<1>1. PrivInit => PrivInv
  BY PrivBegins
<1>2. PrivInv /\ [PrivNext]_privVars => PrivInv'
  BY PrivStep
<1>3. PrivInv => LogIsTheStream
  BY DEF PrivInv, Whole, Reported, LogIsTheStream
<1> QED
  BY <1>1, <1>2, <1>3, PTL DEF PrivSpec

-----------------------------------------------------------------------------
(* Splice sections *)

\* The calls that do not go back.
Forward == [op : {"read", "bits", "bytes"}, n : Nat]

LEMMA CallsTyped ==
  \A m \in Nat : /\ ReadBit(m) \in Forward /\ SkipBit(m) \in Forward /\ SkipByte(m) \in Forward
BY DEF Forward, ReadBit, SkipBit, SkipByte

LEMMA BytesNat == ASSUME NEW c \in Seq(Forward) PROVE BytesOf(c) \in Nat
<1> DEFINE f == [i \in DOMAIN c |-> c[i].n * (IF c[i].op = "bytes" THEN 8 ELSE 1)]
<1>1. \A i \in DOMAIN f : f[i] \in Nat
  <2> SUFFICES ASSUME NEW i \in DOMAIN c PROVE f[i] \in Nat
    OBVIOUS
  <2>0. c[i] \in Forward
    BY ElementOfSeq, LenProperties
  <2>1. c[i].n \in Nat
    BY <2>0 DEF Forward
  <2> QED
    BY <2>1
<1>2. Len(c) \in Nat
  BY LenProperties
<1>3. BitsOf(c) = Total(f, Len(c))
  BY DEF BitsOf
<1> HIDE DEF f
<1>4. BitsOf(c) \in Nat
  BY <1>1, <1>2, <1>3, TotalGrows
<1> QED
  BY <1>4 DEF BytesOf

\* What the parsers of a section read are sequences of calls.
LEMMA CallsJoin ==
  /\ \A c, d \in Seq(Forward) : c \o d \in Seq(Forward)
  /\ \A b, c : c \in Seq(Forward) => When(b, c) \in Seq(Forward)
  /\ \A m \in Nat : Flags(m) \in Seq(Forward) /\ <<ReadBit(m)>> \in Seq(Forward)
<1>1. \A c, d \in Seq(Forward) : c \o d \in Seq(Forward)
  BY ConcatProperties
<1>2. \A b, c : c \in Seq(Forward) => When(b, c) \in Seq(Forward)
  BY EmptySeq DEF When
<1>3. ASSUME NEW m \in Nat PROVE Flags(m) \in Seq(Forward) /\ <<ReadBit(m)>> \in Seq(Forward)
  <2>1. ReadBit(1) \in Forward /\ ReadBit(m) \in Forward
    BY CallsTyped
  <2> QED
    BY <2>1, IsASeq DEF Flags
<1> QED
  BY <1>1, <1>2, <1>3

LEMMA SpliceTimeCalls == ASSUME NEW b PROVE SpliceTime(b) \in Seq(Forward)
<1>1. /\ <<ReadBit(1)>> \in Seq(Forward) /\ <<ReadBit(7)>> \in Seq(Forward)
      /\ <<ReadBit(6), ReadBit(33)>> \in Seq(Forward)
  BY CallsTyped
<1>2. SpliceTime(b) = <<ReadBit(1)>> \o <<ReadBit(6), ReadBit(33)>>
        \/ SpliceTime(b) = <<ReadBit(1)>> \o <<ReadBit(7)>>
  BY DEF SpliceTime
<1> QED
  BY <1>1, <1>2, CallsJoin

LEMMA JoinedCalls ==
  ASSUME NEW c \in Seq(Forward), NEW m \in Nat
  PROVE  Joined([i \in 1 .. m |-> c], m) \in Seq(Forward)
<1> DEFINE f == [i \in 1 .. m |-> c]
<1>1. \A i \in DOMAIN f : f[i] \in Seq(Forward)
  OBVIOUS
<1> HIDE DEF f
<1>2. Joined(f, m) \in Seq(Forward)
  BY <1>1, JoinedSteps
<1> QED
  BY <1>2 DEF f

LEMMA InsertCalls == ASSUME NEW c \in Inserts PROVE SpliceInsert(c) \in Seq(Forward)
<1>0. c.components \in Nat
  BY DEF Inserts
<1>1. /\ <<ReadBit(8)>> \in Seq(Forward) /\ <<ReadBit(4)>> \in Seq(Forward)
      /\ <<ReadBit(32), ReadBit(1), ReadBit(7)>> \in Seq(Forward)
      /\ <<ReadBit(16), ReadBit(8), ReadBit(8)>> \in Seq(Forward)
      /\ BreakDuration \in Seq(Forward) /\ Flags(4) \in Seq(Forward)
  BY CallsTyped, CallsJoin DEF BreakDuration
<1>2. Components(c.components, c.immediate, c.specified) \in Seq(Forward)
  <2> DEFINE one == <<ReadBit(8)>> \o When(~c.immediate, SpliceTime(c.specified))
  <2>1. one \in Seq(Forward)
    BY <1>1, CallsJoin, SpliceTimeCalls
  <2>2. Components(c.components, c.immediate, c.specified)
          = <<ReadBit(8)>> \o Joined([i \in 1 .. c.components |-> one], c.components)
    BY DEF Components
  <2> HIDE DEF one
  <2>3. Joined([i \in 1 .. c.components |-> one], c.components) \in Seq(Forward)
    BY <1>0, <2>1, JoinedCalls
  <2> QED
    BY <1>1, <2>2, <2>3, CallsJoin
<1> DEFINE u == When(c.program /\ ~c.immediate, SpliceTime(c.specified))
           w == When(~c.program, Components(c.components, c.immediate, c.specified))
           x == When(c.duration, BreakDuration)
<1>3. u \in Seq(Forward) /\ w \in Seq(Forward) /\ x \in Seq(Forward)
  BY <1>1, <1>2, CallsJoin, SpliceTimeCalls
<1>4. SpliceInsert(c) = <<ReadBit(32), ReadBit(1), ReadBit(7)>>
        \o When(~c.cancel, Flags(4) \o <<ReadBit(4)>> \o u \o w \o x
                               \o <<ReadBit(16), ReadBit(8), ReadBit(8)>>)
  BY DEF SpliceInsert
<1> HIDE DEF u, w, x
<1>5. Flags(4) \o <<ReadBit(4)>> \o u \o w \o x \o <<ReadBit(16), ReadBit(8), ReadBit(8)>>
        \in Seq(Forward)
  BY <1>1, <1>3, CallsJoin
<1> QED
  BY <1>1, <1>4, <1>5, CallsJoin

LEMMA SegmentCalls == ASSUME NEW d \in Segments PROVE SegmentDescriptor(d) \in Seq(Forward)
<1>0. d.components \in Nat /\ d.upid \in Nat
  BY DEF Segments
<1>1. /\ <<ReadBit(8)>> \in Seq(Forward) /\ <<ReadBit(2)>> \in Seq(Forward)
      /\ <<ReadBit(5)>> \in Seq(Forward) /\ Flags(3) \in Seq(Forward)
      /\ <<ReadBit(32), ReadBit(1), ReadBit(7)>> \in Seq(Forward)
      /\ <<ReadBit(8), ReadBit(7), ReadBit(33)>> \in Seq(Forward)
      /\ <<SkipBit(7), ReadBit(33)>> \in Seq(Forward)
      /\ <<ReadBit(8), ReadBit(8), SkipByte(d.upid), ReadBit(8), ReadBit(8), ReadBit(8)>>
           \in Seq(Forward)
  <2>1. /\ ReadBit(8) \in Forward /\ ReadBit(7) \in Forward /\ ReadBit(33) \in Forward
        /\ ReadBit(32) \in Forward /\ ReadBit(1) \in Forward /\ ReadBit(2) \in Forward
        /\ ReadBit(5) \in Forward /\ SkipBit(7) \in Forward /\ SkipByte(d.upid) \in Forward
    BY <1>0, CallsTyped
  <2>2. Flags(3) \in Seq(Forward)
    BY CallsJoin
  <2> QED
    BY <2>1, <2>2
<1> DEFINE one == <<ReadBit(8), ReadBit(7), ReadBit(33)>>
           r == IF d.restricted THEN Flags(3) \o <<ReadBit(2)>> ELSE <<ReadBit(5)>>
           parts == <<ReadBit(8)>> \o Joined([i \in 1 .. d.components |-> one], d.components)
           w == When(~d.program, parts)
           x == When(d.duration, <<SkipBit(7), ReadBit(33)>>)
           end == <<ReadBit(8), ReadBit(8), SkipByte(d.upid), ReadBit(8), ReadBit(8), ReadBit(8)>>
<1>2. r \in Seq(Forward)
  BY <1>1, CallsJoin
<1>3. w \in Seq(Forward)
  <2>1. one \in Seq(Forward)
    BY <1>1
  <2> HIDE DEF one
  <2>2. Joined([i \in 1 .. d.components |-> one], d.components) \in Seq(Forward)
    BY <1>0, <2>1, JoinedCalls
  <2>3. parts \in Seq(Forward)
    BY <1>1, <2>2, CallsJoin
  <2> HIDE DEF parts
  <2> QED
    BY <2>3, CallsJoin
<1>4. x \in Seq(Forward) /\ end \in Seq(Forward)
  BY <1>1, CallsJoin
<1>5. SegmentDescriptor(d)
        = <<ReadBit(32), ReadBit(1), ReadBit(7)>> \o When(~d.cancel, Flags(3) \o r \o w \o x \o end)
  BY DEF SegmentDescriptor
<1> HIDE DEF r, w, x, end
<1>6. Flags(3) \o r \o w \o x \o end \in Seq(Forward)
  BY <1>1, <1>2, <1>3, <1>4, CallsJoin
<1> QED
  BY <1>1, <1>5, <1>6, CallsJoin

\* Six bytes are read of every descriptor.
LEMMA DescriptorBytes == BytesOf(Descriptor) = 6
<1> DEFINE c == Descriptor
           f == [i \in DOMAIN c |-> c[i].n * (IF c[i].op = "bytes" THEN 8 ELSE 1)]
<1>1. /\ c = <<[op |-> "read", n |-> 8], [op |-> "read", n |-> 8], [op |-> "read", n |-> 32]>>
      /\ Len(c) = 3 /\ DOMAIN c = 1 .. 3
  BY DEF Descriptor, ReadBit
<1>2. c[1].n = 8 /\ c[2].n = 8 /\ c[3].n = 32 /\ c[1].op = "read" /\ c[2].op = "read" /\ c[3].op = "read"
  BY <1>1
<1>3. BitsOf(c) = Total(f, 3)
  BY <1>1 DEF BitsOf
<1> HIDE DEF c
<1>4. f[1] = 8 /\ f[2] = 8 /\ f[3] = 32 /\ DOMAIN f = {1, 2, 3}
  BY <1>1, <1>2
<1> HIDE DEF f
<1>5. \A i \in DOMAIN f : f[i] \in Int
  BY <1>4
<1>6. /\ Total(f, 0) = 0 /\ Total(f, 0 + 1) = Total(f, 0) + f[0 + 1]
      /\ Total(f, 1 + 1) = Total(f, 1) + f[1 + 1] /\ Total(f, 2 + 1) = Total(f, 2) + f[2 + 1]
  BY <1>4, <1>5, TotalSteps
<1>7. Total(f, 3) = 48
  BY <1>4, <1>6
<1> QED
  BY <1>3, <1>7 DEF BytesOf, c

LEMMA HeaderCalls == SpliceHeader \in Seq(Forward)
<1>1. /\ ReadBit(8) \in Forward /\ ReadBit(1) \in Forward /\ ReadBit(2) \in Forward
      /\ ReadBit(12) \in Forward /\ ReadBit(6) \in Forward /\ ReadBit(33) \in Forward
  BY CallsTyped
<1> QED
  BY <1>1 DEF SpliceHeader

\* Where the encoder put the parts of the section.
LEMMA SectionTyped ==
  ASSUME sec \in Section
  PROVE  /\ sec.pointer \in Nat /\ sec.size \in Nat /\ sec.loop \in Nat /\ sec.cmd \in Command
         /\ sec.elements \in Seq(Element) /\ Len(sec.elements) \in Nat
         /\ DOMAIN sec.elements = 1 .. Len(sec.elements)
         /\ \A i \in 1 .. Len(sec.elements) : sec.elements[i] \in Element
BY LenProperties, ElementOfSeq, SpliceAssumption

LEMMA PlacesTyped ==
  ASSUME sec \in Section
  PROVE  /\ BytesOf(SpliceHeader) \in Nat /\ CommandAt \in Nat
         /\ Written(sec.cmd) \in Nat /\ LoopAt \in Nat
         /\ LoopAt = CommandAt + Written(sec.cmd)
<1>1. sec.pointer \in Nat /\ sec.cmd \in Command
  BY SectionTyped
<1>2. BytesOf(SpliceHeader) \in Nat
  BY HeaderCalls, BytesNat
<1>3. CommandAt \in Nat
  BY <1>1, <1>2 DEF CommandAt
<1>4. Written(sec.cmd) \in Nat
  <2>1. CASE sec.cmd.type = 5
    <3>1. sec.cmd.insert \in Inserts
      BY <1>1, <2>1 DEF Command
    <3>2. Written(sec.cmd) = BytesOf(SpliceInsert(sec.cmd.insert))
      BY <2>1 DEF Written
    <3> QED
      BY <3>1, <3>2, InsertCalls, BytesNat
  <2>2. CASE sec.cmd.type = 6
    <3>2. Written(sec.cmd) = BytesOf(SpliceTime(sec.cmd.specified))
      BY <2>2 DEF Written
    <3> QED
      BY <3>2, SpliceTimeCalls, BytesNat
  <2>3. CASE sec.cmd.type # 5 /\ sec.cmd.type # 6
    <3>1. sec.cmd.there \in Nat
      BY <1>1, <2>3 DEF Command
    <3>2. Written(sec.cmd) = sec.cmd.there
      BY <2>3 DEF Written
    <3> QED
      BY <3>1, <3>2
  <2> QED
    BY <2>1, <2>2, <2>3
<1> QED
  BY <1>2, <1>3, <1>4 DEF LoopAt

\* The loop up to its m-th element.
LoopUpTo(m) == Total(Taking(sec.elements), m)

LEMMA LoopSums ==
  ASSUME sec \in Section,
         NEW m \in 0 .. Len(sec.elements), NEW j \in 0 .. Len(sec.elements)
  PROVE  /\ m < j => LoopUpTo(m) + 2 + sec.elements[m + 1].len <= LoopUpTo(j)
         /\ LoopUpTo(m) = LoopUpTo(j) => m = j
         /\ LoopUpTo(m) \in Nat /\ LoopUpTo(0) = 0
         /\ m < Len(sec.elements) => /\ LoopUpTo(m + 1) = LoopUpTo(m) + 2 + sec.elements[m + 1].len
                                     /\ sec.elements[m + 1].len \in Nat
         /\ ElementAt(m + 1) = LoopAt + 2 + LoopUpTo(m)
<1> DEFINE f == Taking(sec.elements)
           len == Len(sec.elements)
<1>1. len \in Nat /\ DOMAIN sec.elements = 1 .. len
      /\ \A i \in 1 .. len : sec.elements[i].len \in Nat
  BY SectionTyped DEF Element
<1>2. DOMAIN f = 1 .. len /\ \A i \in 1 .. len : f[i] = 2 + sec.elements[i].len /\ f[i] \in Nat \ {0}
  BY <1>1 DEF Taking
<1>3. ElementAt(m + 1) = LoopAt + 2 + Total(f, m)
  <2>1. (m + 1) - 1 = m
    BY <1>1
  <2> QED
    BY <2>1 DEF ElementAt
<1> HIDE DEF f, len
<1>4. m \in 0 .. len /\ j \in 0 .. len
  BY DEF len
<1>5. /\ m < j => Total(f, m) + f[m + 1] <= Total(f, j)
      /\ Total(f, m) = Total(f, j) => m = j
      /\ Total(f, m) \in Nat /\ Total(f, 0) = 0
      /\ m < len => Total(f, m + 1) = Total(f, m) + f[m + 1]
  BY <1>1, <1>2, <1>4, TotalTells
<1>6. /\ m < j => m + 1 \in 1 .. len
      /\ m < len => m + 1 \in 1 .. len
  BY <1>1, <1>4
<1>7. ASSUME m < len
      PROVE  /\ Total(f, m + 1) = Total(f, m) + 2 + sec.elements[m + 1].len
             /\ sec.elements[m + 1].len \in Nat
  <2>1. m + 1 \in 1 .. len
    BY <1>6, <1>7
  <2>2. f[m + 1] = 2 + sec.elements[m + 1].len /\ sec.elements[m + 1].len \in Nat
    BY <1>1, <1>2, <2>1
  <2> QED
    BY <1>5, <1>7, <2>2
<1>8. ASSUME m < j PROVE Total(f, m) + 2 + sec.elements[m + 1].len <= Total(f, j)
  <2>1. m + 1 \in 1 .. len
    BY <1>6, <1>8
  <2>2. f[m + 1] = 2 + sec.elements[m + 1].len /\ sec.elements[m + 1].len \in Nat
    BY <1>1, <1>2, <2>1
  <2>3. Total(f, m) + f[m + 1] = Total(f, m) + 2 + sec.elements[m + 1].len
    BY <1>5, <2>2
  <2> QED
    BY <1>5, <1>8, <2>3
<1> QED
  BY <1>3, <1>5, <1>7, <1>8 DEF LoopUpTo, f, len

LEMMA MaxIs ==
  ASSUME NEW T \in SUBSET Int, NEW x \in T, \A y \in T : x >= y
  PROVE  Max(T) = x
<1>1. \A z \in T : (\A y \in T : z >= y) => z = x
  OBVIOUS
<1> QED
  BY <1>1 DEF Max

\* In front of an element the parser sees that element.
LEMMA AtItsElement ==
  ASSUME sec \in Section, NEW m \in 0 .. Len(sec.elements) - 1,
         place = LoopAt + 2 + LoopUpTo(m)
  PROVE  ElementSeen = sec.elements[m + 1]
<1> DEFINE len == Len(sec.elements)
           here == {i \in DOMAIN sec.elements : ElementAt(i) = place}
<1>1. len \in Nat /\ DOMAIN sec.elements = 1 .. len /\ LoopAt \in Nat
  BY SectionTyped, PlacesTyped
<1>2. m \in 0 .. len /\ m + 1 \in 1 .. len /\ LoopUpTo(m) \in Nat
  BY <1>1, LoopSums
<1>3. ASSUME NEW i \in 1 .. len PROVE ElementAt(i) = place <=> i = m + 1
  <2>1. i - 1 \in 0 .. len /\ (i - 1) + 1 = i
    BY <1>1
  <2>2. LoopUpTo(i - 1) \in Nat /\ ElementAt(i) = LoopAt + 2 + LoopUpTo(i - 1)
        /\ (LoopUpTo(i - 1) = LoopUpTo(m) => i - 1 = m)
    BY <1>2, <2>1, LoopSums
  <2> QED
    BY <1>1, <1>2, <2>1, <2>2
<1>4. here = {m + 1}
  BY <1>1, <1>2, <1>3
<1> HIDE DEF here
<1>5. Max(here) = m + 1 /\ here # {}
  <2>1. m + 1 \in here /\ here \in SUBSET Int /\ \A y \in here : m + 1 >= y
    BY <1>1, <1>2, <1>4
  <2> QED
    BY <1>4, <2>1, MaxIs
<1> QED
  BY <1>5 DEF ElementSeen, here

\* The last segmentation descriptor among the first m elements.
Segs(m) == {i \in 1 .. m : sec.elements[i].tag = 2}
LastSeg(m) == IF Segs(m) = {} THEN Nil ELSE sec.elements[Max(Segs(m))]

LEMMA LastSegSteps ==
  ASSUME NEW m \in Nat
  PROVE  /\ LastSeg(0) = Nil
         /\ LastSeg(m + 1) = IF sec.elements[m + 1].tag = 2 THEN sec.elements[m + 1] ELSE LastSeg(m)
<1>1. LastSeg(0) = Nil
  BY DEF LastSeg, Segs
<1>2. CASE sec.elements[m + 1].tag = 2
  <2>1. m + 1 \in Segs(m + 1) /\ Segs(m + 1) \in SUBSET Int /\ \A i \in Segs(m + 1) : m + 1 >= i
    BY <1>2 DEF Segs
  <2>2. Max(Segs(m + 1)) = m + 1 /\ Segs(m + 1) # {}
    BY <2>1, MaxIs
  <2> QED
    BY <1>1, <1>2, <2>2 DEF LastSeg
<1>3. CASE sec.elements[m + 1].tag # 2
  <2>1. Segs(m + 1) = Segs(m)
    <3>1. \A i \in 1 .. m + 1 : i \in 1 .. m \/ i = m + 1
      OBVIOUS
    <3>2. \A i \in 1 .. m : i \in 1 .. m + 1
      OBVIOUS
    <3> QED
      BY <1>3, <3>1, <3>2 DEF Segs
  <2> QED
    BY <1>1, <1>3, <2>1 DEF LastSeg
<1> QED
  BY <1>2, <1>3

\* Inductive: of a well-formed section the parser stands where the encoder put what
\* it reads next.
Elements(m) ==
  /\ m \in 0 .. Len(sec.elements) /\ Len(descriptors) = m /\ descriptors \in Seq(Element)
  /\ \A i \in 1 .. m : descriptors[i] = sec.elements[i]
  /\ shown = LastSeg(m)

SpliceInv ==
  /\ sec \in Section
  /\ WellEncoded(sec) =>
       /\ part # "panic"
       /\ part = "header" => place = 0
       /\ part = "command" => place = CommandAt
       /\ part = "loop length" => place = LoopAt
       /\ part \in {"header", "command", "loop length"} => Elements(0)
       /\ part = "loop" => /\ Elements(Len(descriptors))
                         /\ place = LoopAt + 2 + LoopUpTo(Len(descriptors))
                         /\ left = sec.loop - LoopUpTo(Len(descriptors))
       /\ part = "done" => Elements(Len(sec.elements))

LEMMA WellRoom ==
  ASSUME sec \in Section, WellEncoded(sec)
  PROVE  /\ sec.loop = LoopUpTo(Len(sec.elements))
         /\ sec.size >= LoopAt + 2 + sec.loop + 4
         /\ sec.cmd.type \notin {5, 6} => sec.cmd.len = Written(sec.cmd)
         /\ \A i \in 1 .. Len(sec.elements) :
              sec.elements[i].tag = 2 =>
                sec.elements[i].len = 4 + BytesOf(SegmentDescriptor(sec.elements[i].segment))
BY SectionTyped DEF WellEncoded, LoopUpTo, Written

LEMMA SpliceBegins == ASSUME SpliceInit PROVE SpliceInv
<1>1. sec \in Section /\ part = "header" /\ place = 0 /\ descriptors = <<>> /\ shown = Nil
  BY DEF SpliceInit
<1>2. Len(sec.elements) \in Nat /\ LastSeg(0) = Nil
  BY <1>1, SectionTyped, LastSegSteps
<1>3. Elements(0)
  <2>1. Len(descriptors) = 0 /\ descriptors \in Seq(Element)
    BY <1>1, EmptySeq
  <2> QED
    BY <1>1, <1>2, <2>1 DEF Elements
<1> QED
  BY <1>1, <1>3 DEF SpliceInv

\* One round of the loop over a well-formed section.
LEMMA RoundOfLoop ==
  ASSUME SpliceInv, WellEncoded(sec), SpliceDescriptor
  PROVE  LET m == Len(descriptors)
             e == sec.elements[m + 1]
         IN  /\ m \in 0 .. Len(sec.elements) - 1 /\ e \in Element /\ e.len \in Int
             /\ part' = part /\ descriptors' = Append(descriptors, e) /\ place' = place + 2 + e.len
             /\ left' = left - (2 + e.len)
             /\ shown' = IF e.tag = 2 THEN e ELSE shown
<1> DEFINE m == Len(descriptors)
           len == Len(sec.elements)
           e == sec.elements[m + 1]
           body == IF e.tag = 2 THEN BytesOf(SegmentDescriptor(e.segment)) ELSE e.len - 4
<1>0. sec \in Section /\ part = "loop" /\ left > 0
  BY DEF SpliceDescriptor, SpliceInv
<1>1. /\ m \in 0 .. len /\ place = LoopAt + 2 + LoopUpTo(m) /\ left = sec.loop - LoopUpTo(m)
      /\ sec.loop = LoopUpTo(len) /\ sec.size >= LoopAt + 2 + sec.loop + 4
  BY <1>0, WellRoom DEF SpliceInv, Elements
<1>2. len \in Nat /\ LoopAt \in Nat /\ sec.loop \in Nat /\ sec.size \in Nat /\ LoopUpTo(m) \in Nat
  BY <1>0, <1>1, SectionTyped, PlacesTyped, LoopSums
<1>3. m \in 0 .. len - 1 /\ m + 1 \in 1 .. len
  <2>1. m # len
    BY <1>0, <1>1, <1>2
  <2> QED
    BY <1>1, <1>2, <2>1
<1>4. ElementSeen = e /\ e \in Element /\ e.len \in Nat
  <2>1. e \in Element
    BY <1>0, <1>3, SectionTyped
  <2> QED
    BY <1>0, <1>1, <1>3, <2>1, AtItsElement DEF Element
<1>5. LoopUpTo(m) + 2 + e.len <= sec.loop
  <2>1. m < len /\ len \in 0 .. len /\ m \in 0 .. len
    BY <1>2, <1>3
  <2> QED
    BY <1>0, <1>1, <2>1, LoopSums
<1>6. body = e.len - 4
  <2>1. CASE e.tag = 2
    <3>1. e.len = 4 + BytesOf(SegmentDescriptor(e.segment))
      BY <1>0, <1>3, <2>1, WellRoom
    <3>2. BytesOf(SegmentDescriptor(e.segment)) \in Nat
      <4>1. e.segment \in Segments
        BY <1>4 DEF Element
      <4> QED
        BY <4>1, SegmentCalls, BytesNat
    <3> QED
      BY <2>1, <3>1, <3>2
  <2>2. CASE e.tag # 2
    BY <2>2
  <2> QED
    BY <2>1, <2>2
<1>7. IF place + 6 + (IF e.tag = 2 THEN body ELSE 0) > sec.size
        THEN part' = "panic" /\ UNCHANGED <<place, left, descriptors, shown>>
        ELSE /\ place' = place + 6 + body
             /\ descriptors' = Append(descriptors, e)
             /\ shown' = IF e.tag = 2 THEN e ELSE shown
             /\ left' = left - (e.len + 2)
             /\ UNCHANGED part
  BY <1>4, DescriptorBytes DEF SpliceDescriptor
<1> HIDE DEF body, e, m, len
<1>8. ~(place + 6 + (IF e.tag = 2 THEN body ELSE 0) > sec.size)
  <2>1. CASE e.tag = 2
    <3>1. (IF e.tag = 2 THEN body ELSE 0) = e.len - 4
      BY <1>6, <2>1
    <3> QED
      BY <1>1, <1>2, <1>4, <1>5, <3>1
  <2>2. CASE e.tag # 2
    <3>1. (IF e.tag = 2 THEN body ELSE 0) = 0
      BY <2>2
    <3> QED
      BY <1>1, <1>2, <1>4, <1>5, <3>1
  <2> QED
    BY <2>1, <2>2
<1>9. /\ place' = place + 6 + body /\ descriptors' = Append(descriptors, e) /\ part' = part
      /\ shown' = IF e.tag = 2 THEN e ELSE shown
      /\ left' = left - (e.len + 2)
  BY <1>7, <1>8
<1>10. place' = place + 2 + e.len /\ left' = left - (2 + e.len) /\ e.len \in Int
  <2>1. place \in Int /\ e.len \in Int /\ left \in Int
    BY <1>1, <1>2, <1>4
  <2>2. place + 6 + (e.len - 4) = place + 2 + e.len /\ left - (e.len + 2) = left - (2 + e.len)
    BY <2>1
  <2> QED
    BY <1>6, <1>9, <2>1, <2>2
<1> QED
  BY <1>3, <1>4, <1>9, <1>10 DEF m, e, len

LEMMA SpliceStep ==
  ASSUME SpliceInv, [SpliceNext]_spliceVars
  PROVE  SpliceInv'
<1>0. sec \in Section
  BY DEF SpliceInv
<1>u. sec' = sec
  BY DEF SpliceNext, spliceVars, Header, SpliceCommand, LoopLength, SpliceDescriptor, LoopEnds,
         SpliceEnded
<1>w. /\ WellEncoded(sec)' = WellEncoded(sec) /\ CommandAt' = CommandAt /\ LoopAt' = LoopAt
      /\ \A m : LoopUpTo(m)' = LoopUpTo(m) /\ LastSeg(m)' = LastSeg(m)
  BY <1>u DEF WellEncoded, CommandAt, LoopAt, LoopUpTo, LastSeg, Segs
<1>e. ASSUME descriptors' = descriptors, shown' = shown PROVE \A m : Elements(m)' = Elements(m)
  BY <1>u, <1>w, <1>e DEF Elements
<1>t. /\ sec.size \in Nat /\ sec.loop \in Nat /\ sec.pointer \in Nat
      /\ CommandAt \in Nat /\ Written(sec.cmd) \in Nat /\ LoopAt \in Nat
      /\ LoopAt = CommandAt + Written(sec.cmd)
      /\ CommandAt = 1 + sec.pointer + BytesOf(SpliceHeader)
      /\ BytesOf(SpliceHeader) \in Nat
  BY <1>0, SectionTyped, PlacesTyped DEF CommandAt
<1>r. WellEncoded(sec) => sec.size >= LoopAt + 2 + sec.loop + 4
  BY <1>0, WellRoom
<1>1. CASE Header
  <2>1. /\ part = "header" /\ Read(CommandAt, "command") /\ descriptors' = descriptors /\ shown' = shown
    BY <1>1, <1>t DEF Header
  <2>2. WellEncoded(sec) => part' = "command" /\ place' = CommandAt
    <3>1. WellEncoded(sec) => place = 0 /\ place + CommandAt <= sec.size
      BY <1>r, <1>t, <2>1 DEF SpliceInv
    <3> QED
      BY <1>t, <2>1, <3>1 DEF Read
  <2> QED
    BY <1>0, <1>u, <1>w, <1>e, <2>1, <2>2 DEF SpliceInv
<1>2. CASE SpliceCommand
  <2>1. part = "command" /\ descriptors' = descriptors /\ shown' = shown
    BY <1>2 DEF SpliceCommand
  <2>2. ASSUME WellEncoded(sec) PROVE part' = "loop length" /\ place' = LoopAt
    <3>1. place = CommandAt
      BY <2>1, <2>2 DEF SpliceInv
    <3>2. Taken(sec.cmd) = Written(sec.cmd)
      BY <1>0, <2>2, WellRoom DEF Taken
    <3>3. place + Written(sec.cmd) <= sec.size /\ place + Written(sec.cmd) = LoopAt
      BY <1>r, <1>t, <2>2, <3>1
    <3> QED
      BY <1>2, <3>2, <3>3 DEF SpliceCommand, Read
  <2> QED
    BY <1>0, <1>u, <1>w, <1>e, <2>1, <2>2 DEF SpliceInv
<1>3. CASE LoopLength
  <2>1. /\ part = "loop length" /\ Read(2, "loop") /\ descriptors' = descriptors /\ shown' = shown
        /\ left' = IF place = LoopAt THEN sec.loop ELSE sec.junk.loop
    BY <1>3 DEF LoopLength
  <2>2. ASSUME WellEncoded(sec)
        PROVE  /\ part' = "loop" /\ place' = LoopAt + 2 /\ left' = sec.loop
               /\ Elements(0) /\ Len(descriptors) = 0 /\ LoopUpTo(0) = 0
    <3>1. place = LoopAt /\ Elements(0)
      BY <2>1, <2>2 DEF SpliceInv
    <3>2. place + 2 <= sec.size
      BY <1>r, <1>t, <2>2, <3>1
    <3>3. LoopUpTo(0) = 0
      <4>1. 0 \in 0 .. Len(sec.elements)
        BY <3>1 DEF Elements
      <4> QED
        BY <1>0, <4>1, LoopSums
    <3> QED
      BY <2>1, <3>1, <3>2, <3>3 DEF Read, Elements
  <2>3. WellEncoded(sec) => Elements(Len(descriptors))'
    BY <1>e, <2>1, <2>2
  <2>4. WellEncoded(sec) => place' = LoopAt + 2 + LoopUpTo(Len(descriptors')) /\ left' = sec.loop - LoopUpTo(Len(descriptors'))
    <3>1. LoopAt + 2 = LoopAt + 2 + 0 /\ sec.loop = sec.loop - 0
      BY <1>t
    <3>2. WellEncoded(sec) => LoopUpTo(Len(descriptors')) = 0
      BY <2>1, <2>2
    <3> QED
      BY <2>2, <3>1, <3>2
  <2> QED
    BY <1>0, <1>u, <1>w, <2>1, <2>2, <2>3, <2>4 DEF SpliceInv
<1>4. CASE SpliceDescriptor
  <2>1. ASSUME WellEncoded(sec)
        PROVE  /\ part' = "loop" /\ Elements(Len(descriptors))'
               /\ place' = LoopAt + 2 + LoopUpTo(Len(descriptors'))
               /\ left' = sec.loop - LoopUpTo(Len(descriptors'))
    <3> DEFINE m == Len(descriptors)
               e == sec.elements[m + 1]
    <3>1. /\ m \in 0 .. Len(sec.elements) - 1 /\ e \in Element /\ e.len \in Int
          /\ part' = part /\ descriptors' = Append(descriptors, e) /\ place' = place + 2 + e.len
          /\ left' = left - (2 + e.len)
          /\ shown' = IF e.tag = 2 THEN e ELSE shown
      BY <1>4, <2>1, RoundOfLoop
    <3>2. /\ part = "loop" /\ Elements(m) /\ place = LoopAt + 2 + LoopUpTo(m) /\ left = sec.loop - LoopUpTo(m)
      BY <1>4, <2>1 DEF SpliceInv, SpliceDescriptor
    <3>3. Len(sec.elements) \in Nat
      BY <1>0, SectionTyped
    <3>4. descriptors \in Seq(Element) /\ \A i \in 1 .. m : descriptors[i] = sec.elements[i]
      BY <3>2 DEF Elements
    <3>5. /\ descriptors' \in Seq(Element) /\ Len(descriptors') = m + 1 /\ descriptors'[m + 1] = e
          /\ \A i \in 1 .. m : descriptors'[i] = descriptors[i]
      BY <3>1, <3>4, AppendProperties
    <3> HIDE DEF m
    <3>6. m \in Nat /\ m + 1 \in 0 .. Len(sec.elements) /\ m \in 0 .. Len(sec.elements) /\ m < Len(sec.elements)
      BY <3>1, <3>3
    <3>7. shown' = LastSeg(m + 1)
      BY <3>1, <3>2, <3>6, LastSegSteps DEF Elements
    <3>8. \A i \in 1 .. m + 1 : descriptors'[i] = sec.elements[i]
      BY <3>4, <3>5, <3>6
    <3>9. LoopUpTo(m + 1) = LoopUpTo(m) + 2 + e.len /\ LoopUpTo(m) \in Nat
      BY <1>0, <3>6, LoopSums
    <3>10. Elements(Len(descriptors))'
      <4>1. LastSeg(m + 1) = LastSeg(Len(descriptors'))
        BY <3>5
      <4> QED
        BY <1>u, <1>w, <3>5, <3>6, <3>7, <3>8, <4>1 DEF Elements
    <3>11. place' = LoopAt + 2 + LoopUpTo(m + 1) /\ left' = sec.loop - LoopUpTo(m + 1)
      <4> DEFINE a == LoopAt
                 b == LoopUpTo(m)
                 c == e.len
                 d == sec.loop
      <4>1. a \in Int /\ b \in Int /\ c \in Int /\ d \in Int
        <5>1. c \in Int
          BY <3>1
        <5>2. b \in Int
          BY <3>9
        <5>3. a \in Int /\ d \in Int
          BY <1>t
        <5> QED
          BY <5>1, <5>2, <5>3
      <4>2. place' = a + 2 + b + 2 + c /\ left' = d - b - (2 + c) /\ LoopUpTo(m + 1) = b + 2 + c
        BY <3>1, <3>2, <3>9
      <4> HIDE DEF a, b, c, d
      <4>3. a + 2 + b + 2 + c = a + 2 + (b + 2 + c) /\ d - b - (2 + c) = d - (b + 2 + c)
        BY <4>1
      <4>4. place' = a + 2 + LoopUpTo(m + 1) /\ left' = d - LoopUpTo(m + 1)
        BY <4>2, <4>3
      <4> QED
        BY <4>4 DEF a, d
    <3> QED
      BY <3>1, <3>2, <3>5, <3>10, <3>11
  <2> QED
    BY <1>0, <1>u, <1>w, <2>1 DEF SpliceInv
<1>5. CASE LoopEnds
  <2>1. part = "loop" /\ left <= 0 /\ part' = "done" /\ descriptors' = descriptors /\ shown' = shown
    BY <1>5 DEF LoopEnds
  <2>2. ASSUME WellEncoded(sec) PROVE Elements(Len(sec.elements))
    <3> DEFINE m == Len(descriptors)
               len == Len(sec.elements)
    <3>1. Elements(m) /\ left = sec.loop - LoopUpTo(m)
      BY <2>1, <2>2 DEF SpliceInv
    <3>2. sec.loop = LoopUpTo(len) /\ len \in Nat /\ m \in 0 .. len
      BY <1>0, <2>2, <3>1, WellRoom, SectionTyped DEF Elements
    <3> HIDE DEF m
    <3>3. m = len
      <4> SUFFICES ASSUME m # len PROVE FALSE
        OBVIOUS
      <4>1. m < len /\ len \in 0 .. len /\ m \in 0 .. len - 1
        BY <3>2
      <4>2. LoopUpTo(m) + 2 + sec.elements[m + 1].len <= LoopUpTo(len) /\ LoopUpTo(m) \in Nat
            /\ sec.elements[m + 1].len \in Nat
        BY <1>0, <3>2, <4>1, LoopSums
      <4>3. sec.loop - LoopUpTo(m) <= 0 /\ sec.loop = LoopUpTo(len)
        BY <2>1, <3>1, <3>2
      <4> DEFINE b == LoopUpTo(m)
                 c == sec.elements[m + 1].len
                 d == LoopUpTo(len)
      <4>4. b + 2 + c <= d /\ b \in Nat /\ c \in Nat /\ d - b <= 0 /\ d \in Int
        BY <1>t, <4>2, <4>3
      <4> HIDE DEF b, c, d
      <4> QED
        BY <4>4
    <3> QED
      BY <3>1, <3>3
  <2> QED
    BY <1>0, <1>u, <1>w, <1>e, <2>1, <2>2 DEF SpliceInv
<1>6. CASE SpliceEnded \/ UNCHANGED spliceVars
  <2>1. part' = part /\ place' = place /\ left' = left /\ descriptors' = descriptors /\ shown' = shown
    BY <1>6 DEF SpliceEnded, spliceVars
  <2> QED
    BY <1>0, <1>u, <1>w, <1>e, <2>1 DEF SpliceInv
<1> QED
  BY <1>1, <1>2, <1>3, <1>4, <1>5, <1>6 DEF SpliceNext

\* A well-formed section is read to its end, with all its descriptors in order,
\* whatever the lengths below 4 among them, and the last segmentation descriptor is
\* the one kept: for every command and for loops of any number of descriptors.
THEOREM SpliceIs == SpliceSpec => []SpliceAsEncoded
<1>1. SpliceInit => SpliceInv
  BY SpliceBegins
<1>2. SpliceInv /\ [SpliceNext]_spliceVars => SpliceInv'
  BY SpliceStep
<1>3. SpliceInv => SpliceAsEncoded
  <2> SUFFICES ASSUME SpliceInv, WellEncoded(sec) PROVE SpliceAsEncoded
    BY DEF SpliceAsEncoded
  <2>1. part # "panic"
    BY DEF SpliceInv
  <2>2. ASSUME part = "done" PROVE descriptors = sec.elements /\ shown = LastSeg(Len(sec.elements))
    <3>1. Elements(Len(sec.elements)) /\ sec.elements \in Seq(Element)
      BY <2>2, SectionTyped DEF SpliceInv
    <3>2. descriptors = sec.elements
      BY <3>1, SeqEqual DEF Elements
    <3> QED
      BY <3>1, <3>2 DEF Elements
  <2>3. LastSeg(Len(sec.elements))
          = LET segs == {i \in DOMAIN sec.elements : sec.elements[i].tag = 2}
            IN  IF segs = {} THEN Nil ELSE sec.elements[Max(segs)]
    <3>1. DOMAIN sec.elements = 1 .. Len(sec.elements)
      BY SectionTyped DEF SpliceInv
    <3> QED
      BY <3>1 DEF LastSeg, Segs
  <2> QED
    BY <2>1, <2>2, <2>3 DEF SpliceAsEncoded
<1> QED
  BY <1>1, <1>2, <1>3, PTL DEF SpliceSpec
=============================================================================
