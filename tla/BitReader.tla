----------------------------- MODULE BitReader -----------------------------
(***************************************************************************)
(* The bit reader (internal/bitreader.go, and its copy in internal/bit):   *)
(* the loop of ReadBit64, as it runs under the calls a parser makes.       *)
(*                                                                         *)
(* The value v is the sequence of the bits shifted into it, a bit being    *)
(* known by its position in the data: so what was read is told apart from  *)
(* what should have been, whatever the data.                               *)
(***************************************************************************)
EXTENDS Fields

CONSTANTS Byte,     \* BYTE
          Size,     \* the length of Data
          Programs  \* the sequences of calls made

ASSUME ReaderAssumption ==
  /\ Byte \in Nat \ {0} /\ Size \in Nat
  /\ Programs \subseteq Seq(Calls)

VARIABLES prog, at,   \* the calls, and which of them is next
          base, off,  \* Base, Off
          pc,         \* "ready" between two calls, "loop" in ReadBit64, or "panic"
          n, v,       \* bits still to be read, value
          from, wide, \* history: where the call of ReadBit began, and its argument
          reach       \* history: Off was never beyond the byte when one began

vars == <<prog, at, base, off, pc, n, v, from, wide, reach>>
history == <<from, wide, reach>>

TypeOK ==
  /\ prog \in Programs /\ at \in Nat
  /\ base \in Int /\ off \in Nat
  /\ pc \in {"ready", "loop", "panic"}
  /\ n \in Nat /\ v \in Seq(Int)
  /\ from \in Int /\ wide \in Nat /\ reach \in BOOLEAN

Init ==
  /\ prog \in Programs /\ at = 1
  /\ base = 0 /\ off = 0
  /\ pc = "ready"
  /\ n = 0 /\ v = <<>>
  /\ from = 0 /\ wide = 0 /\ reach = TRUE

Position == Byte * base + off
InData == 0 <= base /\ base < Size

Calling(op) == pc = "ready" /\ at \in DOMAIN prog /\ prog[at].op = op

SkipBytes ==
  /\ Calling("bytes")
  /\ base' = base + prog[at].n
  /\ at' = at + 1
  /\ UNCHANGED <<prog, off, pc, n, v, history>>

\* The offset is added to, and may be that of another byte then.
SkipBits ==
  /\ Calling("bits")
  /\ base' = base + (prog[at].n \div Byte)
  /\ off' = off + (prog[at].n % Byte)
  /\ at' = at + 1
  /\ UNCHANGED <<prog, pc, n, v, history>>

Call ==
  /\ Calling("read")
  /\ pc' = "loop"
  /\ n' = prog[at].n /\ v' = <<>>
  /\ from' = Position /\ wide' = prog[at].n /\ reach' = (reach /\ off <= Byte)
  /\ UNCHANGED <<prog, at, base, off>>

Bits(i, j) == [k \in 1 .. j - i |-> Byte * base + i + k - 1]

\* Mutant of RestOfByte: Off is left as it was.
KeepsOffset ==
  /\ pc = "loop" /\ n > 0 /\ InData
  /\ off + n >= Byte
  /\ v' = IF off <= Byte THEN v \o Bits(off, Byte) ELSE Bits(0, Byte)
  /\ n' = n - (Byte - off)
  /\ base' = base + 1
  /\ UNCHANGED <<prog, at, off, pc, history>>

\* All remaining bits of the byte.  If Off is beyond it the shift count, taken as
\* unsigned, is huge: v is shifted out, the mask is the whole byte, and n grows.
RestOfByte ==
  /\ pc = "loop" /\ n > 0 /\ InData
  /\ off + n >= Byte
  /\ v' = IF off <= Byte THEN v \o Bits(off, Byte) ELSE Bits(0, Byte)
  /\ n' = n - (Byte - off)
  /\ off' = 0
  /\ base' = base + 1
  /\ UNCHANGED <<prog, at, pc, history>>

PartOfByte ==
  /\ pc = "loop" /\ n > 0 /\ InData
  /\ off + n < Byte
  /\ v' = v \o Bits(off, off + n)
  /\ off' = off + n
  /\ n' = 0
  /\ UNCHANGED <<prog, at, base, pc, history>>

Return ==
  /\ pc = "loop" /\ n = 0
  /\ pc' = "ready" /\ at' = at + 1
  /\ UNCHANGED <<prog, base, off, n, v, history>>

\* r.Data[r.Base] is not in the data.
Panic ==
  /\ pc = "loop" /\ n > 0 /\ ~InData
  /\ pc' = "panic"
  /\ UNCHANGED <<prog, at, base, off, n, v, history>>

Finished == (pc = "panic" \/ (pc = "ready" /\ at \notin DOMAIN prog)) /\ UNCHANGED vars

Next == SkipBytes \/ SkipBits \/ Call \/ RestOfByte \/ PartOfByte \/ Return \/ Panic \/ Finished

Spec == Init /\ [][Next]_vars
-----------------------------------------------------------------------------
(* Properties *)

\* A read that begins in a byte or right behind it returns its bits, in order,
\* and moves on by as many: across bytes, from the end of one (where SkipBit
\* leaves Off after the flags of a PES header), and when it is cut off.
ReadsItsBits ==
  pc # "ready" /\ reach =>
    /\ v = [k \in 1 .. wide - n |-> from + k - 1]
    /\ n <= wide /\ Position = from + wide - n

\* No parser modelled here begins a read with Off beyond the byte, where it would
\* get others' bits; and each leaves the reader at the end of a byte, where the next
\* structure begins, but for the two headers of mp2v.go, behind which nothing is
\* read of the same reader.
StaysAligned ==
  /\ reach
  /\ pc = "ready" /\ at = Len(prog) + 1 /\ prog \notin Mp2vHeaders => (Position % Byte) = 0
=============================================================================
