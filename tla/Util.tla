-------------------------------- MODULE Util --------------------------------
(***************************************************************************)
(* The helpers of the managed side (Util.cs): byte order, and copying,     *)
(* filling and comparing memory by words of eight bytes and a tail of      *)
(* overlapping narrower ones.                                              *)
(*                                                                         *)
(* An integer is the set of its one bits, so that | and & are \cup and     *)
(* \cap; + is only used on disjoint parts, where it is \cup too.  Memory   *)
(* is a function from addresses to bytes, least significant byte first.    *)
(***************************************************************************)
EXTENDS Integers, Sequences, SequencesExt

Cast(x, width)   == x \cap 0..(width - 1)
Shl(x, k, width) == Cast({b + k : b \in x}, width)
Shr(x, k)        == {b - k : b \in x} \cap Nat
ByteAt(x, i)     == Cast(Shr(x, 8 * i), 8)

(* HtoN, and NtoH, which is the same; the shorter ones compute in 32 bits. *)
HtoN16(x) == Cast(Shr(x, 8) \cup Shl(x, 8, 32), 16)

HtoN32(x) ==
    LET num1 == x \cap (0..7 \cup 16..23)
        num2 == x \cap (8..15 \cup 24..31)
    IN (Shr(num1, 8) \cup Shl(num1, 24, 32)) \cup (Shl(num2, 8, 32) \cup Shr(num2, 24))

HtoN64_HalvesKept(x) == Shl(HtoN32(Shr(x, 32)), 32, 64) \cup HtoN32(Cast(x, 32))

HtoN64(x) == Shl(HtoN32(Cast(x, 32)), 32, 64) \cup HtoN32(Shr(x, 32))

HtoN(bytes, x) == CASE bytes = 2 -> HtoN16(x) [] bytes = 4 -> HtoN32(x) [] bytes = 8 -> HtoN64(x)

-----------------------------------------------------------------------------
(* An access of width bytes at offset off from base. *)
Access(base, off, width) == [base |-> base, off |-> off, width |-> width]

TailAccesses_Shifted(base, rest) ==
    CASE rest = 0 -> << >>
      [] rest \in {1, 2, 4} -> <<Access(base, 0, rest)>>
      [] rest = 3 -> <<Access(base, 0, 2), Access(base, 1, 2)>>
      [] rest \in 5..7 -> <<Access(base, 0, 4), Access(base, rest - 3, 4)>>

(* Copy1 to Copy7 and Cmp1 to Cmp7: one access, or two that may overlap. *)
TailAccesses(base, rest) ==
    CASE rest = 0 -> << >>
      [] rest \in {1, 2, 4} -> <<Access(base, 0, rest)>>
      [] rest = 3 -> <<Access(base, 0, 2), Access(base, 1, 2)>>
      [] rest \in 5..7 -> <<Access(base, 0, 4), Access(base, rest - 4, 4)>>

(* The accesses for byteLength bytes: whole words up to longWriteLimit, then the tail. *)
Accesses(byteLength) ==
    LET words == byteLength \div 8
    IN [k \in 1..words |-> Access(8 * (k - 1), 0, 8)]
         \o TailAccesses(8 * words, byteLength % 8)

(* Each access loads all its bytes before it stores them. *)
Store(mem, at, width, bytes) ==
    [a \in DOMAIN mem |-> IF a \in at..(at + width - 1) THEN bytes[a - at] ELSE mem[a]]

MemCpy(mem, dst, src, byteLength) ==
    LET Copy(m, c) ==
          LET from == src + c.base + c.off
          IN Store(m, dst + c.base + c.off, c.width, [i \in 0..(c.width - 1) |-> m[from + i]])
    IN FoldLeft(Copy, mem, Accesses(byteLength))

(* The value is read from its first byte again for every word. *)
MemSet(mem, dst, value, byteLength) ==
    LET Fill(m, c) ==
          Store(m, dst + c.base + c.off, c.width,
                [i \in 0..(c.width - 1) |-> ByteAt(value, c.off + i)])
    IN FoldLeft(Fill, mem, Accesses(byteLength))

MemCmp(mem, dst, src, byteLength) ==
    \A k \in 1..Len(Accesses(byteLength)) :
        LET c == Accesses(byteLength)[k]
        IN \A i \in 0..(c.width - 1) :
             mem[dst + c.base + c.off + i] = mem[src + c.base + c.off + i]

(* (ulong) of a signed value repeats its sign bit. *)
SignExtend(x, width) == IF width - 1 \in x THEN x \cup width..63 ELSE x

Pattern_TwoCopies(ulval, width) == ulval \cup Shl(ulval, width, 64)

(* The value or-ed with itself shifted, until 64 bits are full. *)
Pattern(ulval, width) == UNION {Shl(ulval, k * width, 64) : k \in 0..(64 \div width - 1)}

(* The three overloads of MemSet for a byte, a short and an int. *)
MemSetByte(mem, dst, byteValue, n)   == MemSet(mem, dst, Pattern(byteValue, 8), n)
MemSetShort(mem, dst, shortValue, n) == MemSet(mem, dst, Pattern(SignExtend(shortValue, 16), 16), n)
MemSetInt(mem, dst, intValue, n)     == MemSet(mem, dst, Pattern(SignExtend(intValue, 32), 32), n)
-----------------------------------------------------------------------------
CONSTANT MaxBytes   \* lengths to check; three words less one take every path twice

ASSUME UtilAssumption == MaxBytes \in Nat

Lengths == 0..MaxBytes

(* A memory whose bytes are all different, with room for two regions and a byte around each. *)
Memory == [a \in 0..(2 * MaxBytes + 2) |-> a]

(* Two places for n bytes each that do not overlap, in either order. *)
Disjoint(n) == {<<1, n + 1>>, <<1, n + 2>>, <<n + 1, 1>>, <<n + 2, 1>>}

(* All values of at most two one bits: every helper works bit by bit. *)
Samples(width) == {{i, j} : i, j \in 0..(width - 1)} \cup {{}}

(* HtoN against the reversal of a value's bytes, for the three widths. *)
ReversesBytes ==
    \A n \in {2, 4, 8} : \A x \in Samples(8 * n) :
        /\ HtoN(n, x) \subseteq 0..(8 * n - 1)
        /\ \A i \in 0..(n - 1) : ByteAt(HtoN(n, x), i) = ByteAt(x, n - 1 - i)

(* MemCpy and MemCmp against copying and comparing byte by byte, regions not overlapping. *)
CopiesAndCompares ==
    \A n \in Lengths : \A p \in Disjoint(n) :
        LET dst == p[1]
            src == p[2]
            InDst(a) == a \in dst..(dst + n - 1)
            copied == MemCpy(Memory, dst, src, n)
        IN /\ copied = [a \in DOMAIN Memory |-> IF InDst(a) THEN src + a - dst ELSE a]
           /\ \A a \in DOMAIN Memory :
                MemCmp([copied EXCEPT ![a] = -1], dst, src, n)
                    <=> ~InDst(a) /\ a \notin src..(src + n - 1)

(* MemSet and its overloads against repeating the value's bytes. *)
FillsRepeatedly ==
    \A n \in Lengths :
        LET Filled(x, bytes) ==
              [a \in DOMAIN Memory |-> IF a \in 1..n THEN ByteAt(x, (a - 1) % bytes) ELSE Memory[a]]
        IN /\ \A x \in Samples(8) : MemSetByte(Memory, 1, x, n) = Filled(x, 1)
           /\ \A x \in Samples(15) : MemSetShort(Memory, 1, x, n) = Filled(x, 2)
           /\ \A i \in 0..30 : MemSetInt(Memory, 1, {i, 30 - i}, n) = Filled({i, 30 - i}, 4)
           /\ \A i \in 0..63 : MemSet(Memory, 1, {i, 63 - i}, n) = Filled({i, 63 - i}, 8)
=============================================================================
