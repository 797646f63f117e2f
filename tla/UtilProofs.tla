----------------------------- MODULE UtilProofs -----------------------------
(***************************************************************************)
(* The managed helpers for every value and every length: HtoN reverses the *)
(* bytes of any value of its width, where TLC tries values of two one      *)
(* bits, and MemCpy, MemSet and MemCmp are about exactly the bytes they    *)
(* are asked for.                                                          *)
(*                                                                         *)
(* MemCpy and MemSet fold over a sequence of accesses.  Such a fold is the *)
(* solution of an equation.  The memory after each set of accesses, given  *)
(* in closed form, solves it, so there is a solution; and two solutions    *)
(* agree, or there were a least number of accesses at which they do not.   *)
(***************************************************************************)
EXTENDS PluginMC, TLAPS, WellFoundedInduction

(* Which bits the casts and shifts of C# keep, and where they go. *)
LEMMA ShlBits ==
    ASSUME NEW x \in SUBSET Nat, NEW k \in Nat, NEW width \in Nat
    PROVE  \A b : b \in Shl(x, k, width) <=> b \in 0..(width - 1) /\ b - k \in x
BY DEF Shl, Cast

LEMMA ShrBits ==
    ASSUME NEW x \in SUBSET Nat, NEW k \in Nat
    PROVE  \A b : b \in Shr(x, k) <=> b \in Nat /\ b + k \in x
BY DEF Shr

LEMMA ByteBits ==
    ASSUME NEW x \in SUBSET Nat, NEW i \in Nat
    PROVE  \A b : b \in ByteAt(x, i) <=> b \in 0..7 /\ b + 8 * i \in x
BY DEF ByteAt, Shr, Cast

(* A value's bytes are all there is to it: a bit of y is in byte i of y. *)
Reversed(n, x, y) ==
    /\ y \subseteq 0..(8 * n - 1)
    /\ \A i \in 0..(n - 1) : ByteAt(y, i) = ByteAt(x, n - 1 - i)

(* It is enough to say where each bit comes from. *)
LEMMA ReversedByBits ==
    ASSUME NEW n \in Nat, NEW x \in SUBSET Nat, NEW y \in SUBSET (0..(8 * n - 1)),
           \A i \in 0..(n - 1) : \A b \in 0..7 : b + 8 * i \in y <=> b + 8 * (n - 1 - i) \in x
    PROVE  Reversed(n, x, y)
<1>1. y \in SUBSET Nat
  OBVIOUS
<1>2. ASSUME NEW i \in 0..(n - 1) PROVE ByteAt(y, i) = ByteAt(x, n - 1 - i)
  <2>1. i \in Nat /\ n - 1 - i \in Nat
    OBVIOUS
  <2>2. \A b : b \in ByteAt(y, i) <=> b \in 0..7 /\ b + 8 * i \in y
    BY <1>1, <2>1, ByteBits
  <2>3. \A b : b \in ByteAt(x, n - 1 - i) <=> b \in 0..7 /\ b + 8 * (n - 1 - i) \in x
    BY <2>1, ByteBits
  <2> QED
    BY <2>2, <2>3
<1> QED
  BY <1>2 DEF Reversed

LEMMA HtoN16Bits ==
    ASSUME NEW x \in SUBSET (0..15)
    PROVE  \A b : b \in HtoN16(x) <=> b \in 0..15 /\ (b + 8 \in x \/ b - 8 \in x)
<1>1. x \in SUBSET Nat
  OBVIOUS
<1>2. \A b : b \in Shl(x, 8, 32) <=> b \in 0..31 /\ b - 8 \in x
  BY <1>1, ShlBits, ShrBits
<1>3. \A b : b \in Shr(x, 8) <=> b \in Nat /\ b + 8 \in x
  BY <1>1, ShlBits, ShrBits
<1> QED
  BY <1>2, <1>3 DEF HtoN16, Cast

(* The two masks of HtoN for an int pick the bytes that move by one and by three. *)
LEMMA HtoN32Bits ==
    ASSUME NEW x \in SUBSET Nat
    PROVE  \A b : b \in HtoN32(x) <=>
                    \/ b \in 0..7 /\ b + 24 \in x
                    \/ b \in 8..15 /\ b + 8 \in x
                    \/ b \in 16..23 /\ b - 8 \in x
                    \/ b \in 24..31 /\ b - 24 \in x
<1> DEFINE num1 == x \cap (0..7 \cup 16..23)
           num2 == x \cap (8..15 \cup 24..31)
<1>1. num1 \in SUBSET Nat /\ num2 \in SUBSET Nat
  OBVIOUS
<1>2. HtoN32(x) = (Shr(num1, 8) \cup Shl(num1, 24, 32)) \cup (Shl(num2, 8, 32) \cup Shr(num2, 24))
  BY DEF HtoN32
<1>3. /\ \A b : b \in Shr(num1, 8) <=> b \in 8..15 /\ b + 8 \in x
      /\ \A b : b \in Shl(num1, 24, 32) <=> b \in 24..31 /\ b - 24 \in x
  <2>1. /\ \A b : b \in Shr(num1, 8) <=> b \in Nat /\ b + 8 \in num1
        /\ \A b : b \in Shl(num1, 24, 32) <=> b \in 0..31 /\ b - 24 \in num1
    BY <1>1, ShlBits, ShrBits
  <2> QED
    BY <2>1
<1>4. /\ \A b : b \in Shl(num2, 8, 32) <=> b \in 16..23 /\ b - 8 \in x
      /\ \A b : b \in Shr(num2, 24) <=> b \in 0..7 /\ b + 24 \in x
  <2>1. /\ \A b : b \in Shl(num2, 8, 32) <=> b \in 0..31 /\ b - 8 \in num2
        /\ \A b : b \in Shr(num2, 24) <=> b \in Nat /\ b + 24 \in num2
    BY <1>1, ShlBits, ShrBits
  <2> QED
    BY <2>1
<1> QED
  BY <1>2, <1>3, <1>4

LEMMA HtoN16Reverses == \A x \in SUBSET (0..15) : Reversed(2, x, HtoN16(x))
<1> TAKE x \in SUBSET (0..15)
<1>1. \A b : b \in HtoN16(x) <=> b \in 0..15 /\ (b + 8 \in x \/ b - 8 \in x)
  BY HtoN16Bits
<1>2. HtoN16(x) \in SUBSET (0..(8 * 2 - 1))
  BY <1>1
<1>3. \A i \in 0..(2 - 1) : \A b \in 0..7 :
        b + 8 * i \in HtoN16(x) <=> b + 8 * (2 - 1 - i) \in x
  BY <1>1
<1> QED
  BY <1>2, <1>3, ReversedByBits

LEMMA HtoN32Reverses == \A x \in SUBSET (0..31) : Reversed(4, x, HtoN32(x))
<1> TAKE x \in SUBSET (0..31)
<1>1. x \in SUBSET Nat
  OBVIOUS
<1>2. HtoN32(x) \in SUBSET (0..(8 * 4 - 1))
  BY <1>1, HtoN32Bits
<1>3. \A i \in 0..(4 - 1) : \A b \in 0..7 :
        b + 8 * i \in HtoN32(x) <=> b + 8 * (4 - 1 - i) \in x
  BY <1>1, HtoN32Bits
<1> QED
  BY <1>1, <1>2, <1>3, ReversedByBits

(* The halves change places, and each is reversed. *)
LEMMA HtoN64Reverses == \A x \in SUBSET (0..63) : Reversed(8, x, HtoN64(x))
<1> TAKE x \in SUBSET (0..63)
<1> DEFINE lower == Cast(x, 32)
           upper == Shr(x, 32)
<1>1. x \in SUBSET Nat /\ lower \in SUBSET (0..31) /\ upper \in SUBSET (0..31)
  BY DEF Cast, Shr
<1>2. /\ \A b \in 0..31 : b \in lower <=> b \in x
      /\ \A b \in 0..31 : b \in upper <=> b + 32 \in x
  BY <1>1, ShrBits DEF Cast
<1> HIDE DEF lower, upper
<1>3. lower \in SUBSET Nat /\ upper \in SUBSET Nat
  BY <1>1
<1>4. /\ \A b : b \in HtoN32(lower) <=>
             \/ b \in 0..7 /\ b + 24 \in x
             \/ b \in 8..15 /\ b + 8 \in x
             \/ b \in 16..23 /\ b - 8 \in x
             \/ b \in 24..31 /\ b - 24 \in x
      /\ \A b : b \in HtoN32(upper) <=>
             \/ b \in 0..7 /\ b + 56 \in x
             \/ b \in 8..15 /\ b + 40 \in x
             \/ b \in 16..23 /\ b + 24 \in x
             \/ b \in 24..31 /\ b + 8 \in x
  <2>1. \A b : b \in HtoN32(lower) <=>
             \/ b \in 0..7 /\ b + 24 \in lower
             \/ b \in 8..15 /\ b + 8 \in lower
             \/ b \in 16..23 /\ b - 8 \in lower
             \/ b \in 24..31 /\ b - 24 \in lower
    BY <1>3, HtoN32Bits
  <2>2. \A b : b \in HtoN32(upper) <=>
             \/ b \in 0..7 /\ b + 24 \in upper
             \/ b \in 8..15 /\ b + 8 \in upper
             \/ b \in 16..23 /\ b - 8 \in upper
             \/ b \in 24..31 /\ b - 24 \in upper
    BY <1>3, HtoN32Bits
  <2> QED
    BY <2>1, <2>2, <1>2
<1>5. HtoN32(lower) \in SUBSET Nat
  BY <1>4
<1>6. \A b : b \in Shl(HtoN32(lower), 32, 64) <=> b \in 0..63 /\ b - 32 \in HtoN32(lower)
  BY <1>5, ShlBits
<1>7. HtoN64(x) = Shl(HtoN32(lower), 32, 64) \cup HtoN32(upper)
  BY DEF HtoN64, lower, upper
<1>8. HtoN64(x) \in SUBSET (0..(8 * 8 - 1))
  BY <1>4, <1>6, <1>7
<1>9. \A i \in 0..(8 - 1) : \A b \in 0..7 :
        b + 8 * i \in HtoN64(x) <=> b + 8 * (8 - 1 - i) \in x
  BY <1>4, <1>6, <1>7
<1> QED
  BY <1>1, <1>8, <1>9, ReversedByBits

(***************************************************************************)
(* HtoN of each width reverses the bytes of every value of that width.     *)
(***************************************************************************)
THEOREM HtoNReversesEvery ==
    \A n \in {2, 4, 8} : \A x \in SUBSET (0..(8 * n - 1)) :
        /\ HtoN(n, x) \subseteq 0..(8 * n - 1)
        /\ \A i \in 0..(n - 1) : ByteAt(HtoN(n, x), i) = ByteAt(x, n - 1 - i)
<1>1. \A x \in SUBSET (0..(8 * 2 - 1)) : Reversed(2, x, HtoN(2, x))
  BY HtoN16Reverses DEF HtoN
<1>2. \A x \in SUBSET (0..(8 * 4 - 1)) : Reversed(4, x, HtoN(4, x))
  BY HtoN32Reverses DEF HtoN
<1>3. \A x \in SUBSET (0..(8 * 8 - 1)) : Reversed(8, x, HtoN(8, x))
  BY HtoN64Reverses DEF HtoN
<1> QED
  BY <1>1, <1>2, <1>3 DEF Reversed

(***************************************************************************)
(* So HtoN puts an address or a port in network order and NtoH, the same   *)
(* code, undoes it: the values TLC tries are among those of the theorem.   *)
(***************************************************************************)
THEOREM ByteOrderHolds == PluginSpec => []ByteOrderReversed
<1>1. \A n \in {2, 4, 8} : Samples(8 * n) \subseteq SUBSET (0..(8 * n - 1))
  BY DEF Samples
<1>2. ReversesBytes
  BY <1>1, HtoNReversesEvery DEF ReversesBytes
<1>3. ByteOrderReversed
  BY <1>2 DEF ByteOrderReversed
<1> QED
  BY <1>3, PTL

-----------------------------------------------------------------------------
(* An access, the bytes it is about, and what a sequence of them is about. *)
AccessSet == [base : Nat, off : Nat, width : Nat]
Bytes(c) == (c.base + c.off)..(c.base + c.off + c.width - 1)
Touched(s, S, j) == \E k \in S : j \in Bytes(s[k])

(* An access stays within the word at its base. *)
InWord(c) == c.base % 8 = 0 /\ c.off + c.width <= 8

(* Accesses about from..(to - 1) and nothing else, each in a word. *)
Covers(s, from, to) ==
    /\ s \in Seq(AccessSet)
    /\ \A j : Touched(s, 1..Len(s), j) <=> j \in from..(to - 1)
    /\ \A k \in 1..Len(s) : InWord(s[k])

(* One access, or two that may overlap. *)
LEMMA CoverByOne ==
    ASSUME NEW c \in AccessSet, InWord(c)
    PROVE  Covers(<<c>>, c.base + c.off, c.base + c.off + c.width)
<1> DEFINE s == <<c>>
<1>1. s \in Seq(AccessSet) /\ Len(s) = 1 /\ s[1] = c
  OBVIOUS
<1> HIDE DEF s
<1>2. \A j : Touched(s, 1..Len(s), j) <=> j \in Bytes(c)
  BY <1>1 DEF Touched
<1>3. \A k \in 1..Len(s) : InWord(s[k])
  BY <1>1
<1>4. Covers(s, c.base + c.off, c.base + c.off + c.width)
  BY <1>1, <1>2, <1>3 DEF Covers, Bytes, AccessSet
<1> QED
  BY <1>4 DEF s

LEMMA CoverByTwo ==
    ASSUME NEW c \in AccessSet, NEW d \in AccessSet, InWord(c), InWord(d),
           c.base = d.base, c.off <= d.off, d.off <= c.off + c.width,
           c.off + c.width <= d.off + d.width
    PROVE  Covers(<<c, d>>, c.base + c.off, c.base + d.off + d.width)
<1> DEFINE s == <<c, d>>
<1>1. s \in Seq(AccessSet) /\ Len(s) = 2 /\ s[1] = c /\ s[2] = d
  OBVIOUS
<1> HIDE DEF s
<1>2. /\ c.base \in Nat /\ c.off \in Nat /\ c.width \in Nat
      /\ d.base \in Nat /\ d.off \in Nat /\ d.width \in Nat
  BY DEF AccessSet
<1>3. \A j : j \in Bytes(c) \/ j \in Bytes(d) <=> j \in (c.base + c.off)..(c.base + d.off + d.width - 1)
  BY <1>2 DEF Bytes
<1>4. \A j : Touched(s, 1..Len(s), j) <=> j \in Bytes(c) \/ j \in Bytes(d)
  BY <1>1 DEF Touched
<1>5. \A k \in 1..Len(s) : InWord(s[k])
  BY <1>1, <1>2
<1>6. \A j : Touched(s, 1..Len(s), j) <=> j \in (c.base + c.off)..(c.base + d.off + d.width - 1)
  BY <1>3, <1>4
<1>7. Covers(s, c.base + c.off, c.base + d.off + d.width)
  BY <1>1, <1>2, <1>5, <1>6 DEF Covers
<1> QED
  BY <1>7 DEF s

LEMMA TailCovers ==
    ASSUME NEW base \in Nat, base % 8 = 0, NEW rest \in 0..7
    PROVE  Covers(TailAccesses(base, rest), base, base + rest)
<1>0. \A off, width \in Nat : Access(base, off, width) \in AccessSet
  BY DEF Access, AccessSet
<1>1. CASE rest = 0
  <2>1. TailAccesses(base, rest) = << >>
    BY <1>1 DEF TailAccesses
  <2>2. << >> \in Seq(AccessSet) /\ 1..Len(<< >>) = {} /\ base..(base + rest - 1) = {}
    BY <1>1
  <2> QED
    BY <2>1, <2>2 DEF Covers, Touched
<1>2. CASE rest \in {1, 2, 4}
  <2>1. TailAccesses(base, rest) = <<Access(base, 0, rest)>>
    BY <1>2 DEF TailAccesses
  <2> QED
    BY <1>0, <2>1, CoverByOne DEF Access, InWord
<1>3. CASE rest = 3
  <2>1. TailAccesses(base, rest) = <<Access(base, 0, 2), Access(base, 1, 2)>>
    BY <1>3 DEF TailAccesses
  <2> QED
    BY <1>0, <1>3, <2>1, CoverByTwo DEF Access, InWord
<1>4. CASE rest \in 5..7
  <2>1. TailAccesses(base, rest) = <<Access(base, 0, 4), Access(base, rest - 4, 4)>>
    BY <1>4 DEF TailAccesses
  <2>2. Access(base, 0, 4) \in AccessSet /\ Access(base, rest - 4, 4) \in AccessSet
    BY <1>0, <1>4
  <2> QED
    BY <1>4, <2>1, <2>2, CoverByTwo DEF Access, InWord
<1>5. rest = 0 \/ rest \in {1, 2, 4} \/ rest = 3 \/ rest \in 5..7
  OBVIOUS
<1> QED
  BY <1>1, <1>2, <1>3, <1>4, <1>5

(* Accesses one after the other. *)
LEMMA CoverJoin ==
    ASSUME NEW s, NEW t, NEW lo \in Nat, NEW mid \in Nat, NEW hi \in Nat,
           lo <= mid, mid <= hi, Covers(s, lo, mid), Covers(t, mid, hi)
    PROVE  Covers(s \o t, lo, hi)
<1> DEFINE u == s \o t
<1>1. s \in Seq(AccessSet) /\ t \in Seq(AccessSet)
  BY DEF Covers
<1>2. /\ u \in Seq(AccessSet) /\ Len(u) = Len(s) + Len(t)
      /\ \A k \in 1..Len(s) : u[k] = s[k]
      /\ \A k \in 1..Len(t) : u[k + Len(s)] = t[k]
  BY <1>1
<1>3. /\ \A k \in 1..Len(u) : \/ k \in 1..Len(s)
                              \/ k - Len(s) \in 1..Len(t) /\ (k - Len(s)) + Len(s) = k
      /\ \A k \in 1..Len(s) : k \in 1..Len(u)
      /\ \A k \in 1..Len(t) : k + Len(s) \in 1..Len(u)
  BY <1>1, <1>2
<1> HIDE DEF u
<1>4. \A j : Touched(u, 1..Len(u), j) <=> Touched(s, 1..Len(s), j) \/ Touched(t, 1..Len(t), j)
  BY <1>2, <1>3 DEF Touched
<1>5. /\ \A j : Touched(s, 1..Len(s), j) <=> j \in lo..(mid - 1)
      /\ \A j : Touched(t, 1..Len(t), j) <=> j \in mid..(hi - 1)
  BY DEF Covers
<1>6. \A j : j \in lo..(hi - 1) <=> j \in lo..(mid - 1) \/ j \in mid..(hi - 1)
  OBVIOUS
<1>7. \A j : Touched(u, 1..Len(u), j) <=> j \in lo..(hi - 1)
  BY <1>4, <1>5, <1>6
<1>8. \A k \in 1..Len(u) : InWord(u[k])
  <2>1. /\ \A k \in 1..Len(s) : InWord(s[k])
        /\ \A k \in 1..Len(t) : InWord(t[k])
    BY DEF Covers
  <2> QED
    BY <1>2, <1>3, <2>1
<1>9. Covers(u, lo, hi)
  BY <1>2, <1>7, <1>8 DEF Covers
<1> QED
  BY <1>9 DEF u

(* The loop's whole words. *)
LEMMA WordsCover ==
    ASSUME NEW words \in Nat
    PROVE  Covers([k \in 1..words |-> Access(8 * (k - 1), 0, 8)], 0, 8 * words)
<1> DEFINE s == [k \in 1..words |-> Access(8 * (k - 1), 0, 8)]
<1>1. \A k \in 1..words : Access(8 * (k - 1), 0, 8) \in AccessSet
  BY DEF Access, AccessSet
<1>2. s \in Seq(AccessSet) /\ Len(s) = words
  BY <1>1
<1>3. \A k \in 1..words : Bytes(s[k]) = (8 * (k - 1))..(8 * k - 1)
  BY DEF Access, Bytes
<1>4. \A k \in 1..words : InWord(s[k])
  BY DEF Access, InWord
<1> HIDE DEF s
<1>5. ASSUME NEW j \in 0..(8 * words - 1)
      PROVE  Touched(s, 1..words, j)
  <2>1. j \div 8 + 1 \in 1..words /\ j \in (8 * ((j \div 8 + 1) - 1))..(8 * (j \div 8 + 1) - 1)
    OBVIOUS
  <2> QED
    BY <1>3, <2>1 DEF Touched
<1>6. ASSUME NEW j, Touched(s, 1..words, j)
      PROVE  j \in 0..(8 * words - 1)
  <2>1. PICK k \in 1..words : j \in (8 * (k - 1))..(8 * k - 1)
    BY <1>3, <1>6 DEF Touched
  <2> QED
    BY <2>1
<1>7. \A j : Touched(s, 1..Len(s), j) <=> j \in 0..(8 * words - 1)
  BY <1>2, <1>5, <1>6
<1>8. Covers(s, 0, 8 * words)
  BY <1>2, <1>4, <1>7 DEF Covers
<1> QED
  BY <1>8 DEF s

(* All the accesses for byteLength bytes: no byte is left out, none is beyond. *)
LEMMA AccessesCover ==
    ASSUME NEW byteLength \in Nat
    PROVE  Covers(Accesses(byteLength), 0, byteLength)
<1> DEFINE words == byteLength \div 8
           rest == byteLength % 8
<1>1. /\ words \in Nat /\ rest \in 0..7 /\ byteLength = 8 * words + rest
      /\ 8 * words \in Nat /\ (8 * words) % 8 = 0 /\ 0 <= 8 * words /\ 8 * words <= byteLength
  OBVIOUS
<1>2. Accesses(byteLength) =
        [k \in 1..words |-> Access(8 * (k - 1), 0, 8)] \o TailAccesses(8 * words, rest)
  BY DEF Accesses
<1> HIDE DEF words, rest
<1>3. Covers([k \in 1..words |-> Access(8 * (k - 1), 0, 8)], 0, 8 * words)
  BY <1>1, WordsCover
<1>4. Covers(TailAccesses(8 * words, rest), 8 * words, byteLength)
  BY <1>1, TailCovers
<1> QED
  BY <1>1, <1>2, <1>3, <1>4, CoverJoin

(* An access is in a word: where in the word a byte is, is its place modulo 8. *)
LEMMA PlaceInWord ==
    ASSUME NEW c \in AccessSet, InWord(c), NEW j \in Bytes(c)
    PROVE  j - c.base = j % 8
BY DEF AccessSet, InWord, Bytes

(* The byteLength bytes at dst and at src are the same. *)
SameBytes(mem, dst, src, byteLength) ==
    \A j \in 0..(byteLength - 1) : mem[dst + j] = mem[src + j]

(***************************************************************************)
(* MemCmp is true exactly when the byteLength bytes at dst and at src are  *)
(* the same, whatever the memory, the length and the places, overlapping   *)
(* ones too: it misses no byte and looks at none beyond.                   *)
(***************************************************************************)
THEOREM MemCmpExact ==
    ASSUME NEW mem, NEW dst \in Nat, NEW src \in Nat, NEW byteLength \in Nat
    PROVE  MemCmp(mem, dst, src, byteLength) <=> SameBytes(mem, dst, src, byteLength)
<1> DEFINE s == Accesses(byteLength)
           Same(j) == mem[dst + j] = mem[src + j]
<1>1. /\ s \in Seq(AccessSet)
      /\ \A j : Touched(s, 1..Len(s), j) <=> j \in 0..(byteLength - 1)
  BY AccessesCover DEF Covers
<1>2. MemCmp(mem, dst, src, byteLength)
        <=> \A k \in 1..Len(s) : \A i \in 0..(s[k].width - 1) :
              mem[dst + s[k].base + s[k].off + i] = mem[src + s[k].base + s[k].off + i]
  BY DEF MemCmp
<1> HIDE DEF s
<1>3. ASSUME NEW k \in 1..Len(s)
      PROVE  (\A i \in 0..(s[k].width - 1) :
                mem[dst + s[k].base + s[k].off + i] = mem[src + s[k].base + s[k].off + i])
               <=> \A j \in Bytes(s[k]) : Same(j)
  <2> DEFINE base == s[k].base
             off == s[k].off
             width == s[k].width
             at == base + off
  <2>1. base \in Nat /\ off \in Nat /\ width \in Nat /\ Bytes(s[k]) = at..(at + width - 1)
    <3>1. s[k] \in AccessSet
      BY <1>1
    <3> QED
      BY <3>1 DEF AccessSet, Bytes
  <2> HIDE DEF base, off, width
  <2>2. /\ \A i \in 0..(width - 1) : at + i \in at..(at + width - 1)
        /\ \A j \in at..(at + width - 1) : j - at \in 0..(width - 1) /\ at + (j - at) = j
    BY <2>1
  <2> HIDE DEF at, Same
  <2>3. ASSUME NEW i \in 0..(width - 1)
        PROVE  mem[dst + base + off + i] = mem[src + base + off + i] <=> Same(at + i)
    <3>1. dst + base + off + i = dst + (at + i) /\ src + base + off + i = src + (at + i)
      BY <2>1 DEF at
    <3> QED
      BY <3>1 DEF Same
  <2>4. (\A i \in 0..(width - 1) : Same(at + i)) <=> \A j \in at..(at + width - 1) : Same(j)
    BY <2>2
  <2> QED
    BY <2>1, <2>3, <2>4 DEF base, off, width
<1> HIDE DEF Same
<1>4. (\A k \in 1..Len(s) : \A j \in Bytes(s[k]) : Same(j)) <=> \A j \in 0..(byteLength - 1) : Same(j)
  BY <1>1 DEF Touched
<1> QED
  BY <1>2, <1>3, <1>4 DEF Same, SameBytes

-----------------------------------------------------------------------------
(* Induction without an operator: a set of naturals has a least element ... *)
LEMMA LeastNatural ==
    ASSUME NEW T \in SUBSET Nat, T # {}
    PROVE  \E n \in T : \A m \in T : n <= m
<1>1. PICK n \in T : \A m \in T : ~(<<m, n>> \in OpToRel(<, Nat))
  BY WFMin, NatLessThanWellFounded
<1>2. ASSUME NEW m \in T PROVE n <= m
  <2>1. m \in Nat /\ n \in Nat
    OBVIOUS
  <2>2. m < n => <<m, n>> \in OpToRel(<, Nat)
    BY <2>1, Zenon DEF OpToRel
  <2>3. ~(m < n)
    BY <1>1, <2>2
  <2> QED
    BY <2>1, <2>3
<1> QED
  BY <1>2

(* ... a set of indices the greatest, with which FoldLeft goes on ... *)
LEMMA GreatestIndex ==
    ASSUME NEW N \in Nat, NEW S \in SUBSET (1..N), S # {}
    PROVE  Max(S) \in S /\ \A i \in S : i <= Max(S)
<1> DEFINE D == {N - i : i \in S}
<1>0. \A i \in S : i \in Int /\ N - i \in Nat
  OBVIOUS
<1>1. D \in SUBSET Nat /\ D # {}
  BY <1>0
<1>2. PICK d \in D : \A e \in D : d <= e
  <2> HIDE DEF D
  <2> QED
    BY <1>1, LeastNatural
<1>3. PICK x \in S : d = N - x
  BY <1>2
<1>4. ASSUME NEW y \in S PROVE x >= y
  <2>1. N - x <= N - y
    BY <1>2, <1>3
  <2> QED
    BY <1>0, <2>1
<1>5. Max(S) \in S /\ \A y \in S : Max(S) >= y
  BY <1>4 DEF Max
<1> QED
  BY <1>0, <1>5

(* ... and what agrees before an index and keeps agreeing, agrees at the end. *)
LEMMA FoldInduction ==
    ASSUME NEW N \in Nat, NEW f, NEW h, f[{}] = h[{}],
           \A S \in SUBSET (1..N) :
             S # {} /\ f[S \ {Max(S)}] = h[S \ {Max(S)}] => f[S] = h[S]
    PROVE  f[1..N] = h[1..N]
<1> DEFINE T == {n \in 0..N : \E S \in SUBSET (1..n) : f[S] # h[S]}
<1>1. SUFFICES ASSUME T # {} PROVE FALSE
  OBVIOUS
<1>2. PICK n \in T : \A m \in T : n <= m
  <2>1. T \in SUBSET Nat
    OBVIOUS
  <2> QED
    BY <1>1, <2>1, LeastNatural
<1>3. PICK S \in SUBSET (1..n) : f[S] # h[S]
  BY <1>2
<1>4. n \in 0..N /\ S \in SUBSET (1..N) /\ S # {}
  BY <1>2, <1>3
<1> DEFINE x == Max(S)
<1>5. x \in S /\ \A i \in S : i <= x
  BY <1>4, GreatestIndex
<1> HIDE DEF x
<1>6. /\ x - 1 \in 0..N /\ x - 1 < n
  BY <1>3, <1>4, <1>5
<1>7. S \ {x} \in SUBSET (1..(x - 1))
  BY <1>4, <1>5
<1>8. x - 1 \notin T
  BY <1>2, <1>4, <1>6
<1>9. f[S \ {x}] = h[S \ {x}]
  BY <1>6, <1>7, <1>8
<1> QED
  BY <1>3, <1>4, <1>9 DEF x

-----------------------------------------------------------------------------
(* One access of MemCpy, and the equation that FoldLeft solves for all of them. *)
CopyOne(m, dst, src, c) ==
    Store(m, dst + c.base + c.off, c.width, [i \in 0..(c.width - 1) |-> m[src + c.base + c.off + i]])

CopySteps(mem, dst, src, s, f) ==
    [S \in SUBSET (DOMAIN s) |->
        IF S = {} THEN mem ELSE CopyOne(f[S \ {Max(S)}], dst, src, s[Max(S)])]

LEMMA MemCpyFold ==
    ASSUME NEW mem, NEW dst, NEW src, NEW byteLength
    PROVE  LET s == Accesses(byteLength)
           IN MemCpy(mem, dst, src, byteLength)
                = (CHOOSE f : f = CopySteps(mem, dst, src, s, f))[DOMAIN s]
BY DEF MemCpy, FoldLeft, MapThenFoldSet, CopySteps, CopyOne

(* A memory after the bytes that the accesses in S touch are copied. *)
CopiedBy(mem, dst, src, s, S) ==
    [a \in DOMAIN mem |-> IF Touched(s, S, a - dst) THEN mem[src + (a - dst)] ELSE mem[a]]

(* A memory with a region of n bytes at src that does not overlap the one at dst. *)
IsMemory(mem) == mem = [a \in DOMAIN mem |-> mem[a]] /\ DOMAIN mem \subseteq Int
Apart(mem, dst, src, n) ==
    /\ IsMemory(mem) /\ dst \in Nat /\ src \in Nat /\ n \in Nat
    /\ src..(src + n - 1) \subseteq DOMAIN mem
    /\ dst + n <= src \/ src + n <= dst

(* One more access copies its bytes: what it loads has not been written to. *)
LEMMA CopyOneMore ==
    ASSUME NEW mem, NEW dst, NEW src, NEW n, Apart(mem, dst, src, n),
           NEW s, Covers(s, 0, n), NEW S \in SUBSET (1..Len(s)), NEW x \in S
    PROVE  CopyOne(CopiedBy(mem, dst, src, s, S \ {x}), dst, src, s[x]) = CopiedBy(mem, dst, src, s, S)
<1> DEFINE m == CopiedBy(mem, dst, src, s, S \ {x})
           base == s[x].base
           off == s[x].off
           width == s[x].width
           at == dst + base + off
           bytes == [i \in 0..(width - 1) |-> m[src + base + off + i]]
<1>1. DOMAIN m = DOMAIN mem
  BY DEF CopiedBy
<1>2. base \in Nat /\ off \in Nat /\ width \in Nat
  <2>1. s[x] \in AccessSet
    BY DEF Covers
  <2> QED
    BY <2>1 DEF AccessSet
<1>3. \A j : j \in Bytes(s[x]) <=> j \in (base + off)..(base + off + width - 1)
  BY DEF Bytes
<1>4. \A j : Touched(s, S, j) <=> Touched(s, S \ {x}, j) \/ j \in Bytes(s[x])
  BY DEF Touched
<1>5. \A j : Touched(s, S, j) => j \in 0..(n - 1)
  BY DEF Covers, Touched
<1> HIDE DEF base, off, width
<1>6. ASSUME NEW a \in DOMAIN mem
      PROVE  /\ a \in at..(at + width - 1) <=> a - dst \in Bytes(s[x])
             /\ a \in at..(at + width - 1) => bytes[a - at] = mem[src + (a - dst)]
  <2>1. a \in Int
    BY DEF Apart, IsMemory
  <2>2. a \in at..(at + width - 1) <=> a - dst \in Bytes(s[x])
    BY <1>2, <1>3, <2>1 DEF Apart
  <2>3. ASSUME a \in at..(at + width - 1) PROVE bytes[a - at] = mem[src + (a - dst)]
    <3> DEFINE l == src + (a - dst)
    <3>1. a - at \in 0..(width - 1) /\ src + base + off + (a - at) = l
      BY <1>2, <2>1, <2>3 DEF Apart
    <3>2. bytes[a - at] = m[l]
      BY <3>1
    <3>3. a - dst \in 0..(n - 1)
      BY <1>4, <1>5, <2>2, <2>3
    <3>4. l \in DOMAIN mem /\ l - dst \notin 0..(n - 1)
      BY <2>1, <3>3 DEF Apart
    <3>5. ~Touched(s, S \ {x}, l - dst)
      BY <1>4, <1>5, <3>4
    <3>6. m[l] = mem[l]
      BY <3>4, <3>5 DEF CopiedBy
    <3> QED
      BY <3>2, <3>6
  <2> QED
    BY <2>2, <2>3
<1>7. CopyOne(m, dst, src, s[x]) =
        [a \in DOMAIN mem |-> IF a \in at..(at + width - 1) THEN bytes[a - at] ELSE m[a]]
  BY <1>1 DEF CopyOne, Store, base, off, width
<1>8. \A a \in DOMAIN mem : m[a] = IF Touched(s, S \ {x}, a - dst) THEN mem[src + (a - dst)] ELSE mem[a]
  BY DEF CopiedBy
<1>9. \A a \in DOMAIN mem :
        (IF a \in at..(at + width - 1) THEN bytes[a - at] ELSE m[a])
          = IF Touched(s, S, a - dst) THEN mem[src + (a - dst)] ELSE mem[a]
  <2> HIDE DEF m, bytes, at
  <2> QED
    BY <1>4, <1>6, <1>8
<1> QED
  <2> HIDE DEF m, bytes, at
  <2>1. CopyOne(m, dst, src, s[x]) = CopiedBy(mem, dst, src, s, S)
    BY <1>7, <1>9 DEF CopiedBy
  <2> QED
    BY <2>1 DEF m

Copied(mem, dst, src, n) ==
    [a \in DOMAIN mem |-> IF a \in dst..(dst + n - 1) THEN mem[src + (a - dst)] ELSE mem[a]]

(***************************************************************************)
(* MemCpy between regions that do not overlap copies exactly the           *)
(* byteLength bytes asked for and touches no other, for every memory,      *)
(* length and place, although the accesses of the tail overlap.            *)
(***************************************************************************)
THEOREM MemCpyExact ==
    ASSUME NEW mem, NEW dst, NEW src, NEW byteLength, Apart(mem, dst, src, byteLength)
    PROVE  MemCpy(mem, dst, src, byteLength) = Copied(mem, dst, src, byteLength)
<1> DEFINE s == Accesses(byteLength)
           h == [S \in SUBSET (DOMAIN s) |-> CopiedBy(mem, dst, src, s, S)]
           f == CHOOSE g : g = CopySteps(mem, dst, src, s, g)
<1>0. byteLength \in Nat /\ dst \in Nat /\ IsMemory(mem)
  BY DEF Apart
<1>1. Covers(s, 0, byteLength)
  BY <1>0, AccessesCover
<1>2. MemCpy(mem, dst, src, byteLength) = f[DOMAIN s]
  BY MemCpyFold
<1> HIDE DEF s, f
<1>3. DOMAIN s = 1..Len(s) /\ Len(s) \in Nat
  BY <1>1 DEF Covers
<1>4. CopiedBy(mem, dst, src, s, {}) = mem
  <2>1. \A j : ~Touched(s, {}, j)
    BY DEF Touched
  <2> QED
    BY <1>0, <2>1 DEF CopiedBy, IsMemory
<1>5. ASSUME NEW S \in SUBSET (1..Len(s)), S # {}
      PROVE  /\ S \ {Max(S)} \in SUBSET (DOMAIN s)
             /\ CopyOne(h[S \ {Max(S)}], dst, src, s[Max(S)]) = h[S]
  <2>1. Max(S) \in S
    BY <1>3, <1>5, GreatestIndex
  <2>2. S \ {Max(S)} \in SUBSET (DOMAIN s) /\ S \in SUBSET (DOMAIN s)
    BY <1>3
  <2> DEFINE x == Max(S)
  <2> HIDE DEF x
  <2>3. CopyOne(CopiedBy(mem, dst, src, s, S \ {x}), dst, src, s[x]) = CopiedBy(mem, dst, src, s, S)
    <3>1. x \in S
      BY <2>1 DEF x
    <3> QED
      BY <1>1, <3>1, CopyOneMore
  <2> QED
    BY <2>2, <2>3 DEF x
<1>6. h = CopySteps(mem, dst, src, s, h)
  <2>1. \A S \in SUBSET (DOMAIN s) :
          h[S] = IF S = {} THEN mem ELSE CopyOne(h[S \ {Max(S)}], dst, src, s[Max(S)])
    <3>1. h[{}] = mem
      BY <1>4
    <3> HIDE DEF h
    <3> QED
      BY <1>3, <1>5, <3>1
  <2>2. h = [S \in SUBSET (DOMAIN s) |-> h[S]]
    OBVIOUS
  <2> HIDE DEF h
  <2> QED
    BY <2>1, <2>2 DEF CopySteps
<1>7. f = CopySteps(mem, dst, src, s, f)
  <2> HIDE DEF h
  <2>1. \E g : g = CopySteps(mem, dst, src, s, g)
    BY <1>6
  <2> QED
    BY <2>1, Zenon DEF f
<1>8. \A S \in SUBSET (1..Len(s)) :
        f[S] = IF S = {} THEN mem ELSE CopyOne(f[S \ {Max(S)}], dst, src, s[Max(S)])
  BY <1>3, <1>7 DEF CopySteps
<1>9. f[1..Len(s)] = h[1..Len(s)]
  <2>1. f[{}] = h[{}]
    BY <1>4, <1>8
  <2>2. \A S \in SUBSET (1..Len(s)) : S # {} /\ f[S \ {Max(S)}] = h[S \ {Max(S)}] => f[S] = h[S]
    <3> HIDE DEF h
    <3> QED
      BY <1>5, <1>8
  <2> HIDE DEF h
  <2> QED
    BY <1>3, <2>1, <2>2, FoldInduction
<1>10. h[1..Len(s)] = CopiedBy(mem, dst, src, s, 1..Len(s))
  BY <1>3
<1>11. \A a \in DOMAIN mem : Touched(s, 1..Len(s), a - dst) <=> a \in dst..(dst + byteLength - 1)
  <2>1. \A a \in DOMAIN mem : a - dst \in 0..(byteLength - 1) <=> a \in dst..(dst + byteLength - 1)
    BY <1>0 DEF IsMemory
  <2> QED
    BY <1>1, <2>1 DEF Covers
<1> QED
  <2> HIDE DEF h
  <2>1. MemCpy(mem, dst, src, byteLength) = CopiedBy(mem, dst, src, s, 1..Len(s))
    BY <1>2, <1>3, <1>9, <1>10
  <2> QED
    BY <1>11, <2>1 DEF CopiedBy, Copied

(***************************************************************************)
(* MemCpy and MemCmp agree with each other: after a copy the regions       *)
(* compare equal, and a change of any byte of either is seen.  This is     *)
(* what TLC tries up to MaxBytes, here for every value of it.              *)
(***************************************************************************)
THEOREM MemoryHolds == PluginSpec => []MemoryExact
<1>1. ASSUME NEW n \in Lengths, NEW p \in Disjoint(n)
      PROVE  LET dst == p[1]
                 src == p[2]
                 InDst(a) == a \in dst..(dst + n - 1)
                 copied == MemCpy(Memory, dst, src, n)
             IN /\ copied = [a \in DOMAIN Memory |-> IF InDst(a) THEN src + a - dst ELSE a]
                /\ \A a \in DOMAIN Memory :
                     MemCmp([copied EXCEPT ![a] = -1], dst, src, n)
                         <=> ~InDst(a) /\ a \notin src..(src + n - 1)
  <2> DEFINE dst == p[1]
             src == p[2]
             InDst(a) == a \in dst..(dst + n - 1)
             InSrc(a) == a \in src..(src + n - 1)
             copied == MemCpy(Memory, dst, src, n)
             D == 0..(2 * MaxBytes + 2)
  <2>1. /\ n \in Nat /\ dst \in Nat /\ src \in Nat /\ n <= MaxBytes /\ MaxBytes \in Nat
        /\ dst + n <= src \/ src + n <= dst
        /\ dst + n - 1 <= 2 * MaxBytes + 1 /\ src + n - 1 <= 2 * MaxBytes + 1
    BY UtilAssumption DEF Lengths, Disjoint
  <2>2. Memory \in [D -> D] /\ DOMAIN Memory = D /\ D \in SUBSET Int /\ \A a \in D : Memory[a] = a
    BY <2>1 DEF Memory
  <2> HIDE DEF dst, src
  <2>3. \A a : (InDst(a) => a \in D) /\ (InSrc(a) => a \in D)
    BY <2>1
  <2>4. /\ src..(src + n - 1) \subseteq D
        /\ \A a \in D : InDst(a) => src + (a - dst) \in D /\ src + (a - dst) = src + a - dst
    BY <2>1
  <2> HIDE DEF D
  <2>5. copied = [a \in D |-> IF InDst(a) THEN Memory[src + (a - dst)] ELSE Memory[a]]
    <3>1. Apart(Memory, dst, src, n)
      BY <2>1, <2>2, <2>4 DEF Apart, IsMemory
    <3>2. copied = Copied(Memory, dst, src, n)
      BY <3>1, MemCpyExact
    <3> QED
      BY <2>2, <3>2 DEF Copied
  <2>6. copied = [a \in D |-> IF InDst(a) THEN src + a - dst ELSE a]
    BY <2>2, <2>4, <2>5
  <2> HIDE DEF copied
  <2>7. ASSUME NEW a \in D
        PROVE  MemCmp([copied EXCEPT ![a] = -1], dst, src, n) <=> ~InDst(a) /\ ~InSrc(a)
    <3> DEFINE m == [copied EXCEPT ![a] = -1]
    <3>1. \A b \in D : m[b] = IF b = a THEN -1 ELSE IF InDst(b) THEN src + b - dst ELSE b
      BY <2>6
    <3> HIDE DEF m
    <3>2. ASSUME NEW j \in 0..(n - 1)
          PROVE  /\ dst + j \in D /\ src + j \in D /\ InDst(dst + j) /\ ~InDst(src + j)
                 /\ m[dst + j] = IF dst + j = a THEN -1 ELSE src + j
                 /\ m[src + j] = IF src + j = a THEN -1 ELSE src + j
      <4>1. InDst(dst + j) /\ InSrc(src + j) /\ ~InDst(src + j) /\ src + (dst + j) - dst = src + j
        BY <2>1
      <4>2. dst + j \in D /\ src + j \in D
        BY <2>3, <4>1
      <4> QED
        BY <3>1, <4>1, <4>2
    <3>3. MemCmp(m, dst, src, n) <=> SameBytes(m, dst, src, n)
      BY <2>1, MemCmpExact
    <3>4. \A j \in 0..(n - 1) : m[dst + j] = m[src + j] <=> dst + j # a /\ src + j # a
      BY <2>1, <3>2
    <3>5. (\A j \in 0..(n - 1) : dst + j # a /\ src + j # a) <=> ~InDst(a) /\ ~InSrc(a)
      <4>1. /\ InDst(a) => a - dst \in 0..(n - 1) /\ dst + (a - dst) = a
            /\ InSrc(a) => a - src \in 0..(n - 1) /\ src + (a - src) = a
        BY <2>1
      <4>2. \A j \in 0..(n - 1) : InDst(dst + j) /\ InSrc(src + j)
        BY <2>1
      <4> QED
        BY <4>1, <4>2
    <3>6. MemCmp(m, dst, src, n) <=> ~InDst(a) /\ ~InSrc(a)
      BY <3>3, <3>4, <3>5 DEF SameBytes
    <3> QED
      BY <3>6 DEF m
  <2> QED
    BY <2>2, <2>6, <2>7 DEF copied, dst, src
<1>2. CopiesAndCompares
  BY <1>1 DEF CopiesAndCompares
<1>3. MemoryExact
  BY <1>2 DEF MemoryExact
<1> QED
  BY <1>3, PTL
-----------------------------------------------------------------------------
(* One access of MemSet, and the equation for all of them. *)
FillOne(m, dst, value, c) ==
    Store(m, dst + c.base + c.off, c.width, [i \in 0..(c.width - 1) |-> ByteAt(value, c.off + i)])

FillSteps(mem, dst, value, s, f) ==
    [S \in SUBSET (DOMAIN s) |->
        IF S = {} THEN mem ELSE FillOne(f[S \ {Max(S)}], dst, value, s[Max(S)])]

LEMMA MemSetFold ==
    ASSUME NEW mem, NEW dst, NEW value, NEW byteLength
    PROVE  LET s == Accesses(byteLength)
           IN MemSet(mem, dst, value, byteLength)
                = (CHOOSE f : f = FillSteps(mem, dst, value, s, f))[DOMAIN s]
BY DEF MemSet, FoldLeft, MapThenFoldSet, FillSteps, FillOne

(* A memory after the bytes that the accesses in S touch are filled. *)
FilledBy(mem, dst, value, s, S) ==
    [a \in DOMAIN mem |-> IF Touched(s, S, a - dst) THEN ByteAt(value, (a - dst) % 8) ELSE mem[a]]

(* One more access fills its bytes; one of the tail goes on where the word's value is. *)
LEMMA FillOneMore ==
    ASSUME NEW mem, IsMemory(mem), NEW dst \in Nat, NEW value, NEW n,
           NEW s, Covers(s, 0, n), NEW S \in SUBSET (1..Len(s)), NEW x \in S
    PROVE  FillOne(FilledBy(mem, dst, value, s, S \ {x}), dst, value, s[x]) = FilledBy(mem, dst, value, s, S)
<1> DEFINE m == FilledBy(mem, dst, value, s, S \ {x})
           base == s[x].base
           off == s[x].off
           width == s[x].width
           at == dst + base + off
           bytes == [i \in 0..(width - 1) |-> ByteAt(value, off + i)]
<1>1. DOMAIN m = DOMAIN mem
  BY DEF FilledBy
<1>2. base \in Nat /\ off \in Nat /\ width \in Nat /\ s[x] \in AccessSet /\ InWord(s[x])
  <2>1. s[x] \in AccessSet /\ InWord(s[x])
    BY DEF Covers
  <2> QED
    BY <2>1 DEF AccessSet
<1>3. /\ \A j : j \in Bytes(s[x]) <=> j \in (base + off)..(base + off + width - 1)
      /\ \A j \in Bytes(s[x]) : j - base = j % 8
  BY <1>2, PlaceInWord DEF Bytes
<1>4. \A j : Touched(s, S, j) <=> Touched(s, S \ {x}, j) \/ j \in Bytes(s[x])
  BY DEF Touched
<1> HIDE DEF base, off, width
<1>5. ASSUME NEW a \in DOMAIN mem
      PROVE  /\ a \in at..(at + width - 1) <=> a - dst \in Bytes(s[x])
             /\ a \in at..(at + width - 1) => bytes[a - at] = ByteAt(value, (a - dst) % 8)
  <2>1. a \in Int
    BY DEF IsMemory
  <2>2. a \in at..(at + width - 1) <=> a - dst \in Bytes(s[x])
    BY <1>2, <1>3, <2>1
  <2>3. ASSUME a \in at..(at + width - 1) PROVE bytes[a - at] = ByteAt(value, (a - dst) % 8)
    <3>1. a - at \in 0..(width - 1) /\ off + (a - at) = (a - dst) - base
      BY <1>2, <2>1, <2>3
    <3>2. (a - dst) - base = (a - dst) % 8
      BY <1>3, <2>2, <2>3
    <3> QED
      BY <3>1, <3>2
  <2> QED
    BY <2>2, <2>3
<1>6. FillOne(m, dst, value, s[x]) =
        [a \in DOMAIN mem |-> IF a \in at..(at + width - 1) THEN bytes[a - at] ELSE m[a]]
  BY <1>1 DEF FillOne, Store, base, off, width
<1>7. \A a \in DOMAIN mem : m[a] = IF Touched(s, S \ {x}, a - dst) THEN ByteAt(value, (a - dst) % 8) ELSE mem[a]
  BY DEF FilledBy
<1>8. \A a \in DOMAIN mem :
        (IF a \in at..(at + width - 1) THEN bytes[a - at] ELSE m[a])
          = IF Touched(s, S, a - dst) THEN ByteAt(value, (a - dst) % 8) ELSE mem[a]
  <2> HIDE DEF m, bytes, at
  <2> QED
    BY <1>4, <1>5, <1>7
<1> QED
  <2> HIDE DEF m, bytes, at
  <2>1. FillOne(m, dst, value, s[x]) = FilledBy(mem, dst, value, s, S)
    BY <1>6, <1>8 DEF FilledBy
  <2> QED
    BY <2>1 DEF m

Filled8(mem, dst, value, n) ==
    [a \in DOMAIN mem |-> IF a \in dst..(dst + n - 1) THEN ByteAt(value, (a - dst) % 8) ELSE mem[a]]

(***************************************************************************)
(* MemSet of a ulong fills exactly the byteLength bytes at dst with the    *)
(* eight bytes of the value over and over, for every memory, length, place *)
(* and value, and touches no other byte.                                   *)
(***************************************************************************)
THEOREM MemSetExact ==
    ASSUME NEW mem, IsMemory(mem), NEW dst \in Nat, NEW value, NEW byteLength \in Nat
    PROVE  MemSet(mem, dst, value, byteLength) = Filled8(mem, dst, value, byteLength)
<1> DEFINE s == Accesses(byteLength)
           h == [S \in SUBSET (DOMAIN s) |-> FilledBy(mem, dst, value, s, S)]
           f == CHOOSE g : g = FillSteps(mem, dst, value, s, g)
<1>1. Covers(s, 0, byteLength)
  BY AccessesCover
<1>2. MemSet(mem, dst, value, byteLength) = f[DOMAIN s]
  BY MemSetFold
<1> HIDE DEF s, f
<1>3. DOMAIN s = 1..Len(s) /\ Len(s) \in Nat
  BY <1>1 DEF Covers
<1>4. FilledBy(mem, dst, value, s, {}) = mem
  <2>1. \A j : ~Touched(s, {}, j)
    BY DEF Touched
  <2> QED
    BY <2>1 DEF FilledBy, IsMemory
<1>5. ASSUME NEW S \in SUBSET (1..Len(s)), S # {}
      PROVE  /\ S \ {Max(S)} \in SUBSET (DOMAIN s)
             /\ FillOne(h[S \ {Max(S)}], dst, value, s[Max(S)]) = h[S]
  <2>1. Max(S) \in S
    BY <1>3, <1>5, GreatestIndex
  <2>2. S \ {Max(S)} \in SUBSET (DOMAIN s) /\ S \in SUBSET (DOMAIN s)
    BY <1>3
  <2> DEFINE x == Max(S)
  <2> HIDE DEF x
  <2>3. FillOne(FilledBy(mem, dst, value, s, S \ {x}), dst, value, s[x]) = FilledBy(mem, dst, value, s, S)
    <3>1. x \in S
      BY <2>1 DEF x
    <3> QED
      BY <1>1, <3>1, FillOneMore
  <2> QED
    BY <2>2, <2>3 DEF x
<1>6. h = FillSteps(mem, dst, value, s, h)
  <2>1. \A S \in SUBSET (DOMAIN s) :
          h[S] = IF S = {} THEN mem ELSE FillOne(h[S \ {Max(S)}], dst, value, s[Max(S)])
    <3>1. h[{}] = mem
      BY <1>4
    <3> HIDE DEF h
    <3> QED
      BY <1>3, <1>5, <3>1
  <2>2. h = [S \in SUBSET (DOMAIN s) |-> h[S]]
    OBVIOUS
  <2> HIDE DEF h
  <2> QED
    BY <2>1, <2>2 DEF FillSteps
<1>7. f = FillSteps(mem, dst, value, s, f)
  <2> HIDE DEF h
  <2>1. \E g : g = FillSteps(mem, dst, value, s, g)
    BY <1>6
  <2> QED
    BY <2>1, Zenon DEF f
<1>8. \A S \in SUBSET (1..Len(s)) :
        f[S] = IF S = {} THEN mem ELSE FillOne(f[S \ {Max(S)}], dst, value, s[Max(S)])
  BY <1>3, <1>7 DEF FillSteps
<1>9. f[1..Len(s)] = h[1..Len(s)]
  <2>1. f[{}] = h[{}]
    BY <1>4, <1>8
  <2>2. \A S \in SUBSET (1..Len(s)) : S # {} /\ f[S \ {Max(S)}] = h[S \ {Max(S)}] => f[S] = h[S]
    <3> HIDE DEF h
    <3> QED
      BY <1>5, <1>8
  <2> HIDE DEF h
  <2> QED
    BY <1>3, <2>1, <2>2, FoldInduction
<1>10. h[1..Len(s)] = FilledBy(mem, dst, value, s, 1..Len(s))
  BY <1>3
<1>11. \A a \in DOMAIN mem : Touched(s, 1..Len(s), a - dst) <=> a \in dst..(dst + byteLength - 1)
  <2>1. \A a \in DOMAIN mem : a - dst \in 0..(byteLength - 1) <=> a \in dst..(dst + byteLength - 1)
    BY DEF IsMemory
  <2> QED
    BY <1>1, <2>1 DEF Covers
<1> QED
  <2> HIDE DEF h
  <2>1. MemSet(mem, dst, value, byteLength) = FilledBy(mem, dst, value, s, 1..Len(s))
    BY <1>2, <1>3, <1>9, <1>10
  <2> QED
    BY <1>11, <2>1 DEF FilledBy, Filled8

(* A value of n bytes shifted and or-ed: byte i of the 64 bits is its byte i modulo n. *)
LEMMA PatternBytes ==
    ASSUME NEW n \in {1, 2, 4}, NEW x \in SUBSET (0..(8 * n - 1)), NEW i \in 0..7
    PROVE  ByteAt(Pattern(x, 8 * n), i) = ByteAt(x, i % n)
<1> DEFINE w == 8 * n
           p == Pattern(x, w)
<1>1. /\ w \in {8, 16, 32} /\ 64 \div w \in Nat /\ x \in SUBSET Nat
      /\ \A k \in 0..(64 \div w - 1) : k \in Nat /\ k * w \in Nat
  OBVIOUS
<1>2. \A b : b \in p <=> b \in 0..63 /\ \E k \in 0..(64 \div w - 1) : b - k * w \in x
  <2>1. \A k \in 0..(64 \div w - 1) : \A b :
          b \in Shl(x, k * w, 64) <=> b \in 0..(64 - 1) /\ b - k * w \in x
    BY <1>1, ShlBits
  <2>2. \A b : b \in p <=> \E k \in 0..(64 \div w - 1) : b \in Shl(x, k * w, 64)
    BY DEF Pattern
  <2>3. \A k \in 0..(64 \div w - 1) : \A b : b \in Shl(x, k * w, 64) <=> b \in 0..63 /\ b - k * w \in x
    BY <2>1
  <2> HIDE DEF p, w
  <2> QED
    BY <2>2, <2>3, Zenon
<1>3. p \in SUBSET Nat
  BY <1>2
<1> HIDE DEF p
<1>4. ASSUME NEW c \in 0..7
      PROVE  c + 8 * i \in p <=> c + 8 * (i % n) \in x
  <2>1. CASE n = 1
    <3>1. c + 8 * i \in p <=> \E k \in 0..7 : c + 8 * i - k * 8 \in x
      BY <1>2, <2>1
    <3>2. \A k \in 0..7 : c + 8 * i - k * 8 \in 0..7 => k = i
      OBVIOUS
    <3> QED
      BY <2>1, <3>1, <3>2
  <2>2. CASE n = 2
    <3>1. c + 8 * i \in p <=> \E k \in 0..3 : c + 8 * i - k * 16 \in x
      BY <1>2, <2>2
    <3>2. /\ \A k \in 0..3 : c + 8 * i - k * 16 \in 0..15 => k = i \div 2
          /\ i \div 2 \in 0..3 /\ c + 8 * i - (i \div 2) * 16 = c + 8 * (i % 2)
      OBVIOUS
    <3> QED
      BY <2>2, <3>1, <3>2
  <2>3. CASE n = 4
    <3>1. c + 8 * i \in p <=> \E k \in 0..1 : c + 8 * i - k * 32 \in x
      BY <1>2, <2>3
    <3>2. /\ \A k \in 0..1 : c + 8 * i - k * 32 \in 0..31 => k = i \div 4
          /\ i \div 4 \in 0..1 /\ c + 8 * i - (i \div 4) * 32 = c + 8 * (i % 4)
      OBVIOUS
    <3> QED
      BY <2>3, <3>1, <3>2
  <2> QED
    BY <2>1, <2>2, <2>3
<1>5. /\ \A b : b \in ByteAt(p, i) <=> b \in 0..7 /\ b + 8 * i \in p
      /\ \A b : b \in ByteAt(x, i % n) <=> b \in 0..7 /\ b + 8 * (i % n) \in x
  <2>1. i \in Nat /\ i % n \in Nat
    OBVIOUS
  <2> QED
    BY <1>1, <1>3, <2>1, ByteBits
<1>6. ByteAt(p, i) = ByteAt(x, i % n)
  BY <1>4, <1>5
<1> QED
  BY <1>6 DEF p

(* The n bytes at dst repeat the value's bytes. *)
FilledWith(mem, dst, x, bytes, n) ==
    [a \in DOMAIN mem |-> IF a \in dst..(dst + n - 1) THEN ByteAt(x, (a - dst) % bytes) ELSE mem[a]]

LEMMA PatternFills ==
    ASSUME NEW mem, IsMemory(mem), NEW dst \in Nat, NEW byteLength \in Nat,
           NEW n \in {1, 2, 4}, NEW x \in SUBSET (0..(8 * n - 1))
    PROVE  MemSet(mem, dst, Pattern(x, 8 * n), byteLength) = FilledWith(mem, dst, x, n, byteLength)
<1> DEFINE v == Pattern(x, 8 * n)
<1>1. MemSet(mem, dst, v, byteLength) = Filled8(mem, dst, v, byteLength)
  BY MemSetExact
<1>2. ASSUME NEW a \in dst..(dst + byteLength - 1)
      PROVE  ByteAt(v, (a - dst) % 8) = ByteAt(x, (a - dst) % n)
  <2> DEFINE j == a - dst
  <2>1. j \in Nat /\ j % 8 \in 0..7 /\ (j % 8) % n = j % n
    OBVIOUS
  <2> HIDE DEF j
  <2>2. ByteAt(v, j % 8) = ByteAt(x, (j % 8) % n)
    BY <2>1, PatternBytes
  <2> QED
    BY <2>1, <2>2 DEF j
<1> HIDE DEF v
<1>3. MemSet(mem, dst, v, byteLength) = FilledWith(mem, dst, x, n, byteLength)
  BY <1>1, <1>2 DEF Filled8, FilledWith
<1> QED
  BY <1>3 DEF v

(***************************************************************************)
(* The overloads of MemSet repeat every byte, every short and every int    *)
(* that is not negative, for every memory, length and place.  (The sign of *)
(* a negative one runs into the rest of the pattern.)                      *)
(***************************************************************************)
THEOREM MemSetOverloads ==
    ASSUME NEW mem, IsMemory(mem), NEW dst \in Nat, NEW byteLength \in Nat
    PROVE  /\ \A x \in SUBSET (0..7) :
                MemSetByte(mem, dst, x, byteLength) = FilledWith(mem, dst, x, 1, byteLength)
           /\ \A x \in SUBSET (0..14) :
                MemSetShort(mem, dst, x, byteLength) = FilledWith(mem, dst, x, 2, byteLength)
           /\ \A x \in SUBSET (0..30) :
                MemSetInt(mem, dst, x, byteLength) = FilledWith(mem, dst, x, 4, byteLength)
<1>1. ASSUME NEW x \in SUBSET (0..7)
      PROVE  MemSetByte(mem, dst, x, byteLength) = FilledWith(mem, dst, x, 1, byteLength)
  <2>1. x \in SUBSET (0..(8 * 1 - 1)) /\ 8 * 1 = 8
    OBVIOUS
  <2>2. MemSet(mem, dst, Pattern(x, 8 * 1), byteLength) = FilledWith(mem, dst, x, 1, byteLength)
    BY <2>1, PatternFills
  <2> QED
    BY <2>1, <2>2 DEF MemSetByte
<1>2. ASSUME NEW x \in SUBSET (0..14)
      PROVE  MemSetShort(mem, dst, x, byteLength) = FilledWith(mem, dst, x, 2, byteLength)
  <2>1. x \in SUBSET (0..(8 * 2 - 1)) /\ 8 * 2 = 16 /\ SignExtend(x, 16) = x
    BY DEF SignExtend
  <2>2. MemSet(mem, dst, Pattern(x, 8 * 2), byteLength) = FilledWith(mem, dst, x, 2, byteLength)
    BY <2>1, PatternFills
  <2> QED
    BY <2>1, <2>2 DEF MemSetShort
<1>3. ASSUME NEW x \in SUBSET (0..30)
      PROVE  MemSetInt(mem, dst, x, byteLength) = FilledWith(mem, dst, x, 4, byteLength)
  <2>1. x \in SUBSET (0..(8 * 4 - 1)) /\ 8 * 4 = 32 /\ SignExtend(x, 32) = x
    BY DEF SignExtend
  <2>2. MemSet(mem, dst, Pattern(x, 8 * 4), byteLength) = FilledWith(mem, dst, x, 4, byteLength)
    BY <2>1, PatternFills
  <2> QED
    BY <2>1, <2>2 DEF MemSetInt
<1> QED
  BY <1>1, <1>2, <1>3

(***************************************************************************)
(* What TLC tries of MemSet and its overloads up to MaxBytes, for every    *)
(* value of it.                                                            *)
(***************************************************************************)
THEOREM MemSetHolds == PluginSpec => []MemSetRepeats
<1>1. IsMemory(Memory) /\ 1 \in Nat
  BY UtilAssumption DEF IsMemory, Memory
<1>2. ASSUME NEW n \in Lengths
      PROVE  LET Filled(x, bytes) ==
                   [a \in DOMAIN Memory |-> IF a \in 1..n THEN ByteAt(x, (a - 1) % bytes) ELSE Memory[a]]
             IN /\ \A x \in Samples(8) : MemSetByte(Memory, 1, x, n) = Filled(x, 1)
                /\ \A x \in Samples(15) : MemSetShort(Memory, 1, x, n) = Filled(x, 2)
                /\ \A i \in 0..30 : MemSetInt(Memory, 1, {i, 30 - i}, n) = Filled({i, 30 - i}, 4)
                /\ \A i \in 0..63 : MemSet(Memory, 1, {i, 63 - i}, n) = Filled({i, 63 - i}, 8)
  <2> DEFINE Filled(x, bytes) ==
               [a \in DOMAIN Memory |-> IF a \in 1..n THEN ByteAt(x, (a - 1) % bytes) ELSE Memory[a]]
  <2>1. n \in Nat /\ 1 + n - 1 = n
    BY UtilAssumption DEF Lengths
  <2>2. /\ \A x, bytes : FilledWith(Memory, 1, x, bytes, n) = Filled(x, bytes)
        /\ \A x : Filled8(Memory, 1, x, n) = Filled(x, 8)
    BY <2>1 DEF FilledWith, Filled8
  <2>3. /\ Samples(8) \subseteq SUBSET (0..7) /\ Samples(15) \subseteq SUBSET (0..14)
        /\ \A i \in 0..30 : {i, 30 - i} \in SUBSET (0..30)
    BY DEF Samples
  <2> HIDE DEF Filled
  <2>4. /\ \A x \in SUBSET (0..7) : MemSetByte(Memory, 1, x, n) = Filled(x, 1)
        /\ \A x \in SUBSET (0..14) : MemSetShort(Memory, 1, x, n) = Filled(x, 2)
        /\ \A x \in SUBSET (0..30) : MemSetInt(Memory, 1, x, n) = Filled(x, 4)
    BY <1>1, <2>1, <2>2, MemSetOverloads
  <2>5. \A x : MemSet(Memory, 1, x, n) = Filled(x, 8)
    BY <1>1, <2>1, <2>2, MemSetExact
  <2> QED
    BY <2>3, <2>4, <2>5 DEF Filled
<1>3. FillsRepeatedly
  BY <1>2 DEF FillsRepeatedly
<1>4. MemSetRepeats
  BY <1>3 DEF MemSetRepeats
<1> QED
  BY <1>4, PTL
=============================================================================
