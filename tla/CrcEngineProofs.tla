----------------------------- MODULE CrcEngineProofs -----------------------------
(***************************************************************************)
(* What crc.py computes of a telegram of any length.  calculate is a loop  *)
(* over the bytes, so that facts about it need induction over the natural  *)
(* numbers, which is derived here from the pigeonhole principle.           *)
(***************************************************************************)
EXTENDS CrcEngine, FiniteSetTheorems, SequenceTheorems, TLAPS

-----------------------------------------------------------------------------
(* Induction and loops.                                                    *)

\* What holds of 0, and of n + 1 where it holds of n, holds of every number: a
\* number it does not hold of would squeeze 0..n into 1..n.
LEMMA Counting ==
  ASSUME NEW T, 0 \in T, \A n \in Nat : n \in T => n + 1 \in T
  PROVE  \A n \in Nat : n \in T
<1> SUFFICES ASSUME NEW n \in Nat, n \notin T PROVE FALSE
  OBVIOUS
<1> DEFINE f == [i \in 0..n |-> IF i \in T THEN i + 1 ELSE i]
<1>1. f \in [0..n -> 1..n]
  OBVIOUS
<1>2. \A x, y \in 0..n : f[x] = f[y] => x = y
  OBVIOUS
<1>3. /\ IsFiniteSet(0..n) /\ Cardinality(0..n) = n + 1
      /\ IsFiniteSet(1..n) /\ Cardinality(1..n) = n
  BY FS_Interval
<1> HIDE DEF f
<1>4. Cardinality(1..n) < Cardinality(0..n)
  BY <1>3
<1>5. \E x, y \in 0..n : x # y /\ f[x] = f[y]
  BY <1>1, <1>3, <1>4, FS_PigeonHole, Zenon
<1> QED
  BY <1>2, <1>5

\* The first n of a sequence.
LEMMA FirstOf ==
  ASSUME NEW S, NEW s \in Seq(S), NEW n \in 0..Len(s)
  PROVE  /\ SubSeq(s, 1, n) \in Seq(S) /\ Len(SubSeq(s, 1, n)) = n
         /\ \A i \in 1..n : SubSeq(s, 1, n)[i] = s[i]
<1>1. \A i \in 1..n : s[i] \in S
  OBVIOUS
<1>2. n \in Int /\ (1 <= n \/ n = 0)
  OBVIOUS
<1> QED
  OBVIOUS

\* A loop of n rounds from first, where step[i, r] is what round i makes of r.
IsLoop(run, n, first, step) ==
  run[0] = first /\ \A i \in 1..n : run[i] = step[<<i, run[i - 1]>>]

\* There is such a loop.
LEMMA LoopExists ==
  ASSUME NEW S, NEW first \in S, NEW n \in Nat, NEW step \in [(1..n) \X S -> S]
  PROVE  \E run \in [0..n -> S] : IsLoop(run, n, first, step)
<1> DEFINE T == {m \in Nat : m <= n => \E run \in [0..m -> S] : IsLoop(run, m, first, step)}
<1>1. 0 \in T
  <2> DEFINE run == [i \in 0..0 |-> first]
  <2>1. run \in [0..0 -> S] /\ IsLoop(run, 0, first, step)
    BY DEF IsLoop
  <2> QED
    BY <2>1
<1>2. ASSUME NEW m \in Nat, m \in T PROVE m + 1 \in T
  <2> SUFFICES ASSUME m + 1 <= n
               PROVE  \E run \in [0..(m + 1) -> S] : IsLoop(run, m + 1, first, step)
    OBVIOUS
  <2>1. PICK run \in [0..m -> S] : IsLoop(run, m, first, step)
    BY <1>2
  <2> DEFINE longer == [i \in 0..(m + 1) |-> IF i <= m THEN run[i] ELSE step[<<m + 1, run[m]>>]]
  <2>2. step[<<m + 1, run[m]>>] \in S
    BY <2>1
  <2>3. longer \in [0..(m + 1) -> S]
    BY <2>1, <2>2
  <2>4. \A i \in 0..m : longer[i] = run[i]
    OBVIOUS
  <2>5. longer[m + 1] = step[<<m + 1, run[m]>>]
    OBVIOUS
  <2> HIDE DEF longer
  <2>6. ASSUME NEW i \in 1..(m + 1) PROVE longer[i] = step[<<i, longer[i - 1]>>]
    <3>1. CASE i = m + 1
      BY <2>4, <2>5, <3>1
    <3>2. CASE i \in 1..m
      BY <2>1, <2>4, <3>2 DEF IsLoop
    <3> QED
      BY <3>1, <3>2
  <2>7. longer[0] = first
    BY <2>1, <2>4 DEF IsLoop
  <2> QED
    BY <2>3, <2>6, <2>7 DEF IsLoop
<1>3. n \in T
  <2> HIDE DEF T
  <2> QED
    BY <1>1, <1>2, Counting
<1> QED
  BY <1>3

-----------------------------------------------------------------------------
(* Exclusive or, bit by bit.                                                *)

\* A sum of powers of two tells which powers are in it.
LEMMA UniqueBits ==
  ASSUME NEW x1 \in 0..1, NEW x2 \in 0..1, NEW x4 \in 0..1, NEW x8 \in 0..1,
         NEW x16 \in 0..1, NEW x32 \in 0..1, NEW x64 \in 0..1, NEW x128 \in 0..1,
         NEW y1 \in 0..1, NEW y2 \in 0..1, NEW y4 \in 0..1, NEW y8 \in 0..1,
         NEW y16 \in 0..1, NEW y32 \in 0..1, NEW y64 \in 0..1, NEW y128 \in 0..1,
         x1 * 1 + x2 * 2 + x4 * 4 + x8 * 8 + x16 * 16 + x32 * 32 + x64 * 64 + x128 * 128 =
         y1 * 1 + y2 * 2 + y4 * 4 + y8 * 8 + y16 * 16 + y32 * 32 + y64 * 64 + y128 * 128
  PROVE  /\ x1 = y1 /\ x2 = y2 /\ x4 = y4 /\ x8 = y8
         /\ x16 = y16 /\ x32 = y32 /\ x64 = y64 /\ x128 = y128
  OBVIOUS

\* A byte is the sum of its bits.
LEMMA ByteBits ==
  ASSUME NEW a \in Byte
  PROVE  a = (a % 2) + ((a \div 2) % 2) * 2 + ((a \div 4) % 2) * 4 + ((a \div 8) % 2) * 8 +
             ((a \div 16) % 2) * 16 + ((a \div 32) % 2) * 32 +
             ((a \div 64) % 2) * 64 + ((a \div 128) % 2) * 128
  BY DEF Byte

\* What is added to both of two numbers does not make their parities equal.
LEMMA ParityCancel ==
  ASSUME NEW a \in Nat, NEW b \in Nat, NEW c \in Nat, (a + b) % 2 = (c + b) % 2
  PROVE  a % 2 = c % 2
  OBVIOUS

\* The bits of a ^ b.
XorBit(a, b, p) == ((a \div p) + (b \div p)) % 2

\* Each is 0 or 1.
LEMMA XorBitType ==
  ASSUME NEW a \in Byte, NEW b \in Byte, NEW p \in {1, 2, 4, 8, 16, 32, 64, 128}
  PROVE  XorBit(a, b, p) \in 0..1
  BY DEF XorBit, Byte

\* a ^ b is the sum of its bits, and a byte.
LEMMA XorIsItsBits ==
  ASSUME NEW a \in Byte, NEW b \in Byte
  PROVE  /\ Xor(a, b) = XorBit(a, b, 1) * 1 + XorBit(a, b, 2) * 2 + XorBit(a, b, 4) * 4 +
                        XorBit(a, b, 8) * 8 + XorBit(a, b, 16) * 16 + XorBit(a, b, 32) * 32 +
                        XorBit(a, b, 64) * 64 + XorBit(a, b, 128) * 128
         /\ Xor(a, b) \in Byte
<1>1. /\ XorBit(a, b, 1) \in 0..1 /\ XorBit(a, b, 2) \in 0..1 /\ XorBit(a, b, 4) \in 0..1
      /\ XorBit(a, b, 8) \in 0..1 /\ XorBit(a, b, 16) \in 0..1 /\ XorBit(a, b, 32) \in 0..1
      /\ XorBit(a, b, 64) \in 0..1 /\ XorBit(a, b, 128) \in 0..1
  BY XorBitType
<1>2. Xor(a, b) = XorBit(a, b, 1) * 1 + XorBit(a, b, 2) * 2 + XorBit(a, b, 4) * 4 +
                  XorBit(a, b, 8) * 8 + XorBit(a, b, 16) * 16 + XorBit(a, b, 32) * 32 +
                  XorBit(a, b, 64) * 64 + XorBit(a, b, 128) * 128
  BY Zenon DEF Xor, XorBit
<1>3. Xor(a, b) \in 0..255
  BY <1>1, <1>2
<1> QED
  BY <1>2, <1>3 DEF Byte

\* It does not matter which of the two comes first.
LEMMA XorCommutes ==
  ASSUME NEW a \in Byte, NEW b \in Byte PROVE Xor(a, b) = Xor(b, a)
<1>1. \A p \in {1, 2, 4, 8, 16, 32, 64, 128} : XorBit(a, b, p) = XorBit(b, a, p)
  BY DEF XorBit, Byte
<1> QED
  BY <1>1, XorIsItsBits

\* Different bytes stay different under a common mask.
LEMMA XorInjective ==
  ASSUME NEW a \in Byte, NEW b \in Byte, NEW c \in Byte, Xor(a, b) = Xor(c, b) PROVE a = c
<1>1. \A p \in {1, 2, 4, 8, 16, 32, 64, 128} : XorBit(a, b, p) = XorBit(c, b, p)
  <2>1. /\ XorBit(a, b, 1) \in 0..1 /\ XorBit(a, b, 2) \in 0..1 /\ XorBit(a, b, 4) \in 0..1
        /\ XorBit(a, b, 8) \in 0..1 /\ XorBit(a, b, 16) \in 0..1 /\ XorBit(a, b, 32) \in 0..1
        /\ XorBit(a, b, 64) \in 0..1 /\ XorBit(a, b, 128) \in 0..1
    BY XorBitType
  <2>2. /\ XorBit(c, b, 1) \in 0..1 /\ XorBit(c, b, 2) \in 0..1 /\ XorBit(c, b, 4) \in 0..1
        /\ XorBit(c, b, 8) \in 0..1 /\ XorBit(c, b, 16) \in 0..1 /\ XorBit(c, b, 32) \in 0..1
        /\ XorBit(c, b, 64) \in 0..1 /\ XorBit(c, b, 128) \in 0..1
    BY XorBitType
  <2> QED
    BY <2>1, <2>2, XorIsItsBits, UniqueBits
<1>2. \A p \in {1, 2, 4, 8, 16, 32, 64, 128} : (a \div p) % 2 = (c \div p) % 2
  <2> SUFFICES ASSUME NEW p \in {1, 2, 4, 8, 16, 32, 64, 128}
               PROVE  (a \div p) % 2 = (c \div p) % 2
    OBVIOUS
  <2>1. a \div p \in Nat /\ b \div p \in Nat /\ c \div p \in Nat
    BY DEF Byte
  <2>2. ((a \div p) + (b \div p)) % 2 = ((c \div p) + (b \div p)) % 2
    BY <1>1, Zenon DEF XorBit
  <2> QED
    BY <2>1, <2>2, ParityCancel
<1>3. (a \div 1) % 2 = a % 2 /\ (c \div 1) % 2 = c % 2
  BY DEF Byte
<1> QED
  BY <1>2, <1>3, ByteBits

\* a ^ a is zero, and nothing else is.
LEMMA XorZero ==
  ASSUME NEW a \in Byte, NEW b \in Byte PROVE Xor(a, b) = 0 <=> a = b
<1>1. \A p \in {1, 2, 4, 8, 16, 32, 64, 128} : XorBit(b, b, p) = 0
  BY DEF XorBit, Byte
<1>2. Xor(b, b) = 0
  BY <1>1, XorIsItsBits
<1> QED
  BY <1>2, XorInjective

-----------------------------------------------------------------------------
(* The table.                                                               *)

\* One round keeps registers apart: a reduced one is odd, another even.
LEMMA ShiftInjective ==
  /\ \A a \in Byte : Shift(a) \in Byte
  /\ \A a, c \in Byte : Shift(a) = Shift(c) => a = c
  /\ Shift(0) = 0
<1>1. Polynomial \in Byte
  BY DEF Polynomial, Byte
<1>2. ASSUME NEW a \in Byte PROVE (2 * a) % 256 \in Byte
  BY DEF Byte
<1>3. ASSUME NEW a \in Byte, a < 128 PROVE Shift(a) = 2 * a /\ Shift(a) \in Byte
  BY <1>3 DEF Shift, Byte
<1>4. ASSUME NEW a \in Byte, a >= 128
      PROVE  Shift(a) = Xor((2 * a) % 256, Polynomial) /\ Shift(a) \in Byte
  BY <1>1, <1>2, <1>4, XorIsItsBits DEF Shift
<1>5. ASSUME NEW a \in Byte, a >= 128 PROVE Shift(a) % 2 = 1
  <2> DEFINE e == (2 * a) % 256
  <2>1. e \in Byte /\ e % 2 = 0
    BY DEF Byte
  <2>2. \A p \in {1, 2, 4, 8, 16, 32, 64, 128} : XorBit(e, Polynomial, p) \in 0..1
    BY <1>1, <2>1, XorBitType
  <2>3. XorBit(e, Polynomial, 1) = 1
    BY <2>1 DEF XorBit, Polynomial, Byte
  <2>4. Shift(a) = Xor(e, Polynomial)
    BY <1>4, <1>5
  <2> HIDE DEF e
  <2>5. Xor(e, Polynomial) % 2 = 1
    BY <1>1, <2>1, <2>2, <2>3, XorIsItsBits
  <2> QED
    BY <2>4, <2>5
<1>6. ASSUME NEW a \in Byte, a < 128 PROVE Shift(a) % 2 = 0
  BY <1>3, <1>6 DEF Byte
<1>7. ASSUME NEW a \in Byte, NEW c \in Byte, Shift(a) = Shift(c) PROVE a = c
  <2>1. CASE a < 128 /\ c < 128
    BY <1>3, <1>7, <2>1 DEF Byte
  <2>2. CASE a >= 128 /\ c >= 128
    <3>1. (2 * a) % 256 = (2 * c) % 256
      BY <1>1, <1>2, <1>4, <1>7, <2>2, XorInjective
    <3> QED
      BY <2>2, <3>1 DEF Byte
  <2>3. CASE (a < 128 /\ c >= 128) \/ (a >= 128 /\ c < 128)
    BY <1>5, <1>6, <1>7, <2>3
  <2>4. (a < 128 \/ a >= 128) /\ (c < 128 \/ c >= 128)
    BY DEF Byte
  <2> QED
    BY <2>1, <2>2, <2>3, <2>4
<1>8. 0 \in Byte
  BY DEF Byte
<1>9. \A a \in Byte : Shift(a) \in Byte
  <2> SUFFICES ASSUME NEW a \in Byte PROVE Shift(a) \in Byte
    OBVIOUS
  <2>1. a < 128 \/ a >= 128
    BY DEF Byte
  <2> QED
    BY <1>3, <1>4, <2>1
<1> QED
  BY <1>3, <1>7, <1>8, <1>9

\* The table keeps registers apart, and only register 0 stays where it is at 0.
LEMMA TableInjective ==
  /\ \A a \in Byte : CrcTable[a] \in Byte
  /\ \A a, c \in Byte : CrcTable[a] = CrcTable[c] => a = c
  /\ CrcTable[0] = 0
<1>1. 0 \in Byte
  BY DEF Byte
<1>2. \A a \in Byte : CrcTable[a] = Shift(Shift(Shift(Shift(Shift(Shift(Shift(Shift(a))))))))
  BY DEF CrcTable
<1> QED
  BY <1>1, <1>2, ShiftInjective

\* One round of calculate keeps bytes apart for one register, and registers for
\* one byte; it comes to 0 where the byte is the register.
LEMMA UpdateProperties ==
  ASSUME NEW r \in Byte, NEW b \in Byte
  PROVE  /\ Update(r, b) \in Byte
         /\ Update(r, b) = 0 <=> r = b
         /\ \A s \in Byte : Update(r, b) = Update(s, b) => r = s
         /\ \A c \in Byte : Update(r, b) = Update(r, c) => b = c
<1>1. \A x, y \in Byte : Xor(x, y) \in Byte
  BY XorIsItsBits
<1>2. 0 \in Byte
  BY DEF Byte
<1>3. Update(r, b) = 0 <=> Xor(r, b) = 0
  BY <1>1, <1>2, TableInjective DEF Update
<1>4. \A s \in Byte : Update(r, b) = Update(s, b) => r = s
  BY <1>1, TableInjective, XorInjective DEF Update
<1>5. ASSUME NEW c \in Byte, Update(r, b) = Update(r, c) PROVE b = c
  <2>1. Xor(r, b) = Xor(r, c)
    BY <1>1, <1>5, TableInjective DEF Update
  <2>2. Xor(b, r) = Xor(c, r)
    BY <2>1, XorCommutes
  <2> QED
    BY <2>2, XorInjective
<1>6. Update(r, b) \in Byte
  BY <1>1, TableInjective DEF Update
<1> QED
  BY <1>3, <1>4, <1>5, <1>6, XorZero

-----------------------------------------------------------------------------
(* calculate, append and verify.                                            *)

\* The registers of calculate over data.
Registers(run, data) ==
  /\ run \in [0..Len(data) -> Byte] /\ run[0] = 0
  /\ \A i \in 1..Len(data) : run[i] = Update(run[i - 1], data[i])

\* calculate returns the last of its registers.
LEMMA CalculateRuns ==
  ASSUME NEW data \in Seq(Byte)
  PROVE  \E run : Registers(run, data) /\ Calculate(data) = run[Len(data)]
<1> DEFINE n == Len(data)
           Is(crc) == crc = [i \in 0..n |-> IF i = 0 THEN 0 ELSE Update(crc[i - 1], data[i])]
           chosen == CHOOSE crc : Is(crc)
           step == [p \in (1..n) \X Byte |-> Update(p[2], data[p[1]])]
<1>1. n \in Nat /\ 0 \in Byte /\ \A i \in 1..n : data[i] \in Byte
  <2>1. 0 \in Byte
    BY DEF Byte
  <2> QED
    BY <2>1
<1> HIDE DEF n
<1>2. step \in [(1..n) \X Byte -> Byte]
  BY <1>1, UpdateProperties
<1>3. \A i \in 1..n, r \in Byte : step[<<i, r>>] = Update(r, data[i])
  OBVIOUS
<1> HIDE DEF step
<1>4. PICK run \in [0..n -> Byte] : IsLoop(run, n, 0, step)
  BY <1>1, <1>2, LoopExists
<1>5. Is(run)
  BY <1>1, <1>3, <1>4 DEF IsLoop
<1>6. chosen = [i \in 0..n |-> IF i = 0 THEN 0 ELSE Update(chosen[i - 1], data[i])]
  BY <1>5, Zenon
<1>7. Calculate(data) = chosen[n]
  BY Zenon DEF Calculate, n
<1> HIDE DEF chosen
<1>8. chosen[0] = 0 /\ \A i \in 1..n : chosen[i] = Update(chosen[i - 1], data[i])
  BY <1>1, <1>6
<1> DEFINE T == {m \in Nat : m <= n => chosen[m] \in Byte}
<1>9. 0 \in T
  BY <1>1, <1>8
<1>10. ASSUME NEW m \in Nat, m \in T PROVE m + 1 \in T
  <2> SUFFICES ASSUME m + 1 <= n PROVE chosen[m + 1] \in Byte
    OBVIOUS
  <2>1. m + 1 \in 1..n /\ (m + 1) - 1 = m /\ chosen[m] \in Byte
    BY <1>1, <1>10
  <2>2. chosen[m + 1] = Update(chosen[m], data[m + 1])
    BY <1>8, <2>1
  <2> QED
    BY <1>1, <2>1, <2>2, UpdateProperties
<1> HIDE DEF T
<1>11. \A m \in Nat : m \in T
  BY <1>9, <1>10, Counting
<1>12. \A m \in 0..n : chosen[m] \in Byte
  BY <1>1, <1>11 DEF T
<1>13. chosen \in [0..n -> Byte]
  BY <1>6, <1>12
<1> QED
  BY <1>7, <1>8, <1>13 DEF Registers, n

\* Up to where two telegrams are equal, so are their registers.
LEMMA SameRegisters ==
  ASSUME NEW data, NEW more, NEW f, NEW g, Registers(f, data), Registers(g, more),
         NEW n \in Nat, Len(data) \in Nat, Len(more) \in Nat, n <= Len(data), n <= Len(more),
         \A i \in 1..n : data[i] = more[i]
  PROVE  f[n] = g[n]
<1> DEFINE T == {m \in Nat : m <= n => f[m] = g[m]}
<1>1. 0 \in T
  BY DEF Registers
<1>2. ASSUME NEW m \in Nat, m \in T PROVE m + 1 \in T
  <2> SUFFICES ASSUME m + 1 <= n PROVE f[m + 1] = g[m + 1]
    OBVIOUS
  <2>1. /\ m + 1 \in 1..n /\ m + 1 \in 1..Len(data) /\ m + 1 \in 1..Len(more)
        /\ (m + 1) - 1 = m /\ f[m] = g[m]
    BY <1>2
  <2> QED
    BY <2>1 DEF Registers
<1> HIDE DEF T
<1>3. n \in T
  BY <1>1, <1>2, Counting
<1> QED
  BY <1>3 DEF T

\* The CRC of no bytes is 0; a further byte is a further round.
LEMMA CalculateAppend ==
  /\ \A data \in Seq(Byte) : Calculate(data) \in Byte
  /\ Calculate(<<>>) = 0
  /\ \A data \in Seq(Byte), b \in Byte : Calculate(Append(data, b)) = Update(Calculate(data), b)
<1>1. ASSUME NEW data \in Seq(Byte) PROVE Calculate(data) \in Byte
  <2>1. Len(data) \in Nat
    OBVIOUS
  <2> QED
    BY <2>1, CalculateRuns DEF Registers
<1>2. Calculate(<<>>) = 0
  <2>1. <<>> \in Seq(Byte) /\ Len(<<>>) = 0
    OBVIOUS
  <2> QED
    BY <2>1, CalculateRuns DEF Registers
<1>3. ASSUME NEW data \in Seq(Byte), NEW b \in Byte
      PROVE  Calculate(Append(data, b)) = Update(Calculate(data), b)
  <2> DEFINE n == Len(data)
             more == Append(data, b)
  <2>1. /\ n \in Nat /\ more \in Seq(Byte) /\ Len(more) = n + 1
        /\ \A i \in 1..n : data[i] = more[i]
        /\ more[n + 1] = b
    OBVIOUS
  <2> HIDE DEF more
  <2>2. PICK f : Registers(f, data) /\ Calculate(data) = f[n]
    BY CalculateRuns
  <2>3. PICK g : Registers(g, more) /\ Calculate(more) = g[n + 1]
    BY <2>1, CalculateRuns
  <2> HIDE DEF n
  <2>4. f[n] = g[n]
    BY <2>1, <2>2, <2>3, SameRegisters DEF n
  <2>5. g[n + 1] = Update(g[n], more[n + 1])
    BY <2>1, <2>3 DEF Registers
  <2> QED
    BY <2>1, <2>2, <2>3, <2>4, <2>5 DEF more
<1> QED
  BY <1>1, <1>2, <1>3

\* What append makes is a telegram that verify accepts.
THEOREM AppendedVerifies ==
  ASSUME NEW data \in Seq(Byte), data # <<>>
  PROVE  AppendCrc(data) \in Seq(Byte) /\ Verify(AppendCrc(data))
<1> DEFINE crc == Calculate(data)
<1>1. crc \in Byte
  BY CalculateAppend
<1> HIDE DEF crc
<1>2. /\ data \o <<crc>> \in Seq(Byte) /\ Len(data \o <<crc>>) = Len(data) + 1
      /\ (data \o <<crc>>)[Len(data) + 1] = crc
      /\ Len(data) >= 1
  BY <1>1
<1>3. SubSeq(data \o <<crc>>, 1, Len(data)) = data
  BY <1>1, SubSeqOfConcat1
<1>4. (Len(data) + 1) - 1 = Len(data)
  OBVIOUS
<1>5. AppendCrc(data) = data \o <<crc>>
  BY DEF AppendCrc, crc
<1>6. Calculate(SubSeq(AppendCrc(data), 1, Len(AppendCrc(data)) - 1)) = crc
  BY <1>2, <1>3, <1>4, <1>5 DEF crc
<1> QED
  BY <1>2, <1>5, <1>6 DEF Verify

\* Of two telegrams that differ in one byte only, the CRC byte included, verify
\* accepts one at most, however long they are.
THEOREM OneChangeIsCaught ==
  ASSUME NEW t \in Seq(Byte), NEW u \in Seq(Byte), Len(t) = Len(u),
         NEW k \in 1..Len(t), t[k] # u[k], \A i \in 1..Len(t) : i # k => t[i] = u[i],
         Verify(t)
  PROVE  ~Verify(u)
<1> SUFFICES ASSUME Verify(u) PROVE FALSE
  OBVIOUS
<1> DEFINE n == Len(t) - 1
           a == SubSeq(t, 1, n)
           b == SubSeq(u, 1, n)
<1>1. /\ n \in Nat /\ Len(t) = n + 1 /\ k \in 1..(n + 1)
      /\ Calculate(a) = t[n + 1] /\ Calculate(b) = u[n + 1]
  BY DEF Verify
<1> HIDE DEF n
<1>2. /\ a \in Seq(Byte) /\ Len(a) = n /\ \A i \in 1..n : a[i] = t[i] /\ a[i] \in Byte
      /\ b \in Seq(Byte) /\ Len(b) = n /\ \A i \in 1..n : b[i] = u[i] /\ b[i] \in Byte
  <2>1. n \in 0..Len(t) /\ n \in 0..Len(u)
    BY <1>1
  <2>2. \A i \in 1..n : t[i] \in Byte /\ u[i] \in Byte
    BY <2>1
  <2> QED
    BY <2>1, <2>2, FirstOf
<1> HIDE DEF a, b
<1>3. PICK f : Registers(f, a) /\ Calculate(a) = f[n]
  BY <1>2, CalculateRuns
<1>4. PICK g : Registers(g, b) /\ Calculate(b) = g[n]
  BY <1>2, CalculateRuns
<1>5. CASE k = n + 1
  <2>1. \A i \in 1..n : a[i] = b[i]
    BY <1>1, <1>2, <1>5
  <2>2. f[n] = g[n]
    BY <1>1, <1>2, <1>3, <1>4, <2>1, SameRegisters
  <2> QED
    BY <1>1, <1>3, <1>4, <1>5, <2>2
<1>6. CASE k \in 1..n
  <2>1. f[k - 1] = g[k - 1]
    BY <1>1, <1>2, <1>3, <1>4, <1>6, SameRegisters
  <2>2. \A i \in 1..n : /\ f[i] = Update(f[i - 1], a[i]) /\ f[i - 1] \in Byte
                        /\ g[i] = Update(g[i - 1], b[i]) /\ g[i - 1] \in Byte
    <3> SUFFICES ASSUME NEW i \in 1..n
                 PROVE  /\ f[i] = Update(f[i - 1], a[i]) /\ f[i - 1] \in Byte
                        /\ g[i] = Update(g[i - 1], b[i]) /\ g[i - 1] \in Byte
      OBVIOUS
    <3>1. i - 1 \in 0..n
      BY <1>1
    <3> QED
      BY <1>2, <1>3, <1>4, <3>1 DEF Registers
  <2>3. f[k] # g[k]
    BY <1>2, <1>6, <2>1, <2>2, UpdateProperties
  <2> DEFINE T == {m \in Nat : k <= m /\ m <= n => f[m] # g[m]}
  <2>4. 0 \in T
    BY <1>6
  <2>5. ASSUME NEW m \in Nat, m \in T PROVE m + 1 \in T
    <3> SUFFICES ASSUME k <= m + 1, m + 1 <= n PROVE f[m + 1] # g[m + 1]
      OBVIOUS
    <3>1. CASE k = m + 1
      BY <2>3, <3>1
    <3>2. CASE k <= m
      <4>1. f[m] # g[m] /\ m + 1 \in 1..n /\ (m + 1) - 1 = m
        BY <1>1, <1>6, <2>5, <3>2
      <4>2. a[m + 1] = b[m + 1] /\ a[m + 1] \in Byte
        BY <1>1, <1>2, <1>6, <3>2, <4>1
      <4> QED
        BY <2>2, <4>1, <4>2, UpdateProperties
    <3> QED
      BY <1>6, <3>1, <3>2
  <2> HIDE DEF T
  <2>6. n \in T
    BY <1>1, <2>4, <2>5, Counting
  <2>7. f[n] # g[n]
    BY <1>1, <1>6, <2>6 DEF T
  <2>8. t[n + 1] = u[n + 1]
    BY <1>1, <1>6
  <2> QED
    BY <1>1, <1>3, <1>4, <2>7, <2>8
<1> QED
  BY <1>1, <1>5, <1>6
=================================================================================
