--------------------------- MODULE Packets_proofs ---------------------------
(***************************************************************************)
(* The packets of every well-formed command, whatever its data, their CRC  *)
(* and what both sides read in them: without noise all that was meant, and *)
(* with an odd number of flipped bits, or two of them, nothing.            *)
(***************************************************************************)
EXTENDS Packets, SequenceTheorems, FiniteSetTheorems, WellFoundedInduction, TLAPS

-----------------------------------------------------------------------------
(* Induction over sets of numbers, from the library's theorem that a set   *)
(* of natural numbers has a least element, and recursion from induction.   *)

LEMMA LeastNumber ==
  ASSUME NEW T \in SUBSET Nat, T # {}
  PROVE  \E n \in T : \A m \in T : ~(m < n)
<1>1. \A U \in SUBSET Nat : U # {} =>
        \E n \in U : \A m \in U : ~(<<m, n>> \in OpToRel(<, Nat))
  BY WFMin, NatLessThanWellFounded
<1> QED BY <1>1 DEF OpToRel

LEMMA Induction ==
  ASSUME NEW T \in SUBSET Nat, 0 \in T, \A n \in T : n + 1 \in T
  PROVE  T = Nat
<1> SUFFICES ASSUME T # Nat PROVE FALSE
  OBVIOUS
<1>1. PICK n \in Nat \ T : \A m \in Nat \ T : ~(m < n)
  BY LeastNumber
<1>2. n - 1 \in T
  BY <1>1
<1> QED BY <1>1, <1>2

\* A function that begins with start and goes on by step.
Follows(f, last, S, start, step) ==
  /\ f \in [0..last -> S]
  /\ f[0] = start
  /\ \A n \in 1..last : f[n] = step[<<f[n - 1], n>>]

LEMMA RecursionExists ==
  ASSUME NEW last \in Nat, NEW S, NEW start \in S, NEW step \in [S \X (1..last) -> S]
  PROVE  \E f : Follows(f, last, S, start, step)
<1> DEFINE Upto(f, n) ==
      f \in [0..n -> S] /\ f[0] = start /\ \A m \in 1..n : f[m] = step[<<f[m - 1], m>>]
    T == {n \in Nat : n <= last => \E f : Upto(f, n)}
<1>1. 0 \in T
  <2>1. Upto([m \in 0..0 |-> start], 0)
    OBVIOUS
  <2> QED BY <2>1
<1>2. ASSUME NEW n \in T PROVE n + 1 \in T
  <2> SUFFICES ASSUME n + 1 <= last PROVE \E f : Upto(f, n + 1)
    OBVIOUS
  <2>1. PICK f : Upto(f, n)
    OBVIOUS
  <2> DEFINE g == [m \in 0..n + 1 |-> IF m = n + 1 THEN step[<<f[n], n + 1>>] ELSE f[m]]
  <2>2. f[n] \in S /\ <<f[n], n + 1>> \in S \X (1..last)
    BY <2>1
  <2>3. step[<<f[n], n + 1>>] \in S
    BY <2>2
  <2>4. g \in [0..n + 1 -> S] /\ g[0] = start
    BY <2>1, <2>3
  <2>5. ASSUME NEW m \in 1..n + 1 PROVE g[m] = step[<<g[m - 1], m>>]
    <3>1. CASE m = n + 1
      <4>1. g[n + 1] = step[<<f[n], n + 1>>]
        OBVIOUS
      <4>2. g[n] = f[n] /\ m - 1 = n
        BY <3>1
      <4> HIDE DEF g
      <4> QED BY <3>1, <4>1, <4>2
    <3>2. CASE m \in 1..n
      <4>1. f[m] = step[<<f[m - 1], m>>]
        BY <2>1, <3>2
      <4>2. g[m] = f[m] /\ g[m - 1] = f[m - 1]
        BY <3>2
      <4> HIDE DEF g
      <4> QED BY <4>1, <4>2
    <3> QED BY <3>1, <3>2
  <2> HIDE DEF g
  <2> QED BY <2>4, <2>5
<1> HIDE DEF T
<1>3. T = Nat
  BY <1>1, <1>2, Induction DEF T
<1>4. \E f : Upto(f, last)
  <2>1. last \in T
    BY <1>3
  <2> HIDE DEF Upto
  <2> QED BY <2>1 DEF T
<1> QED BY <1>4 DEF Follows

\* Every function that begins and goes on like this has its values in S.
Continues(f, last, S, start, step) ==
  /\ f[0] = start
  /\ \A n \in 1..last : f[n - 1] \in S => f[n] = step[<<f[n - 1], n>>]

LEMMA RecursionStays ==
  ASSUME NEW last \in Nat, NEW S, NEW start \in S, NEW step \in [S \X (1..last) -> S],
         NEW f, Continues(f, last, S, start, step)
  PROVE  \A n \in 0..last : f[n] \in S
<1> USE DEF Continues
<1> DEFINE T == {n \in Nat : n <= last => f[n] \in S}
<1>1. 0 \in T
  OBVIOUS
<1>2. ASSUME NEW n \in T PROVE n + 1 \in T
  <2> SUFFICES ASSUME n + 1 <= last PROVE f[n + 1] \in S
    OBVIOUS
  <2>1. f[n] \in S /\ n + 1 \in 1..last /\ (n + 1) - 1 = n
    OBVIOUS
  <2>2. f[n + 1] = step[<<f[n], n + 1>>]
    BY <2>1
  <2> QED BY <2>1, <2>2
<1> HIDE DEF T
<1>3. T = Nat
  BY <1>1, <1>2, Induction DEF T
<1> QED BY <1>3 DEF T

-----------------------------------------------------------------------------
(* The recursive functions of both CRCs                                    *)

LEMMA CrcStepType ==
  ASSUME NEW register \in SUBSET (0..15), NEW byte, NEW b
  PROVE  CrcStep(register, byte, b) \in SUBSET (0..15)
BY DEF CrcStep, SymDiff, POLYNOM

LEMMA BitRegistersAre ==
  ASSUME NEW register \in SUBSET (0..15), NEW byte
  PROVE  LET after == BitRegisters(register, byte) IN
         /\ \A b \in 0..8 : after[b] \in SUBSET (0..15)
         /\ after[0] = register
         /\ \A b \in 1..8 : after[b] = CrcStep(after[b - 1], byte, b - 1)
<1> DEFINE S == SUBSET (0..15)
           F(f) == [b \in 0..8 |-> IF b = 0 THEN register ELSE CrcStep(f[b - 1], byte, b - 1)]
           step == [a \in S \X (1..8) |-> CrcStep(a[1], byte, a[2] - 1)]
<1>1. step \in [S \X (1..8) -> S]
  BY CrcStepType
<1>2. \A x \in S, b \in 1..8 : step[<<x, b>>] = CrcStep(x, byte, b - 1)
  OBVIOUS
<1>3. \E f : f = F(f)
  <2> HIDE DEF step, S
  <2>1. PICK f : Follows(f, 8, S, register, step)
    <3>1. register \in S /\ 8 \in Nat
      BY DEF S
    <3> QED BY <1>1, <3>1, RecursionExists
  <2>2. f \in [0..8 -> S] /\ f[0] = register
        /\ \A n \in 1..8 : f[n] = step[<<f[n - 1], n>>]
    BY <2>1 DEF Follows
  <2>3. \A n \in 1..8 : f[n - 1] \in S
    BY <2>2
  <2>4. \A n \in 1..8 : f[n] = CrcStep(f[n - 1], byte, n - 1)
    BY <1>2, <2>2, <2>3
  <2>5. f = F(f)
    BY <2>2, <2>4
  <2> QED BY <2>5
<1> DEFINE after == BitRegisters(register, byte)
<1>4. after = CHOOSE f : f = F(f)
  BY DEF BitRegisters
<1> HIDE DEF after
<1>5. after = F(after)
  BY <1>3, <1>4
<1>6. after[0] = register /\ \A b \in 1..8 : after[b] = CrcStep(after[b - 1], byte, b - 1)
  BY <1>5
<1>7. \A b \in 0..8 : after[b] \in S
  <2> HIDE DEF step, S
  <2>1. register \in S /\ 8 \in Nat
    BY DEF S
  <2>2. \A n \in 1..8 : after[n - 1] \in S => after[n] = step[<<after[n - 1], n>>]
    BY <1>2, <1>6
  <2>3. Continues(after, 8, S, register, step)
    BY <1>6, <2>2 DEF Continues
  <2> QED BY <1>1, <2>1, <2>3, RecursionStays
<1> QED BY <1>6, <1>7 DEF after

LEMMA CrcOfByteIs ==
  ASSUME NEW register \in SUBSET (0..15), NEW byte \in Byte
  PROVE  /\ CrcOfByte[<<register, byte>>] = BitRegisters(register, byte)[8]
         /\ CrcOfByte[<<register, byte>>] \in SUBSET (0..15)
<1>1. CrcOfByte[<<register, byte>>] = BitRegisters(register, byte)[8]
  BY DEF CrcOfByte
<1>2. \A b \in 0..8 : BitRegisters(register, byte)[b] \in SUBSET (0..15)
  BY BitRegistersAre, Zenon
<1> QED BY <1>1, <1>2

LEMMA RegistersAre ==
  ASSUME NEW bytes \in Seq(Byte)
  PROVE  LET after == Registers(bytes) IN
         /\ \A n \in 0..Len(bytes) : after[n] \in SUBSET (0..15)
         /\ after[0] = {}
         /\ \A n \in 1..Len(bytes) : after[n] = CrcOfByte[<<after[n - 1], bytes[n]>>]
<1> DEFINE L == Len(bytes)
           S == SUBSET (0..15)
           F(f) == [n \in 0..L |-> IF n = 0 THEN {} ELSE CrcOfByte[<<f[n - 1], bytes[n]>>]]
           step == [a \in S \X (1..L) |-> CrcOfByte[<<a[1], bytes[a[2]]>>]]
           after == Registers(bytes)
<1>1. L \in Nat /\ {} \in S /\ \A n \in 1..L : bytes[n] \in Byte
  OBVIOUS
<1>2. step \in [S \X (1..L) -> S]
  BY <1>1, CrcOfByteIs
<1>3. \A x \in S, n \in 1..L : step[<<x, n>>] = CrcOfByte[<<x, bytes[n]>>]
  OBVIOUS
<1>4. after = CHOOSE f : f = F(f)
  BY DEF Registers
<1> HIDE DEF step, S, L, after
<1>5. \E f : f = F(f)
  <2>1. PICK f : Follows(f, L, S, {}, step)
    BY <1>1, <1>2, RecursionExists
  <2>2. f \in [0..L -> S] /\ f[0] = {} /\ \A n \in 1..L : f[n] = step[<<f[n - 1], n>>]
    BY <2>1 DEF Follows
  <2>3. \A n \in 1..L : f[n - 1] \in S
    BY <1>1, <2>2
  <2>4. \A n \in 1..L : f[n] = CrcOfByte[<<f[n - 1], bytes[n]>>]
    BY <1>3, <2>2, <2>3
  <2>5. f = F(f)
    BY <1>1, <2>2, <2>4
  <2> QED BY <2>5
<1>6. after = F(after)
  BY <1>4, <1>5
<1>7. after[0] = {} /\ \A n \in 1..L : after[n] = CrcOfByte[<<after[n - 1], bytes[n]>>]
  <2>1. 0 \in 0..L /\ \A n \in 1..L : n \in 0..L /\ n # 0
    BY <1>1
  <2> QED BY <1>6, <2>1, Zenon
<1>8. \A n \in 0..L : after[n] \in S
  <2>1. \A n \in 1..L : after[n - 1] \in S => after[n] = step[<<after[n - 1], n>>]
    BY <1>3, <1>7
  <2>2. Continues(after, L, S, {}, step)
    BY <1>7, <2>1 DEF Continues
  <2> QED BY <1>1, <1>2, <2>2, RecursionStays
<1> QED BY <1>7, <1>8 DEF after, L, S

LEMMA DividedType ==
  ASSUME NEW poly \in SUBSET Nat, NEW e \in Nat, e >= 16
  PROVE  Divided(poly, e) \in SUBSET Nat
<1>1. e - 1 \in Nat /\ e - 14 \in Nat /\ e - 16 \in Nat
  OBVIOUS
<1> QED BY <1>1 DEF Divided, SymDiff

LEMMA RestsAre ==
  ASSUME NEW poly \in SUBSET Nat, NEW top \in Nat, top >= 23
  PROVE  LET rest == Rests(poly, top) IN
         /\ \A i \in 0..8 : rest[i] \in SUBSET Nat
         /\ rest[0] = poly
         /\ \A i \in 1..8 : rest[i] = Divided(rest[i - 1], top - i + 1)
<1> DEFINE S == SUBSET Nat
           F(f) == [i \in 0..8 |-> IF i = 0 THEN poly ELSE Divided(f[i - 1], top - i + 1)]
           step == [a \in S \X (1..8) |-> Divided(a[1], top - a[2] + 1)]
           rest == Rests(poly, top)
<1>1. 8 \in Nat /\ poly \in S /\ \A i \in 1..8 : top - i + 1 \in Nat /\ top - i + 1 >= 16
  OBVIOUS
<1>2. step \in [S \X (1..8) -> S]
  BY <1>1, DividedType
<1>3. \A x \in S, i \in 1..8 : step[<<x, i>>] = Divided(x, top - i + 1)
  OBVIOUS
<1>4. rest = CHOOSE f : f = F(f)
  BY DEF Rests
<1> HIDE DEF step, S, rest
<1>5. \E f : f = F(f)
  <2>1. PICK f : Follows(f, 8, S, poly, step)
    BY <1>1, <1>2, RecursionExists
  <2>2. f \in [0..8 -> S] /\ f[0] = poly /\ \A i \in 1..8 : f[i] = step[<<f[i - 1], i>>]
    BY <2>1 DEF Follows
  <2>3. \A i \in 1..8 : f[i - 1] \in S
    BY <2>2
  <2>4. \A i \in 1..8 : f[i] = Divided(f[i - 1], top - i + 1)
    BY <1>3, <2>2, <2>3
  <2>5. f = F(f)
    BY <2>2, <2>4
  <2> QED BY <2>5
<1>6. rest = F(rest)
  BY <1>4, <1>5
<1>7. rest[0] = poly /\ \A i \in 1..8 : rest[i] = Divided(rest[i - 1], top - i + 1)
  BY <1>6
<1>8. \A i \in 0..8 : rest[i] \in S
  <2>1. \A i \in 1..8 : rest[i - 1] \in S => rest[i] = step[<<rest[i - 1], i>>]
    BY <1>3, <1>7
  <2>2. Continues(rest, 8, S, poly, step)
    BY <1>7, <2>1 DEF Continues
  <2> QED BY <1>1, <1>2, <2>2, RecursionStays
<1> QED BY <1>7, <1>8 DEF rest, S

LEMMA EightDividedIs ==
  ASSUME NEW poly \in SUBSET Nat, NEW top \in Nat, top >= 23
  PROVE  /\ EightDivided[<<poly, top>>] = Rests(poly, top)[8]
         /\ EightDivided[<<poly, top>>] \in SUBSET Nat
<1>1. EightDivided[<<poly, top>>] = Rests(poly, top)[8]
  BY DEF EightDivided
<1>2. \A i \in 0..8 : Rests(poly, top)[i] \in SUBSET Nat
  BY RestsAre, Zenon
<1> QED BY <1>1, <1>2

LEMMA DivisionsAre ==
  ASSUME NEW bytes \in Seq(Byte)
  PROVE  LET division == Divisions(bytes) IN
         /\ \A i \in 0..Len(bytes) : division[i] \in SUBSET Nat
         /\ division[0] = Dividend(bytes)
         /\ \A i \in 1..Len(bytes) :
              division[i] = EightDivided[<<division[i - 1], 8 * Len(bytes) + 15 - 8 * (i - 1)>>]
<1> DEFINE L == Len(bytes)
           S == SUBSET Nat
           D == Dividend(bytes)
           F(f) == [i \in 0..L |-> IF i = 0 THEN D
                                   ELSE EightDivided[<<f[i - 1], 8 * L + 15 - 8 * (i - 1)>>]]
           step == [a \in S \X (1..L) |-> EightDivided[<<a[1], 8 * L + 15 - 8 * (a[2] - 1)>>]]
           division == Divisions(bytes)
<1>1. L \in Nat /\ D \in S
  BY DEF Dividend
<1>2. \A i \in 1..L : 8 * L + 15 - 8 * (i - 1) \in Nat /\ 8 * L + 15 - 8 * (i - 1) >= 23
  BY <1>1
<1>3. step \in [S \X (1..L) -> S]
  BY <1>2, EightDividedIs
<1>4. \A x \in S, i \in 1..L : step[<<x, i>>] = EightDivided[<<x, 8 * L + 15 - 8 * (i - 1)>>]
  OBVIOUS
<1>5. division = CHOOSE f : f = F(f)
  BY DEF Divisions
<1> HIDE DEF step, S, L, D, division
<1>6. \E f : f = F(f)
  <2>1. PICK f : Follows(f, L, S, D, step)
    BY <1>1, <1>3, RecursionExists
  <2>2. f \in [0..L -> S] /\ f[0] = D /\ \A i \in 1..L : f[i] = step[<<f[i - 1], i>>]
    BY <2>1 DEF Follows
  <2>3. \A i \in 1..L : f[i - 1] \in S
    BY <1>1, <2>2
  <2>4. \A i \in 1..L : f[i] = EightDivided[<<f[i - 1], 8 * L + 15 - 8 * (i - 1)>>]
    BY <1>4, <2>2, <2>3
  <2>5. f = F(f)
    BY <1>1, <2>2, <2>4
  <2> QED BY <2>5
<1>7. division = F(division)
  BY <1>5, <1>6
<1>8. /\ division[0] = D
      /\ \A i \in 1..L : division[i] = EightDivided[<<division[i - 1], 8 * L + 15 - 8 * (i - 1)>>]
  <2>1. 0 \in 0..L /\ \A i \in 1..L : i \in 0..L /\ i # 0
    BY <1>1
  <2> QED BY <1>7, <2>1, Zenon
<1>9. \A i \in 0..L : division[i] \in S
  <2>1. \A i \in 1..L : division[i - 1] \in S => division[i] = step[<<division[i - 1], i>>]
    BY <1>4, <1>8
  <2>2. Continues(division, L, S, D, step)
    BY <1>8, <2>1 DEF Continues
  <2> QED BY <1>1, <1>3, <2>2, RecursionStays
<1> QED BY <1>8, <1>9 DEF division, L, S, D

-----------------------------------------------------------------------------
(* Both CRCs are one.  When the host has taken in all bits but the last m, *)
(* the division has got to a polynomial of those m bits and, above them,   *)
(* of the register: the two are added.                                     *)

Mixed(dividend, m, register) ==
  SymDiff({e \in dividend : e <= m + 15}, {c + m : c \in register})

LEMMA InMixed ==
  ASSUME NEW dividend \in SUBSET Nat, NEW m \in Nat, NEW register \in SUBSET (0..15)
  PROVE  /\ Mixed(dividend, m, register) \in SUBSET Nat
         /\ \A x \in Nat : x \in Mixed(dividend, m, register) <=>
              ~((x \in dividend /\ x <= m + 15) <=> x - m \in register)
<1>1. \A x \in Nat : x \in {c + m : c \in register} <=> x - m \in register
  <2>1. ASSUME NEW x \in Nat, x - m \in register PROVE x \in {c + m : c \in register}
    BY <2>1
  <2>2. ASSUME NEW x \in Nat, x \in {c + m : c \in register} PROVE x - m \in register
    <3>1. PICK c \in register : x = c + m
      BY <2>2
    <3>2. c \in Nat /\ x - m = c
      BY <3>1
    <3> QED BY <3>1, <3>2
  <2> QED BY <2>1, <2>2
<1>2. {c + m : c \in register} \in SUBSET Nat
  OBVIOUS
<1> QED BY <1>1, <1>2 DEF Mixed, SymDiff

LEMMA InCrcStep ==
  ASSUME NEW register \in SUBSET (0..15), NEW byte, NEW b
  PROVE  \A y \in Int : y \in CrcStep(register, byte, b) <=>
           IF Bit(byte, b) <=> 15 \in register
           THEN y <= 15 /\ y - 1 \in register
           ELSE ~((y <= 15 /\ y - 1 \in register) <=> y \in {0, 2, 15})
<1> DEFINE shifted == {c + 1 : c \in register \ {15}}
<1>1. \A y \in Int : y \in shifted <=> y <= 15 /\ y - 1 \in register
  <2>1. ASSUME NEW y \in Int, y <= 15, y - 1 \in register PROVE y \in shifted
    BY <2>1
  <2>2. ASSUME NEW y \in Int, y \in shifted PROVE y <= 15 /\ y - 1 \in register
    <3>1. PICK c \in register \ {15} : y = c + 1
      BY <2>2
    <3>2. c \in 0..14 /\ y - 1 = c
      BY <3>1
    <3> QED BY <3>1, <3>2
  <2> QED BY <2>1, <2>2
<1> HIDE DEF shifted
<1>2. CrcStep(register, byte, b) =
        IF Bit(byte, b) # (15 \in register) THEN SymDiff(shifted, POLYNOM) ELSE shifted
  BY DEF CrcStep, shifted
<1>3. CASE Bit(byte, b) <=> 15 \in register
  <2>1. CrcStep(register, byte, b) = shifted
    BY <1>2, <1>3 DEF Bit
  <2> QED BY <1>1, <1>3, <2>1
<1>4. CASE ~(Bit(byte, b) <=> 15 \in register)
  <2>1. CrcStep(register, byte, b) = SymDiff(shifted, POLYNOM)
    BY <1>2, <1>4 DEF Bit
  <2> QED BY <1>1, <1>4, <2>1 DEF SymDiff, POLYNOM
<1> QED BY <1>3, <1>4

LEMMA OneBit ==
  ASSUME NEW dividend \in SUBSET Nat, NEW m \in Nat \ {0}, NEW register \in SUBSET (0..15),
         NEW byte, NEW b, Bit(byte, b) <=> m + 15 \in dividend
  PROVE  Divided(Mixed(dividend, m, register), m + 15) =
           Mixed(dividend, m - 1, CrcStep(register, byte, b))
<1> DEFINE before == Mixed(dividend, m, register)
           after  == Mixed(dividend, m - 1, CrcStep(register, byte, b))
           crc    == CrcStep(register, byte, b)
<1>1. /\ before \in SUBSET Nat
      /\ \A x \in Nat : x \in before <=>
           ~((x \in dividend /\ x <= m + 15) <=> x - m \in register)
  BY InMixed
<1>2. /\ after \in SUBSET Nat
      /\ \A x \in Nat : x \in after <=>
           ~((x \in dividend /\ x <= m + 14) <=> x - m + 1 \in crc)
  <2>1. crc \in SUBSET (0..15)
    BY CrcStepType
  <2>2. \A x \in Nat : x - (m - 1) = x - m + 1 /\ (m - 1) + 15 = m + 14
    OBVIOUS
  <2>3. m - 1 \in Nat
    OBVIOUS
  <2> HIDE DEF crc
  <2> QED BY <2>1, <2>2, <2>3, InMixed DEF crc
<1>3. \A x \in Nat : x - m + 1 \in crc <=>
        IF Bit(byte, b) <=> 15 \in register
        THEN x - m <= 14 /\ x - m \in register
        ELSE ~((x - m <= 14 /\ x - m \in register) <=> x \in {m - 1, m + 1, m + 14})
  <2>1. \A x \in Nat : x - m + 1 \in Int /\ (x - m + 1) - 1 = x - m
                       /\ (x - m + 1 <= 15 <=> x - m <= 14)
                       /\ (x - m + 1 \in {0, 2, 15} <=> x \in {m - 1, m + 1, m + 14})
    OBVIOUS
  <2> HIDE DEF crc
  <2> QED BY <2>1, InCrcStep DEF crc
<1>4. Divided(before, m + 15) =
        IF m + 15 \in before THEN SymDiff(before, {m + 15, m + 14, m + 1, m - 1}) ELSE before
  BY DEF Divided
<1>5. m + 15 \in before <=> ~(Bit(byte, b) <=> 15 \in register)
  BY <1>1
<1> HIDE DEF before, after, crc
<1>6. CASE Bit(byte, b) <=> 15 \in register
  <2>1. Divided(before, m + 15) = before
    BY <1>4, <1>5, <1>6
  <2>2. \A x \in Nat : x \in before <=> x \in after
    BY <1>1, <1>2, <1>3, <1>6
  <2> QED BY <1>1, <1>2, <2>1, <2>2 DEF before, after
<1>7. CASE ~(Bit(byte, b) <=> 15 \in register)
  <2>1. Divided(before, m + 15) = SymDiff(before, {m + 15, m + 14, m + 1, m - 1})
    BY <1>4, <1>5, <1>7
  <2>2. \A x \in Nat : x \in SymDiff(before, {m + 15, m + 14, m + 1, m - 1}) <=> x \in after
    BY <1>1, <1>2, <1>3, <1>7 DEF SymDiff
  <2>3. SymDiff(before, {m + 15, m + 14, m + 1, m - 1}) \in SUBSET Nat
    BY <1>1 DEF SymDiff
  <2> QED BY <1>2, <2>1, <2>2, <2>3 DEF before, after
<1> QED BY <1>6, <1>7

LEMMA OneByte ==
  ASSUME NEW dividend \in SUBSET Nat, NEW m \in Nat, NEW register \in SUBSET (0..15),
         NEW byte \in Byte, \A b \in 0..7 : Bit(byte, b) <=> (m + 8 - b) + 15 \in dividend
  PROVE  EightDivided[<<Mixed(dividend, m + 8, register), (m + 8) + 15>>] =
           Mixed(dividend, m, CrcOfByte[<<register, byte>>])
<1> DEFINE top   == (m + 8) + 15
           poly  == Mixed(dividend, m + 8, register)
           rest  == Rests(poly, top)
           after == BitRegisters(register, byte)
           T     == {b \in Nat : b <= 8 => rest[b] = Mixed(dividend, m + 8 - b, after[b])}
<1>1. top \in Nat /\ top >= 23 /\ poly \in SUBSET Nat
  <2>1. top \in Nat /\ top >= 23 /\ m + 8 \in Nat
    OBVIOUS
  <2> QED BY <2>1, InMixed
<1>2. /\ rest[0] = poly
      /\ \A b \in 1..8 : rest[b] = Divided(rest[b - 1], top - b + 1)
  <2> HIDE DEF poly, top
  <2> QED BY <1>1, RestsAre
<1>3. /\ \A b \in 0..8 : after[b] \in SUBSET (0..15)
      /\ after[0] = register
      /\ \A b \in 1..8 : after[b] = CrcStep(after[b - 1], byte, b - 1)
  BY BitRegistersAre
<1> HIDE DEF rest, after
<1>4. 0 \in T
  BY <1>2, <1>3
<1>5. ASSUME NEW b \in T PROVE b + 1 \in T
  <2> SUFFICES ASSUME b + 1 <= 8
               PROVE  rest[b + 1] = Mixed(dividend, m + 8 - (b + 1), after[b + 1])
    OBVIOUS
  <2>1. /\ b \in 0..7 /\ b + 1 \in 1..8 /\ (b + 1) - 1 = b
        /\ top - (b + 1) + 1 = (m + 8 - b) + 15
        /\ m + 8 - b \in Nat \ {0} /\ m + 8 - (b + 1) = (m + 8 - b) - 1
    OBVIOUS
  <2>2. rest[b] = Mixed(dividend, m + 8 - b, after[b])
    BY <2>1
  <2>3. rest[b + 1] = Divided(rest[b], (m + 8 - b) + 15)
    <3> HIDE DEF top
    <3> QED BY <1>2, <2>1
  <2>4. after[b + 1] = CrcStep(after[b], byte, b)
    BY <1>3, <2>1
  <2>5. after[b] \in SUBSET (0..15)
    BY <1>3, <2>1
  <2> DEFINE k == m + 8 - b
             register_b == after[b]
  <2>6. Bit(byte, b) <=> k + 15 \in dividend
    BY <2>1
  <2>7. k \in Nat \ {0} /\ register_b \in SUBSET (0..15)
    BY <2>1, <2>5
  <2>8. Divided(Mixed(dividend, k, register_b), k + 15) =
          Mixed(dividend, k - 1, CrcStep(register_b, byte, b))
    <3> HIDE DEF k, register_b
    <3> QED BY <2>6, <2>7, OneBit
  <2> QED BY <2>1, <2>2, <2>3, <2>4, <2>8
<1> HIDE DEF T
<1>6. T = Nat
  BY <1>4, <1>5, Induction DEF T
<1>7. rest[8] = Mixed(dividend, m, after[8])
  <2>1. 8 \in T /\ m + 8 - 8 = m
    BY <1>6
  <2>2. rest[8] = Mixed(dividend, m + 8 - 8, after[8])
    BY <2>1 DEF T
  <2> QED BY <2>1, <2>2
<1>8. EightDivided[<<poly, top>>] = rest[8]
  <2> HIDE DEF poly, top
  <2> QED BY <1>1, EightDividedIs DEF rest
<1>9. CrcOfByte[<<register, byte>>] = after[8]
  BY CrcOfByteIs DEF after
<1> QED BY <1>7, <1>8, <1>9

LEMMA InDividend ==
  ASSUME NEW bytes \in Seq(Byte)
  PROVE  LET n == 8 * Len(bytes) IN
         /\ Dividend(bytes) \in SUBSET Nat
         /\ \A e \in Dividend(bytes) : e >= 16 /\ e <= n + 15
         /\ \A k \in 0..n - 1 : n + 15 - k \in Dividend(bytes) <=> BitAt(bytes, k)
<1> DEFINE n == 8 * Len(bytes)
<1>1. n \in Nat
  OBVIOUS
<1>2. Dividend(bytes) = {n + 15 - k : k \in {l \in 0..n - 1 : BitAt(bytes, l)}}
  BY DEF Dividend
<1> HIDE DEF n
<1>3. \A e \in Dividend(bytes) : e \in Nat /\ e >= 16 /\ e <= n + 15
  <2>1. ASSUME NEW e \in Dividend(bytes) PROVE e \in Nat /\ e >= 16 /\ e <= n + 15
    <3>1. PICK k \in 0..n - 1 : e = n + 15 - k
      BY <1>2, <2>1
    <3> QED BY <1>1, <3>1
  <2> QED BY <2>1
<1>4. ASSUME NEW k \in 0..n - 1 PROVE n + 15 - k \in Dividend(bytes) <=> BitAt(bytes, k)
  <2>1. ASSUME n + 15 - k \in Dividend(bytes) PROVE BitAt(bytes, k)
    <3>1. PICK l \in {l \in 0..n - 1 : BitAt(bytes, l)} : n + 15 - k = n + 15 - l
      BY <1>2, <2>1
    <3>2. l = k
      BY <1>1, <3>1
    <3> QED BY <3>1, <3>2
  <2>2. ASSUME BitAt(bytes, k) PROVE n + 15 - k \in Dividend(bytes)
    BY <1>2, <2>2
  <2> QED BY <2>1, <2>2
<1> QED BY <1>3, <1>4 DEF n

\* The host's CRC, taken bit by bit, is the remainder of the polynomial
\* division that the chip's data sheet asks for, whatever the bytes.
THEOREM CrcIsRemainder ==
  ASSUME NEW bytes \in Seq(Byte)
  PROVE  Remainder(bytes) = crc_register(bytes)
<1> DEFINE L == Len(bytes)
           D == Dividend(bytes)
           after == Registers(bytes)
           division == Divisions(bytes)
           T == {i \in Nat : i <= L => division[i] = Mixed(D, 8 * L - 8 * i, after[i])}
<1>1. L \in Nat /\ \A n \in 1..L : bytes[n] \in Byte
  OBVIOUS
<1>2. /\ D \in SUBSET Nat
      /\ \A e \in D : e >= 16 /\ e <= 8 * L + 15
      /\ \A k \in 0..8 * L - 1 : 8 * L + 15 - k \in D <=> BitAt(bytes, k)
  BY InDividend
<1>3. /\ \A n \in 0..L : after[n] \in SUBSET (0..15)
      /\ after[0] = {}
      /\ \A n \in 1..L : after[n] = CrcOfByte[<<after[n - 1], bytes[n]>>]
  BY RegistersAre
<1>4. /\ division[0] = D
      /\ \A i \in 1..L : division[i] = EightDivided[<<division[i - 1], 8 * L + 15 - 8 * (i - 1)>>]
  BY DivisionsAre
<1> HIDE DEF L, D, after, division
<1>5. 0 \in T
  <2>1. Mixed(D, 8 * L, {}) = D
    <3>1. {e \in D : e <= 8 * L + 15} = D
      BY <1>2
    <3> QED BY <3>1 DEF Mixed, SymDiff
  <2>2. 8 * L - 8 * 0 = 8 * L
    BY <1>1
  <2> QED BY <1>3, <1>4, <2>1, <2>2
<1>6. ASSUME NEW i \in T PROVE i + 1 \in T
  <2> SUFFICES ASSUME i + 1 <= L
               PROVE  division[i + 1] = Mixed(D, 8 * L - 8 * (i + 1), after[i + 1])
    OBVIOUS
  <2> DEFINE m == 8 * L - 8 * (i + 1)
  <2>1. /\ i \in 0..L /\ i + 1 \in 1..L /\ (i + 1) - 1 = i
        /\ m \in Nat /\ 8 * L - 8 * i = m + 8 /\ 8 * L + 15 - 8 * i = (m + 8) + 15
    BY <1>1
  <2>2. division[i] = Mixed(D, m + 8, after[i])
    BY <2>1
  <2>3. division[i + 1] = EightDivided[<<division[i], (m + 8) + 15>>]
    BY <1>4, <2>1
  <2>4. after[i + 1] = CrcOfByte[<<after[i], bytes[i + 1]>>]
    BY <1>3, <2>1
  <2>5. after[i] \in SUBSET (0..15) /\ bytes[i + 1] \in Byte
    BY <1>1, <1>3, <2>1
  <2>6. ASSUME NEW b \in 0..7 PROVE Bit(bytes[i + 1], b) <=> (m + 8 - b) + 15 \in D
    <3> DEFINE k == 8 * i + b
    <3>1. k \in 0..8 * L - 1 /\ 8 * L + 15 - k = (m + 8 - b) + 15
      BY <1>1, <2>1
    <3>2. k \div 8 = i /\ k % 8 = b
      BY <2>1
    <3> HIDE DEF k, m
    <3>3. BitAt(bytes, k) <=> Bit(bytes[i + 1], b)
      BY <3>2 DEF BitAt
    <3> QED BY <1>2, <3>1, <3>3
  <2> HIDE DEF m
  <2>7. EightDivided[<<Mixed(D, m + 8, after[i]), (m + 8) + 15>>] =
          Mixed(D, m, CrcOfByte[<<after[i], bytes[i + 1]>>])
    BY <1>2, <2>1, <2>5, <2>6, OneByte
  <2> QED BY <2>2, <2>3, <2>4, <2>7 DEF m
<1> HIDE DEF T
<1>7. T = Nat
  BY <1>5, <1>6, Induction DEF T
<1>8. division[L] = Mixed(D, 0, after[L])
  <2>1. L \in T /\ L <= L /\ 8 * L - 8 * L = 0
    BY <1>1, <1>7
  <2>2. division[L] = Mixed(D, 8 * L - 8 * L, after[L])
    BY <2>1 DEF T
  <2> QED BY <2>1, <2>2
<1>9. Mixed(D, 0, after[L]) = after[L]
  <2>1. after[L] \in SUBSET (0..15)
    BY <1>1, <1>3
  <2>2. {e \in D : e <= 0 + 15} = {}
    <3>1. \A e \in D : e \in Nat /\ e >= 16
      BY <1>2
    <3>2. \A e \in Nat : e >= 16 => ~(e <= 0 + 15)
      OBVIOUS
    <3> QED BY <3>1, <3>2
  <2>3. {c + 0 : c \in after[L]} = after[L]
    BY <2>1
  <2> HIDE DEF T
  <2> QED BY <2>2, <2>3 DEF Mixed, SymDiff
<1> QED BY <1>8, <1>9 DEF Remainder, crc_register, division, after, L

-----------------------------------------------------------------------------
(* The two bytes of the CRC                                                *)

LEMMA ToByteIs ==
  ASSUME NEW S
  PROVE  /\ ToByte(S) \in Byte
         /\ \A b \in 0..7 : Bit(ToByte(S), b) <=> b \in S
<1> DEFINE v(b) == IF b \in S THEN 1 ELSE 0
<1>1. ToByte(S) = v(0) + 2 * v(1) + 4 * v(2) + 8 * v(3)
                  + 16 * v(4) + 32 * v(5) + 64 * v(6) + 128 * v(7)
  BY DEF ToByte
<1>2. \A b \in 0..7 : v(b) \in {0, 1} /\ (v(b) = 1 <=> b \in S)
  OBVIOUS
<1> HIDE DEF v
<1>3. ASSUME NEW v0 \in {0, 1}, NEW v1 \in {0, 1}, NEW v2 \in {0, 1}, NEW v3 \in {0, 1},
             NEW v4 \in {0, 1}, NEW v5 \in {0, 1}, NEW v6 \in {0, 1}, NEW v7 \in {0, 1},
             NEW byte, byte = v0 + 2 * v1 + 4 * v2 + 8 * v3 + 16 * v4 + 32 * v5 + 64 * v6 + 128 * v7
      PROVE  /\ byte \in Byte
             /\ Bit(byte, 0) <=> v0 = 1
             /\ Bit(byte, 1) <=> v1 = 1
             /\ Bit(byte, 2) <=> v2 = 1
             /\ Bit(byte, 3) <=> v3 = 1
             /\ Bit(byte, 4) <=> v4 = 1
             /\ Bit(byte, 5) <=> v5 = 1
             /\ Bit(byte, 6) <=> v6 = 1
             /\ Bit(byte, 7) <=> v7 = 1
  BY <1>3 DEF Byte, Bit
<1>4. ToByte(S) \in Byte /\ \A b \in 0..7 : Bit(ToByte(S), b) <=> v(b) = 1
  BY <1>1, <1>2, <1>3
<1> QED BY <1>2, <1>4

LEMMA CrcBytes ==
  ASSUME NEW bytes \in Seq(Byte)
  PROVE  LET crc == calculate_crc(bytes) IN
         /\ crc \in Seq(Byte) /\ Len(crc) = 2
         /\ {b \in 0..15 : BitAt(crc, b)} = crc_register(bytes)
<1> DEFINE last == crc_register(bytes)
           low  == {b \in last : b < 8}
           high == {b - 8 : b \in {c \in last : c >= 8}}
           crc  == calculate_crc(bytes)
<1>1. last \in SUBSET (0..15)
  <2>1. \A n \in 0..Len(bytes) : Registers(bytes)[n] \in SUBSET (0..15)
    BY RegistersAre, Zenon
  <2>2. Len(bytes) \in 0..Len(bytes)
    BY LenProperties
  <2> QED BY <2>1, <2>2 DEF crc_register
<1>2. crc = <<ToByte(low), ToByte(high)>>
  BY DEF calculate_crc
<1>3. \A b \in 0..7 : (b \in low <=> b \in last) /\ (b \in high <=> b + 8 \in last)
  <2> HIDE DEF last
  <2>1. ASSUME NEW b \in 0..7, b + 8 \in last PROVE b \in high
    <3>1. b = (b + 8) - 8 /\ b + 8 >= 8
      OBVIOUS
    <3> QED BY <2>1, <3>1
  <2>2. ASSUME NEW b \in 0..7, b \in high PROVE b + 8 \in last
    <3>1. PICK c \in {c \in last : c >= 8} : b = c - 8
      BY <2>2
    <3>2. c = b + 8
      BY <1>1, <3>1
    <3> QED BY <3>1, <3>2
  <2>3. ASSUME NEW b \in 0..7 PROVE b \in low <=> b \in last
    BY <2>3
  <2> QED BY <2>1, <2>2, <2>3
<1> HIDE DEF low, high, last, crc
<1>4. /\ ToByte(low) \in Byte /\ ToByte(high) \in Byte
      /\ \A b \in 0..7 : (Bit(ToByte(low), b) <=> b \in low) /\ (Bit(ToByte(high), b) <=> b \in high)
  BY ToByteIs
<1>5. crc \in Seq(Byte) /\ Len(crc) = 2 /\ crc[1] = ToByte(low) /\ crc[2] = ToByte(high)
  BY <1>2, <1>4
<1>6. ASSUME NEW b \in 0..15 PROVE BitAt(crc, b) <=> b \in last
  <2>1. CASE b <= 7
    <3>1. b \in 0..7 /\ b \div 8 + 1 = 1 /\ b % 8 = b
      BY <2>1
    <3> QED BY <1>3, <1>4, <1>5, <3>1 DEF BitAt
  <2>2. CASE b >= 8
    <3>1. b - 8 \in 0..7 /\ b \div 8 + 1 = 2 /\ b % 8 = b - 8 /\ (b - 8) + 8 = b
      BY <2>2
    <3>2. BitAt(crc, b) <=> Bit(ToByte(high), b - 8)
      BY <1>5, <3>1 DEF BitAt
    <3> QED BY <1>3, <1>4, <3>1, <3>2
  <2> QED BY <2>1, <2>2
<1>7. {b \in 0..15 : BitAt(crc, b)} = last
  BY <1>1, <1>6
<1> QED BY <1>5, <1>7 DEF crc, last

-----------------------------------------------------------------------------
(* Packets                                                                 *)

\* The start of a sequence with a CRC is the sequence, its end the CRC.
LEMMA StartAndEnd ==
  ASSUME NEW start \in Seq(Byte), NEW end \in Seq(Byte)
  PROVE  LET all == start \o end
             n == Len(start)
         IN
         /\ all \in Seq(Byte)
         /\ Len(all) = n + Len(end)
         /\ \A i \in 1..n : all[i] = start[i]
         /\ \A i \in 1..Len(end) : all[n + i] = end[i]
         /\ SubSeq(all, 1, n) = start
         /\ SubSeq(all, n + 1, n + Len(end)) = end
<1> DEFINE all == start \o end
           n == Len(start)
           m == Len(end)
<1>1. n \in Nat /\ m \in Nat
  BY LenProperties
<1>2. /\ all \in Seq(Byte) /\ Len(all) = n + m
      /\ \A i \in 1..n + m : all[i] = IF i <= n THEN start[i] ELSE end[i - n]
  BY ConcatProperties
<1> HIDE DEF all, n, m
<1>3. \A i \in 1..n : all[i] = start[i]
  BY <1>1, <1>2
<1>4. ASSUME NEW i \in 1..m PROVE all[n + i] = end[i]
  <2>1. n + i \in 1..n + m /\ ~(n + i <= n) /\ (n + i) - n = i
    BY <1>1
  <2> QED BY <1>2, <2>1
<1>5. \A i \in 1..n + m : all[i] \in Byte
  BY <1>1, <1>2, ElementOfSeq
<1>6. SubSeq(all, 1, n) = start
  <2> DEFINE sub == SubSeq(all, 1, n)
  <2>1. \A i \in 1..n : all[i] \in Byte
    BY <1>1, <1>5
  <2>2. 1 \in Int /\ n \in Int
    BY <1>1
  <2>3. /\ sub \in Seq(Byte) /\ Len(sub) = IF 1 <= n THEN n - 1 + 1 ELSE 0
        /\ \A i \in 1..n - 1 + 1 : sub[i] = all[1 + i - 1]
    BY <2>1, <2>2, SubSeqProperties
  <2> HIDE DEF sub
  <2>4. Len(sub) = n /\ \A i \in 1..n : sub[i] = start[i]
    BY <1>1, <1>3, <2>3
  <2> QED BY <2>3, <2>4, SeqEqual DEF n, sub
<1>7. SubSeq(all, n + 1, n + m) = end
  <2> DEFINE first == n + 1
             last == n + m
             sub == SubSeq(all, first, last)
  <2>1. \A i \in first..last : all[i] \in Byte
    BY <1>1, <1>5
  <2>2. first \in Int /\ last \in Int
    BY <1>1
  <2> HIDE DEF first, last
  <2>3. /\ sub \in Seq(Byte) /\ Len(sub) = IF first <= last THEN last - first + 1 ELSE 0
        /\ \A i \in 1..last - first + 1 : sub[i] = all[first + i - 1]
    BY <2>1, <2>2, SubSeqProperties
  <2> HIDE DEF sub
  <2> USE DEF first, last
  <2>4. last - first + 1 = m
    BY <1>1
  <2>5. Len(sub) = m
    BY <1>1, <2>3, <2>4
  <2>6. ASSUME NEW i \in 1..m PROVE sub[i] = end[i]
    <3>1. first + i - 1 = n + i
      BY <1>1
    <3> HIDE DEF first, last
    <3> QED BY <1>4, <2>3, <2>4, <3>1
  <2>7. sub = end
    BY <2>3, <2>5, <2>6, SeqEqual DEF m
  <2> QED BY <2>7 DEF sub
<1> QED BY <1>1, <1>2, <1>3, <1>4, <1>6, <1>7 DEF all, n, m

LEMMA WithCrcIs ==
  ASSUME NEW bytes \in Seq(Byte)
  PROVE  LET p == WithCrc(bytes)
             n == Len(bytes)
         IN
         /\ p \in Seq(Byte) /\ Len(p) = n + 2
         /\ \A i \in 1..n : p[i] = bytes[i]
         /\ SubSeq(p, 1, n) = bytes
         /\ SubSeq(p, n + 1, n + 2) = calculate_crc(bytes)
         /\ <<p[n + 1], p[n + 2]>> = calculate_crc(bytes)
<1> DEFINE crc == calculate_crc(bytes)
           p == WithCrc(bytes)
           n == Len(bytes)
<1>1. crc \in Seq(Byte) /\ Len(crc) = 2
  BY CrcBytes
<1>2. crc = <<crc[1], crc[2]>>
  <2>1. crc[1] \in Byte /\ crc[2] \in Byte
    BY <1>1
  <2> QED BY <1>1, <2>1, SeqEqual
<1>3. p = bytes \o crc
  BY DEF WithCrc
<1> HIDE DEF crc, p
<1>4. /\ p \in Seq(Byte) /\ Len(p) = n + 2
      /\ \A i \in 1..n : p[i] = bytes[i]
      /\ \A i \in 1..2 : p[n + i] = crc[i]
      /\ SubSeq(p, 1, n) = bytes
      /\ SubSeq(p, n + 1, n + 2) = crc
  <2>1. /\ p \in Seq(Byte) /\ Len(p) = n + Len(crc)
        /\ \A i \in 1..n : p[i] = bytes[i]
        /\ \A i \in 1..Len(crc) : p[n + i] = crc[i]
        /\ SubSeq(p, 1, n) = bytes
        /\ SubSeq(p, n + 1, n + Len(crc)) = crc
    BY <1>1, <1>3, StartAndEnd, Zenon
  <2> QED BY <1>1, <2>1
<1>5. p[n + 1] = crc[1] /\ p[n + 2] = crc[2]
  BY <1>4
<1> QED BY <1>2, <1>4, <1>5 DEF crc, p

\* Whoever divides the data by the polynomial agrees with the CRC.
LEMMA WithCrcDivides ==
  ASSUME NEW bytes \in Seq(Byte)
  PROVE  LET p == WithCrc(bytes) IN
         Remainder(SubSeq(p, 1, Len(p) - 2)) =
           {b \in 0..15 : BitAt(SubSeq(p, Len(p) - 1, Len(p)), b)}
<1> DEFINE p == WithCrc(bytes)
           n == Len(bytes)
<1>1. /\ Len(p) = n + 2
      /\ SubSeq(p, 1, n) = bytes
      /\ SubSeq(p, n + 1, n + 2) = calculate_crc(bytes)
  BY WithCrcIs
<1>2. n \in Nat
  BY LenProperties
<1> HIDE DEF p, n
<1>3. Len(p) - 2 = n /\ Len(p) - 1 = n + 1
  BY <1>1, <1>2
<1>4. {b \in 0..15 : BitAt(calculate_crc(bytes), b)} = crc_register(bytes)
  BY CrcBytes
<1> QED BY <1>1, <1>3, <1>4, CrcIsRemainder DEF p

\* The fields of a command packet, and that it passes the check of the chip.
LEMMA CommandPacketIs ==
  ASSUME NEW opcode \in Byte, NEW param1 \in Byte, NEW param2 \in Nat,
         param2 \div 256 \in Byte, NEW data \in Seq(Byte), Len(data) <= 32
  PROVE  LET p == generate_command_packet(opcode, param1, param2, data) IN
         /\ p \in Seq(Byte) /\ Len(p) = 7 + Len(data)
         /\ p[2] = opcode /\ p[3] = param1
         /\ p[4] = param2 % 256 /\ p[5] = param2 \div 256
         /\ SubSeq(p, 6, Len(p) - 2) = data
         /\ Intact(p)
<1> DEFINE head == <<7 + Len(data), opcode, param1, param2 % 256, param2 \div 256>>
           m == Len(data)
           bytes == head \o data
           p == generate_command_packet(opcode, param1, param2, data)
<1>1. m \in Nat /\ 7 + m \in Byte /\ param2 % 256 \in Byte /\ param2 \div 256 \in Byte
  <2>1. m \in Nat
    BY LenProperties
  <2>2. m <= 32
    OBVIOUS
  <2>3. param2 % 256 \in 0..255
    OBVIOUS
  <2> HIDE DEF m
  <2> QED BY <2>1, <2>2, <2>3 DEF Byte
<1>2. /\ head \in Seq(Byte) /\ Len(head) = 5 /\ head[1] = 7 + m
      /\ head[2] = opcode /\ head[3] = param1
      /\ head[4] = param2 % 256 /\ head[5] = param2 \div 256
  BY <1>1
<1>3. p = WithCrc(bytes)
  BY DEF generate_command_packet
<1> HIDE DEF head, bytes, p
<1>4. /\ bytes \in Seq(Byte) /\ Len(bytes) = 5 + m
      /\ \A i \in 1..5 : bytes[i] = head[i]
      /\ \A i \in 1..m : bytes[5 + i] = data[i]
  <2>0. head \in Seq(Byte)
    BY <1>2
  <2>1. /\ bytes \in Seq(Byte) /\ Len(bytes) = Len(head) + Len(data)
        /\ \A i \in 1..Len(head) : bytes[i] = head[i]
        /\ \A i \in 1..Len(data) : bytes[Len(head) + i] = data[i]
        /\ SubSeq(bytes, 1, Len(head)) = head
        /\ SubSeq(bytes, Len(head) + 1, Len(head) + Len(data)) = data
    BY <2>0, StartAndEnd, Zenon DEF bytes
  <2> QED BY <1>2, <2>1
<1> HIDE DEF m
<1>5. /\ p \in Seq(Byte) /\ Len(p) = 7 + m
      /\ \A i \in 1..5 : p[i] = head[i]
      /\ \A i \in 1..m : p[5 + i] = data[i]
  <2>1. /\ p \in Seq(Byte) /\ Len(p) = Len(bytes) + 2
        /\ \A i \in 1..Len(bytes) : p[i] = bytes[i]
    BY <1>3, <1>4, WithCrcIs, Zenon
  <2>2. \A i \in 1..5 : i \in 1..Len(bytes)
    BY <1>1, <1>4
  <2>3. \A i \in 1..m : 5 + i \in 1..Len(bytes)
    BY <1>1, <1>4
  <2>4. \A i \in 1..5 : p[i] = head[i]
    BY <1>4, <2>1, <2>2, Zenon
  <2>5. \A i \in 1..m : p[5 + i] = data[i]
    BY <1>4, <2>1, <2>3, Zenon
  <2>6. Len(p) = 7 + m
    BY <1>1, <1>4, <2>1
  <2> QED BY <2>1, <2>4, <2>5, <2>6
<1>6. SubSeq(p, 6, 5 + m) = data
  <2> DEFINE last == 5 + m
             sub == SubSeq(p, 6, last)
  <2>1. \A i \in 6..last : p[i] \in Byte
    BY <1>1, <1>5, ElementOfSeq
  <2>2. 6 \in Int /\ last \in Int /\ last - 6 + 1 = m
    BY <1>1
  <2> HIDE DEF last
  <2>3. /\ sub \in Seq(Byte) /\ Len(sub) = IF 6 <= last THEN last - 6 + 1 ELSE 0
        /\ \A i \in 1..last - 6 + 1 : sub[i] = p[6 + i - 1]
    BY <2>1, <2>2, SubSeqProperties
  <2> HIDE DEF sub
  <2>4. Len(sub) = m
    BY <1>1, <2>2, <2>3
  <2>5. ASSUME NEW i \in 1..m PROVE sub[i] = data[i]
    <3>1. 6 + i - 1 = 5 + i
      OBVIOUS
    <3> QED BY <1>5, <2>2, <2>3, <3>1
  <2>6. sub = data
    BY <2>3, <2>4, <2>5, SeqEqual DEF m
  <2> QED BY <2>6 DEF sub, last
<1>7. Intact(p)
  <2>1. Remainder(SubSeq(p, 1, Len(p) - 2)) =
          {b \in 0..15 : BitAt(SubSeq(p, Len(p) - 1, Len(p)), b)}
    BY <1>3, <1>4, WithCrcDivides
  <2>2. Len(p) >= 7 /\ p[1] = Len(p)
    BY <1>1, <1>2, <1>5
  <2> QED BY <2>1, <2>2 DEF Intact
<1>8. Len(p) - 2 = 5 + m
  BY <1>1, <1>5
<1> QED BY <1>2, <1>5, <1>6, <1>7, <1>8 DEF p, m

\* An answer passes the check of the host, which finds the data in it.
LEMMA AnswerPacketIs ==
  ASSUME NEW data \in Seq(Byte), Len(data) <= 32
  PROVE  LET p == generate_answer_packet(data) IN
         /\ p \in Seq(Byte) /\ Len(p) = 3 + Len(data) /\ p[1] = 3 + Len(data)
         /\ \A i \in 1..Len(data) : p[1 + i] = data[i]
         /\ SubSeq(p, 2, Len(data) + 1) = data
         /\ check_packet(p)
<1> DEFINE m == Len(data)
           head == <<3 + m>>
           bytes == head \o data
           p == generate_answer_packet(data)
<1>1. m \in Nat /\ 3 + m \in Byte
  <2>1. m \in Nat
    BY LenProperties
  <2>2. m <= 32
    OBVIOUS
  <2> HIDE DEF m
  <2> QED BY <2>1, <2>2 DEF Byte
<1>2. head \in Seq(Byte) /\ Len(head) = 1 /\ head[1] = 3 + m
  BY <1>1
<1>3. p = WithCrc(bytes)
  BY DEF generate_answer_packet
<1> HIDE DEF head, bytes, p
<1>4. /\ bytes \in Seq(Byte) /\ Len(bytes) = 1 + m /\ bytes[1] = 3 + m
      /\ \A i \in 1..m : bytes[1 + i] = data[i]
      /\ SubSeq(bytes, 2, m + 1) = data
  <2>1. /\ bytes \in Seq(Byte) /\ Len(bytes) = Len(head) + Len(data)
        /\ \A i \in 1..Len(head) : bytes[i] = head[i]
        /\ \A i \in 1..Len(data) : bytes[Len(head) + i] = data[i]
        /\ SubSeq(bytes, 1, Len(head)) = head
        /\ SubSeq(bytes, Len(head) + 1, Len(head) + Len(data)) = data
    BY <1>2, StartAndEnd, Zenon DEF bytes
  <2> QED BY <1>1, <1>2, <2>1
<1> HIDE DEF m
<1>5. /\ p \in Seq(Byte) /\ Len(p) = 3 + m
      /\ \A i \in 1..1 + m : p[i] = bytes[i]
      /\ SubSeq(p, 1, 1 + m) = bytes
      /\ <<p[2 + m], p[3 + m]>> = calculate_crc(bytes)
  <2>1. /\ p \in Seq(Byte) /\ Len(p) = Len(bytes) + 2
        /\ \A i \in 1..Len(bytes) : p[i] = bytes[i]
        /\ SubSeq(p, 1, Len(bytes)) = bytes
        /\ <<p[Len(bytes) + 1], p[Len(bytes) + 2]>> = calculate_crc(bytes)
    BY <1>3, <1>4, WithCrcIs, Zenon
  <2>2. Len(bytes) + 1 = 2 + m /\ Len(bytes) + 2 = 3 + m
    BY <1>1, <1>4
  <2> QED BY <1>4, <2>1, <2>2
<1>6. p[1] = 3 + m /\ \A i \in 1..m : p[1 + i] = data[i]
  BY <1>1, <1>4, <1>5
<1>7. SubSeq(p, 2, m + 1) = data
  <2> DEFINE last == m + 1
             sub == SubSeq(p, 2, last)
  <2>1. \A i \in 2..last : p[i] \in Byte
    BY <1>1, <1>5, ElementOfSeq
  <2>2. 2 \in Int /\ last \in Int /\ last - 2 + 1 = m
    BY <1>1
  <2> HIDE DEF last
  <2>3. /\ sub \in Seq(Byte) /\ Len(sub) = IF 2 <= last THEN last - 2 + 1 ELSE 0
        /\ \A i \in 1..last - 2 + 1 : sub[i] = p[2 + i - 1]
    BY <2>1, <2>2, SubSeqProperties
  <2> HIDE DEF sub
  <2>4. Len(sub) = m
    BY <1>1, <2>2, <2>3
  <2>5. ASSUME NEW i \in 1..m PROVE sub[i] = data[i]
    <3>1. 2 + i - 1 = 1 + i
      OBVIOUS
    <3> QED BY <1>6, <2>2, <2>3, <3>1
  <2>6. sub = data
    BY <2>3, <2>4, <2>5, SeqEqual DEF m
  <2> QED BY <2>6 DEF sub, last
<1>8. check_packet(p)
  <2>1. p[1] - 1 = 2 + m /\ p[1] = 3 + m /\ p[1] - 2 = 1 + m
    BY <1>1, <1>6
  <2> QED BY <1>5, <2>1 DEF check_packet
<1> QED BY <1>1, <1>5, <1>6, <1>7, <1>8 DEF p, m

-----------------------------------------------------------------------------
(* Commands                                                                *)

LEMMA ByteSeq ==
  ASSUME NEW n \in Nat, NEW data \in Bytes(n)
  PROVE  data \in Seq(Byte) /\ Len(data) = n
BY DEF Bytes

\* The chip reads back the two bytes of a parameter.
LEMMA Param2 ==
  ASSUME NEW param2 \in Nat
  PROVE  (param2 % 256) + 256 * (param2 \div 256) = param2
OBVIOUS

\* What the chip makes of a packet with these fields that passes its check.
Understood(p, opcode, param1, param2, data) ==
  /\ opcode = 48 => Decode(p) = <<"devrev">>
  /\ opcode = 27 => Decode(p) = <<"random">>
  /\ opcode = 2 /\ param1 % 4 < 3 =>
       Decode(p) = <<"read", ZoneOf(param1), AddressOf(param1, param2), SizeOf(param1)>>
  /\ opcode = 18 /\ param1 % 4 < 3 /\ Len(data) = SizeOf(param1) =>
       Decode(p) = <<"write", ZoneOf(param1), AddressOf(param1, param2), data>>
  /\ opcode = 22 /\ param1 % 4 = 3 => Decode(p) = <<"nonce", data>>
  /\ opcode = 17 /\ Bit(param1, 2) => Decode(p) = <<"hmac", param2, Bit(param1, 5)>>
  /\ opcode = 8 /\ param1 % 4 = 0 => Decode(p) = <<"mac", param2, data, Bit(param1, 5)>>
  /\ opcode = 23 => Decode(p) = <<"lock", IF param1 % 2 = 0 THEN "conf" ELSE "data",
                                <<param2 % 256, param2 \div 256>> >>

LEMMA DecodeIs ==
  ASSUME NEW p, Intact(p), NEW param2 \in Nat, p[4] = param2 % 256, p[5] = param2 \div 256
  PROVE  Understood(p, p[2], p[3], param2, SubSeq(p, 6, Len(p) - 2))
<1> DEFINE opcode == p[2]
           param1 == p[3]
           data == SubSeq(p, 6, Len(p) - 2)
<1>0. p[4] + 256 * p[5] = param2
  BY Param2
<1>1. ASSUME opcode = 48 PROVE Decode(p) = <<"devrev">>
  BY <1>1 DEF Decode
<1>2. ASSUME opcode = 27 PROVE Decode(p) = <<"random">>
  BY <1>2 DEF Decode
<1>3. ASSUME opcode = 2, param1 % 4 < 3
      PROVE  Decode(p) =
               <<"read", ZoneOf(param1), AddressOf(param1, param2), SizeOf(param1)>>
  BY <1>0, <1>3 DEF Decode
<1>4. ASSUME opcode = 18, param1 % 4 < 3, Len(data) = SizeOf(param1)
      PROVE  Decode(p) = <<"write", ZoneOf(param1), AddressOf(param1, param2), data>>
  BY <1>0, <1>4 DEF Decode
<1>5. ASSUME opcode = 22, param1 % 4 = 3 PROVE Decode(p) = <<"nonce", data>>
  BY <1>5 DEF Decode
<1>6. ASSUME opcode = 17, Bit(param1, 2)
      PROVE  Decode(p) = <<"hmac", param2, Bit(param1, 5)>>
  BY <1>0, <1>6 DEF Decode
<1>7. ASSUME opcode = 8, param1 % 4 = 0
      PROVE  Decode(p) = <<"mac", param2, data, Bit(param1, 5)>>
  BY <1>0, <1>7 DEF Decode
<1>8. ASSUME opcode = 23
      PROVE  Decode(p) = <<"lock", IF param1 % 2 = 0 THEN "conf" ELSE "data",
                           <<param2 % 256, param2 \div 256>> >>
  BY <1>8 DEF Decode
<1> HIDE DEF opcode, param1, data
<1>9. Understood(p, opcode, param1, param2, data)
  BY <1>1, <1>2, <1>3, <1>4, <1>5, <1>6, <1>7, <1>8 DEF Understood
<1> QED BY <1>9 DEF opcode, param1, data

\* The chip finds in a command packet what the host has put there.
LEMMA Decoded ==
  ASSUME NEW opcode \in Byte, NEW param1 \in Byte, NEW param2 \in Nat,
         param2 \div 256 \in Byte, NEW data \in Seq(Byte), Len(data) <= 32
  PROVE  LET p == generate_command_packet(opcode, param1, param2, data) IN
         p \in Seq(Byte) /\ Len(p) <= 39 /\ Understood(p, opcode, param1, param2, data)
<1> DEFINE p == generate_command_packet(opcode, param1, param2, data)
<1>1. /\ p \in Seq(Byte) /\ Len(p) = 7 + Len(data)
      /\ p[2] = opcode /\ p[3] = param1
      /\ p[4] = param2 % 256 /\ p[5] = param2 \div 256
      /\ SubSeq(p, 6, Len(p) - 2) = data
      /\ Intact(p)
  BY CommandPacketIs, Zenon
<1> HIDE DEF p
<1>2. Understood(p, p[2], p[3], param2, SubSeq(p, 6, Len(p) - 2))
  BY <1>1, DecodeIs
<1>3. Understood(p, opcode, param1, param2, data)
  BY <1>1, <1>2
<1>4. Len(data) \in Nat
  BY LenProperties
<1>5. Len(p) <= 39
  BY <1>1, <1>4
<1> QED BY <1>1, <1>3, <1>5 DEF p

\* The zone, the word and the size go through the mode and the address.
LEMMA ZonesAndWords ==
  ASSUME NEW zone \in {"slot", "conf", "otp"}, NEW address \in Byte, NEW size \in {4, 32},
         zone = "slot" => address \in 0..15
  PROVE  LET param1 == get_zone_config(zone, size)
             param2 == WordAddress(zone, address)
         IN
         /\ param1 \in Byte /\ param1 % 4 < 3
         /\ ZoneOf(param1) = zone /\ SizeOf(param1) = size
         /\ param2 \in Nat /\ param2 \div 256 \in Byte
         /\ AddressOf(param1, param2) = address
<1> DEFINE param1 == get_zone_config(zone, size)
           param2 == WordAddress(zone, address)
<1>1. /\ param1 \in 0..255 /\ param1 % 4 < 3
      /\ param1 % 4 = IF zone = "conf" THEN 0 ELSE IF zone = "otp" THEN 1 ELSE 2
      /\ param1 >= 128 <=> size = 32
  BY DEF get_zone_config, IO_MEM
<1>2. /\ zone = "slot" => address \in 0..15 /\ param2 = 8 * address
      /\ zone # "slot" => param2 = address
      /\ address \in 0..255
  BY DEF WordAddress, get_slot_address, Byte
<1> HIDE DEF param1, param2
<1>3. ZoneOf(param1) = zone
  BY <1>1 DEF ZoneOf
<1>4. SizeOf(param1) = size
  BY <1>1 DEF SizeOf
<1>5. AddressOf(param1, param2) = address
  BY <1>1, <1>2 DEF AddressOf
<1>6. param2 \in Nat /\ param2 \div 256 \in Byte
  BY <1>2 DEF Byte
<1> QED BY <1>1, <1>3, <1>4, <1>5, <1>6 DEF param1, param2, Byte

\* What the chip hears of a packet that arrives as it was sent.
Arrives(c) == Packet(c) \in Seq(Byte) /\ Len(Packet(c)) <= 39 /\ Decode(Packet(c)) = Meant(c)

LEMMA NoDataArrives ==
  Arrives(<<"devrev">>) /\ Arrives(<<"random">>) /\ Arrives(<<"serial">>)
<1>1. <<>> \in Seq(Byte) /\ Len(<<>>) <= 32
  OBVIOUS
<1>2. 48 \in Byte /\ 27 \in Byte /\ 2 \in Byte /\ 0 \in Byte /\ 0 \in Nat /\ 0 \div 256 \in Byte
  BY DEF Byte
<1>3. Arrives(<<"devrev">>)
  <2> DEFINE p == generate_command_packet(48, 0, 0, <<>>)
  <2>1. Packet(<<"devrev">>) = p
    BY DEF Packet
  <2>2. Meant(<<"devrev">>) = <<"devrev">>
    BY DEF Meant
  <2> HIDE DEF p
  <2>3. p \in Seq(Byte) /\ Len(p) <= 39 /\ Understood(p, 48, 0, 0, <<>>)
    BY <1>1, <1>2, Decoded DEF p
  <2> QED BY <2>1, <2>2, <2>3 DEF Arrives, Understood
<1>4. Arrives(<<"random">>)
  <2> DEFINE p == generate_command_packet(27, 0, 0, <<>>)
  <2>1. Packet(<<"random">>) = p
    BY DEF Packet
  <2>2. Meant(<<"random">>) = <<"random">>
    BY DEF Meant
  <2> HIDE DEF p
  <2>3. p \in Seq(Byte) /\ Len(p) <= 39 /\ Understood(p, 27, 0, 0, <<>>)
    BY <1>1, <1>2, Decoded DEF p
  <2> QED BY <2>1, <2>2, <2>3 DEF Arrives, Understood
<1>5. Arrives(<<"serial">>)
  <2> DEFINE param1 == get_zone_config("conf", 32)
             p == generate_command_packet(2, param1, 0, <<>>)
  <2>1. Packet(<<"serial">>) = p
    BY DEF Packet
  <2>2. Meant(<<"serial">>) = <<"read", "conf", 0, 32>>
    BY DEF Meant
  <2>3. WordAddress("conf", 0) = 0
    BY DEF WordAddress
  <2> HIDE DEF param1
  <2>4. /\ param1 \in Byte /\ param1 % 4 < 3
        /\ ZoneOf(param1) = "conf" /\ SizeOf(param1) = 32 /\ AddressOf(param1, 0) = 0
    BY <1>2, <2>3, ZonesAndWords DEF param1
  <2> HIDE DEF p
  <2>5. p \in Seq(Byte) /\ Len(p) <= 39 /\ Understood(p, 2, param1, 0, <<>>)
    BY <1>1, <1>2, <2>4, Decoded DEF p
  <2>6. Decode(p) = <<"read", ZoneOf(param1), AddressOf(param1, 0), SizeOf(param1)>>
    BY <2>4, <2>5 DEF Understood
  <2> QED BY <2>1, <2>2, <2>4, <2>5, <2>6 DEF Arrives
<1> QED BY <1>3, <1>4, <1>5

LEMMA ReadArrives ==
  ASSUME NEW zone \in {"slot", "conf", "otp"}, NEW address \in Byte, NEW size \in {4, 32},
         zone = "slot" => address \in 0..15
  PROVE  Arrives(<<"read", zone, address, size>>)
<1> DEFINE param1 == get_zone_config(zone, size)
           param2 == WordAddress(zone, address)
           p == generate_command_packet(2, param1, param2, <<>>)
           c == <<"read", zone, address, size>>
<1>1. Packet(c) = p /\ Meant(c) = c
  BY DEF Packet, Meant
<1>2. /\ param1 \in Byte /\ param1 % 4 < 3
      /\ ZoneOf(param1) = zone /\ SizeOf(param1) = size
      /\ param2 \in Nat /\ param2 \div 256 \in Byte
      /\ AddressOf(param1, param2) = address
  <2> HIDE DEF param1, param2
  <2> QED BY ZonesAndWords DEF param1, param2
<1>3. <<>> \in Seq(Byte) /\ Len(<<>>) <= 32
  OBVIOUS
<1>4. 2 \in Byte
  BY DEF Byte
<1> HIDE DEF param1, param2, p
<1>5. p \in Seq(Byte) /\ Len(p) <= 39 /\ Understood(p, 2, param1, param2, <<>>)
  BY <1>2, <1>3, <1>4, Decoded DEF p
<1>6. Decode(p) = c
  BY <1>2, <1>5 DEF Understood
<1> QED BY <1>1, <1>5, <1>6 DEF Arrives

LEMMA WriteArrives ==
  ASSUME NEW zone \in {"slot", "conf", "otp"}, NEW address \in Byte,
         NEW data \in Bytes(4) \cup Bytes(32), zone = "slot" => address \in 0..15
  PROVE  Arrives(<<"write", zone, address, data>>)
<1> DEFINE size == Len(data)
           param1 == get_zone_config(zone, size)
           param2 == WordAddress(zone, address)
           p == generate_command_packet(18, param1, param2, data)
           c == <<"write", zone, address, data>>
<1>1. Packet(c) = p /\ Meant(c) = c
  BY DEF Packet, Meant
<1>2. data \in Seq(Byte) /\ size \in {4, 32} /\ Len(data) = size
  BY ByteSeq
<1> HIDE DEF size
<1>3. /\ param1 \in Byte /\ param1 % 4 < 3
      /\ ZoneOf(param1) = zone /\ SizeOf(param1) = size
      /\ param2 \in Nat /\ param2 \div 256 \in Byte
      /\ AddressOf(param1, param2) = address
  <2> HIDE DEF param1, param2
  <2> QED BY <1>2, ZonesAndWords DEF param1, param2
<1>4. Len(data) <= 32
  BY <1>2
<1>5. 18 \in Byte
  BY DEF Byte
<1> HIDE DEF param1, param2, p
<1>6. p \in Seq(Byte) /\ Len(p) <= 39 /\ Understood(p, 18, param1, param2, data)
  BY <1>2, <1>3, <1>4, <1>5, Decoded DEF p
<1>7. Decode(p) = c
  BY <1>2, <1>3, <1>6 DEF Understood
<1> QED BY <1>1, <1>6, <1>7 DEF Arrives

LEMMA NonceArrives ==
  ASSUME NEW data \in Bytes(32)
  PROVE  Arrives(<<"nonce", data>>)
<1> DEFINE p == generate_command_packet(22, 3, 0, data)
           c == <<"nonce", data>>
<1>1. Packet(c) = p /\ Meant(c) = c
  BY DEF Packet, Meant
<1>2. data \in Seq(Byte) /\ Len(data) <= 32
  BY ByteSeq
<1>3. 22 \in Byte /\ 3 \in Byte /\ 0 \in Nat /\ 0 \div 256 \in Byte
  BY DEF Byte
<1> HIDE DEF p
<1>4. p \in Seq(Byte) /\ Len(p) <= 39 /\ Understood(p, 22, 3, 0, data)
  BY <1>2, <1>3, Decoded DEF p
<1>5. Decode(p) = c
  BY <1>4 DEF Understood
<1> QED BY <1>1, <1>4, <1>5 DEF Arrives

\* The bit of the serial number in the mode.
LEMMA Modes ==
  ASSUME NEW use_sn \in BOOLEAN, NEW bits \in {0, 4}
  PROVE  LET param1 == Mode(bits, use_sn) IN
         /\ param1 \in Byte
         /\ bits = 4 => Bit(param1, 2)
         /\ bits = 0 => param1 % 4 = 0
         /\ Bit(param1, 5) = use_sn
<1>1. Bit(Mode(bits, use_sn), 5) <=> use_sn
  BY DEF Mode, Bit
<1>2. Bit(Mode(bits, use_sn), 5) = use_sn
  BY <1>1, Zenon DEF Bit
<1>3. Mode(bits, use_sn) \in Byte
  BY DEF Mode, Byte
<1>4. bits = 4 => Bit(Mode(bits, use_sn), 2)
  BY DEF Mode, Bit
<1>5. bits = 0 => Mode(bits, use_sn) % 4 = 0
  BY DEF Mode
<1> QED BY <1>2, <1>3, <1>4, <1>5, Zenon

LEMMA HmacArrives ==
  ASSUME NEW slot \in 0..15, NEW use_sn \in BOOLEAN
  PROVE  Arrives(<<"hmac", slot, use_sn>>)
<1> DEFINE param1 == Mode(4, use_sn)
           p == generate_command_packet(17, param1, slot, <<>>)
           c == <<"hmac", slot, use_sn>>
<1>1. Packet(c) = p /\ Meant(c) = c
  BY DEF Packet, Meant
<1>2. <<>> \in Seq(Byte) /\ Len(<<>>) <= 32
  OBVIOUS
<1>3. 17 \in Byte /\ slot \in Nat /\ slot \div 256 \in Byte
  BY DEF Byte
<1>4. param1 \in Byte /\ Bit(param1, 2) /\ Bit(param1, 5) = use_sn
  BY Modes
<1> HIDE DEF p, param1
<1>5. p \in Seq(Byte) /\ Len(p) <= 39 /\ Understood(p, 17, param1, slot, <<>>)
  BY <1>2, <1>3, <1>4, Decoded DEF p
<1>6. Decode(p) = <<"hmac", slot, Bit(param1, 5)>>
  BY <1>4, <1>5 DEF Understood
<1>7. Decode(p) = c
  BY <1>4, <1>6, Zenon
<1> QED BY <1>1, <1>5, <1>7, Zenon DEF Arrives

LEMMA MacArrives ==
  ASSUME NEW slot \in 0..15, NEW data \in Bytes(32), NEW use_sn \in BOOLEAN
  PROVE  Arrives(<<"mac", slot, data, use_sn>>)
<1> DEFINE param1 == Mode(0, use_sn)
           p == generate_command_packet(8, param1, slot, data)
           c == <<"mac", slot, data, use_sn>>
<1>1. Packet(c) = p /\ Meant(c) = c
  BY DEF Packet, Meant
<1>2. data \in Seq(Byte) /\ Len(data) <= 32
  BY ByteSeq
<1>3. 8 \in Byte /\ slot \in Nat /\ slot \div 256 \in Byte
  BY DEF Byte
<1>4. param1 \in Byte /\ param1 % 4 = 0 /\ Bit(param1, 5) = use_sn
  BY Modes
<1> HIDE DEF p, param1
<1>5. p \in Seq(Byte) /\ Len(p) <= 39 /\ Understood(p, 8, param1, slot, data)
  BY <1>2, <1>3, <1>4, Decoded DEF p
<1>6. Decode(p) = <<"mac", slot, data, Bit(param1, 5)>>
  BY <1>4, <1>5 DEF Understood
<1>7. Decode(p) = c
  BY <1>4, <1>6, Zenon
<1> QED BY <1>1, <1>5, <1>7, Zenon DEF Arrives

LEMMA LockArrives ==
  ASSUME NEW zone \in {"conf", "data"}, NEW crc \in Bytes(2)
  PROVE  Arrives(<<"lock", zone, crc>>)
<1> DEFINE param1 == get_lock_config(zone)
           param2 == LockCrc(crc)
           p == generate_command_packet(23, param1, param2, <<>>)
           c == <<"lock", zone, crc>>
<1>1. Packet(c) = p /\ Meant(c) = c
  BY DEF Packet, Meant
<1>2. <<>> \in Seq(Byte) /\ Len(<<>>) <= 32
  OBVIOUS
<1>3. crc[1] \in 0..255 /\ crc[2] \in 0..255 /\ crc = <<crc[1], crc[2]>>
  <2>1. crc \in Seq(Byte) /\ Len(crc) = 2
    BY ByteSeq
  <2>2. crc[1] \in Byte /\ crc[2] \in Byte
    BY DEF Bytes
  <2>3. crc = <<crc[1], crc[2]>>
    BY <2>1, <2>2, SeqEqual
  <2> QED BY <2>2, <2>3 DEF Byte
<1>4. 23 \in Byte /\ param1 \in Byte /\ (param1 % 2 = 0 <=> zone = "conf")
  BY DEF Byte, get_lock_config
<1>5. param2 \in Nat /\ param2 % 256 = crc[1] /\ param2 \div 256 = crc[2]
  <2> DEFINE low == crc[1]
             high == crc[2]
  <2>1. param2 = 256 * high + low /\ low \in 0..255 /\ high \in 0..255
    BY <1>3 DEF LockCrc
  <2> HIDE DEF low, high, param2
  <2>2. param2 \in Nat /\ param2 % 256 = low /\ param2 \div 256 = high
    BY <2>1
  <2> QED BY <2>2 DEF low, high
<1> HIDE DEF p, param1, param2
<1>6. p \in Seq(Byte) /\ Len(p) <= 39 /\ Understood(p, 23, param1, param2, <<>>)
  <2>1. param2 \div 256 \in Byte
    BY <1>3, <1>5 DEF Byte
  <2> QED BY <1>2, <1>4, <1>5, <2>1, Decoded DEF p
<1>7. Decode(p) = <<"lock", zone, <<crc[1], crc[2]>> >>
  BY <1>4, <1>5, <1>6 DEF Understood
<1>8. Decode(p) = c
  BY <1>3, <1>7
<1> QED BY <1>1, <1>6, <1>8 DEF Arrives

\* The chip hears what api.c means, whatever it is.
LEMMA WellFormedArrives ==
  ASSUME NEW c \in WellFormed
  PROVE  Arrives(c)
<1>1. CASE c \in {<<"devrev">>, <<"random">>, <<"serial">>}
  BY <1>1, NoDataArrives
<1>2. CASE c \in {"read"} \X {"slot"} \X (0..15) \X {4, 32}
  <2>1. PICK address \in 0..15, size \in {4, 32} : c = <<"read", "slot", address, size>>
    BY <1>2
  <2>2. address \in Byte
    BY DEF Byte
  <2> QED BY <2>1, <2>2, ReadArrives
<1>3. CASE c \in {"read"} \X {"conf", "otp"} \X Byte \X {4, 32}
  <2>1. PICK zone \in {"conf", "otp"}, address \in Byte, size \in {4, 32} :
          c = <<"read", zone, address, size>>
    BY <1>3
  <2> QED BY <2>1, ReadArrives
<1>4. CASE c \in {"write"} \X {"slot"} \X (0..15) \X (Bytes(4) \cup Bytes(32))
  <2>1. PICK address \in 0..15, data \in Bytes(4) \cup Bytes(32) :
          c = <<"write", "slot", address, data>>
    BY <1>4
  <2>2. address \in Byte
    BY DEF Byte
  <2> QED BY <2>1, <2>2, WriteArrives
<1>5. CASE c \in {"write"} \X {"conf", "otp"} \X Byte \X (Bytes(4) \cup Bytes(32))
  <2>1. PICK zone \in {"conf", "otp"}, address \in Byte, data \in Bytes(4) \cup Bytes(32) :
          c = <<"write", zone, address, data>>
    BY <1>5
  <2> QED BY <2>1, WriteArrives
<1>6. CASE c \in {"nonce"} \X Bytes(32)
  <2>1. PICK data \in Bytes(32) : c = <<"nonce", data>>
    BY <1>6
  <2> QED BY <2>1, NonceArrives
<1>7. CASE c \in {"hmac"} \X (0..15) \X BOOLEAN
  <2>1. PICK slot \in 0..15, use_sn \in BOOLEAN : c = <<"hmac", slot, use_sn>>
    BY <1>7
  <2> QED BY <2>1, HmacArrives
<1>8. CASE c \in {"mac"} \X (0..15) \X Bytes(32) \X BOOLEAN
  <2>1. PICK slot \in 0..15, data \in Bytes(32), use_sn \in BOOLEAN :
          c = <<"mac", slot, data, use_sn>>
    BY <1>8
  <2> QED BY <2>1, MacArrives
<1>9. CASE c \in {"lock"} \X {"conf", "data"} \X Bytes(2)
  <2>1. PICK zone \in {"conf", "data"}, crc \in Bytes(2) : c = <<"lock", zone, crc>>
    BY <1>9
  <2> QED BY <2>1, LockArrives
<1> QED BY <1>1, <1>2, <1>3, <1>4, <1>5, <1>6, <1>7, <1>8, <1>9, Zenon DEF WellFormed

-----------------------------------------------------------------------------
(* Answers                                                                 *)

LEMMA SampleIs ==
  ASSUME NEW seed \in Nat, NEW size \in Nat
  PROVE  Sample(seed, size) \in Seq(Byte) /\ Len(Sample(seed, size)) = size
<1>1. \A n \in 1..size : (17 * seed + 29 * n) % 256 \in Byte
  BY DEF Byte
<1> QED BY <1>1 DEF Sample

\* What the chip can have understood.
Hearable(c) ==
  \/ c[1] \in {"write", "nonce", "lock", "devrev", "random"}
  \/ c[1] = "read" /\ c[2] \in {"slot", "conf", "otp"} /\ c[3] \in Nat /\ c[4] \in {4, 32}
  \/ c[1] \in {"hmac", "mac"} /\ c[2] \in Nat

LEMMA DecodeHears ==
  ASSUME NEW p \in Seq(Byte), Decode(p) # Unheard
  PROVE  Hearable(Decode(p))
<1> DEFINE opcode == p[2]
           param1 == p[3]
           param2 == p[4] + 256 * p[5]
           data == SubSeq(p, 6, Len(p) - 2)
           use_sn == Bit(param1, 5)
           address == AddressOf(param1, param2)
<1>1. Len(p) >= 7 /\ Intact(p)
  BY DEF Decode, Intact
<1>2. param1 \in 0..255 /\ param2 \in Nat
  <2>1. p[3] \in Byte /\ p[4] \in Byte /\ p[5] \in Byte
    BY <1>1
  <2>2. \A a, b \in 0..255 : a + 256 * b \in Nat
    OBVIOUS
  <2>3. Byte = 0..255
    BY DEF Byte
  <2> QED BY <2>1, <2>2, <2>3
<1>3. \/ Decode(p) = <<"devrev">>
      \/ Decode(p) = <<"random">>
      \/ param1 % 4 < 3 /\ Decode(p) = <<"read", ZoneOf(param1), address, SizeOf(param1)>>
      \/ Decode(p) = <<"write", ZoneOf(param1), address, data>>
      \/ Decode(p) = <<"nonce", data>>
      \/ Decode(p) = <<"hmac", param2, use_sn>>
      \/ Decode(p) = <<"mac", param2, data, use_sn>>
      \/ Decode(p) = <<"lock", IF param1 % 2 = 0 THEN "conf" ELSE "data", <<p[4], p[5]>> >>
  <2>1. CASE opcode = 48
    BY <1>1, <2>1 DEF Decode
  <2>2. CASE opcode = 27
    BY <1>1, <2>2 DEF Decode
  <2>3. CASE opcode = 2
    <3>1. Decode(p) = IF param1 % 4 < 3
                      THEN <<"read", ZoneOf(param1), address, SizeOf(param1)>> ELSE Unheard
      BY <1>1, <2>3 DEF Decode
    <3> QED BY <3>1
  <2>4. CASE opcode = 18
    <3>1. Decode(p) = IF param1 % 4 < 3 /\ Len(data) = SizeOf(param1)
                      THEN <<"write", ZoneOf(param1), address, data>> ELSE Unheard
      BY <1>1, <2>4 DEF Decode
    <3> QED BY <3>1
  <2>5. CASE opcode = 22
    <3>1. Decode(p) = IF param1 % 4 = 3 THEN <<"nonce", data>> ELSE Unheard
      BY <1>1, <2>5 DEF Decode
    <3> QED BY <3>1
  <2>6. CASE opcode = 17
    <3>1. Decode(p) = IF Bit(param1, 2) THEN <<"hmac", param2, use_sn>> ELSE Unheard
      BY <1>1, <2>6 DEF Decode
    <3> QED BY <3>1
  <2>7. CASE opcode = 8
    <3>1. Decode(p) = IF param1 % 4 = 0 THEN <<"mac", param2, data, use_sn>> ELSE Unheard
      BY <1>1, <2>7 DEF Decode
    <3> QED BY <3>1
  <2>8. CASE opcode = 23
    BY <1>1, <2>8 DEF Decode
  <2>9. CASE opcode \notin {48, 27, 2, 18, 22, 17, 8, 23}
    <3>1. Decode(p) = Unheard
      BY <1>1, <2>9 DEF Decode
    <3> QED BY <3>1
  <2> HIDE DEF opcode, param1, param2, data, use_sn, address
  <2> QED BY <2>1, <2>2, <2>3, <2>4, <2>5, <2>6, <2>7, <2>8, <2>9
<1>4. SizeOf(param1) \in {4, 32} /\ address \in Nat
  BY <1>2 DEF SizeOf, AddressOf
<1>5. ASSUME param1 % 4 < 3 PROVE ZoneOf(param1) \in {"slot", "conf", "otp"}
  <2> HIDE DEF param1
  <2>1. param1 % 4 \in {0, 1, 2}
    BY <1>2, <1>5
  <2> QED BY <2>1 DEF ZoneOf
<1> HIDE DEF opcode, param1, param2, data, use_sn, address
<1> QED BY <1>2, <1>3, <1>4, <1>5 DEF Hearable

\* The contents the chip answers with.
LEMMA ContentsAre ==
  ASSUME NEW c, Hearable(c)
  PROVE  /\ Contents(c) \in Seq(Byte) /\ Len(Contents(c)) \in 1..32
         /\ c[1] \in {"write", "nonce", "lock"} => Contents(c) = <<0>>
         /\ c[1] = "devrev" => Len(Contents(c)) = 4
         /\ c[1] \in {"random", "hmac", "mac"} => Len(Contents(c)) = 32
         /\ c[1] = "read" => Len(Contents(c)) = c[4]
<1>1. CASE c[1] \in {"write", "nonce", "lock"}
  <2>1. Contents(c) = <<0>>
    BY <1>1 DEF Contents
  <2>2. 0 \in Byte
    BY DEF Byte
  <2> QED BY <1>1, <2>1, <2>2
<1>2. CASE c[1] = "devrev"
  <2>1. Contents(c) = Sample(1, 4)
    BY <1>2 DEF Contents
  <2>2. Sample(1, 4) \in Seq(Byte) /\ Len(Sample(1, 4)) = 4
    BY SampleIs
  <2> QED BY <1>2, <2>1, <2>2
<1>3. CASE c[1] = "random"
  <2>1. Contents(c) = Sample(2, 32)
    BY <1>3 DEF Contents
  <2>2. Sample(2, 32) \in Seq(Byte) /\ Len(Sample(2, 32)) = 32
    BY SampleIs
  <2> QED BY <1>3, <2>1, <2>2
<1>4. CASE c[1] = "read"
  <2> DEFINE seed == 3 + 8 * c[3] + IO_MEM[c[2]]
  <2>1. Contents(c) = Sample(seed, c[4])
    BY <1>4 DEF Contents
  <2>2. seed \in Nat /\ c[4] \in {4, 32}
    BY <1>4 DEF Hearable, IO_MEM
  <2> HIDE DEF seed
  <2>3. Sample(seed, c[4]) \in Seq(Byte) /\ Len(Sample(seed, c[4])) = c[4]
    BY <2>2, SampleIs
  <2> QED BY <1>4, <2>1, <2>2, <2>3
<1>5. CASE c[1] = "hmac"
  <2>1. Contents(c) = Sample(5 + c[2], 32) /\ 5 + c[2] \in Nat
    BY <1>5 DEF Contents, Hearable
  <2>2. Sample(5 + c[2], 32) \in Seq(Byte) /\ Len(Sample(5 + c[2], 32)) = 32
    BY <2>1, SampleIs
  <2> QED BY <1>5, <2>1, <2>2
<1>6. CASE c[1] = "mac"
  <2>1. Contents(c) = Sample(6 + c[2], 32) /\ 6 + c[2] \in Nat
    BY <1>6 DEF Contents, Hearable
  <2>2. Sample(6 + c[2], 32) \in Seq(Byte) /\ Len(Sample(6 + c[2], 32)) = 32
    BY <2>1, SampleIs
  <2> QED BY <1>6, <2>1, <2>2
<1> QED BY <1>1, <1>2, <1>3, <1>4, <1>5, <1>6 DEF Hearable

\* The commands that are sent, by what the receiving functions do.
LEMMA Kinds ==
  ASSUME NEW c \in WellFormed
  PROVE  /\ Hearable(Meant(c))
         /\ \/ c[1] \in {"write", "nonce", "lock", "devrev", "random", "read", "hmac", "mac"}
               /\ Meant(c) = c
            \/ c[1] = "serial" /\ Meant(c) = <<"read", "conf", 0, 32>>
<1>1. CASE c \in {<<"devrev">>, <<"random">>, <<"serial">>}
  BY <1>1 DEF Meant, Hearable
<1>2. CASE c \in {"read"} \X {"slot"} \X (0..15) \X {4, 32}
  BY <1>2 DEF Meant, Hearable
<1>3. CASE c \in {"read"} \X {"conf", "otp"} \X Byte \X {4, 32}
  BY <1>3 DEF Meant, Hearable, Byte
<1>4. CASE c \in {"write"} \X {"slot"} \X (0..15) \X (Bytes(4) \cup Bytes(32))
  BY <1>4 DEF Meant, Hearable
<1>5. CASE c \in {"write"} \X {"conf", "otp"} \X Byte \X (Bytes(4) \cup Bytes(32))
  BY <1>5 DEF Meant, Hearable
<1>6. CASE c \in {"nonce"} \X Bytes(32)
  BY <1>6 DEF Meant, Hearable
<1>7. CASE c \in {"hmac"} \X (0..15) \X BOOLEAN
  BY <1>7 DEF Meant, Hearable
<1>8. CASE c \in {"mac"} \X (0..15) \X Bytes(32) \X BOOLEAN
  BY <1>8 DEF Meant, Hearable
<1>9. CASE c \in {"lock"} \X {"conf", "data"} \X Bytes(2)
  BY <1>9 DEF Meant, Hearable
<1> QED BY <1>1, <1>2, <1>3, <1>4, <1>5, <1>6, <1>7, <1>8, <1>9, Zenon DEF WellFormed

\* The serial number is two runs of bytes of the first 32 of the configuration.
LEMMA SerialIs ==
  ASSUME NEW data \in Seq(Byte), Len(data) = 32,
         NEW p, \A i \in 1..32 : p[1 + i] = data[i]
  PROVE  [n \in 1..9 |-> p[SerialBytes[n]]] = SubSeq(data, 1, 4) \o SubSeq(data, 9, 13)
<1> DEFINE first == SubSeq(data, 1, 4)
           second == SubSeq(data, 9, 13)
           serial == [n \in 1..9 |-> p[SerialBytes[n]]]
<1>1. \A i \in 1..32 : data[i] \in Byte
  BY ElementOfSeq
<1>2. first \in Seq(Byte) /\ Len(first) = 4 /\ \A i \in 1..4 : first[i] = data[i]
  BY <1>1, SubSeqProperties
<1>3. second \in Seq(Byte) /\ Len(second) = 5 /\ \A i \in 1..5 : second[i] = data[8 + i]
  BY <1>1, SubSeqProperties
<1> HIDE DEF first, second
<1> DEFINE both == first \o second
<1>4. /\ both \in Seq(Byte) /\ Len(both) = 9
      /\ \A i \in 1..4 : both[i] = data[i]
      /\ \A i \in 1..5 : both[4 + i] = data[8 + i]
  <2>1. /\ both \in Seq(Byte)
        /\ Len(both) = Len(first) + Len(second)
        /\ \A i \in 1..Len(first) : both[i] = first[i]
        /\ \A i \in 1..Len(second) : both[Len(first) + i] = second[i]
        /\ SubSeq(both, 1, Len(first)) = first
        /\ SubSeq(both, Len(first) + 1, Len(first) + Len(second)) = second
    <3>1. first \in Seq(Byte) /\ second \in Seq(Byte)
      BY <1>2, <1>3
    <3> QED BY <3>1, StartAndEnd, Zenon
  <2> HIDE DEF both
  <2> QED BY <1>2, <1>3, <2>1
<1> HIDE DEF both
<1>5. ASSUME NEW n \in 1..9
      PROVE  p[SerialBytes[n]] = both[n] /\ p[SerialBytes[n]] \in Byte
  <2>1. CASE n \in 1..4
    <3>1. SerialBytes[n] = 1 + n
      <4>1. n \in {1, 2, 3, 4}
        BY <2>1
      <4>2. SerialBytes[1] = 2 /\ SerialBytes[2] = 3 /\ SerialBytes[3] = 4 /\ SerialBytes[4] = 5
        BY DEF SerialBytes
      <4> QED BY <4>1, <4>2
    <3>2. n \in 1..32
      BY <2>1
    <3>3. p[1 + n] = data[n] /\ data[n] \in Byte
      BY <1>1, <3>2
    <3>4. both[n] = data[n]
      BY <1>4, <2>1
    <3> QED BY <3>1, <3>3, <3>4
  <2>2. CASE n \in 5..9
    <3>1. SerialBytes[n] = 1 + (n + 4)
      <4>1. n = 5 \/ n = 6 \/ n = 7 \/ n = 8 \/ n = 9
        BY <2>2
      <4>2. /\ SerialBytes[5] = 10 /\ SerialBytes[6] = 11 /\ SerialBytes[7] = 12
            /\ SerialBytes[8] = 13 /\ SerialBytes[9] = 14
        BY DEF SerialBytes
      <4>3. \/ n = 5 /\ SerialBytes[n] = 10
            \/ n = 6 /\ SerialBytes[n] = 11
            \/ n = 7 /\ SerialBytes[n] = 12
            \/ n = 8 /\ SerialBytes[n] = 13
            \/ n = 9 /\ SerialBytes[n] = 14
        BY <4>1, <4>2, Zenon
      <4> HIDE DEF serial
      <4> QED BY <4>3
    <3>2. n + 4 \in 1..32 /\ n - 4 \in 1..5 /\ 4 + (n - 4) = n /\ 8 + (n - 4) = n + 4
      BY <2>2
    <3>3. p[1 + (n + 4)] = data[n + 4] /\ data[n + 4] \in Byte
      BY <1>1, <3>2
    <3>4. both[n] = data[n + 4]
      BY <1>4, <3>2
    <3> QED BY <3>1, <3>3, <3>4
  <2> QED BY <2>1, <2>2
<1>6. serial \in Seq(Byte) /\ Len(serial) = 9 /\ \A n \in 1..9 : serial[n] = p[SerialBytes[n]]
  BY <1>5
<1> HIDE DEF serial
<1>7. serial = both
  <2>1. /\ serial \in Seq(Byte) /\ both \in Seq(Byte) /\ Len(serial) = Len(both)
        /\ \A n \in 1..Len(serial) : serial[n] = both[n]
    BY <1>4, <1>5, <1>6
  <2> QED BY <2>1, SeqEqual
<1> QED BY <1>7 DEF serial, both, first, second

\* The host gets out of the reply what its function promises.
LEMMA ReceivedIs ==
  ASSUME command \in WellFormed, reply = Contents(Meant(command)),
         NEW packet, packet = generate_answer_packet(reply)
  PROVE  command[1] # "devrev" => Checked(packet) = Expected
<1> DEFINE m == Len(reply)
<1>1. /\ reply \in Seq(Byte) /\ m \in 1..32
      /\ command[1] \in {"write", "nonce", "lock"} => reply = <<0>>
      /\ command[1] = "devrev" => m = 4
      /\ command[1] \in {"random", "hmac", "mac", "serial"} => m = 32
      /\ command[1] = "read" => m \in {4, 32}
      /\ command[1] \in {"write", "nonce", "lock", "devrev", "random", "read", "hmac", "mac", "serial"}
  <2> DEFINE c == Meant(command)
  <2>1. /\ Hearable(c)
        /\ \/ /\ command[1] \in {"write", "nonce", "lock", "devrev", "random", "read", "hmac", "mac"}
              /\ c = command
           \/ command[1] = "serial" /\ c = <<"read", "conf", 0, 32>>
    BY Kinds
  <2> HIDE DEF c
  <2>2. /\ Contents(c) \in Seq(Byte) /\ Len(Contents(c)) \in 1..32
        /\ c[1] \in {"write", "nonce", "lock"} => Contents(c) = <<0>>
        /\ c[1] = "devrev" => Len(Contents(c)) = 4
        /\ c[1] \in {"random", "hmac", "mac"} => Len(Contents(c)) = 32
        /\ c[1] = "read" => Len(Contents(c)) = c[4]
    BY <2>1, ContentsAre, Zenon
  <2>3. reply = Contents(c)
    BY DEF c
  <2>4. command[1] = "read" => m \in {4, 32}
    BY <2>1, <2>2, <2>3 DEF Hearable
  <2>5. command[1] = "serial" => m = 32
    <3> SUFFICES ASSUME command[1] = "serial" PROVE m = 32
      OBVIOUS
    <3>1. c = <<"read", "conf", 0, 32>>
      BY <2>1
    <3>2. c[1] = "read" /\ c[4] = 32
      BY <3>1
    <3> QED BY <2>2, <2>3, <3>2
  <2> QED BY <2>1, <2>2, <2>3, <2>4, <2>5
<1>2. /\ packet[1] = 3 + m
      /\ \A i \in 1..m : packet[1 + i] = reply[i]
      /\ SubSeq(packet, 2, m + 1) = reply
      /\ check_packet(packet)
  <2>1. m <= 32 /\ reply \in Seq(Byte)
    <3> HIDE DEF m
    <3> QED BY <1>1
  <2> QED BY <2>1, AnswerPacketIs
<1> HIDE DEF m
<1>3. packet[1] = 4 => reply = <<0>> /\ packet[2] = 0
  <2> SUFFICES ASSUME packet[1] = 4 PROVE reply = <<0>> /\ packet[2] = 0
    OBVIOUS
  <2>1. m = 1
    BY <1>1, <1>2
  <2>2. reply = <<0>>
    BY <1>1, <2>1
  <2>3. packet[1 + 1] = reply[1]
    BY <1>2, <2>1
  <2> QED BY <2>2, <2>3
<1>4. Checked(packet) = Received(command, packet)
  <2>1. ~(packet[1] = 4 /\ packet[2] \in {3, 15, 255, 17})
    BY <1>3
  <2> QED BY <1>2, <2>1 DEF Checked
<1>5. packet[1] - 3 = m /\ ~(m > 32 \/ m = 0)
  BY <1>1, <1>2
<1>6. CASE command[1] \in {"write", "nonce", "lock"}
  <2>1. reply = <<0>> /\ m = 1
    BY <1>1, <1>6 DEF m
  <2>2. packet[2] = 0
    BY <1>2, <1>3, <2>1
  <2>3. Received(command, packet) = Ok(<<>>)
    BY <1>6, <2>2 DEF Received
  <2>4. Expected = Ok(<<>>)
    BY <1>6 DEF Expected
  <2> QED BY <1>4, <2>3, <2>4
<1>7. CASE command[1] = "serial"
  <2>1. m = 32 /\ \A i \in 1..32 : packet[1 + i] = reply[i]
    BY <1>1, <1>2, <1>7
  <2>2. [n \in 1..9 |-> packet[SerialBytes[n]]] = SubSeq(reply, 1, 4) \o SubSeq(reply, 9, 13)
    <3>1. reply \in Seq(Byte) /\ Len(reply) = 32
      BY <1>1, <2>1 DEF m
    <3> QED BY <2>1, <3>1, SerialIs
  <2>3. Received(command, packet) = Ok([n \in 1..9 |-> packet[SerialBytes[n]]])
    BY <1>7 DEF Received
  <2>4. Expected = Ok(SubSeq(reply, 1, 4) \o SubSeq(reply, 9, 13))
    BY <1>7 DEF Expected
  <2> QED BY <1>4, <2>2, <2>3, <2>4
<1>8. CASE command[1] \in {"random", "read", "hmac", "mac"}
  <2>1. Received(command, packet) = Ok(SubSeq(packet, 2, m + 1))
    BY <1>5, <1>8 DEF Received
  <2>2. Expected = Ok(reply)
    BY <1>8 DEF Expected
  <2> QED BY <1>2, <1>4, <2>1, <2>2
<1> QED BY <1>1, <1>6, <1>7, <1>8

-----------------------------------------------------------------------------
(* The inductive invariant                                                 *)

\* Bytes everywhere, whatever noise does to them, and replies that fit a packet.
ExchangeTypes ==
  /\ TypeOK
  /\ wire \in Seq(Byte)
  /\ reply \in Seq(Byte) /\ Len(reply) <= 32
  /\ phase # "idle" => command \in Command
  /\ phase = "idle" => flipped = {}

\* Without noise the chip finds on the bus what the host has sent, and the host
\* what the chip has, unless the bus stays as it is.
QuietWire ==
  command \notin Noisy =>
    /\ phase = "sending" => wire = Packet(command)
    /\ phase \in {"answering", "received"} =>
         \/ Len(wire) = BUFFSIZE_NI2C
         \/ heard = Meant(command) /\ wire = generate_answer_packet(reply)

PacketsInv == ExchangeTypes /\ QuietWire /\ QuietExchange

LEMMA FlipType ==
  ASSUME NEW byte \in Byte, NEW b \in 0..7
  PROVE  Flip(byte, b) \in Byte
<1>1. byte \in 0..255
  BY DEF Byte
<1>2. b = 0 \/ b = 1 \/ b = 2 \/ b = 3 \/ b = 4 \/ b = 5 \/ b = 6 \/ b = 7
  OBVIOUS
<1>3. CASE b = 0
  BY <1>1, <1>3 DEF Flip, Bit, Byte
<1>4. CASE b = 1
  BY <1>1, <1>4 DEF Flip, Bit, Byte
<1>5. CASE b = 2
  BY <1>1, <1>5 DEF Flip, Bit, Byte
<1>6. CASE b = 3
  BY <1>1, <1>6 DEF Flip, Bit, Byte
<1>7. CASE b = 4
  BY <1>1, <1>7 DEF Flip, Bit, Byte
<1>8. CASE b = 5
  BY <1>1, <1>8 DEF Flip, Bit, Byte
<1>9. CASE b = 6
  BY <1>1, <1>9 DEF Flip, Bit, Byte
<1>10. CASE b = 7
  BY <1>1, <1>10 DEF Flip, Bit, Byte
<1> QED BY <1>2, <1>3, <1>4, <1>5, <1>6, <1>7, <1>8, <1>9, <1>10, Zenon

LEMMA CheckedType ==
  ASSUME NEW packet
  PROVE  Checked(packet)[1] \in {"ok", "error"}
<1>1. Received(command, packet)[1] \in {"ok", "error"}
  BY DEF Received, Ok, Error
<1> QED BY <1>1 DEF Checked, Error

\* ni2c_read hands on the packet, if its first byte is its length.
LEMMA BufferIs ==
  ASSUME wire \in Seq(Byte), Len(wire) \in 1..BUFFSIZE_NI2C, wire[1] = Len(wire)
  PROVE  Buffer[1] = Len(wire) /\ SubSeq(Buffer, 1, Buffer[1]) = wire
<1> DEFINE n == Len(wire)
           sub == SubSeq(Buffer, 1, n)
<1>1. n \in 1..84
  BY DEF BUFFSIZE_NI2C
<1>2. \A i \in 1..n : Buffer[i] = wire[i] /\ wire[i] \in Byte
  <2>1. \A i \in 1..n : i \in 1..84 /\ i <= n
    <3> HIDE DEF n
    <3> QED BY <1>1
  <2>2. \A i \in 1..84 : i <= n => Buffer[i] = wire[i]
    BY DEF Buffer, BUFFSIZE_NI2C
  <2>3. \A i \in 1..n : wire[i] \in Byte
    BY ElementOfSeq
  <2> HIDE DEF n
  <2> QED BY <2>1, <2>2, <2>3
<1>3. Buffer[1] = n
  BY <1>1, <1>2
<1> HIDE DEF n
<1>4. /\ sub \in Seq(Byte) /\ Len(sub) = IF 1 <= n THEN n - 1 + 1 ELSE 0
      /\ \A i \in 1..n - 1 + 1 : sub[i] = Buffer[1 + i - 1]
  <2>1. \A i \in 1..n : Buffer[i] \in Byte
    BY <1>2
  <2>2. 1 \in Int /\ n \in Int
    BY <1>1
  <2> QED BY <2>1, <2>2, SubSeqProperties
<1> HIDE DEF sub
<1>5. Len(sub) = n /\ \A i \in 1..n : sub[i] = wire[i]
  <2>1. n - 1 + 1 = n /\ \A i \in 1..n : 1 + i - 1 = i
    BY <1>1
  <2> QED BY <1>1, <1>2, <1>4, <2>1
<1>6. sub = wire
  BY <1>4, <1>5, SeqEqual DEF n
<1> QED BY <1>3, <1>6 DEF n, sub

LEMMA PacketsStart == Init => PacketsInv
<1> SUFFICES ASSUME Init PROVE PacketsInv
  OBVIOUS
<1>1. <<>> \in Seq(Byte) /\ Len(<<>>) = 0 /\ DOMAIN <<>> = {}
  OBVIOUS
<1> QED BY <1>1 DEF Init, PacketsInv, ExchangeTypes, TypeOK, QuietWire, QuietExchange,
           Error, BUFFSIZE_NI2C

LEMMA InBytes ==
  ASSUME NEW bytes \in Seq(Byte)
  PROVE  \A n \in DOMAIN bytes : bytes[n] \in 0..255
<1>1. \A n \in DOMAIN bytes : bytes[n] \in Byte
  OBVIOUS
<1> QED BY <1>1 DEF Byte

LEMMA PacketsStep ==
  ASSUME PacketsInv, [Next]_vars
  PROVE  PacketsInv'
<1> USE DEF BUFFSIZE_NI2C
<1>1. /\ phase \in {"idle", "sending", "answering", "received"}
      /\ command \in Command \cup {<<>>}
      /\ wire \in Seq(Byte) /\ Len(wire) <= 84
      /\ flipped \subseteq 0..8 * Len(wire) - 1
      /\ reply \in Seq(Byte) /\ Len(reply) <= 32
      /\ result[1] \in {"ok", "error", "garbage"}
      /\ phase # "idle" => command \in Command
      /\ phase = "idle" => flipped = {}
  BY DEF PacketsInv, ExchangeTypes, TypeOK
<1>2. QuietWire /\ QuietExchange
  BY DEF PacketsInv
<1>3. ASSUME NEW c \in Command, Send(c) PROVE PacketsInv'
  <2>1. c \in WellFormed
    BY PacketsAssumption
  <2>2. Packet(c) \in Seq(Byte) /\ Len(Packet(c)) <= 39 /\ Len(Packet(c)) \in Nat
    BY <2>1, WellFormedArrives, LenProperties DEF Arrives
  <2>3. /\ phase = "idle" /\ phase' = "sending" /\ command' = c /\ wire' = Packet(c)
        /\ flipped' = flipped /\ reply' = reply /\ result' = result
    BY <1>3 DEF Send
  <2>4. \A n \in DOMAIN wire' : wire'[n] \in 0..255
    BY <2>2, <2>3, InBytes
  <2>5. ExchangeTypes'
    BY <1>1, <2>2, <2>3, <2>4 DEF ExchangeTypes, TypeOK
  <2>6. QuietWire' /\ QuietExchange'
    BY <2>3 DEF QuietWire, QuietExchange
  <2> QED BY <2>5, <2>6 DEF PacketsInv
<1>4. ASSUME Noise PROVE PacketsInv'
  <2>1. PICK k \in 0..8 * Len(wire) - 1 :
          /\ flipped' = flipped \cup {k}
          /\ wire' = [wire EXCEPT ![k \div 8 + 1] = Flip(@, k % 8)]
    BY <1>4 DEF Noise
  <2>2. /\ phase' = phase /\ command' = command /\ reply' = reply /\ result' = result
        /\ phase \in {"sending", "answering"} /\ command \in Noisy
    BY <1>4 DEF Noise
  <2>3. wire' \in Seq(Byte) /\ Len(wire') = Len(wire)
    <3> DEFINE n == k \div 8 + 1
               b == k % 8
    <3>1. Len(wire) \in Nat
      BY <1>1, LenProperties
    <3>2. n \in 1..Len(wire) /\ b \in 0..7
      BY <3>1
    <3>3. Flip(wire[n], b) \in Byte
      BY <1>1, <3>2, FlipType, ElementOfSeq
    <3>4. wire' = [wire EXCEPT ![n] = Flip(wire[n], b)]
      BY <2>1
    <3> HIDE DEF n, b
    <3> QED BY <1>1, <3>2, <3>3, <3>4
  <2>4. \A n \in DOMAIN wire' : wire'[n] \in 0..255
    BY <2>3, InBytes
  <2>5. ExchangeTypes'
    BY <1>1, <2>1, <2>2, <2>3, <2>4 DEF ExchangeTypes, TypeOK
  <2>6. QuietWire' /\ QuietExchange'
    BY <2>2 DEF QuietWire, QuietExchange
  <2> QED BY <2>5, <2>6 DEF PacketsInv
<1>5. ASSUME ChipAnswers PROVE PacketsInv'
  <2>1. /\ phase = "sending" /\ phase' = "answering" /\ heard' = Decode(wire)
        /\ reply' \in IF heard' = Unheard THEN {<<255>>}
                      ELSE {Contents(heard'), <<3>>, <<15>>, <<17>>}
        /\ wire' = generate_answer_packet(reply')
        /\ flipped' = {} /\ command' = command /\ result' = result
    BY <1>5 DEF ChipAnswers
  <2>2. reply' \in Seq(Byte) /\ Len(reply') <= 32
    <3>1. 3 \in Byte /\ 15 \in Byte /\ 17 \in Byte /\ 255 \in Byte
      BY DEF Byte
    <3>2. CASE reply' \in {<<3>>, <<15>>, <<17>>, <<255>>}
      <4>1. \A b \in Byte : <<b>> \in Seq(Byte) /\ Len(<<b>>) <= 32
        OBVIOUS
      <4> QED BY <3>1, <3>2, <4>1
    <3>3. CASE heard' # Unheard /\ reply' = Contents(heard')
      <4>1. Hearable(Decode(wire))
        BY <1>1, <2>1, <3>3, DecodeHears
      <4>2. Contents(Decode(wire)) \in Seq(Byte) /\ Len(Contents(Decode(wire))) \in 1..32
        BY <4>1, ContentsAre
      <4>3. Len(Contents(Decode(wire))) <= 32
        <5>1. \A n \in 1..32 : n <= 32
          OBVIOUS
        <5> QED BY <4>2, <5>1, Zenon
      <4> QED BY <2>1, <3>3, <4>2, <4>3
    <3> QED BY <2>1, <3>2, <3>3
  <2>3. wire' \in Seq(Byte) /\ Len(wire') <= 35 /\ Len(wire') \in Nat
    <3>1. wire' \in Seq(Byte) /\ Len(wire') = 3 + Len(reply')
      BY <2>1, <2>2, AnswerPacketIs
    <3>2. Len(reply') \in Nat
      BY <2>2, LenProperties
    <3> QED BY <2>2, <3>1, <3>2
  <2>4. \A n \in DOMAIN wire' : wire'[n] \in 0..255
    BY <2>3, InBytes
  <2>5. ExchangeTypes'
    BY <1>1, <2>1, <2>2, <2>3, <2>4 DEF ExchangeTypes, TypeOK
  <2>6. command \notin Noisy => heard' = Meant(command)
    <3> SUFFICES ASSUME command \notin Noisy PROVE heard' = Meant(command)
      OBVIOUS
    <3>1. wire = Packet(command) /\ command \in WellFormed
      BY <1>1, <1>2, <2>1, PacketsAssumption DEF QuietWire
    <3>2. Decode(Packet(command)) = Meant(command)
      BY <3>1, WellFormedArrives DEF Arrives
    <3> QED BY <2>1, <3>1, <3>2
  <2>7. QuietWire' /\ QuietExchange'
    BY <2>1, <2>6 DEF QuietWire, QuietExchange
  <2> QED BY <2>5, <2>7 DEF PacketsInv
<1>6. ASSUME Silence PROVE PacketsInv'
  <2>1. PICK level \in {0, 255} : wire' = [n \in 1..BUFFSIZE_NI2C |-> level]
    BY <1>6 DEF Silence
  <2>2. /\ phase = "sending" /\ phase' = "answering" /\ flipped' = {}
        /\ command' = command /\ reply' = reply /\ result' = result
    BY <1>6 DEF Silence
  <2>3. wire' \in Seq(Byte) /\ Len(wire') = 84
    <3>1. level \in Byte
      BY DEF Byte
    <3> QED BY <2>1, <3>1
  <2>4. \A n \in DOMAIN wire' : wire'[n] \in 0..255
    <3>1. \A n \in 1..BUFFSIZE_NI2C : wire'[n] \in 0..255
      BY <2>1
    <3>2. DOMAIN wire' = 1..BUFFSIZE_NI2C
      BY <2>1
    <3> QED BY <3>1, <3>2
  <2>5. ExchangeTypes'
    BY <1>1, <2>2, <2>3, <2>4 DEF ExchangeTypes, TypeOK
  <2>6. QuietWire' /\ QuietExchange'
    BY <2>2, <2>3 DEF QuietWire, QuietExchange
  <2> QED BY <2>5, <2>6 DEF PacketsInv
<1>7. ASSUME HostReads PROVE PacketsInv'
  <2>1. /\ phase = "answering" /\ phase' = "received" /\ command' = command
        /\ wire' = wire /\ flipped' = flipped /\ heard' = heard /\ reply' = reply
        /\ \/ LengthOutOfBounds /\ result' \in {Error("crc"), <<"garbage">>}
           \/ ~LengthOutOfBounds /\ result' = Checked(SubSeq(Buffer, 1, Buffer[1]))
    BY <1>7 DEF HostReads
  <2>2. result'[1] \in {"ok", "error", "garbage"}
    <3>1. CASE result' \in {Error("crc"), <<"garbage">>}
      BY <3>1 DEF Error
    <3>2. CASE result' = Checked(SubSeq(Buffer, 1, Buffer[1]))
      <4>1. Checked(SubSeq(Buffer, 1, Buffer[1]))[1] \in {"ok", "error"}
        BY CheckedType
      <4> QED BY <3>2, <4>1
    <3> QED BY <2>1, <3>1, <3>2
  <2>3. \A n \in DOMAIN wire' : wire'[n] \in 0..255
    BY <1>1, <2>1, InBytes
  <2>4. ExchangeTypes'
    BY <1>1, <2>1, <2>2, <2>3 DEF ExchangeTypes, TypeOK
  <2>5. QuietWire'
    BY <1>2, <2>1 DEF QuietWire
  <2>6. QuietExchange'
    <3> SUFFICES ASSUME Len(wire) # BUFFSIZE_NI2C, command \notin Noisy
                 PROVE  /\ heard = Meant(command)
                        /\ reply = Contents(heard) /\ command # <<"devrev">> =>
                             result' = Expected'
      BY <2>1 DEF QuietExchange
    <3>1. heard = Meant(command) /\ wire = generate_answer_packet(reply)
      BY <1>2, <2>1 DEF QuietWire
    <3>2. ASSUME reply = Contents(heard), command # <<"devrev">> PROVE result' = Expected'
      <4>1. command \in WellFormed /\ reply = Contents(Meant(command))
        BY <1>1, <2>1, <3>1, <3>2, PacketsAssumption
      <4>8. command[1] # "devrev"
        BY <3>2, <4>1 DEF WellFormed
      <4>2. Checked(wire) = Expected
        BY <3>1, <4>1, <4>8, ReceivedIs
      <4>3. Len(wire) \in 3..35 /\ wire[1] = Len(wire)
        <5>1. Len(wire) = 3 + Len(reply) /\ wire[1] = 3 + Len(reply)
          BY <1>1, <3>1, AnswerPacketIs
        <5>2. Len(reply) \in Nat
          BY <1>1, LenProperties
        <5> DEFINE m == Len(reply)
                   n == Len(wire)
        <5>3. m <= 32 /\ m \in Nat /\ n = 3 + m /\ wire[1] = 3 + m
          BY <1>1, <5>1, <5>2
        <5> HIDE DEF m, n
        <5>4. n \in 3..35 /\ wire[1] = n
          BY <5>3
        <5> QED BY <5>4 DEF n
      <4>4. Buffer[1] = Len(wire) /\ SubSeq(Buffer, 1, Buffer[1]) = wire
        <5>1. Len(wire) \in 1..BUFFSIZE_NI2C
          BY <4>3
        <5> QED BY <1>1, <4>3, <5>1, BufferIs
      <4>5. ~LengthOutOfBounds
        <5> DEFINE n == Len(wire)
        <5>1. Buffer[1] = n /\ n \in 3..35
          BY <4>3, <4>4
        <5> HIDE DEF n
        <5> QED BY <5>1 DEF LengthOutOfBounds
      <4>6. result' = Checked(wire)
        BY <2>1, <4>4, <4>5
      <4>7. Expected' = Expected
        BY <2>1 DEF Expected
      <4> QED BY <4>2, <4>6, <4>7
    <3> QED BY <3>1, <3>2
  <2> QED BY <2>4, <2>5, <2>6 DEF PacketsInv
<1>8. ASSUME Return PROVE PacketsInv'
  <2>1. /\ phase' = "idle" /\ command' = <<>> /\ wire' = <<>> /\ flipped' = {}
        /\ reply' = <<>> /\ result' = Error("none")
    BY <1>8 DEF Return
  <2>2. <<>> \in Seq(Byte) /\ Len(<<>>) = 0 /\ DOMAIN <<>> = {}
    OBVIOUS
  <2>3. ExchangeTypes'
    BY <2>1, <2>2 DEF ExchangeTypes, TypeOK, Error
  <2>4. QuietWire' /\ QuietExchange'
    BY <2>1 DEF QuietWire, QuietExchange
  <2> QED BY <2>3, <2>4 DEF PacketsInv
<1>9. CASE UNCHANGED vars
  <2>1. UNCHANGED <<phase, command, wire, flipped, heard, reply, result>>
    BY <1>9 DEF vars
  <2>2. ExchangeTypes'
    BY <2>1 DEF PacketsInv, ExchangeTypes, TypeOK
  <2>3. QuietWire' /\ QuietExchange'
    BY <1>2, <2>1 DEF QuietWire, QuietExchange, Expected
  <2> QED BY <2>2, <2>3 DEF PacketsInv
<1> QED BY <1>3, <1>4, <1>5, <1>6, <1>7, <1>8, <1>9 DEF Next

\* Whatever the commands, the noise and the answers, packets stay bytes of the
\* buffer and every exchange ends with one of the results of the library.
THEOREM PacketTypes == Spec => []TypeOK
<1>1. Init => PacketsInv
  BY PacketsStart
<1>2. PacketsInv /\ [Next]_vars => PacketsInv'
  BY PacketsStep
<1>3. PacketsInv => TypeOK
  BY DEF PacketsInv, ExchangeTypes
<1> QED BY <1>1, <1>2, <1>3, PTL DEF Spec

\* For every command of the library with every address and data: the chip is
\* asked for what is meant, and the caller gets what the chip has answered, but
\* for the device revision.
THEOREM QuietExchangeRight == Spec => []QuietExchange
<1>1. Init => PacketsInv
  BY PacketsStart
<1>2. PacketsInv /\ [Next]_vars => PacketsInv'
  BY PacketsStep
<1>3. PacketsInv => QuietExchange
  BY DEF PacketsInv
<1> QED BY <1>1, <1>2, <1>3, PTL DEF Spec

-----------------------------------------------------------------------------
(* One flipped bit.  The polynomial has an even number of terms: a bit of  *)
(* the data that is 1 changes the parity of the register, whatever it is.  *)

One(formula) == IF formula THEN 1 ELSE 0

\* The number of bits that are 1 in the register, and in a byte.
Count(register) ==
  One(0 \in register) + One(1 \in register) + One(2 \in register) + One(3 \in register)
  + One(4 \in register) + One(5 \in register) + One(6 \in register) + One(7 \in register)
  + One(8 \in register) + One(9 \in register) + One(10 \in register) + One(11 \in register)
  + One(12 \in register) + One(13 \in register) + One(14 \in register) + One(15 \in register)
Ones(byte) ==
  One(Bit(byte, 0)) + One(Bit(byte, 1)) + One(Bit(byte, 2)) + One(Bit(byte, 3))
  + One(Bit(byte, 4)) + One(Bit(byte, 5)) + One(Bit(byte, 6)) + One(Bit(byte, 7))

LEMMA CrcStepCount ==
  ASSUME NEW register \in SUBSET (0..15), NEW byte, NEW b
  PROVE  (Count(CrcStep(register, byte, b)) - Count(register) - One(Bit(byte, b))) % 2 = 0
<1> DEFINE after == CrcStep(register, byte, b)
           t == ~(Bit(byte, b) <=> 15 \in register)
<1>1. \A y \in Int : y \in after <=>
        IF t THEN ~((y <= 15 /\ y - 1 \in register) <=> y \in {0, 2, 15})
        ELSE y <= 15 /\ y - 1 \in register
  BY InCrcStep
<1> HIDE DEF after
<1>2. /\ 0 \in after <=> t
      /\ 1 \in after <=> 0 \in register
      /\ 2 \in after <=> IF t THEN 1 \notin register ELSE 1 \in register
      /\ 3 \in after <=> 2 \in register
      /\ 4 \in after <=> 3 \in register
      /\ 5 \in after <=> 4 \in register
      /\ 6 \in after <=> 5 \in register
      /\ 7 \in after <=> 6 \in register
      /\ 8 \in after <=> 7 \in register
      /\ 9 \in after <=> 8 \in register
      /\ 10 \in after <=> 9 \in register
      /\ 11 \in after <=> 10 \in register
      /\ 12 \in after <=> 11 \in register
      /\ 13 \in after <=> 12 \in register
      /\ 14 \in after <=> 13 \in register
      /\ 15 \in after <=> IF t THEN 14 \notin register ELSE 14 \in register
  BY <1>1
<1> DEFINE rest == One(0 \in register) + One(2 \in register) + One(3 \in register)
                   + One(4 \in register) + One(5 \in register) + One(6 \in register)
                   + One(7 \in register) + One(8 \in register) + One(9 \in register)
                   + One(10 \in register) + One(11 \in register) + One(12 \in register)
                   + One(13 \in register)
<1>3. rest \in Nat
  BY DEF One
<1>4. Count(register) = rest + One(1 \in register) + One(14 \in register) + One(15 \in register)
  BY DEF Count, One
<1>5. Count(after) = rest + One(0 \in after) + One(2 \in after) + One(15 \in after)
  BY <1>2 DEF Count, One
<1> HIDE DEF rest
<1>6. CASE t
  BY <1>2, <1>3, <1>4, <1>5, <1>6 DEF One, after
<1>7. CASE ~t
  BY <1>2, <1>3, <1>4, <1>5, <1>7 DEF One, after
<1> QED BY <1>6, <1>7

LEMMA CountType ==
  ASSUME NEW register
  PROVE  Count(register) \in Nat
BY DEF Count, One

LEMMA CrcOfByteCount ==
  ASSUME NEW register \in SUBSET (0..15), NEW byte \in Byte
  PROVE  (Count(CrcOfByte[<<register, byte>>]) - Count(register) - Ones(byte)) % 2 = 0
<1> DEFINE after == BitRegisters(register, byte)
           n(b) == Count(after[b])
           d(b) == One(Bit(byte, b))
<1>1. /\ \A b \in 0..8 : after[b] \in SUBSET (0..15)
      /\ after[0] = register
      /\ \A b \in 1..8 : after[b] = CrcStep(after[b - 1], byte, b - 1)
  BY BitRegistersAre
<1> HIDE DEF after
<1>2. ASSUME NEW b \in 0..7 PROVE (n(b + 1) - n(b) - d(b)) % 2 = 0
  <2>1. after[b] \in SUBSET (0..15)
    BY <1>1
  <2>2. after[b + 1] = CrcStep(after[b], byte, b)
    <3>1. b + 1 \in 1..8 /\ (b + 1) - 1 = b
      OBVIOUS
    <3> QED BY <1>1, <3>1
  <2> QED BY <2>1, <2>2, CrcStepCount
<1>3. \A b \in 0..8 : n(b) \in Nat
  BY CountType
<1>4. \A b \in 0..7 : d(b) \in Nat
  BY DEF One
<1>5. Ones(byte) = d(0) + d(1) + d(2) + d(3) + d(4) + d(5) + d(6) + d(7)
  BY DEF Ones
<1> HIDE DEF n, d
<1>6. /\ (n(1) - n(0) - d(0)) % 2 = 0
      /\ (n(2) - n(1) - d(1)) % 2 = 0
      /\ (n(3) - n(2) - d(2)) % 2 = 0
      /\ (n(4) - n(3) - d(3)) % 2 = 0
      /\ (n(5) - n(4) - d(4)) % 2 = 0
      /\ (n(6) - n(5) - d(5)) % 2 = 0
      /\ (n(7) - n(6) - d(6)) % 2 = 0
      /\ (n(8) - n(7) - d(7)) % 2 = 0
  BY <1>2
<1>7. (n(8) - n(0) - Ones(byte)) % 2 = 0
  <2>1. \A x, y, z, k, l \in Int :
          (y - x - k) % 2 = 0 /\ (z - y - l) % 2 = 0 => (z - x - (k + l)) % 2 = 0
    OBVIOUS
  <2> DEFINE low == d(0) + d(1) + (d(2) + d(3))
             high == d(4) + d(5) + (d(6) + d(7))
  <2>2. (n(2) - n(0) - (d(0) + d(1))) % 2 = 0 /\ (n(4) - n(2) - (d(2) + d(3))) % 2 = 0
    BY <1>3, <1>4, <1>6, <2>1
  <2>3. (n(6) - n(4) - (d(4) + d(5))) % 2 = 0 /\ (n(8) - n(6) - (d(6) + d(7))) % 2 = 0
    BY <1>3, <1>4, <1>6, <2>1
  <2>4. low \in Int /\ (n(4) - n(0) - low) % 2 = 0
    BY <1>3, <1>4, <2>1, <2>2
  <2>5. high \in Int /\ (n(8) - n(4) - high) % 2 = 0
    BY <1>3, <1>4, <2>1, <2>3
  <2>6. low + high = Ones(byte)
    BY <1>4, <1>5
  <2> HIDE DEF low, high
  <2>7. (n(8) - n(0) - (low + high)) % 2 = 0
    BY <1>3, <2>1, <2>4, <2>5
  <2> QED BY <2>6, <2>7
<1>8. CrcOfByte[<<register, byte>>] = after[8]
  BY CrcOfByteIs DEF after
<1> QED BY <1>1, <1>7, <1>8 DEF n

\* The byte of these bits.
Byte8(v0, v1, v2, v3, v4, v5, v6, v7) ==
  v0 + 2 * v1 + 4 * v2 + 8 * v3 + 16 * v4 + 32 * v5 + 64 * v6 + 128 * v7

LEMMA BitsOfByte8 ==
  ASSUME NEW v0 \in {0, 1}, NEW v1 \in {0, 1}, NEW v2 \in {0, 1}, NEW v3 \in {0, 1},
         NEW v4 \in {0, 1}, NEW v5 \in {0, 1}, NEW v6 \in {0, 1}, NEW v7 \in {0, 1}
  PROVE  LET byte == Byte8(v0, v1, v2, v3, v4, v5, v6, v7) IN
         /\ One(Bit(byte, 0)) = v0
         /\ One(Bit(byte, 1)) = v1
         /\ One(Bit(byte, 2)) = v2
         /\ One(Bit(byte, 3)) = v3
         /\ One(Bit(byte, 4)) = v4
         /\ One(Bit(byte, 5)) = v5
         /\ One(Bit(byte, 6)) = v6
         /\ One(Bit(byte, 7)) = v7
         /\ Ones(byte) = v0 + v1 + v2 + v3 + v4 + v5 + v6 + v7
<1> DEFINE byte == Byte8(v0, v1, v2, v3, v4, v5, v6, v7)
<1>1. /\ Bit(byte, 0) <=> v0 = 1
      /\ Bit(byte, 1) <=> v1 = 1
      /\ Bit(byte, 2) <=> v2 = 1
      /\ Bit(byte, 3) <=> v3 = 1
      /\ Bit(byte, 4) <=> v4 = 1
      /\ Bit(byte, 5) <=> v5 = 1
      /\ Bit(byte, 6) <=> v6 = 1
      /\ Bit(byte, 7) <=> v7 = 1
  BY DEF Byte8, Bit
<1> HIDE DEF byte
<1>2. /\ One(Bit(byte, 0)) = v0
      /\ One(Bit(byte, 1)) = v1
      /\ One(Bit(byte, 2)) = v2
      /\ One(Bit(byte, 3)) = v3
      /\ One(Bit(byte, 4)) = v4
      /\ One(Bit(byte, 5)) = v5
      /\ One(Bit(byte, 6)) = v6
      /\ One(Bit(byte, 7)) = v7
  BY <1>1 DEF One
<1> QED BY <1>2 DEF Ones, byte

LEMMA Byte8OfBits ==
  ASSUME NEW byte \in 0..255
  PROVE  \E v0, v1, v2, v3, v4, v5, v6, v7 \in {0, 1} :
           byte = Byte8(v0, v1, v2, v3, v4, v5, v6, v7)
<1>1. \A n \in Nat : n % 2 \in {0, 1} /\ n \div 2 \in Nat /\ n = (n % 2) + 2 * (n \div 2)
  OBVIOUS
<1> DEFINE n1 == byte \div 2
           n2 == n1 \div 2
           n3 == n2 \div 2
           n4 == n3 \div 2
           n5 == n4 \div 2
           n6 == n5 \div 2
           n7 == n6 \div 2
<1>2. byte % 2 \in {0, 1} /\ n1 \in Nat /\ byte = (byte % 2) + 2 * n1
  BY <1>1
<1> HIDE DEF n1
<1>3. n1 % 2 \in {0, 1} /\ n2 \in Nat /\ n1 = (n1 % 2) + 2 * n2
  BY <1>1, <1>2
<1> HIDE DEF n2
<1>4. n2 % 2 \in {0, 1} /\ n3 \in Nat /\ n2 = (n2 % 2) + 2 * n3
  BY <1>1, <1>3
<1> HIDE DEF n3
<1>5. n3 % 2 \in {0, 1} /\ n4 \in Nat /\ n3 = (n3 % 2) + 2 * n4
  BY <1>1, <1>4
<1> HIDE DEF n4
<1>6. n4 % 2 \in {0, 1} /\ n5 \in Nat /\ n4 = (n4 % 2) + 2 * n5
  BY <1>1, <1>5
<1> HIDE DEF n5
<1>7. n5 % 2 \in {0, 1} /\ n6 \in Nat /\ n5 = (n5 % 2) + 2 * n6
  BY <1>1, <1>6
<1> HIDE DEF n6
<1>8. n6 % 2 \in {0, 1} /\ n7 \in Nat /\ n6 = (n6 % 2) + 2 * n7
  BY <1>1, <1>7
<1> HIDE DEF n7
<1> DEFINE v0 == byte % 2
           v1 == n1 % 2
           v2 == n2 % 2
           v3 == n3 % 2
           v4 == n4 % 2
           v5 == n5 % 2
           v6 == n6 % 2
<1> HIDE DEF v0, v1, v2, v3, v4, v5, v6
<1>9. byte = v0 + 2 * v1 + 4 * v2 + 8 * v3 + 16 * v4 + 32 * v5 + 64 * v6 + 128 * n7
  BY <1>2, <1>3, <1>4, <1>5, <1>6, <1>7, <1>8 DEF v0, v1, v2, v3, v4, v5, v6
<1>10. v0 \in {0, 1} /\ v1 \in {0, 1} /\ v2 \in {0, 1} /\ v3 \in {0, 1}
       /\ v4 \in {0, 1} /\ v5 \in {0, 1} /\ v6 \in {0, 1} /\ n7 \in {0, 1}
  <2>1. n7 \in {0, 1}
    <3>1. v0 >= 0 /\ v1 >= 0 /\ v2 >= 0 /\ v3 >= 0 /\ v4 >= 0 /\ v5 >= 0 /\ v6 >= 0
          /\ v0 \in Int /\ v1 \in Int /\ v2 \in Int /\ v3 \in Int /\ v4 \in Int
          /\ v5 \in Int /\ v6 \in Int
      BY <1>2, <1>3, <1>4, <1>5, <1>6, <1>7, <1>8 DEF v0, v1, v2, v3, v4, v5, v6
    <3> QED BY <1>8, <1>9, <3>1
  <2> QED BY <1>2, <1>3, <1>4, <1>5, <1>6, <1>7, <1>8, <2>1 DEF v0, v1, v2, v3, v4, v5, v6
<1>11. byte = Byte8(v0, v1, v2, v3, v4, v5, v6, n7)
  BY <1>9 DEF Byte8
<1> QED BY <1>10, <1>11

\* A flipped bit is another one, changes the parity of its byte and no other bit.
LEMMA FlipChanges ==
  ASSUME NEW byte \in Byte, NEW b \in 0..7
  PROVE  /\ ~(Bit(Flip(byte, b), b) <=> Bit(byte, b))
         /\ Ones(Flip(byte, b)) \in {Ones(byte) - 1, Ones(byte) + 1}
         /\ \A c \in 0..7 : c # b => (Bit(Flip(byte, b), c) <=> Bit(byte, c))
<1> PICK v0 \in {0, 1}, v1 \in {0, 1}, v2 \in {0, 1}, v3 \in {0, 1},
         v4 \in {0, 1}, v5 \in {0, 1}, v6 \in {0, 1}, v7 \in {0, 1} :
           byte = Byte8(v0, v1, v2, v3, v4, v5, v6, v7)
  BY Byte8OfBits DEF Byte
<1>1. /\ One(Bit(byte, 0)) = v0
      /\ One(Bit(byte, 1)) = v1
      /\ One(Bit(byte, 2)) = v2
      /\ One(Bit(byte, 3)) = v3
      /\ One(Bit(byte, 4)) = v4
      /\ One(Bit(byte, 5)) = v5
      /\ One(Bit(byte, 6)) = v6
      /\ One(Bit(byte, 7)) = v7
      /\ Ones(byte) = v0 + v1 + v2 + v3 + v4 + v5 + v6 + v7
  BY BitsOfByte8
<1>2. b = 0 \/ b = 1 \/ b = 2 \/ b = 3 \/ b = 4 \/ b = 5 \/ b = 6 \/ b = 7
  OBVIOUS
<1>3. CASE b = 0
  <2> DEFINE w0 == 1 - v0
             other == Byte8(w0, v1, v2, v3, v4, v5, v6, v7)
  <2>1. w0 \in {0, 1}
    OBVIOUS
  <2>2. Flip(byte, b) = other
    BY <1>1, <1>3 DEF Flip, Byte8, One
  <2> HIDE DEF w0
  <2>3. One(Bit(other, 0)) = w0 /\ Ones(other) = w0 + v1 + v2 + v3 + v4 + v5 + v6 + v7
    BY <2>1, BitsOfByte8
  <2>4. \A c \in 0..7 : c # 0 => One(Bit(other, c)) = One(Bit(byte, c))
    <3>1. \A c \in 0..7 : c \in {0, 1, 2, 3, 4, 5, 6, 7}
      OBVIOUS
    <3> HIDE DEF other
    <3> QED BY <1>1, <2>1, <3>1, BitsOfByte8 DEF other
  <2>5. \A c \in 0..7 : c # b => (Bit(Flip(byte, b), c) <=> Bit(byte, c))
    <3> HIDE DEF other
    <3> QED BY <1>3, <2>2, <2>4 DEF One
  <2>6. /\ ~(Bit(Flip(byte, b), b) <=> Bit(byte, b))
        /\ Ones(Flip(byte, b)) \in {Ones(byte) - 1, Ones(byte) + 1}
    BY <1>1, <1>3, <2>2, <2>3 DEF One, w0
  <2> QED BY <2>5, <2>6
<1>4. CASE b = 1
  <2> DEFINE w1 == 1 - v1
             other == Byte8(v0, w1, v2, v3, v4, v5, v6, v7)
  <2>1. w1 \in {0, 1}
    OBVIOUS
  <2>2. Flip(byte, b) = other
    BY <1>1, <1>4 DEF Flip, Byte8, One
  <2> HIDE DEF w1
  <2>3. One(Bit(other, 1)) = w1 /\ Ones(other) = v0 + w1 + v2 + v3 + v4 + v5 + v6 + v7
    BY <2>1, BitsOfByte8
  <2>4. \A c \in 0..7 : c # 1 => One(Bit(other, c)) = One(Bit(byte, c))
    <3>1. \A c \in 0..7 : c \in {0, 1, 2, 3, 4, 5, 6, 7}
      OBVIOUS
    <3> HIDE DEF other
    <3> QED BY <1>1, <2>1, <3>1, BitsOfByte8 DEF other
  <2>5. \A c \in 0..7 : c # b => (Bit(Flip(byte, b), c) <=> Bit(byte, c))
    <3> HIDE DEF other
    <3> QED BY <1>4, <2>2, <2>4 DEF One
  <2>6. /\ ~(Bit(Flip(byte, b), b) <=> Bit(byte, b))
        /\ Ones(Flip(byte, b)) \in {Ones(byte) - 1, Ones(byte) + 1}
    BY <1>1, <1>4, <2>2, <2>3 DEF One, w1
  <2> QED BY <2>5, <2>6
<1>5. CASE b = 2
  <2> DEFINE w2 == 1 - v2
             other == Byte8(v0, v1, w2, v3, v4, v5, v6, v7)
  <2>1. w2 \in {0, 1}
    OBVIOUS
  <2>2. Flip(byte, b) = other
    BY <1>1, <1>5 DEF Flip, Byte8, One
  <2> HIDE DEF w2
  <2>3. One(Bit(other, 2)) = w2 /\ Ones(other) = v0 + v1 + w2 + v3 + v4 + v5 + v6 + v7
    BY <2>1, BitsOfByte8
  <2>4. \A c \in 0..7 : c # 2 => One(Bit(other, c)) = One(Bit(byte, c))
    <3>1. \A c \in 0..7 : c \in {0, 1, 2, 3, 4, 5, 6, 7}
      OBVIOUS
    <3> HIDE DEF other
    <3> QED BY <1>1, <2>1, <3>1, BitsOfByte8 DEF other
  <2>5. \A c \in 0..7 : c # b => (Bit(Flip(byte, b), c) <=> Bit(byte, c))
    <3> HIDE DEF other
    <3> QED BY <1>5, <2>2, <2>4 DEF One
  <2>6. /\ ~(Bit(Flip(byte, b), b) <=> Bit(byte, b))
        /\ Ones(Flip(byte, b)) \in {Ones(byte) - 1, Ones(byte) + 1}
    BY <1>1, <1>5, <2>2, <2>3 DEF One, w2
  <2> QED BY <2>5, <2>6
<1>6. CASE b = 3
  <2> DEFINE w3 == 1 - v3
             other == Byte8(v0, v1, v2, w3, v4, v5, v6, v7)
  <2>1. w3 \in {0, 1}
    OBVIOUS
  <2>2. Flip(byte, b) = other
    BY <1>1, <1>6 DEF Flip, Byte8, One
  <2> HIDE DEF w3
  <2>3. One(Bit(other, 3)) = w3 /\ Ones(other) = v0 + v1 + v2 + w3 + v4 + v5 + v6 + v7
    BY <2>1, BitsOfByte8
  <2>4. \A c \in 0..7 : c # 3 => One(Bit(other, c)) = One(Bit(byte, c))
    <3>1. \A c \in 0..7 : c \in {0, 1, 2, 3, 4, 5, 6, 7}
      OBVIOUS
    <3> HIDE DEF other
    <3> QED BY <1>1, <2>1, <3>1, BitsOfByte8 DEF other
  <2>5. \A c \in 0..7 : c # b => (Bit(Flip(byte, b), c) <=> Bit(byte, c))
    <3> HIDE DEF other
    <3> QED BY <1>6, <2>2, <2>4 DEF One
  <2>6. /\ ~(Bit(Flip(byte, b), b) <=> Bit(byte, b))
        /\ Ones(Flip(byte, b)) \in {Ones(byte) - 1, Ones(byte) + 1}
    BY <1>1, <1>6, <2>2, <2>3 DEF One, w3
  <2> QED BY <2>5, <2>6
<1>7. CASE b = 4
  <2> DEFINE w4 == 1 - v4
             other == Byte8(v0, v1, v2, v3, w4, v5, v6, v7)
  <2>1. w4 \in {0, 1}
    OBVIOUS
  <2>2. Flip(byte, b) = other
    BY <1>1, <1>7 DEF Flip, Byte8, One
  <2> HIDE DEF w4
  <2>3. One(Bit(other, 4)) = w4 /\ Ones(other) = v0 + v1 + v2 + v3 + w4 + v5 + v6 + v7
    BY <2>1, BitsOfByte8
  <2>4. \A c \in 0..7 : c # 4 => One(Bit(other, c)) = One(Bit(byte, c))
    <3>1. \A c \in 0..7 : c \in {0, 1, 2, 3, 4, 5, 6, 7}
      OBVIOUS
    <3> HIDE DEF other
    <3> QED BY <1>1, <2>1, <3>1, BitsOfByte8 DEF other
  <2>5. \A c \in 0..7 : c # b => (Bit(Flip(byte, b), c) <=> Bit(byte, c))
    <3> HIDE DEF other
    <3> QED BY <1>7, <2>2, <2>4 DEF One
  <2>6. /\ ~(Bit(Flip(byte, b), b) <=> Bit(byte, b))
        /\ Ones(Flip(byte, b)) \in {Ones(byte) - 1, Ones(byte) + 1}
    BY <1>1, <1>7, <2>2, <2>3 DEF One, w4
  <2> QED BY <2>5, <2>6
<1>8. CASE b = 5
  <2> DEFINE w5 == 1 - v5
             other == Byte8(v0, v1, v2, v3, v4, w5, v6, v7)
  <2>1. w5 \in {0, 1}
    OBVIOUS
  <2>2. Flip(byte, b) = other
    BY <1>1, <1>8 DEF Flip, Byte8, One
  <2> HIDE DEF w5
  <2>3. One(Bit(other, 5)) = w5 /\ Ones(other) = v0 + v1 + v2 + v3 + v4 + w5 + v6 + v7
    BY <2>1, BitsOfByte8
  <2>4. \A c \in 0..7 : c # 5 => One(Bit(other, c)) = One(Bit(byte, c))
    <3>1. \A c \in 0..7 : c \in {0, 1, 2, 3, 4, 5, 6, 7}
      OBVIOUS
    <3> HIDE DEF other
    <3> QED BY <1>1, <2>1, <3>1, BitsOfByte8 DEF other
  <2>5. \A c \in 0..7 : c # b => (Bit(Flip(byte, b), c) <=> Bit(byte, c))
    <3> HIDE DEF other
    <3> QED BY <1>8, <2>2, <2>4 DEF One
  <2>6. /\ ~(Bit(Flip(byte, b), b) <=> Bit(byte, b))
        /\ Ones(Flip(byte, b)) \in {Ones(byte) - 1, Ones(byte) + 1}
    BY <1>1, <1>8, <2>2, <2>3 DEF One, w5
  <2> QED BY <2>5, <2>6
<1>9. CASE b = 6
  <2> DEFINE w6 == 1 - v6
             other == Byte8(v0, v1, v2, v3, v4, v5, w6, v7)
  <2>1. w6 \in {0, 1}
    OBVIOUS
  <2>2. Flip(byte, b) = other
    BY <1>1, <1>9 DEF Flip, Byte8, One
  <2> HIDE DEF w6
  <2>3. One(Bit(other, 6)) = w6 /\ Ones(other) = v0 + v1 + v2 + v3 + v4 + v5 + w6 + v7
    BY <2>1, BitsOfByte8
  <2>4. \A c \in 0..7 : c # 6 => One(Bit(other, c)) = One(Bit(byte, c))
    <3>1. \A c \in 0..7 : c \in {0, 1, 2, 3, 4, 5, 6, 7}
      OBVIOUS
    <3> HIDE DEF other
    <3> QED BY <1>1, <2>1, <3>1, BitsOfByte8 DEF other
  <2>5. \A c \in 0..7 : c # b => (Bit(Flip(byte, b), c) <=> Bit(byte, c))
    <3> HIDE DEF other
    <3> QED BY <1>9, <2>2, <2>4 DEF One
  <2>6. /\ ~(Bit(Flip(byte, b), b) <=> Bit(byte, b))
        /\ Ones(Flip(byte, b)) \in {Ones(byte) - 1, Ones(byte) + 1}
    BY <1>1, <1>9, <2>2, <2>3 DEF One, w6
  <2> QED BY <2>5, <2>6
<1>10. CASE b = 7
  <2> DEFINE w7 == 1 - v7
             other == Byte8(v0, v1, v2, v3, v4, v5, v6, w7)
  <2>1. w7 \in {0, 1}
    OBVIOUS
  <2>2. Flip(byte, b) = other
    BY <1>1, <1>10 DEF Flip, Byte8, One
  <2> HIDE DEF w7
  <2>3. One(Bit(other, 7)) = w7 /\ Ones(other) = v0 + v1 + v2 + v3 + v4 + v5 + v6 + w7
    BY <2>1, BitsOfByte8
  <2>4. \A c \in 0..7 : c # 7 => One(Bit(other, c)) = One(Bit(byte, c))
    <3>1. \A c \in 0..7 : c \in {0, 1, 2, 3, 4, 5, 6, 7}
      OBVIOUS
    <3> HIDE DEF other
    <3> QED BY <1>1, <2>1, <3>1, BitsOfByte8 DEF other
  <2>5. \A c \in 0..7 : c # b => (Bit(Flip(byte, b), c) <=> Bit(byte, c))
    <3> HIDE DEF other
    <3> QED BY <1>10, <2>2, <2>4 DEF One
  <2>6. /\ ~(Bit(Flip(byte, b), b) <=> Bit(byte, b))
        /\ Ones(Flip(byte, b)) \in {Ones(byte) - 1, Ones(byte) + 1}
    BY <1>1, <1>10, <2>2, <2>3 DEF One, w7
  <2> QED BY <2>5, <2>6
<1> QED BY <1>2, <1>3, <1>4, <1>5, <1>6, <1>7, <1>8, <1>9, <1>10, Zenon

\* A byte with a flipped bit turns the parity of the register at its end.
LEMMA FlipTurnsParity ==
  ASSUME NEW p \in Seq(Byte), NEW q \in Seq(Byte), Len(q) = Len(p),
         NEW i \in 1..Len(p), NEW b \in 0..7, q[i] = Flip(p[i], b),
         \A n \in 1..Len(p) : n # i => q[n] = p[n]
  PROVE  (Count(crc_register(q)) - Count(crc_register(p)) - 1) % 2 = 0
<1> DEFINE L == Len(p)
           x == Registers(p)
           y == Registers(q)
           turned(n) == IF n >= i THEN 1 ELSE 0
           T == {n \in Nat : n <= L => (Count(y[n]) - Count(x[n]) - turned(n)) % 2 = 0}
<1>1. L \in Nat /\ \A n \in 1..L : p[n] \in Byte /\ q[n] \in Byte
  BY LenProperties, ElementOfSeq
<1>2. /\ \A n \in 0..L : x[n] \in SUBSET (0..15)
      /\ x[0] = {}
      /\ \A n \in 1..L : x[n] = CrcOfByte[<<x[n - 1], p[n]>>]
  BY RegistersAre
<1>3. /\ \A n \in 0..Len(q) : y[n] \in SUBSET (0..15)
      /\ y[0] = {}
      /\ \A n \in 1..Len(q) : y[n] = CrcOfByte[<<y[n - 1], q[n]>>]
  BY RegistersAre
<1>4. /\ \A n \in 0..L : y[n] \in SUBSET (0..15)
      /\ \A n \in 1..L : y[n] = CrcOfByte[<<y[n - 1], q[n]>>]
  BY <1>3
<1>5. /\ i \in 1..L /\ q[i] = Flip(p[i], b)
      /\ \A n \in 1..L : n # i => q[n] = p[n]
  OBVIOUS
<1> HIDE DEF L, x, y
<1>6. 0 \in T
  <2>1. Count(y[0]) = Count(x[0]) /\ Count(x[0]) \in Nat
    BY <1>2, <1>3, CountType
  <2>2. turned(0) = 0
    BY <1>1, <1>5
  <2> QED BY <2>1, <2>2
<1>7. ASSUME NEW m \in T PROVE m + 1 \in T
  <2> DEFINE n == m + 1
  <2> SUFFICES ASSUME n <= L PROVE (Count(y[n]) - Count(x[n]) - turned(n)) % 2 = 0
    OBVIOUS
  <2>1. m \in 0..L /\ n \in 1..L /\ n - 1 = m
    BY <1>1
  <2>2. (Count(y[m]) - Count(x[m]) - turned(m)) % 2 = 0
    BY <2>1
  <2> HIDE DEF T, n
  <2>3. x[n] = CrcOfByte[<<x[m], p[n]>>] /\ y[n] = CrcOfByte[<<y[m], q[n]>>]
    BY <1>2, <1>4, <2>1
  <2>4. /\ x[m] \in SUBSET (0..15) /\ y[m] \in SUBSET (0..15)
        /\ p[n] \in Byte /\ q[n] \in Byte
    BY <1>1, <1>2, <1>4, <2>1
  <2>5. /\ (Count(x[n]) - Count(x[m]) - Ones(p[n])) % 2 = 0
        /\ (Count(y[n]) - Count(y[m]) - Ones(q[n])) % 2 = 0
    BY <2>3, <2>4, CrcOfByteCount
  <2>6. /\ Count(x[n]) \in Int /\ Count(x[m]) \in Int
        /\ Count(y[n]) \in Int /\ Count(y[m]) \in Int
        /\ Ones(p[n]) \in Int /\ Ones(q[n]) \in Int
    <3>1. \A r : Count(r) \in Int
      BY CountType
    <3>2. \A r : Ones(r) \in Int
      BY DEF Ones, One
    <3> QED BY <3>1, <3>2
  <2>7. turned(n) \in Int /\ turned(m) \in Int
    OBVIOUS
  <2>8. (Ones(q[n]) - Ones(p[n]) - (turned(n) - turned(m))) % 2 = 0
    <3>1. CASE n = i
      <4>1. turned(n) = 1 /\ turned(m) = 0
        BY <2>1, <3>1
      <4>2. Ones(q[n]) = Ones(p[n]) - 1 \/ Ones(q[n]) = Ones(p[n]) + 1
        BY <1>5, <2>4, <3>1, FlipChanges
      <4> HIDE DEF turned
      <4>3. \A k, l \in Int : l = k - 1 \/ l = k + 1 => (l - k - (1 - 0)) % 2 = 0
        OBVIOUS
      <4>4. (Ones(q[n]) - Ones(p[n]) - (1 - 0)) % 2 = 0
        BY <2>6, <4>2, <4>3, Zenon
      <4> QED BY <4>1, <4>4, Zenon
    <3>2. CASE n # i
      <4>1. turned(n) = turned(m)
        BY <1>5, <2>1, <3>2
      <4>2. q[n] = p[n]
        BY <1>5, <2>1, <3>2
      <4> HIDE DEF turned
      <4>3. \A k, t \in Int : (k - k - (t - t)) % 2 = 0
        OBVIOUS
      <4>4. Ones(q[n]) = Ones(p[n])
        BY <4>2
      <4> QED BY <2>6, <2>7, <4>1, <4>3, <4>4, Zenon
    <3> QED BY <3>1, <3>2
  <2> HIDE DEF turned
  <2>9. PICK c \in Int, d \in Int, e \in Int, f \in Int, k \in Int, l \in Int, t \in Int, u \in Int :
          /\ c = Count(x[n]) /\ d = Count(x[m]) /\ e = Count(y[n]) /\ f = Count(y[m])
          /\ k = Ones(p[n]) /\ l = Ones(q[n]) /\ t = turned(m) /\ u = turned(n)
    BY <2>6, <2>7, Zenon
  <2>10. /\ (c - d - k) % 2 = 0 /\ (e - f - l) % 2 = 0
         /\ (f - d - t) % 2 = 0 /\ (l - k - (u - t)) % 2 = 0
    BY <2>2, <2>5, <2>8, <2>9, Zenon
  <2>11. (e - c - u) % 2 = 0
    BY <2>10
  <2> QED BY <2>9, <2>11, Zenon
<1> HIDE DEF T
<1>8. T = Nat
  BY <1>6, <1>7, Induction DEF T
<1>9. (Count(y[L]) - Count(x[L]) - 1) % 2 = 0
  <2>1. L \in T /\ L <= L /\ turned(L) = 1
    BY <1>1, <1>5, <1>8
  <2>2. (Count(y[L]) - Count(x[L]) - turned(L)) % 2 = 0
    BY <2>1 DEF T
  <2> QED BY <2>1, <2>2
<1> QED BY <1>9 DEF crc_register, x, y, L

-----------------------------------------------------------------------------
(* A packet is sealed when it ends with the CRC of what comes before.      *)

LEMMA RegisterOfStart ==
  ASSUME NEW p \in Seq(Byte), NEW n \in Nat, n <= Len(p)
  PROVE  /\ SubSeq(p, 1, n) \in Seq(Byte)
         /\ crc_register(SubSeq(p, 1, n)) = Registers(p)[n]
<1> DEFINE start == SubSeq(p, 1, n)
           x == Registers(start)
           y == Registers(p)
           T == {m \in Nat : m <= n => y[m] = x[m]}
<1>1. /\ start \in Seq(Byte) /\ Len(start) = n
      /\ \A m \in 1..n : start[m] = p[m]
      /\ Len(p) \in Nat
  <2>1. \A m \in 1..n : m \in 1..Len(p)
    OBVIOUS
  <2>2. \A m \in 1..n : p[m] \in Byte
    BY <2>1, ElementOfSeq
  <2>3. /\ start \in Seq(Byte) /\ Len(start) = IF 1 <= n THEN n - 1 + 1 ELSE 0
        /\ \A m \in 1..n - 1 + 1 : start[m] = p[1 + m - 1]
    BY <2>2, SubSeqProperties
  <2> HIDE DEF start
  <2> QED BY <2>3, LenProperties
<1> HIDE DEF start
<1>3. /\ x[0] = {}
      /\ \A m \in 1..Len(start) : x[m] = CrcOfByte[<<x[m - 1], start[m]>>]
  BY <1>1, RegistersAre
<1>4. /\ y[0] = {}
      /\ \A m \in 1..Len(p) : y[m] = CrcOfByte[<<y[m - 1], p[m]>>]
  BY RegistersAre
<1> HIDE DEF x, y
<1>5. 0 \in T
  BY <1>3, <1>4
<1>6. ASSUME NEW m \in T PROVE m + 1 \in T
  <2> SUFFICES ASSUME m + 1 <= n PROVE y[m + 1] = x[m + 1]
    OBVIOUS
  <2>1. m + 1 \in 1..Len(start) /\ m + 1 \in 1..Len(p) /\ (m + 1) - 1 = m /\ m + 1 \in 1..n
    BY <1>1
  <2>2. y[m] = x[m]
    BY <2>1
  <2>3. x[m + 1] = CrcOfByte[<<x[m], start[m + 1]>>] /\ y[m + 1] = CrcOfByte[<<y[m], p[m + 1]>>]
    BY <1>3, <1>4, <2>1
  <2>4. start[m + 1] = p[m + 1]
    BY <1>1, <2>1
  <2> QED BY <2>2, <2>3, <2>4
<1> HIDE DEF T
<1>7. T = Nat
  BY <1>5, <1>6, Induction DEF T
<1>8. y[n] = x[n]
  <2>1. n \in T /\ n <= n
    BY <1>7
  <2> QED BY <2>1 DEF T
<1> QED BY <1>1, <1>8 DEF crc_register, start, x, y

Sealed(p) ==
  LET n == Len(p) - 2
  IN  Registers(p)[n] = {b \in 0..15 : BitAt(p, 8 * n + b)}

\* The two bytes of the CRC are the last sixteen bits of the packet.
LEMMA SealIs ==
  ASSUME NEW p \in Seq(Byte), NEW n \in Nat, Len(p) = n + 2
  PROVE  /\ Sealed(p) <=> crc_register(SubSeq(p, 1, n)) =
                             {b \in 0..15 : BitAt(<<p[n + 1], p[n + 2]>>, b)}
         /\ Sealed(p) <=> Registers(p)[n] = {b \in 0..15 : BitAt(p, 8 * n + b)}
<1> DEFINE end == <<p[n + 1], p[n + 2]>>
<1>1. end[1] = p[n + 1] /\ end[2] = p[n + 2]
  OBVIOUS
<1> HIDE DEF end
<1>2. ASSUME NEW b \in 0..15 PROVE BitAt(p, 8 * n + b) <=> BitAt(end, b)
  <2>1. CASE b <= 7
    <3>1. /\ b \div 8 + 1 = 1 /\ b % 8 = b
          /\ (8 * n + b) \div 8 + 1 = n + 1 /\ (8 * n + b) % 8 = b
      BY <2>1
    <3> QED BY <1>1, <3>1 DEF BitAt
  <2>2. CASE b >= 8
    <3>1. /\ b \div 8 + 1 = 2 /\ b % 8 = b - 8
          /\ (8 * n + b) \div 8 + 1 = n + 2 /\ (8 * n + b) % 8 = b - 8
      BY <2>2
    <3> QED BY <1>1, <3>1 DEF BitAt
  <2> QED BY <2>1, <2>2
<1>3. {b \in 0..15 : BitAt(p, 8 * n + b)} = {b \in 0..15 : BitAt(end, b)}
  BY <1>2
<1>4. Len(p) - 2 = n /\ n <= Len(p)
  OBVIOUS
<1>5. Sealed(p) <=> Registers(p)[n] = {b \in 0..15 : BitAt(p, 8 * n + b)}
  BY <1>4, Zenon DEF Sealed
<1> QED BY <1>3, <1>4, <1>5, RegisterOfStart DEF end

\* A sealed packet is even.
LEMMA SealMakesEven ==
  ASSUME NEW p \in Seq(Byte), NEW n \in Nat, Len(p) = n + 2, Sealed(p)
  PROVE  Count(crc_register(p)) % 2 = 0
<1> DEFINE y == Registers(p)
           last == y[n]
<1>1. \A m \in 1..n + 2 : p[m] \in Byte
  BY ElementOfSeq
<1>2. ASSUME NEW b \in 0..7
      PROVE  (b \in last <=> Bit(p[n + 1], b)) /\ (b + 8 \in last <=> Bit(p[n + 2], b))
  <2>1. /\ b \in 0..15 /\ (8 * n + b) \div 8 + 1 = n + 1 /\ (8 * n + b) % 8 = b
        /\ b + 8 \in 0..15 /\ (8 * n + (b + 8)) \div 8 + 1 = n + 2 /\ (8 * n + (b + 8)) % 8 = b
    OBVIOUS
  <2>2. last = {c \in 0..15 : BitAt(p, 8 * n + c)}
    BY SealIs
  <2> HIDE DEF last
  <2>3. /\ BitAt(p, 8 * n + b) <=> Bit(p[n + 1], b)
        /\ BitAt(p, 8 * n + (b + 8)) <=> Bit(p[n + 2], b)
    BY <2>1 DEF BitAt
  <2> QED BY <2>1, <2>2, <2>3
<1>4. /\ \A m \in 0..Len(p) : y[m] \in SUBSET (0..15)
      /\ \A m \in 1..Len(p) : y[m] = CrcOfByte[<<y[m - 1], p[m]>>]
  BY RegistersAre
<1> HIDE DEF y
<1> DEFINE low == p[n + 1]
           high == p[n + 2]
           mid == CrcOfByte[<<last, low>>]
<1>9. low \in Byte /\ high \in Byte
  BY <1>1
<1>10. last \in SUBSET (0..15)
  <2>1. n \in 0..Len(p)
    OBVIOUS
  <2> QED BY <1>4, <2>1
<1>11. crc_register(p) = CrcOfByte[<<mid, high>>] /\ mid \in SUBSET (0..15)
  <2>1. n + 1 \in 1..Len(p) /\ n + 2 \in 1..Len(p) /\ (n + 1) - 1 = n /\ (n + 2) - 1 = n + 1
        /\ n + 1 \in 0..Len(p)
    OBVIOUS
  <2>2. y[n + 1] = mid
    BY <1>4, <2>1
  <2>3. y[n + 2] = CrcOfByte[<<mid, high>>]
    BY <1>4, <2>1, <2>2
  <2>4. crc_register(p) = y[n + 2]
    BY DEF crc_register, y
  <2> QED BY <1>4, <2>1, <2>2, <2>3, <2>4
<1>12. Count(last) = Ones(low) + Ones(high)
  <2>1. /\ 0 \in last <=> Bit(low, 0)
        /\ 1 \in last <=> Bit(low, 1)
        /\ 2 \in last <=> Bit(low, 2)
        /\ 3 \in last <=> Bit(low, 3)
        /\ 4 \in last <=> Bit(low, 4)
        /\ 5 \in last <=> Bit(low, 5)
        /\ 6 \in last <=> Bit(low, 6)
        /\ 7 \in last <=> Bit(low, 7)
    BY <1>2
  <2>2. /\ 8 \in last <=> Bit(high, 0)
        /\ 9 \in last <=> Bit(high, 1)
        /\ 10 \in last <=> Bit(high, 2)
        /\ 11 \in last <=> Bit(high, 3)
        /\ 12 \in last <=> Bit(high, 4)
        /\ 13 \in last <=> Bit(high, 5)
        /\ 14 \in last <=> Bit(high, 6)
        /\ 15 \in last <=> Bit(high, 7)
    <3> HIDE DEF last, high
    <3>1. \A b \in 0..7 : b + 8 \in last <=> Bit(high, b)
      BY <1>2 DEF high
    <3> QED BY <3>1
  <2> HIDE DEF last, low, high
  <2> QED BY <2>1, <2>2 DEF Count, Ones, One
<1> HIDE DEF last, low, high, mid
<1>13. (Count(mid) - Count(last) - Ones(low)) % 2 = 0
  BY <1>9, <1>10, CrcOfByteCount DEF mid
<1>14. (Count(crc_register(p)) - Count(mid) - Ones(high)) % 2 = 0
  BY <1>9, <1>11, CrcOfByteCount
<1>15. /\ Count(mid) \in Int /\ Count(crc_register(p)) \in Int
       /\ Ones(low) \in Int /\ Ones(high) \in Int
  BY CountType DEF Ones, One
<1> QED
  <2>1. PICK c \in Int, d \in Int, e \in Int, k \in Int, l \in Int :
          /\ c = Count(last) /\ d = Count(mid) /\ e = Count(crc_register(p))
          /\ k = Ones(low) /\ l = Ones(high)
    <3>1. Count(last) \in Int
      BY CountType
    <3> QED BY <1>15, <3>1, Zenon
  <2>2. c = k + l /\ (d - c - k) % 2 = 0 /\ (e - d - l) % 2 = 0
    BY <1>12, <1>13, <1>14, <2>1, Zenon
  <2>3. e % 2 = 0
    BY <2>2
  <2> QED BY <2>1, <2>3

Even(p) == Count(crc_register(p)) % 2 = 0

LEMMA IntactIsSealed ==
  ASSUME NEW p \in Seq(Byte), Intact(p)
  PROVE  Sealed(p) /\ Even(p)
<1> DEFINE n == Len(p) - 2
           end == SubSeq(p, n + 1, n + 2)
           first == n + 1
           last == n + 2
<1>1. n \in Nat /\ Len(p) = n + 2
  <2>1. Len(p) \in Nat /\ Len(p) >= 7
    BY LenProperties DEF Intact
  <2> QED BY <2>1
<1>2. /\ Len(p) - 1 = n + 1 /\ Remainder(SubSeq(p, 1, n)) =
           {b \in 0..15 : BitAt(SubSeq(p, Len(p) - 1, Len(p)), b)}
  <2>1. Len(p) - 1 = n + 1
    BY <1>1
  <2> QED BY <2>1 DEF Intact
<1>3. Remainder(SubSeq(p, 1, n)) = {b \in 0..15 : BitAt(end, b)}
  BY <1>1, <1>2
<1> HIDE DEF n
<1>4. \A i \in 1..n + 2 : p[i] \in Byte
  BY <1>1, ElementOfSeq
<1>5. end = <<p[n + 1], p[n + 2]>>
  <2>1. /\ first \in Int /\ last \in Int /\ last - first + 1 = 2 /\ first <= last
        /\ first + 1 - 1 = n + 1 /\ first + 2 - 1 = n + 2
        /\ \A i \in first..last : i \in 1..n + 2
    BY <1>1
  <2>2. \A i \in first..last : p[i] \in Byte
    BY <1>4, <2>1
  <2>3. end = SubSeq(p, first, last)
    OBVIOUS
  <2> HIDE DEF end, first, last
  <2>4. /\ end \in Seq(Byte) /\ Len(end) = IF first <= last THEN last - first + 1 ELSE 0
        /\ \A i \in 1..last - first + 1 : end[i] = p[first + i - 1]
    BY <2>1, <2>2, <2>3, SubSeqProperties
  <2>5. Len(end) = 2 /\ end[1] = p[n + 1] /\ end[2] = p[n + 2]
    <3>1. Len(end) = 2
      BY <2>1, <2>4
    <3>2. \A i \in 1..2 : end[i] = p[first + i - 1]
      BY <2>1, <2>4, Zenon
    <3>3. end[1] = p[first + 1 - 1] /\ end[2] = p[first + 2 - 1]
      BY <3>2
    <3> QED BY <2>1, <3>1, <3>3, Zenon
  <2> DEFINE pair == <<p[n + 1], p[n + 2]>>
  <2>6. pair \in Seq(Byte) /\ Len(pair) = 2 /\ pair[1] = p[n + 1] /\ pair[2] = p[n + 2]
    <3>1. n + 1 \in 1..n + 2 /\ n + 2 \in 1..n + 2
      BY <1>1
    <3>2. p[n + 1] \in Byte /\ p[n + 2] \in Byte
      BY <1>4, <3>1
    <3> QED BY <3>2
  <2> HIDE DEF pair
  <2>7. end = pair
    BY <2>4, <2>5, <2>6, SeqEqual
  <2> QED BY <2>7 DEF pair
<1>6. crc_register(SubSeq(p, 1, n)) = {b \in 0..15 : BitAt(end, b)}
  <2>1. SubSeq(p, 1, n) \in Seq(Byte)
    <3>1. 1 \in Int /\ n \in Int /\ \A i \in 1..n : p[i] \in Byte
      BY <1>1, <1>4
    <3> QED BY <3>1, SubSeqProperties
  <2> QED BY <1>3, <2>1, CrcIsRemainder
<1> HIDE DEF end
<1>7. crc_register(SubSeq(p, 1, n)) = {b \in 0..15 : BitAt(<<p[n + 1], p[n + 2]>>, b)}
  BY <1>5, <1>6
<1>8. Sealed(p)
  BY <1>1, <1>7, SealIs
<1> QED BY <1>1, <1>8, SealMakesEven DEF Even

LEMMA CheckedIsSealed ==
  ASSUME NEW p \in Seq(Byte), Len(p) >= 3, p[1] = Len(p), check_packet(p)
  PROVE  Sealed(p) /\ Even(p)
<1> DEFINE n == Len(p) - 2
           start == SubSeq(p, 1, n)
<1>1. /\ n \in Nat /\ Len(p) = n + 2 /\ Len(p) - 1 = n + 1
      /\ \A i \in 1..n : i \in 1..Len(p)
  <2>1. Len(p) \in Nat
    BY LenProperties
  <2> QED BY <2>1
<1>2. <<p[n + 1], p[n + 2]>> = calculate_crc(start)
  <2>1. <<p[Len(p) - 1], p[Len(p)]>> = calculate_crc(SubSeq(p, 1, Len(p) - 2))
    BY DEF check_packet
  <2> QED BY <1>1, <2>1
<1> HIDE DEF n
<1>3. start \in Seq(Byte)
  <2>1. 1 \in Int /\ n \in Int /\ \A i \in 1..n : p[i] \in Byte
    BY <1>1, ElementOfSeq
  <2> QED BY <2>1, SubSeqProperties
<1>4. {b \in 0..15 : BitAt(calculate_crc(start), b)} = crc_register(start)
  BY <1>3, CrcBytes
<1>5. crc_register(SubSeq(p, 1, n)) = {b \in 0..15 : BitAt(<<p[n + 1], p[n + 2]>>, b)}
  BY <1>2, <1>4
<1>6. Sealed(p)
  BY <1>1, <1>5, SealIs
<1> QED BY <1>1, <1>6, SealMakesEven DEF Even

LEMMA AnswersAreEven ==
  ASSUME NEW data \in Seq(Byte), Len(data) <= 32
  PROVE  Even(generate_answer_packet(data))
<1> DEFINE p == generate_answer_packet(data)
<1>1. p \in Seq(Byte) /\ Len(p) = 3 + Len(data) /\ p[1] = 3 + Len(data) /\ check_packet(p)
  BY AnswerPacketIs
<1>2. Len(data) \in Nat
  BY LenProperties
<1> HIDE DEF p
<1>3. Len(p) >= 3 /\ p[1] = Len(p)
  BY <1>1, <1>2
<1>4. Even(p)
  BY <1>1, <1>3, CheckedIsSealed
<1> QED BY <1>4 DEF p

LEMMA CommandsAreEven ==
  ASSUME NEW c \in WellFormed
  PROVE  Even(Packet(c)) /\ Meant(c) # Unheard
<1>1. Packet(c) \in Seq(Byte) /\ Decode(Packet(c)) = Meant(c)
  BY WellFormedArrives DEF Arrives
<1>2. Meant(c) # Unheard
  <2>1. c[1] \in {"devrev", "random", "serial", "read", "write", "nonce", "hmac", "mac", "lock"}
    BY Kinds
  <2>2. Unheard[1] = "unheard" /\ Meant(c)[1] # "unheard"
    BY <2>1 DEF Unheard, Meant
  <2> QED BY <2>2
<1>3. Intact(Packet(c))
  BY <1>1, <1>2 DEF Decode
<1> QED BY <1>1, <1>2, <1>3, IntactIsSealed

LEMMA FlipIsOdd ==
  ASSUME NEW p \in Seq(Byte), NEW k \in 0..8 * Len(p) - 1
  PROVE  LET q == [p EXCEPT ![k \div 8 + 1] = Flip(@, k % 8)] IN
         /\ q \in Seq(Byte) /\ Len(q) = Len(p)
         /\ (Count(crc_register(q)) - Count(crc_register(p)) - 1) % 2 = 0
<1> DEFINE i == k \div 8 + 1
           b == k % 8
           q == [p EXCEPT ![i] = Flip(p[i], b)]
<1>1. Len(p) \in Nat
  BY LenProperties
<1>2. i \in 1..Len(p) /\ b \in 0..7
  BY <1>1
<1> HIDE DEF i, b
<1>3. Flip(p[i], b) \in Byte
  BY <1>2, FlipType, ElementOfSeq
<1>4. q \in Seq(Byte) /\ Len(q) = Len(p)
  BY <1>2, <1>3
<1>5. q[i] = Flip(p[i], b) /\ \A n \in 1..Len(p) : n # i => q[n] = p[n]
  BY <1>2
<1> HIDE DEF q
<1>6. (Count(crc_register(q)) - Count(crc_register(p)) - 1) % 2 = 0
  BY <1>2, <1>4, <1>5, FlipTurnsParity
<1>7. q = [p EXCEPT ![k \div 8 + 1] = Flip(@, k % 8)]
  BY DEF q, i, b
<1> QED BY <1>4, <1>6, <1>7

-----------------------------------------------------------------------------
(* Two flipped bits.  The register is linear: what a flipped bit changes   *)
(* in it does not depend on the data, and goes on as the register itself   *)
(* does while the data are zeros.                                          *)

Register == SUBSET (0..15)

\* One step of the register when the bit is 0.
Shift(register) == CrcStep(register, 0, 0)

LEMMA ShiftIs ==
  ASSUME NEW d \in Register
  PROVE  LET s == Shift(d) IN
         /\ s \in Register
         /\ 0 \in s <=> 15 \in d
         /\ 1 \in s <=> 0 \in d
         /\ 2 \in s <=> ~(1 \in d <=> 15 \in d)
         /\ 3 \in s <=> 2 \in d
         /\ 4 \in s <=> 3 \in d
         /\ 5 \in s <=> 4 \in d
         /\ 6 \in s <=> 5 \in d
         /\ 7 \in s <=> 6 \in d
         /\ 8 \in s <=> 7 \in d
         /\ 9 \in s <=> 8 \in d
         /\ 10 \in s <=> 9 \in d
         /\ 11 \in s <=> 10 \in d
         /\ 12 \in s <=> 11 \in d
         /\ 13 \in s <=> 12 \in d
         /\ 14 \in s <=> 13 \in d
         /\ 15 \in s <=> ~(14 \in d <=> 15 \in d)
<1> DEFINE s == Shift(d)
<1>1. s \in Register
  BY CrcStepType DEF Shift, Register
<1>2. ~Bit(0, 0)
  BY DEF Bit
<1>3. \A y \in Int : y \in s <=>
        IF 15 \notin d THEN y <= 15 /\ y - 1 \in d
        ELSE ~((y <= 15 /\ y - 1 \in d) <=> y \in {0, 2, 15})
  BY <1>2, InCrcStep DEF Shift, Register
<1>4. -1 \notin d
  BY DEF Register
<1> HIDE DEF s
<1> QED BY <1>1, <1>3, <1>4 DEF s

\* While bit 15 is 0, the bits move up by one.
LEMMA ShiftIsUp ==
  ASSUME NEW d, 15 \notin d
  PROVE  Shift(d) = {c + 1 : c \in d}
<1> DEFINE shifted == {c + 1 : c \in d \ {15}}
<1>1. Shift(d) = IF Bit(0, 0) # (15 \in d) THEN SymDiff(shifted, POLYNOM) ELSE shifted
  BY DEF Shift, CrcStep
<1>2. d \ {15} = d
  OBVIOUS
<1>3. shifted = {c + 1 : c \in d}
  BY <1>2
<1> HIDE DEF shifted
<1>4. Shift(d) = shifted
  BY <1>1 DEF Bit
<1> QED BY <1>3, <1>4

LEMMA SameBits ==
  ASSUME NEW d \in Register, NEW e \in Register,
         0 \in d <=> 0 \in e, 1 \in d <=> 1 \in e, 2 \in d <=> 2 \in e, 3 \in d <=> 3 \in e,
         4 \in d <=> 4 \in e, 5 \in d <=> 5 \in e, 6 \in d <=> 6 \in e, 7 \in d <=> 7 \in e,
         8 \in d <=> 8 \in e, 9 \in d <=> 9 \in e, 10 \in d <=> 10 \in e, 11 \in d <=> 11 \in e,
         12 \in d <=> 12 \in e, 13 \in d <=> 13 \in e, 14 \in d <=> 14 \in e, 15 \in d <=> 15 \in e
  PROVE  d = e
<1>1. ASSUME NEW x \in 0..15 PROVE x \in d <=> x \in e
  <2>1. x \in {0, 1, 2, 3, 4, 5, 6, 7, 8, 9, 10, 11, 12, 13, 14, 15}
    OBVIOUS
  <2> QED BY <2>1
<1> QED BY <1>1 DEF Register

LEMMA InSymDiff ==
  ASSUME NEW d \in Register, NEW e \in Register
  PROVE  /\ SymDiff(d, e) \in Register
         /\ \A x : x \in SymDiff(d, e) <=> ~(x \in d <=> x \in e)
BY DEF SymDiff, Register

LEMMA ShiftIsLinear ==
  ASSUME NEW d \in Register, NEW e \in Register
  PROVE  Shift(SymDiff(d, e)) = SymDiff(Shift(d), Shift(e))
<1> DEFINE a == Shift(d)
           b == Shift(e)
           f == SymDiff(d, e)
           c == Shift(f)
           g == SymDiff(a, b)
<1>1. a \in Register /\ b \in Register /\ f \in Register
  BY ShiftIs, InSymDiff
<1>2. /\ \A x : x \in f <=> ~(x \in d <=> x \in e)
      /\ \A x : x \in g <=> ~(x \in a <=> x \in b)
      /\ g \in Register
  <2> HIDE DEF a, b
  <2> QED BY <1>1, InSymDiff
<1> HIDE DEF f, g
<1>3. c \in Register
  BY <1>1, ShiftIs
<1>4. /\ 0 \in c <=> 0 \in g
      /\ 1 \in c <=> 1 \in g
      /\ 2 \in c <=> 2 \in g
      /\ 3 \in c <=> 3 \in g
      /\ 4 \in c <=> 4 \in g
      /\ 5 \in c <=> 5 \in g
      /\ 6 \in c <=> 6 \in g
      /\ 7 \in c <=> 7 \in g
      /\ 8 \in c <=> 8 \in g
      /\ 9 \in c <=> 9 \in g
      /\ 10 \in c <=> 10 \in g
      /\ 11 \in c <=> 11 \in g
      /\ 12 \in c <=> 12 \in g
      /\ 13 \in c <=> 13 \in g
      /\ 14 \in c <=> 14 \in g
      /\ 15 \in c <=> 15 \in g
  BY <1>1, <1>2, ShiftIs
<1> HIDE DEF c
<1>5. c = g
  BY <1>2, <1>3, <1>4, SameBits
<1> QED BY <1>5 DEF c, f, g

LEMMA ShiftIsInjective ==
  ASSUME NEW d \in Register, NEW e \in Register, Shift(d) = Shift(e)
  PROVE  d = e
BY ShiftIs, SameBits

\* What one flipped bit becomes after so many zeros, from bit 0 of the register.
LAST == 400
Shifted == CHOOSE f : Follows(f, LAST, Register, {0},
                              [a \in Register \X (1..LAST) |-> Shift(a[1])])

LEMMA ShiftedIs ==
  /\ \A m \in 0..LAST : Shifted[m] \in Register
  /\ Shifted[0] = {0}
  /\ \A m \in 0..LAST - 1 : Shifted[m + 1] = Shift(Shifted[m])
<1> DEFINE step == [a \in Register \X (1..LAST) |-> Shift(a[1])]
<1>1. step \in [Register \X (1..LAST) -> Register]
  BY ShiftIs
<1>2. \A x \in Register, m \in 1..LAST : step[<<x, m>>] = Shift(x)
  OBVIOUS
<1>3. LAST \in Nat /\ {0} \in Register
  BY DEF LAST, Register
<1>4. Shifted = CHOOSE f : Follows(f, LAST, Register, {0}, step)
  BY DEF Shifted
<1> HIDE DEF step
<1>5. Follows(Shifted, LAST, Register, {0}, step)
  <2>1. \E f : Follows(f, LAST, Register, {0}, step)
    BY <1>1, <1>3, RecursionExists
  <2> QED BY <1>4, <2>1
<1>6. /\ Shifted \in [0..LAST -> Register] /\ Shifted[0] = {0}
      /\ \A m \in 1..LAST : Shifted[m] = step[<<Shifted[m - 1], m>>]
  BY <1>5 DEF Follows
<1>7. ASSUME NEW m \in 0..LAST - 1 PROVE Shifted[m + 1] = Shift(Shifted[m])
  <2>1. m + 1 \in 1..LAST /\ (m + 1) - 1 = m /\ m \in 0..LAST
    BY DEF LAST
  <2>2. Shifted[m + 1] = step[<<Shifted[m], m + 1>>]
    BY <1>6, <2>1
  <2>3. Shifted[m] \in Register
    BY <1>6, <2>1
  <2> QED BY <1>2, <2>1, <2>2, <2>3
<1> QED BY <1>6, <1>7

\* The first bits walk up the register; the polynomial comes in at the end.
LEMMA ShiftedFirst ==
  /\ \A b \in 0..15 : Shifted[b] = {b}
  /\ Shifted[16] = {0, 2, 15}
<1> DEFINE T == {b \in Nat : b <= 15 => Shifted[b] = {b}}
<1>1. 0 \in T
  BY ShiftedIs
<1>2. ASSUME NEW b \in T PROVE b + 1 \in T
  <2> SUFFICES ASSUME b + 1 <= 15 PROVE Shifted[b + 1] = {b + 1}
    OBVIOUS
  <2>1. b \in 0..14 /\ b \in 0..LAST - 1 /\ {b} \in Register
    BY DEF Register, LAST
  <2>2. Shifted[b + 1] = Shift({b})
    BY <2>1, ShiftedIs
  <2>3. Shift({b}) = {b + 1}
    BY <2>1, ShiftIsUp
  <2> QED BY <2>2, <2>3
<1> HIDE DEF T
<1>3. T = Nat
  BY <1>1, <1>2, Induction DEF T
<1>4. Shifted[15] = {15}
  BY <1>3 DEF T
<1>5. Shifted[16] = {0, 2, 15}
  <2>1. 15 \in 0..LAST - 1 /\ 15 + 1 = 16
    BY DEF LAST
  <2>2. Shifted[16] = Shift({15})
    BY <1>4, <2>1, ShiftedIs
  <2>3. ~Bit(0, 0)
    BY DEF Bit
  <2> QED BY <2>2, <2>3 DEF Shift, CrcStep, SymDiff, POLYNOM
<1> QED BY <1>3, <1>5 DEF T

\* The sum of two neighbours: an even number of bits for ever.
Pair(m) == SymDiff(Shifted[m], Shifted[m + 1])

LEMMA PairIs ==
  /\ \A m \in 0..LAST - 1 : Pair(m) \in Register
  /\ Pair(0) = {0, 1}
  /\ \A m \in 0..LAST - 2 : Pair(m + 1) = Shift(Pair(m))
<1>1. ASSUME NEW m \in 0..LAST - 1 PROVE Pair(m) \in Register
  <2>1. m \in 0..LAST /\ m + 1 \in 0..LAST
    BY DEF LAST
  <2> QED BY <2>1, ShiftedIs, InSymDiff DEF Pair
<1>2. Pair(0) = {0, 1}
  <2>1. Shifted[0] = {0} /\ Shifted[0 + 1] = {1}
    BY ShiftedFirst
  <2> QED BY <2>1 DEF Pair, SymDiff
<1>3. ASSUME NEW m \in 0..LAST - 2 PROVE Pair(m + 1) = Shift(Pair(m))
  <2>1. m \in 0..LAST /\ m + 1 \in 0..LAST /\ m \in 0..LAST - 1 /\ m + 1 \in 0..LAST - 1
    BY DEF LAST
  <2>2. /\ Shifted[m] \in Register /\ Shifted[m + 1] \in Register
        /\ Shifted[m + 1] = Shift(Shifted[m])
        /\ Shifted[(m + 1) + 1] = Shift(Shifted[m + 1])
    BY <2>1, ShiftedIs
  <2>3. Shift(Pair(m)) = SymDiff(Shift(Shifted[m]), Shift(Shifted[m + 1]))
    BY <2>2, ShiftIsLinear DEF Pair
  <2> QED BY <2>2, <2>3 DEF Pair
<1> QED BY <1>1, <1>2, <1>3

\* The polynomial is x + 1 times x^15 + x + 1: fifteen steps add the next
\* neighbour to a pair.
Fifteen(d) == SymDiff(d, Shift(d))

LEMMA FifteenSteps ==
  ASSUME NEW m \in 0..LAST - 17
  PROVE  Pair(m + 15) = Fifteen(Pair(m))
<1> USE DEF Fifteen
<1> DEFINE T == {n \in Nat : n <= LAST - 17 => Pair(n + 15) = Fifteen(Pair(n))}
<1>1. 0 \in T
  <2>1. Shifted[15] = {15} /\ Shifted[15 + 1] = {0, 2, 15}
    BY ShiftedFirst
  <2>2. Pair(15) = {0, 2}
    BY <2>1 DEF Pair, SymDiff
  <2>3. Pair(0) = {0, 1}
    BY PairIs
  <2>4. Shift({0, 1}) = {1, 2}
    BY ShiftIsUp
  <2> QED BY <2>2, <2>3, <2>4 DEF SymDiff
<1>2. ASSUME NEW n \in T PROVE n + 1 \in T
  <2> SUFFICES ASSUME n + 1 <= LAST - 17
               PROVE  Pair((n + 1) + 15) = Fifteen(Pair(n + 1))
    OBVIOUS
  <2>1. /\ n \in 0..LAST - 2 /\ n \in 0..LAST - 1 /\ n + 15 \in 0..LAST - 2
        /\ (n + 1) + 15 = (n + 15) + 1 /\ n <= LAST - 17
    BY DEF LAST
  <2>2. Pair((n + 15) + 1) = Shift(Pair(n + 15)) /\ Pair(n + 1) = Shift(Pair(n))
    BY <2>1, PairIs
  <2>3. Pair(n) \in Register /\ Shift(Pair(n)) \in Register
    BY <2>1, PairIs, ShiftIs
  <2>4. Pair(n + 15) = SymDiff(Pair(n), Shift(Pair(n)))
    BY <2>1
  <2> QED BY <2>1, <2>2, <2>3, <2>4, ShiftIsLinear
<1> HIDE DEF T
<1>3. T = Nat
  BY <1>1, <1>2, Induction DEF T
<1> QED BY <1>3 DEF T, LAST

\* Every fifteenth pair, computed: Pascal's triangle until it is wider than the
\* register, and for as long as packets are.
Row(q) == Pair(15 * q)

LEMMA Rows ==
  /\ Row(0) = {0, 1}
  /\ Row(1) = {0, 2}
  /\ Row(2) = {0, 1, 2, 3}
  /\ Row(3) = {0, 4}
  /\ Row(4) = {0, 1, 4, 5}
  /\ Row(5) = {0, 2, 4, 6}
  /\ Row(6) = {0, 1, 2, 3, 4, 5, 6, 7}
  /\ Row(7) = {0, 8}
  /\ Row(8) = {0, 1, 8, 9}
  /\ Row(9) = {0, 2, 8, 10}
  /\ Row(10) = {0, 1, 2, 3, 8, 9, 10, 11}
  /\ Row(11) = {0, 4, 8, 12}
  /\ Row(12) = {0, 1, 4, 5, 8, 9, 12, 13}
  /\ Row(13) = {0, 2, 4, 6, 8, 10, 12, 14}
  /\ Row(14) = 0..15
  /\ Row(15) = {2, 15}
  /\ Row(16) = {0, 3}
  /\ Row(17) = {0, 1, 3, 4}
  /\ Row(18) = {0, 2, 3, 5}
  /\ Row(19) = {0, 1, 2, 4, 5, 6}
  /\ Row(20) = {0, 3, 4, 7}
<1>0. Row(0) = {0, 1}
  BY PairIs DEF Row
<1>f. \A q \in 0..19 : Row(q + 1) = Fifteen(Row(q))
  <2>1. \A q \in 0..19 : 15 * q \in 0..LAST - 17 /\ 15 * (q + 1) = 15 * q + 15
    BY DEF LAST
  <2> QED BY <2>1, FifteenSteps DEF Row
<1>g. /\ Row(1) = Fifteen(Row(0))
      /\ Row(2) = Fifteen(Row(1))
      /\ Row(3) = Fifteen(Row(2))
      /\ Row(4) = Fifteen(Row(3))
      /\ Row(5) = Fifteen(Row(4))
      /\ Row(6) = Fifteen(Row(5))
      /\ Row(7) = Fifteen(Row(6))
      /\ Row(8) = Fifteen(Row(7))
      /\ Row(9) = Fifteen(Row(8))
      /\ Row(10) = Fifteen(Row(9))
      /\ Row(11) = Fifteen(Row(10))
      /\ Row(12) = Fifteen(Row(11))
      /\ Row(13) = Fifteen(Row(12))
      /\ Row(14) = Fifteen(Row(13))
      /\ Row(15) = Fifteen(Row(14))
      /\ Row(16) = Fifteen(Row(15))
      /\ Row(17) = Fifteen(Row(16))
      /\ Row(18) = Fifteen(Row(17))
      /\ Row(19) = Fifteen(Row(18))
      /\ Row(20) = Fifteen(Row(19))
  BY <1>f
<1>1. Row(1) = {0, 2}
  <2>1. Fifteen({0, 1}) = {0, 2}
    BY ShiftIsUp DEF Fifteen, SymDiff
  <2> QED BY <1>0, <1>g, <2>1, Zenon
<1>2. Row(2) = {0, 1, 2, 3}
  <2>1. Fifteen({0, 2}) = {0, 1, 2, 3}
    BY ShiftIsUp DEF Fifteen, SymDiff
  <2> QED BY <1>1, <1>g, <2>1, Zenon
<1>3. Row(3) = {0, 4}
  <2>1. Fifteen({0, 1, 2, 3}) = {0, 4}
    BY ShiftIsUp DEF Fifteen, SymDiff
  <2> QED BY <1>2, <1>g, <2>1, Zenon
<1>4. Row(4) = {0, 1, 4, 5}
  <2>1. Fifteen({0, 4}) = {0, 1, 4, 5}
    BY ShiftIsUp DEF Fifteen, SymDiff
  <2> QED BY <1>3, <1>g, <2>1, Zenon
<1>5. Row(5) = {0, 2, 4, 6}
  <2>1. Fifteen({0, 1, 4, 5}) = {0, 2, 4, 6}
    BY ShiftIsUp DEF Fifteen, SymDiff
  <2> QED BY <1>4, <1>g, <2>1, Zenon
<1>6. Row(6) = {0, 1, 2, 3, 4, 5, 6, 7}
  <2>1. Fifteen({0, 2, 4, 6}) = {0, 1, 2, 3, 4, 5, 6, 7}
    BY ShiftIsUp DEF Fifteen, SymDiff
  <2> QED BY <1>5, <1>g, <2>1, Zenon
<1>7. Row(7) = {0, 8}
  <2>1. Fifteen({0, 1, 2, 3, 4, 5, 6, 7}) = {0, 8}
    BY ShiftIsUp DEF Fifteen, SymDiff
  <2> QED BY <1>6, <1>g, <2>1, Zenon
<1>8. Row(8) = {0, 1, 8, 9}
  <2>1. Fifteen({0, 8}) = {0, 1, 8, 9}
    BY ShiftIsUp DEF Fifteen, SymDiff
  <2> QED BY <1>7, <1>g, <2>1, Zenon
<1>9. Row(9) = {0, 2, 8, 10}
  <2>1. Fifteen({0, 1, 8, 9}) = {0, 2, 8, 10}
    BY ShiftIsUp DEF Fifteen, SymDiff
  <2> QED BY <1>8, <1>g, <2>1, Zenon
<1>10. Row(10) = {0, 1, 2, 3, 8, 9, 10, 11}
  <2>1. Fifteen({0, 2, 8, 10}) = {0, 1, 2, 3, 8, 9, 10, 11}
    BY ShiftIsUp DEF Fifteen, SymDiff
  <2> QED BY <1>9, <1>g, <2>1, Zenon
<1>11. Row(11) = {0, 4, 8, 12}
  <2>1. Fifteen({0, 1, 2, 3, 8, 9, 10, 11}) = {0, 4, 8, 12}
    BY ShiftIsUp DEF Fifteen, SymDiff
  <2> QED BY <1>10, <1>g, <2>1, Zenon
<1>12. Row(12) = {0, 1, 4, 5, 8, 9, 12, 13}
  <2>1. Fifteen({0, 4, 8, 12}) = {0, 1, 4, 5, 8, 9, 12, 13}
    BY ShiftIsUp DEF Fifteen, SymDiff
  <2> QED BY <1>11, <1>g, <2>1, Zenon
<1>13. Row(13) = {0, 2, 4, 6, 8, 10, 12, 14}
  <2>1. Fifteen({0, 1, 4, 5, 8, 9, 12, 13}) = {0, 2, 4, 6, 8, 10, 12, 14}
    BY ShiftIsUp DEF Fifteen, SymDiff
  <2> QED BY <1>12, <1>g, <2>1, Zenon
<1>14. Row(14) = 0..15
  <2>1. Fifteen({0, 2, 4, 6, 8, 10, 12, 14}) = 0..15
    BY ShiftIsUp DEF Fifteen, SymDiff
  <2> QED BY <1>13, <1>g, <2>1, Zenon
<1>15. Row(15) = {2, 15}
  <2>1. Fifteen(0..15) = {2, 15}
    BY DEF Fifteen, SymDiff, Shift, CrcStep, POLYNOM, Bit
  <2> QED BY <1>14, <1>g, <2>1, Zenon
<1>16. Row(16) = {0, 3}
  <2>1. Fifteen({2, 15}) = {0, 3}
    BY DEF Fifteen, SymDiff, Shift, CrcStep, POLYNOM, Bit
  <2> QED BY <1>15, <1>g, <2>1, Zenon
<1>17. Row(17) = {0, 1, 3, 4}
  <2>1. Fifteen({0, 3}) = {0, 1, 3, 4}
    BY ShiftIsUp DEF Fifteen, SymDiff
  <2> QED BY <1>16, <1>g, <2>1, Zenon
<1>18. Row(18) = {0, 2, 3, 5}
  <2>1. Fifteen({0, 1, 3, 4}) = {0, 2, 3, 5}
    BY ShiftIsUp DEF Fifteen, SymDiff
  <2> QED BY <1>17, <1>g, <2>1, Zenon
<1>19. Row(19) = {0, 1, 2, 4, 5, 6}
  <2>1. Fifteen({0, 2, 3, 5}) = {0, 1, 2, 4, 5, 6}
    BY ShiftIsUp DEF Fifteen, SymDiff
  <2> QED BY <1>18, <1>g, <2>1, Zenon
<1>20. Row(20) = {0, 3, 4, 7}
  <2>1. Fifteen({0, 1, 2, 4, 5, 6}) = {0, 3, 4, 7}
    BY ShiftIsUp DEF Fifteen, SymDiff
  <2> QED BY <1>19, <1>g, <2>1, Zenon
<1> QED BY <1>0, <1>1, <1>2, <1>3, <1>4, <1>5, <1>6, <1>7, <1>8, <1>9, <1>10, <1>11, <1>12, <1>13, <1>14, <1>15, <1>16, <1>17, <1>18, <1>19, <1>20, Zenon

\* The only pairs that become the first one again in r steps.
Back(r) == {0, 15} \cup (IF r = 14 THEN {} ELSE {1, 15 - r})

LEMMA BackIs ==
  /\ \A r \in 1..14 : Back(r) \in Register
  /\ Shift(Back(1)) = {0, 1}
  /\ \A r \in 1..13 : Shift(Back(r + 1)) = Back(r)
  /\ \A r \in 1..14 : 0 \in Back(r) /\ 15 \in Back(r) /\ ~(2 \in Back(r) /\ 3 \in Back(r))
<1>1. ASSUME NEW r \in 1..14
      PROVE  /\ Back(r) \in Register
             /\ 0 \in Back(r) /\ 15 \in Back(r) /\ ~(2 \in Back(r) /\ 3 \in Back(r))
  <2>1. 15 - r \in 1..14
    OBVIOUS
  <2> QED BY <2>1 DEF Back, Register
<1>2. Shift(Back(1)) = {0, 1}
  <2>1. Back(1) = {0, 1, 14, 15}
    BY DEF Back
  <2> QED BY <2>1 DEF Shift, CrcStep, SymDiff, POLYNOM, Bit
<1>3. ASSUME NEW r \in 1..13 PROVE Shift(Back(r + 1)) = Back(r)
  <2> DEFINE d == Back(r + 1)
  <2>1. \A x \in 0..15 : x \in d <=> x = 0 \/ x = 15 \/ (r # 13 /\ (x = 1 \/ x = 14 - r))
    BY DEF Back
  <2>2. \A x \in 0..15 : x \in Back(r) <=> x = 0 \/ x = 15 \/ x = 1 \/ x = 15 - r
    BY DEF Back
  <2>3. r + 1 \in 1..14 /\ r \in 1..14
    OBVIOUS
  <2>4. d \in Register /\ Back(r) \in Register
    BY <1>1, <2>3
  <2> HIDE DEF d
  <2> DEFINE e == Shift(d)
  <2>5. /\ e \in Register
        /\ \A x \in 0..15 : x \in e <=> x \in Back(r)
    <3>1. ~Bit(0, 0)
      BY DEF Bit
    <3>2. e \in Register
      BY <2>4, ShiftIs
    <3>3. \A y \in Int : y \in e <=> ~((y <= 15 /\ y - 1 \in d) <=> y \in {0, 2, 15})
      BY <2>1, <2>4, <3>1, InCrcStep DEF Shift, Register
    <3>4. \A y \in Int : y \in d => y \in 0..15
      BY <2>4 DEF Register
    <3> HIDE DEF e
    <3>5. ASSUME NEW x \in 0..15 PROVE x \in e <=> x \in Back(r)
      BY <2>1, <2>2, <3>3, <3>4
    <3> QED BY <3>2, <3>5
  <2> QED BY <2>4, <2>5 DEF Register, e, d
<1> QED BY <1>1, <1>2, <1>3

LEMMA GoneBack ==
  ASSUME NEW r \in 1..14, NEW n \in 0..LAST - 20, Pair(n + r) = {0, 1}
  PROVE  Pair(n) = Back(r)
<1> DEFINE T == {i \in Nat : i <= 13 =>
                   \A m \in Nat : m + i <= LAST - 5 /\ Pair(m + (i + 1)) = {0, 1}
                                    => Pair(m) = Back(i + 1)}
<1>1. 0 \in T
  <2> SUFFICES ASSUME NEW m \in Nat, m <= LAST - 5, Pair(m + 1) = {0, 1}
               PROVE  Pair(m) = Back(1)
    OBVIOUS
  <2>1. m \in 0..LAST - 2 /\ m \in 0..LAST - 1
    BY DEF LAST
  <2>2. Shift(Pair(m)) = Shift(Back(1)) /\ Pair(m) \in Register /\ Back(1) \in Register
    BY <2>1, PairIs, BackIs
  <2> QED BY <2>2, ShiftIsInjective
<1>2. ASSUME NEW i \in T PROVE i + 1 \in T
  <2> SUFFICES ASSUME i + 1 <= 13, NEW m \in Nat, m + (i + 1) <= LAST - 5,
                      Pair(m + ((i + 1) + 1)) = {0, 1}
               PROVE  Pair(m) = Back((i + 1) + 1)
    OBVIOUS
  <2>1. /\ m \in 0..LAST - 2 /\ m \in 0..LAST - 1 /\ i + 1 \in 1..13
        /\ (m + 1) + (i + 1) = m + ((i + 1) + 1) /\ (m + 1) + i <= LAST - 5
        /\ (i + 1) + 1 \in 1..14 /\ i <= 13 /\ m + 1 \in Nat
    BY DEF LAST
  <2>2. Pair(m + 1) = Back(i + 1)
    BY <2>1
  <2>3. Shift(Pair(m)) = Shift(Back((i + 1) + 1))
    BY <2>1, <2>2, PairIs, BackIs
  <2>4. Pair(m) \in Register /\ Back((i + 1) + 1) \in Register
    BY <2>1, PairIs, BackIs
  <2> QED BY <2>3, <2>4, ShiftIsInjective
<1> HIDE DEF T
<1>3. T = Nat
  BY <1>1, <1>2, Induction DEF T
<1>4. r - 1 \in T /\ r - 1 <= 13 /\ (r - 1) + 1 = r /\ n + (r - 1) <= LAST - 5 /\ n \in Nat
  BY <1>3 DEF LAST
<1> QED BY <1>4 DEF T

\* A bit that was flipped is not back where it was for as long as a packet is.
LEMMA NoReturn ==
  ASSUME NEW m \in 1..311
  PROVE  Shifted[m] # {0}
<1> SUFFICES ASSUME Shifted[m] = {0} PROVE FALSE
  OBVIOUS
<1>1. Pair(m) = {0, 1}
  <2>1. Shifted[m + 1] = Shift({0}) /\ Shifted[1] = Shift({0})
    <3>1. m \in 0..LAST - 1 /\ 0 \in 0..LAST - 1 /\ 0 + 1 = 1
      BY DEF LAST
    <3> QED BY <3>1, ShiftedIs
  <2>2. Shifted[1] = {1}
    BY ShiftedFirst
  <2> QED BY <2>1, <2>2 DEF Pair, SymDiff
<1> DEFINE q == m \div 15
           r == m % 15
<1>2. q \in 0..20 /\ r \in 0..14 /\ m = 15 * q + r
  OBVIOUS
<1> HIDE DEF q, r
<1>3. CASE r = 0
  <2>1. q \in 1..20 /\ Row(q) = {0, 1}
    BY <1>1, <1>2, <1>3 DEF Row
  <2>2. 1 \notin Row(q) \/ 4 \in Row(q) \/ 2 \in Row(q)
    BY <2>1, Rows
  <2> QED BY <2>1, <2>2
<1>4. CASE r # 0
  <2>1. r \in 1..14 /\ 15 * q \in 0..LAST - 20
    BY <1>2, <1>4 DEF LAST
  <2>2. Row(q) = Back(r)
    BY <1>1, <1>2, <2>1, GoneBack DEF Row
  <2>3. 0 \in Row(q) /\ 15 \in Row(q) /\ ~(2 \in Row(q) /\ 3 \in Row(q))
    BY <2>1, <2>2, BackIs
  <2>4. ~(0 \in Row(q) /\ 15 \in Row(q)) \/ (2 \in Row(q) /\ 3 \in Row(q))
    BY <1>2, Rows
  <2> QED BY <2>3, <2>4
<1> QED BY <1>3, <1>4

LEMMA ShiftedApart ==
  ASSUME NEW a \in 0..311, NEW b \in 0..311, a < b
  PROVE  Shifted[a] # Shifted[b]
<1> DEFINE T == {n \in Nat : \A c \in 1..311 : n + c <= 311 => Shifted[n] # Shifted[n + c]}
<1>1. 0 \in T
  <2>1. \A c \in 1..311 : 0 + c = c
    OBVIOUS
  <2>2. \A c \in 1..311 : Shifted[c] # {0}
    BY NoReturn
  <2>3. \A c \in 1..311 : Shifted[0] # Shifted[0 + c]
    BY <2>1, <2>2, ShiftedIs, Zenon
  <2> QED BY <2>3
<1>2. ASSUME NEW n \in T PROVE n + 1 \in T
  <2> SUFFICES ASSUME NEW c \in 1..311, (n + 1) + c <= 311
               PROVE  Shifted[n + 1] # Shifted[(n + 1) + c]
    OBVIOUS
  <2>1. /\ n \in 0..LAST - 1 /\ n + c \in 0..LAST - 1 /\ n + c <= 311
        /\ n \in 0..LAST /\ n + c \in 0..LAST /\ (n + 1) + c = (n + c) + 1
    BY DEF LAST
  <2>2. Shifted[n] # Shifted[n + c]
    BY <2>1
  <2>3. /\ Shifted[n + 1] = Shift(Shifted[n]) /\ Shifted[(n + c) + 1] = Shift(Shifted[n + c])
        /\ Shifted[n] \in Register /\ Shifted[n + c] \in Register
    BY <2>1, ShiftedIs
  <2> QED BY <2>1, <2>2, <2>3, ShiftIsInjective
<1> HIDE DEF T
<1>3. T = Nat
  BY <1>1, <1>2, Induction DEF T
<1>4. PICK c \in 1..311 : a + c = b
  <2>1. b - a \in 1..311 /\ a + (b - a) = b
    OBVIOUS
  <2> QED BY <2>1
<1>5. a \in T /\ a + c <= 311
  BY <1>3, <1>4
<1>6. Shifted[a] # Shifted[a + c]
  BY <1>5 DEF T
<1> QED BY <1>4, <1>6

-----------------------------------------------------------------------------
(* The register bit by bit through a packet.                               *)

BitsTaken(p, j) == BitRegisters(Registers(p)[j \div 8], p[j \div 8 + 1])[j % 8]

LEMMA BitsTakenAre ==
  ASSUME NEW p \in Seq(Byte)
  PROVE  /\ \A j \in 0..8 * Len(p) : BitsTaken(p, j) \in Register
         /\ BitsTaken(p, 0) = {}
         /\ \A j \in 0..8 * Len(p) - 1 :
              BitsTaken(p, j + 1) = CrcStep(BitsTaken(p, j), p[j \div 8 + 1], j % 8)
         /\ \A n \in 0..Len(p) : BitsTaken(p, 8 * n) = Registers(p)[n]
<1> DEFINE L == Len(p)
           x == Registers(p)
           at(n, b) == BitRegisters(x[n], p[n + 1])[b]
<1>1. L \in Nat /\ \A n \in 1..L : p[n] \in Byte
  BY LenProperties, ElementOfSeq
<1>2. /\ \A n \in 0..L : x[n] \in SUBSET (0..15)
      /\ x[0] = {}
      /\ \A n \in 1..L : x[n] = CrcOfByte[<<x[n - 1], p[n]>>]
  BY RegistersAre
<1> HIDE DEF L, x
<1>3. ASSUME NEW n \in 0..L
      PROVE  /\ \A b \in 0..8 : at(n, b) \in SUBSET (0..15)
             /\ at(n, 0) = x[n]
             /\ \A b \in 1..8 : at(n, b) = CrcStep(at(n, b - 1), p[n + 1], b - 1)
  <2>1. x[n] \in SUBSET (0..15)
    BY <1>2
  <2> DEFINE r == x[n]
             byte == p[n + 1]
             after == BitRegisters(r, byte)
  <2>2. r \in SUBSET (0..15)
    BY <2>1
  <2> HIDE DEF r, byte
  <2>3. /\ \A b \in 0..8 : after[b] \in SUBSET (0..15)
        /\ after[0] = r
        /\ \A b \in 1..8 : after[b] = CrcStep(after[b - 1], byte, b - 1)
    BY <2>2, BitRegistersAre
  <2> QED BY <2>3 DEF r, byte
<1>4. ASSUME NEW n \in 0..L - 1 PROVE at(n, 8) = x[n + 1]
  <2>1. n \in 0..L /\ n + 1 \in 1..L /\ (n + 1) - 1 = n
    BY <1>1
  <2>2. x[n + 1] = CrcOfByte[<<x[n], p[n + 1]>>]
    BY <1>2, <2>1
  <2>3. x[n] \in SUBSET (0..15) /\ p[n + 1] \in Byte
    BY <1>1, <1>2, <2>1
  <2> QED BY <2>2, <2>3, CrcOfByteIs
<1>5. \A j : BitsTaken(p, j) = at(j \div 8, j % 8)
  BY DEF BitsTaken, x
<1> HIDE DEF at
<1>6. ASSUME NEW j \in 0..8 * L PROVE BitsTaken(p, j) \in SUBSET (0..15)
  <2>1. j \div 8 \in 0..L /\ j % 8 \in 0..8
    BY <1>1
  <2> QED BY <1>3, <1>5, <2>1
<1>7. ASSUME NEW n \in 0..L PROVE BitsTaken(p, 8 * n) = x[n]
  <2>1. (8 * n) \div 8 = n /\ (8 * n) % 8 = 0
    BY <1>1
  <2> QED BY <1>3, <1>5, <2>1
<1>8. BitsTaken(p, 0) = {}
  <2>1. 0 \in 0..L /\ 8 * 0 = 0
    BY <1>1
  <2> QED BY <1>2, <1>7, <2>1
<1>9. ASSUME NEW j \in 0..8 * L - 1
      PROVE  BitsTaken(p, j + 1) = CrcStep(BitsTaken(p, j), p[j \div 8 + 1], j % 8)
  <2> DEFINE n == j \div 8
             b == j % 8
  <2>1. n \in 0..L - 1 /\ b \in 0..7 /\ j = 8 * n + b
    BY <1>1
  <2> HIDE DEF n, b
  <2>2. n \in 0..L /\ b + 1 \in 1..8 /\ (b + 1) - 1 = b
    BY <1>1, <2>1
  <2>3. at(n, b + 1) = CrcStep(at(n, b), p[n + 1], b)
    BY <1>3, <2>2
  <2>4. BitsTaken(p, j + 1) = at(n, b + 1)
    <3>1. CASE b # 7
      <4>1. (j + 1) \div 8 = n /\ (j + 1) % 8 = b + 1
        BY <1>1, <2>1, <3>1
      <4> QED BY <1>5, <4>1
    <3>2. CASE b = 7
      <4>1. (j + 1) \div 8 = n + 1 /\ (j + 1) % 8 = 0 /\ n + 1 \in 0..L
        BY <1>1, <2>1, <3>2
      <4>2. BitsTaken(p, j + 1) = x[n + 1]
        BY <1>3, <1>5, <4>1
      <4>3. b + 1 = 8
        BY <3>2
      <4> QED BY <1>4, <2>1, <4>2, <4>3
    <3> QED BY <3>1, <3>2
  <2>5. BitsTaken(p, j) = at(n, b)
    BY <1>5 DEF n, b
  <2> QED BY <2>3, <2>4, <2>5 DEF n, b
<1> QED BY <1>6, <1>7, <1>8, <1>9 DEF L, x, Register

\* The data come in at bit 15.
Fresh(formula) == IF formula THEN {15} ELSE {}

LEMMA StepIsShift ==
  ASSUME NEW d \in Register, NEW byte, NEW b
  PROVE  CrcStep(d, byte, b) = Shift(SymDiff(d, Fresh(Bit(byte, b))))
<1> DEFINE e == SymDiff(d, Fresh(Bit(byte, b)))
           s == CrcStep(d, byte, b)
           t == Shift(e)
<1>1. e \in Register /\ \A x : x \in e <=> ~(x \in d <=> x \in Fresh(Bit(byte, b)))
  <2>1. Fresh(Bit(byte, b)) \in Register
    BY DEF Fresh, Register
  <2> QED BY <2>1, InSymDiff
<1>2. /\ \A x \in 0..14 : x \in e <=> x \in d
      /\ 15 \in e <=> ~(15 \in d <=> Bit(byte, b))
  BY <1>1 DEF Fresh
<1> HIDE DEF e
<1>3. \A y \in Int : y \in s <=>
        IF Bit(byte, b) <=> 15 \in d
        THEN y <= 15 /\ y - 1 \in d
        ELSE ~((y <= 15 /\ y - 1 \in d) <=> y \in {0, 2, 15})
  BY InCrcStep DEF Register
<1>4. ~Bit(0, 0)
  BY DEF Bit
<1>5. \A y \in Int : y \in t <=>
        IF 15 \notin e
        THEN y <= 15 /\ y - 1 \in e
        ELSE ~((y <= 15 /\ y - 1 \in e) <=> y \in {0, 2, 15})
  BY <1>1, <1>4, InCrcStep DEF Register, Shift
<1>6. s \in Register /\ t \in Register
  BY <1>1, CrcStepType, ShiftIs DEF Register
<1> HIDE DEF s, t
<1>7. ASSUME NEW y \in 0..15 PROVE y \in s <=> y \in t
  <2>1. y - 1 \in d <=> y - 1 \in e
    <3>1. CASE y = 0
      <4>1. y - 1 \notin 0..15
        BY <3>1
      <4> QED BY <1>1, <4>1 DEF Register
    <3>2. CASE y # 0
      <4>1. y - 1 \in 0..14
        BY <3>2
      <4> QED BY <1>2, <4>1
    <3> QED BY <3>1, <3>2
  <2> QED BY <1>2, <1>3, <1>5, <2>1
<1>8. s = t
  BY <1>6, <1>7 DEF Register
<1> QED BY <1>8 DEF s, t, e

LEMMA FreshIs ==
  ASSUME NEW f, NEW g
  PROVE  Fresh(f) \in Register /\ SymDiff(Fresh(f), Fresh(g)) = Fresh(~(f <=> g))
BY DEF Fresh, Register, SymDiff

\* Where two packets differ in a bit, the difference of the registers gets bit 15.
LEMMA StepDifference ==
  ASSUME NEW d \in Register, NEW e \in Register, NEW byte, NEW other, NEW b
  PROVE  SymDiff(CrcStep(d, byte, b), CrcStep(e, other, b)) =
           Shift(SymDiff(SymDiff(d, e), Fresh(~(Bit(byte, b) <=> Bit(other, b)))))
<1> DEFINE f == Fresh(Bit(byte, b))
           g == Fresh(Bit(other, b))
           h == Fresh(~(Bit(byte, b) <=> Bit(other, b)))
<1>1. f \in Register /\ g \in Register /\ h \in Register /\ SymDiff(f, g) = h
  BY FreshIs
<1>2. CrcStep(d, byte, b) = Shift(SymDiff(d, f)) /\ CrcStep(e, other, b) = Shift(SymDiff(e, g))
  BY StepIsShift
<1> HIDE DEF f, g, h
<1>3. SymDiff(d, f) \in Register /\ SymDiff(e, g) \in Register
  BY <1>1, InSymDiff
<1>4. SymDiff(CrcStep(d, byte, b), CrcStep(e, other, b)) =
        Shift(SymDiff(SymDiff(d, f), SymDiff(e, g)))
  BY <1>2, <1>3, ShiftIsLinear
<1>5. SymDiff(SymDiff(d, f), SymDiff(e, g)) = SymDiff(SymDiff(d, e), h)
  BY <1>1 DEF SymDiff
<1> QED BY <1>4, <1>5 DEF h

\* What a bit that was flipped has become when so many bits have been taken.
Gone(a, j) == IF a < j THEN Shifted[15 + j - a] ELSE {}

LEMMA GoneOn ==
  ASSUME NEW a \in Nat, NEW j \in 0..295
  PROVE  /\ Gone(a, j) \in Register
         /\ Gone(a, j + 1) = Shift(SymDiff(Gone(a, j), Fresh(j = a)))
<1>1. Shift({}) = {} /\ {} \in Register
  BY ShiftIsUp DEF Register
<1>2. \A d : SymDiff(d, {}) = d /\ SymDiff({}, d) = d
  BY DEF SymDiff
<1>3. CASE a < j
  <2> DEFINE m == 15 + j - a
  <2>1. m \in 0..LAST - 1 /\ m \in 0..LAST /\ 15 + (j + 1) - a = m + 1 /\ a < j + 1 /\ j # a
    BY <1>3 DEF LAST
  <2>2. Gone(a, j) = Shifted[m] /\ Gone(a, j + 1) = Shifted[m + 1] /\ Fresh(j = a) = {}
    BY <1>3, <2>1 DEF Gone, Fresh
  <2> HIDE DEF m
  <2> QED BY <1>2, <2>1, <2>2, ShiftedIs
<1>4. CASE a = j
  <2>1. ~(a < j) /\ a < j + 1 /\ 15 + (j + 1) - a = 16
    BY <1>4
  <2>2. Gone(a, j) = {} /\ Gone(a, j + 1) = Shifted[16] /\ Fresh(j = a) = {15}
    BY <1>4, <2>1 DEF Gone, Fresh
  <2>3. Shifted[16] = Shift({15})
    <3>1. 15 \in 0..LAST - 1 /\ 15 + 1 = 16 /\ 15 \in 0..15
      BY DEF LAST
    <3>2. Shifted[15] = {15}
      BY <3>1, ShiftedFirst
    <3> QED BY <3>1, <3>2, ShiftedIs
  <2> QED BY <1>1, <1>2, <2>2, <2>3
<1>5. CASE a > j
  <2>1. ~(a < j) /\ ~(a < j + 1) /\ j # a
    BY <1>5
  <2>2. Gone(a, j) = {} /\ Gone(a, j + 1) = {} /\ Fresh(j = a) = {}
    BY <2>1 DEF Gone, Fresh
  <2> QED BY <1>1, <1>2, <2>2
<1>6. a < j \/ a = j \/ a > j
  OBVIOUS
<1> QED BY <1>3, <1>4, <1>5, <1>6

LEMMA NotGoneYet ==
  \A a \in Nat : Gone(a, 0) = {}
BY DEF Gone

\* Two packets are the same but for these bits.
DifferIn(p, q, bits) ==
  /\ Len(q) = Len(p)
  /\ \A j \in 0..8 * Len(p) - 1 : ~(BitAt(p, j) <=> BitAt(q, j)) <=> j \in bits

LEMMA RegistersDiffer ==
  ASSUME NEW p \in Seq(Byte), NEW q \in Seq(Byte), NEW n \in Nat, n <= 37, n <= Len(p),
         NEW k \in Nat, NEW l \in Nat, k # l, DifferIn(p, q, {k, l})
  PROVE  SymDiff(Registers(p)[n], Registers(q)[n]) = SymDiff(Gone(k, 8 * n), Gone(l, 8 * n))
<1> DEFINE x(j) == BitsTaken(p, j)
           y(j) == BitsTaken(q, j)
           T == {j \in Nat : j <= 8 * n => SymDiff(x(j), y(j)) = SymDiff(Gone(k, j), Gone(l, j))}
<1>1. /\ Len(p) \in Nat /\ Len(q) = Len(p)
      /\ \A j \in 0..8 * Len(p) - 1 : ~(BitAt(p, j) <=> BitAt(q, j)) <=> j \in {k, l}
  BY LenProperties DEF DifferIn
<1>2. /\ \A j \in 0..8 * Len(p) : x(j) \in Register
      /\ x(0) = {}
      /\ \A j \in 0..8 * Len(p) - 1 : x(j + 1) = CrcStep(x(j), p[j \div 8 + 1], j % 8)
      /\ \A m \in 0..Len(p) : x(8 * m) = Registers(p)[m]
  BY BitsTakenAre
<1>3. /\ \A j \in 0..8 * Len(p) : y(j) \in Register
      /\ y(0) = {}
      /\ \A j \in 0..8 * Len(p) - 1 : y(j + 1) = CrcStep(y(j), q[j \div 8 + 1], j % 8)
      /\ \A m \in 0..Len(p) : y(8 * m) = Registers(q)[m]
  <2>1. /\ \A j \in 0..8 * Len(q) : y(j) \in Register
        /\ y(0) = {}
        /\ \A j \in 0..8 * Len(q) - 1 : y(j + 1) = CrcStep(y(j), q[j \div 8 + 1], j % 8)
        /\ \A m \in 0..Len(q) : y(8 * m) = Registers(q)[m]
    BY BitsTakenAre
  <2> QED BY <1>1, <2>1
<1> HIDE DEF x, y
<1>4. 0 \in T
  <2>1. SymDiff({}, {}) = {}
    BY DEF SymDiff
  <2> QED BY <1>2, <1>3, <2>1, NotGoneYet
<1>5. ASSUME NEW j \in T PROVE j + 1 \in T
  <2> SUFFICES ASSUME j + 1 <= 8 * n
               PROVE  SymDiff(x(j + 1), y(j + 1)) = SymDiff(Gone(k, j + 1), Gone(l, j + 1))
    OBVIOUS
  <2> DEFINE r == Gone(k, j)
             s == Gone(l, j)
  <2>1. /\ j \in 0..8 * Len(p) - 1 /\ j \in 0..8 * Len(p) /\ j \in 0..295
    BY <1>1
  <2>2. SymDiff(x(j), y(j)) = SymDiff(r, s)
    BY <2>1
  <2>3. /\ r \in Register /\ Gone(k, j + 1) = Shift(SymDiff(r, Fresh(j = k)))
        /\ s \in Register /\ Gone(l, j + 1) = Shift(SymDiff(s, Fresh(j = l)))
    <3>1. \A a \in Nat, i \in 0..295 :
            /\ Gone(a, i) \in Register
            /\ Gone(a, i + 1) = Shift(SymDiff(Gone(a, i), Fresh(i = a)))
      BY GoneOn
    <3>2. j \in 0..295 /\ k \in Nat /\ l \in Nat
      BY <2>1
    <3> HIDE DEF T
    <3> QED BY <3>1, <3>2
  <2> HIDE DEF r, s, T
  <2>4. x(j) \in Register /\ y(j) \in Register
    BY <1>2, <1>3, <2>1
  <2>5. SymDiff(x(j + 1), y(j + 1)) = Shift(SymDiff(SymDiff(x(j), y(j)), Fresh(j \in {k, l})))
    <3> DEFINE byte == p[j \div 8 + 1]
               other == q[j \div 8 + 1]
               b == j % 8
    <3>1. x(j + 1) = CrcStep(x(j), byte, b) /\ y(j + 1) = CrcStep(y(j), other, b)
      BY <1>2, <1>3, <2>1
    <3>2. ~(Bit(byte, b) <=> Bit(other, b)) <=> j \in {k, l}
      <4>1. BitAt(p, j) = Bit(byte, b) /\ BitAt(q, j) = Bit(other, b)
        BY DEF BitAt
      <4> HIDE DEF byte, other, b
      <4> QED BY <1>1, <2>1, <4>1
    <3> HIDE DEF byte, other, b
    <3>3. Fresh(~(Bit(byte, b) <=> Bit(other, b))) = Fresh(j \in {k, l})
      BY <3>2 DEF Fresh
    <3> QED BY <2>4, <3>1, <3>3, StepDifference
  <2>6. /\ Fresh(j = k) \in Register /\ Fresh(j = l) \in Register
        /\ SymDiff(Fresh(j = k), Fresh(j = l)) = Fresh(j \in {k, l})
    BY DEF Fresh, Register, SymDiff
  <2> DEFINE f == Fresh(j = k)
             g == Fresh(j = l)
             h == Fresh(j \in {k, l})
  <2>7. f \in Register /\ g \in Register /\ SymDiff(f, g) = h
    BY <2>6
  <2>8. /\ Gone(k, j + 1) = Shift(SymDiff(r, f)) /\ Gone(l, j + 1) = Shift(SymDiff(s, g))
        /\ SymDiff(x(j + 1), y(j + 1)) = Shift(SymDiff(SymDiff(r, s), h))
    BY <2>2, <2>3, <2>5
  <2> HIDE DEF f, g, h
  <2>9. SymDiff(SymDiff(r, s), h) = SymDiff(SymDiff(r, f), SymDiff(s, g))
    BY <2>7 DEF SymDiff
  <2>10. SymDiff(r, f) \in Register /\ SymDiff(s, g) \in Register
    BY <2>3, <2>7, InSymDiff
  <2> QED BY <2>8, <2>9, <2>10, ShiftIsLinear
<1> HIDE DEF T
<1>6. T = Nat
  BY <1>4, <1>5, Induction DEF T
<1>7. SymDiff(x(8 * n), y(8 * n)) = SymDiff(Gone(k, 8 * n), Gone(l, 8 * n))
  <2>1. 8 * n \in T /\ 8 * n <= 8 * n
    BY <1>6
  <2> QED BY <2>1 DEF T
<1>8. n \in 0..Len(p)
  BY <1>1
<1> QED BY <1>2, <1>3, <1>7, <1>8

\* Two flipped bits break the seal of a packet, whatever is in it.
LEMMA TwoFlipsBreak ==
  ASSUME NEW p \in Seq(Byte), NEW q \in Seq(Byte), NEW n \in Nat, n <= 37, Len(p) = n + 2,
         NEW k \in 0..8 * Len(p) - 1, NEW l \in 0..8 * Len(p) - 1, k < l,
         DifferIn(p, q, {k, l}), Sealed(p)
  PROVE  ~Sealed(q)
<1> SUFFICES ASSUME Sealed(q) PROVE FALSE
  OBVIOUS
<1> DEFINE x == Registers(p)[n]
           y == Registers(q)[n]
<1>1. /\ k \in Nat /\ l \in Nat /\ k <= 8 * n + 15 /\ l <= 8 * n + 15
      /\ n <= Len(p) /\ k # l /\ Len(p) - 2 = n
  OBVIOUS
<1>2. /\ Len(q) = Len(p)
      /\ \A j \in 0..8 * n + 15 : ~(BitAt(p, j) <=> BitAt(q, j)) <=> j \in {k, l}
  BY DEF DifferIn
<1>3. SymDiff(x, y) = SymDiff(Gone(k, 8 * n), Gone(l, 8 * n))
  BY <1>1, RegistersDiffer
<1>4. /\ x = {b \in 0..15 : BitAt(p, 8 * n + b)}
      /\ y = {b \in 0..15 : BitAt(q, 8 * n + b)}
  BY <1>1, <1>2 DEF Sealed
<1> HIDE DEF x, y
<1>5. SymDiff(x, y) = {b \in 0..15 : 8 * n + b \in {k, l}}
  <2>1. \A b \in 0..15 : ~(BitAt(p, 8 * n + b) <=> BitAt(q, 8 * n + b)) <=> 8 * n + b \in {k, l}
    <3>1. \A b \in 0..15 : 8 * n + b \in 0..8 * n + 15
      OBVIOUS
    <3> QED BY <1>2, <3>1
  <2> QED BY <1>4, <2>1 DEF SymDiff
<1>6. /\ k < 8 * n => Gone(k, 8 * n) = Shifted[15 + 8 * n - k]
      /\ l < 8 * n => Gone(l, 8 * n) = Shifted[15 + 8 * n - l]
      /\ k >= 8 * n => Gone(k, 8 * n) = {}
      /\ l >= 8 * n => Gone(l, 8 * n) = {}
  <2>1. (k >= 8 * n => ~(k < 8 * n)) /\ (l >= 8 * n => ~(l < 8 * n))
    OBVIOUS
  <2> QED BY <2>1 DEF Gone
<1>7. \A d, e : SymDiff(d, e) = {} => d = e
  <2> SUFFICES ASSUME NEW d, NEW e, SymDiff(d, e) = {} PROVE d = e
    OBVIOUS
  <2>1. \A z : z \in d => z \in e
    BY DEF SymDiff
  <2>2. \A z : z \in e => z \in d
    BY DEF SymDiff
  <2> QED BY <2>1, <2>2
<1>8. \A d : SymDiff(d, {}) = d
  BY DEF SymDiff
<1>9. CASE l < 8 * n
  <2> DEFINE a == 15 + 8 * n - l
             b == 15 + 8 * n - k
  <2>1. a \in 0..311 /\ b \in 0..311 /\ a < b /\ k < 8 * n
    BY <1>1, <1>9
  <2>2. Gone(k, 8 * n) = Shifted[b] /\ Gone(l, 8 * n) = Shifted[a]
    BY <1>6, <1>9, <2>1
  <2>3. {c \in 0..15 : 8 * n + c \in {k, l}} = {}
    <3>1. \A c \in 0..15 : 8 * n + c # k /\ 8 * n + c # l
      BY <1>1, <1>9, <2>1
    <3> QED BY <3>1, Zenon
  <2> HIDE DEF a, b
  <2>4. SymDiff(Shifted[b], Shifted[a]) = {}
    BY <1>3, <1>5, <2>2, <2>3
  <2> QED BY <1>7, <2>1, <2>4, ShiftedApart
<1>10. CASE k < 8 * n /\ l >= 8 * n
  <2> DEFINE a == l - 8 * n
             b == 15 + 8 * n - k
  <2>1. a \in 0..15 /\ a \in 0..311 /\ b \in 0..311 /\ a < b /\ 8 * n + a = l
    BY <1>1, <1>10
  <2>2. Gone(k, 8 * n) = Shifted[b] /\ Gone(l, 8 * n) = {}
    BY <1>6, <1>10
  <2>3. {c \in 0..15 : 8 * n + c \in {k, l}} = {a}
    <3>1. \A c \in 0..15 : 8 * n + c # k /\ (8 * n + c = l <=> c = a)
      BY <1>1, <1>10
    <3> HIDE DEF a
    <3>2. \A c : c \in {d \in 0..15 : 8 * n + d \in {k, l}} <=> c \in {a}
      BY <2>1, <3>1, Zenon
    <3> QED BY <3>2, Zenon
  <2> HIDE DEF a, b
  <2>4. Shifted[b] = {a} /\ Shifted[a] = {a}
    BY <1>3, <1>5, <1>8, <2>1, <2>2, <2>3, ShiftedFirst
  <2> QED BY <2>1, <2>4, ShiftedApart
<1>11. CASE k >= 8 * n
  <2> DEFINE a == k - 8 * n
  <2>1. a \in 0..15 /\ 8 * n + a = k /\ l >= 8 * n
    BY <1>1, <1>11
  <2>2. a \in {c \in 0..15 : 8 * n + c \in {k, l}}
    BY <2>1
  <2>3. Gone(k, 8 * n) = {} /\ Gone(l, 8 * n) = {}
    BY <1>6, <1>11, <2>1
  <2> QED BY <1>3, <1>5, <1>8, <2>2, <2>3
<1>12. l < 8 * n \/ (k < 8 * n /\ l >= 8 * n) \/ k >= 8 * n
  OBVIOUS
<1> QED BY <1>9, <1>10, <1>11, <1>12

-----------------------------------------------------------------------------
(* Noise: the parity of the packet counts the flipped bits.                *)

Counted(p, flips) == (Count(crc_register(p)) - Cardinality(flips)) % 2 = 0

FlipsCounted ==
  /\ IsFiniteSet(flipped)
  /\ phase = "sending" => Counted(wire, flipped)
  /\ phase \in {"answering", "received"} =>
       Len(wire) = BUFFSIZE_NI2C \/ (Len(wire) \in 3..35 /\ Counted(wire, flipped))

\* Noise that is odd when it ends never gets through: not to the chip, and not
\* to the host, as long as it spares the length that the host goes by.
OddNoiseUnheard ==
  Cardinality(flipped) % 2 = 1 =>
    /\ phase = "sending" => Decode(wire) = Unheard
    /\ phase = "received" /\ Len(wire) # BUFFSIZE_NI2C /\ wire[1] = Len(wire) =>
         result[1] = "error"

NoiseInv ==
  /\ PacketsInv
  /\ FlipsCounted
  /\ OddNoiseUnheard
  /\ phase \in {"idle", "sending"} => heard = Unheard
  /\ phase = "sending" /\ flipped = {} => wire = Packet(command)

LEMMA OddIsOdd ==
  ASSUME NEW p, NEW flips, IsFiniteSet(flips), Counted(p, flips),
         Cardinality(flips) % 2 = 1
  PROVE  ~Even(p)
<1>1. PICK n \in Int, m \in Int : n = Count(crc_register(p)) /\ m = Cardinality(flips)
  <2>1. Count(crc_register(p)) \in Int /\ Cardinality(flips) \in Int
    BY CountType, FS_CardinalityType
  <2> QED BY <2>1, Zenon
<1>2. (n - m) % 2 = 0 /\ m % 2 = 1
  BY <1>1, Zenon DEF Counted
<1>3. n % 2 # 0
  BY <1>2
<1> QED BY <1>1, <1>3, Zenon DEF Even

LEMMA NoneCounted ==
  ASSUME NEW p, Even(p)
  PROVE  Counted(p, {})
<1>1. PICK n \in Int : n = Count(crc_register(p))
  <2>1. Count(crc_register(p)) \in Int
    BY CountType
  <2> QED BY <2>1, Zenon
<1>2. n % 2 = 0
  BY <1>1, Zenon DEF Even
<1>3. (n - 0) % 2 = 0
  BY <1>2
<1>4. Cardinality({}) = 0
  BY FS_EmptySet
<1> QED BY <1>1, <1>3, <1>4, Zenon DEF Counted

LEMMA OneMoreCounted ==
  ASSUME NEW p, NEW q, NEW flips, NEW k, IsFiniteSet(flips), k \notin flips,
         Counted(p, flips),
         (Count(crc_register(q)) - Count(crc_register(p)) - 1) % 2 = 0
  PROVE  Counted(q, flips \cup {k})
<1>1. PICK n \in Int, l \in Int, m \in Int :
        n = Count(crc_register(p)) /\ l = Count(crc_register(q)) /\ m = Cardinality(flips)
  <2>1. /\ Count(crc_register(p)) \in Int /\ Count(crc_register(q)) \in Int
        /\ Cardinality(flips) \in Int
    BY CountType, FS_CardinalityType
  <2> QED BY <2>1, Zenon
<1>2. (n - m) % 2 = 0 /\ (l - n - 1) % 2 = 0
  BY <1>1, Zenon DEF Counted
<1>3. (l - (m + 1)) % 2 = 0
  BY <1>2
<1>4. Cardinality(flips \cup {k}) = Cardinality(flips) + 1
  BY FS_AddElement
<1> QED BY <1>1, <1>3, <1>4, Zenon DEF Counted

LEMMA NoiseStart == Init => NoiseInv
<1> SUFFICES ASSUME Init PROVE NoiseInv
  OBVIOUS
<1>1. IsFiniteSet({}) /\ Cardinality({}) = 0
  BY FS_EmptySet
<1> QED BY <1>1, PacketsStart DEF Init, NoiseInv, FlipsCounted, OddNoiseUnheard

LEMMA NoiseStep ==
  ASSUME NoiseInv, [Next]_vars
  PROVE  NoiseInv'
<1> USE DEF BUFFSIZE_NI2C
<1>1. PacketsInv'
  BY PacketsStep DEF NoiseInv
<1>2. /\ wire \in Seq(Byte) /\ Len(wire) <= 84
      /\ reply \in Seq(Byte) /\ Len(reply) <= 32
      /\ phase # "idle" => command \in Command
      /\ phase = "idle" => flipped = {}
      /\ flipped \subseteq 0..8 * Len(wire) - 1
  BY DEF NoiseInv, PacketsInv, ExchangeTypes, TypeOK
<1>3. /\ IsFiniteSet(flipped)
      /\ phase = "sending" => Counted(wire, flipped)
      /\ phase \in {"answering", "received"} =>
           Len(wire) = 84 \/ (Len(wire) \in 3..35 /\ Counted(wire, flipped))
      /\ phase \in {"idle", "sending"} => heard = Unheard
      /\ phase = "sending" /\ flipped = {} => wire = Packet(command)
  BY DEF NoiseInv, FlipsCounted
<1>4. IsFiniteSet({}) /\ Cardinality({}) = 0
  BY FS_EmptySet
<1>5. ASSUME phase = "sending", Cardinality(flipped) % 2 = 1
      PROVE  Decode(wire) = Unheard
  <2>1. ~Even(wire)
    BY <1>3, <1>5, OddIsOdd
  <2>2. ~Intact(wire)
    BY <1>2, <2>1, IntactIsSealed
  <2> QED BY <2>2 DEF Decode
<1>6. ASSUME NEW c \in Command, Send(c) PROVE NoiseInv'
  <2>1. /\ phase = "idle" /\ phase' = "sending" /\ command' = c /\ wire' = Packet(c)
        /\ flipped' = {} /\ heard' = Unheard
    BY <1>2, <1>3, <1>6 DEF Send
  <2>2. Counted(Packet(c), {})
    BY CommandsAreEven, NoneCounted, PacketsAssumption
  <2>3. FlipsCounted'
    BY <1>4, <2>1, <2>2 DEF FlipsCounted
  <2>4. OddNoiseUnheard'
    BY <1>4, <2>1 DEF OddNoiseUnheard
  <2> QED BY <1>1, <2>1, <2>3, <2>4 DEF NoiseInv
<1>7. ASSUME Noise PROVE NoiseInv'
  <2>1. PICK k \in 0..8 * Len(wire) - 1 :
          /\ \A l \in flipped : l < k
          /\ flipped' = flipped \cup {k}
          /\ wire' = [wire EXCEPT ![k \div 8 + 1] = Flip(@, k % 8)]
    BY <1>7 DEF Noise
  <2>2. /\ phase' = phase /\ command' = command /\ heard' = heard
        /\ phase \in {"sending", "answering"}
    BY <1>7 DEF Noise
  <2>3. /\ wire' \in Seq(Byte) /\ Len(wire') = Len(wire)
        /\ (Count(crc_register(wire')) - Count(crc_register(wire)) - 1) % 2 = 0
    BY <1>2, <2>1, FlipIsOdd
  <2>4. k \notin flipped
    <3>1. k \in Int /\ ~(k < k)
      OBVIOUS
    <3> QED BY <2>1, <3>1
  <2>5. Counted(wire, flipped) => Counted(wire', flipped')
    BY <1>3, <2>1, <2>3, <2>4, OneMoreCounted
  <2>6. IsFiniteSet(flipped') /\ flipped' # {}
    BY <1>3, <2>1, FS_AddElement
  <2>7. FlipsCounted'
    BY <1>3, <2>2, <2>3, <2>5, <2>6 DEF FlipsCounted
  <2>8. OddNoiseUnheard'
    <3> SUFFICES ASSUME Cardinality(flipped') % 2 = 1, phase = "sending"
                 PROVE  Decode(wire') = Unheard
      BY <2>2 DEF OddNoiseUnheard, Decode
    <3>1. Counted(wire', flipped')
      BY <1>3, <2>5
    <3>2. ~Even(wire')
      BY <2>6, <3>1, OddIsOdd
    <3>3. ~Intact(wire')
      BY <2>3, <3>2, IntactIsSealed
    <3> QED BY <3>3 DEF Decode
  <2> QED BY <1>1, <1>3, <2>2, <2>6, <2>7, <2>8 DEF NoiseInv
<1>8. ASSUME ChipAnswers PROVE NoiseInv'
  <2>1. /\ phase' = "answering" /\ flipped' = {} /\ wire' = generate_answer_packet(reply')
    BY <1>8 DEF ChipAnswers
  <2>2. reply' \in Seq(Byte) /\ Len(reply') <= 32
    BY <1>1 DEF PacketsInv, ExchangeTypes
  <2>3. Len(wire') \in 3..35
    <3>1. Len(wire') = 3 + Len(reply')
      BY <2>1, <2>2, AnswerPacketIs
    <3>2. Len(reply') \in Nat
      BY <2>2, LenProperties
    <3>3. \A n \in Nat : n <= 32 => 3 + n \in 3..35
      OBVIOUS
    <3>4. 3 + Len(reply') \in 3..35
      BY <2>2, <3>2, <3>3, Zenon
    <3> QED BY <3>1, <3>4, Zenon
  <2>4. Counted(generate_answer_packet(reply'), {})
    BY <2>2, AnswersAreEven, NoneCounted
  <2>5. FlipsCounted'
    BY <1>4, <2>1, <2>3, <2>4 DEF FlipsCounted
  <2>6. OddNoiseUnheard'
    BY <1>4, <2>1 DEF OddNoiseUnheard
  <2> QED BY <1>1, <2>1, <2>5, <2>6 DEF NoiseInv
<1>9. ASSUME Silence PROVE NoiseInv'
  <2>1. phase' = "answering" /\ flipped' = {}
    BY <1>9 DEF Silence
  <2>2. Len(wire') = 84
    <3>1. PICK level : wire' = [n \in 1..84 |-> level]
      BY <1>9 DEF Silence
    <3> QED BY <3>1
  <2>3. FlipsCounted'
    BY <1>4, <2>1, <2>2 DEF FlipsCounted
  <2>4. OddNoiseUnheard'
    BY <1>4, <2>1 DEF OddNoiseUnheard
  <2> QED BY <1>1, <2>1, <2>3, <2>4 DEF NoiseInv
<1>10. ASSUME HostReads PROVE NoiseInv'
  <2>1. /\ phase = "answering" /\ phase' = "received" /\ wire' = wire /\ flipped' = flipped
        /\ \/ LengthOutOfBounds
           \/ ~LengthOutOfBounds /\ result' = Checked(SubSeq(Buffer, 1, Buffer[1]))
    BY <1>10 DEF HostReads
  <2>2. FlipsCounted'
    BY <1>3, <2>1 DEF FlipsCounted
  <2>3. OddNoiseUnheard'
    <3> SUFFICES ASSUME Cardinality(flipped) % 2 = 1, Len(wire) # 84, wire[1] = Len(wire)
                 PROVE  result'[1] = "error"
      BY <2>1 DEF OddNoiseUnheard
    <3>1. Len(wire) \in 3..35 /\ Counted(wire, flipped)
      BY <1>3, <2>1
    <3>2. ~check_packet(wire)
      <4>1. ~Even(wire)
        BY <1>3, <3>1, OddIsOdd
      <4>2. Len(wire) >= 3
        <5>1. \A n \in 3..35 : n >= 3
          OBVIOUS
        <5> QED BY <3>1, <5>1, Zenon
      <4> QED BY <1>2, <4>1, <4>2, CheckedIsSealed
    <3>3. Buffer[1] = Len(wire) /\ SubSeq(Buffer, 1, Buffer[1]) = wire
      <4>1. Len(wire) \in 1..BUFFSIZE_NI2C
        BY <3>1
      <4> QED BY <1>2, <4>1, BufferIs
    <3>4. ~LengthOutOfBounds
      <4> DEFINE n == Len(wire)
      <4>1. Buffer[1] = n /\ n \in 3..35
        BY <3>1, <3>3
      <4> HIDE DEF n
      <4> QED BY <4>1 DEF LengthOutOfBounds
    <3>5. result' = Checked(wire)
      BY <2>1, <3>3, <3>4
    <3> QED BY <3>2, <3>5 DEF Checked, Error
  <2> QED BY <1>1, <2>1, <2>2, <2>3 DEF NoiseInv
<1>11. ASSUME Return PROVE NoiseInv'
  <2>1. phase' = "idle" /\ flipped' = {} /\ heard' = Unheard
    BY <1>11 DEF Return
  <2> QED BY <1>1, <1>4, <2>1 DEF NoiseInv, FlipsCounted, OddNoiseUnheard
<1>12. CASE UNCHANGED vars
  <2>1. UNCHANGED <<phase, command, wire, flipped, heard, reply, result>>
    BY <1>12 DEF vars
  <2>2. FlipsCounted'
    BY <2>1 DEF NoiseInv, FlipsCounted
  <2>3. OddNoiseUnheard'
    BY <2>1 DEF NoiseInv, OddNoiseUnheard
  <2> QED BY <1>1, <1>3, <2>1, <2>2, <2>3 DEF NoiseInv
<1> QED BY <1>6, <1>7, <1>8, <1>9, <1>10, <1>11, <1>12 DEF Next

\* Whatever the commands, an odd number of flipped bits, in whatever places, is
\* noticed: by the chip in a command, by the host in an answer.
THEOREM OddNoiseIsNoticed == Spec => []OddNoiseUnheard
<1>1. Init => NoiseInv
  BY NoiseStart
<1>2. NoiseInv /\ [Next]_vars => NoiseInv'
  BY NoiseStep
<1>3. NoiseInv => OddNoiseUnheard
  BY DEF NoiseInv
<1> QED BY <1>1, <1>2, <1>3, PTL DEF Spec

-----------------------------------------------------------------------------
(* A few flips: the packet on the bus is the one that was sent but for the *)
(* flipped bits, so the two theorems on its CRC apply.                     *)

\* A flip shows in the bit that it flips and in no other one.
LEMMA FlipShows ==
  ASSUME NEW p \in Seq(Byte), NEW q \in Seq(Byte), NEW flips, DifferIn(p, q, flips),
         NEW k \in 0..8 * Len(q) - 1, k \notin flips
  PROVE  DifferIn(p, [q EXCEPT ![k \div 8 + 1] = Flip(@, k % 8)], flips \cup {k})
<1> DEFINE i == k \div 8 + 1
           b == k % 8
           r == [q EXCEPT ![i] = Flip(q[i], b)]
<1>1. /\ Len(p) \in Nat /\ Len(q) = Len(p)
      /\ \A j \in 0..8 * Len(p) - 1 : ~(BitAt(p, j) <=> BitAt(q, j)) <=> j \in flips
  BY LenProperties DEF DifferIn
<1>2. i \in 1..Len(q) /\ b \in 0..7 /\ k = 8 * (i - 1) + b
  BY <1>1
<1>3. r = [q EXCEPT ![k \div 8 + 1] = Flip(@, k % 8)]
  OBVIOUS
<1> HIDE DEF i, b
<1>4. q[i] \in Byte
  BY <1>2, ElementOfSeq
<1>5. Len(r) = Len(q) /\ r[i] = Flip(q[i], b) /\ \A n : n # i => r[n] = q[n]
  BY <1>2
<1> HIDE DEF r
<1>6. /\ ~(Bit(Flip(q[i], b), b) <=> Bit(q[i], b))
      /\ \A c \in 0..7 : c # b => (Bit(Flip(q[i], b), c) <=> Bit(q[i], c))
  BY <1>2, <1>4, FlipChanges
<1>7. ASSUME NEW j \in 0..8 * Len(p) - 1
      PROVE  (BitAt(r, j) <=> BitAt(q, j)) <=> j # k
  <2> DEFINE m == j \div 8 + 1
             c == j % 8
  <2>1. c \in 0..7 /\ m \in Int /\ j = 8 * (m - 1) + c
    BY <1>1
  <2>2. (BitAt(r, j) <=> Bit(r[m], c)) /\ (BitAt(q, j) <=> Bit(q[m], c))
    BY DEF BitAt
  <2> HIDE DEF m, c
  <2>3. j = k <=> m = i /\ c = b
    <3>1. \A u, v \in Int, x, y \in 0..7 : 8 * (u - 1) + x = 8 * (v - 1) + y => u = v /\ x = y
      OBVIOUS
    <3>2. i \in Int
      BY <1>2
    <3> QED BY <1>2, <2>1, <3>1, <3>2, Zenon
  <2> QED BY <1>5, <1>6, <2>1, <2>2, <2>3
<1>8. ASSUME NEW j \in 0..8 * Len(p) - 1
      PROVE  ~(BitAt(p, j) <=> BitAt(r, j)) <=> j \in flips \cup {k}
  <2>1. (BitAt(r, j) <=> BitAt(q, j)) <=> j # k
    BY <1>7
  <2>2. ~(BitAt(p, j) <=> BitAt(q, j)) <=> j \in flips
    BY <1>1
  <2>3. j \in flips \cup {k} <=> j \in flips \/ j = k
    OBVIOUS
  <2> QED BY <2>1, <2>2, <2>3
<1>9. DifferIn(p, r, flips \cup {k})
  BY <1>1, <1>5, <1>8 DEF DifferIn
<1> QED BY <1>3, <1>9

LEMMA NoneDiffer ==
  ASSUME NEW p
  PROVE  DifferIn(p, p, {})
BY DEF DifferIn

LEMMA TwoElements ==
  ASSUME NEW S, IsFiniteSet(S), Cardinality(S) = 2
  PROVE  \E x, y \in S : x # y /\ S = {x, y}
<1>1. PICK x \in S : TRUE
  BY FS_EmptySet
<1>2. IsFiniteSet(S \ {x}) /\ Cardinality(S \ {x}) = 1
  BY FS_RemoveElement
<1>3. PICK y : S \ {x} = {y}
  BY <1>2, FS_Singleton
<1> QED BY <1>3

\* Up to three flips, but some: the seal is broken.
LEMMA FewFlipsBreak ==
  ASSUME NEW p \in Seq(Byte), NEW q \in Seq(Byte), Len(p) \in 2..39, Sealed(p),
         NEW flips, IsFiniteSet(flips), Cardinality(flips) \in 1..3,
         flips \subseteq 0..8 * Len(p) - 1, DifferIn(p, q, flips), Counted(q, flips)
  PROVE  ~(Sealed(q) /\ Even(q))
<1>1. CASE Cardinality(flips) = 2
  <2>1. PICK x \in flips, y \in flips : x # y /\ flips = {x, y}
    BY <1>1, TwoElements
  <2>2. PICK k \in 0..8 * Len(p) - 1, l \in 0..8 * Len(p) - 1 : k < l /\ flips = {k, l}
    <3>1. x \in 0..8 * Len(p) - 1 /\ y \in 0..8 * Len(p) - 1 /\ {x, y} = {y, x}
      BY <2>1
    <3>2. x < y \/ y < x
      BY <2>1, <3>1
    <3> QED BY <2>1, <3>1, <3>2
  <2>3. PICK n \in Nat : Len(p) = n + 2 /\ n <= 37
    <3>1. \A m \in 2..39 : m - 2 \in Nat /\ m = (m - 2) + 2 /\ m - 2 <= 37
      OBVIOUS
    <3> QED BY <3>1, Zenon
  <2> QED BY <2>2, <2>3, TwoFlipsBreak
<1>2. CASE Cardinality(flips) # 2
  <2>1. Cardinality(flips) % 2 = 1
    BY <1>2
  <2> QED BY <2>1, OddIsOdd
<1> QED BY <1>1, <1>2

\* The chip's answer, too, is on the bus as it was given but for the flips, and a
\* command that the chip has not understood is answered with a status.
FlipsShown ==
  /\ phase = "sending" => DifferIn(Packet(command), wire, flipped)
  /\ phase \in {"answering", "received"} =>
       \/ Len(wire) = BUFFSIZE_NI2C
       \/ /\ DifferIn(generate_answer_packet(reply), wire, flipped)
          /\ flipped = {} => wire = generate_answer_packet(reply)
          /\ heard = Unheard => reply = <<255>>

LEMMA FlipsShow ==
  ASSUME NoiseInv, FlipsShown, [Next]_vars
  PROVE  FlipsShown'
<1> USE DEF BUFFSIZE_NI2C
<1>1. /\ wire \in Seq(Byte) /\ reply \in Seq(Byte) /\ Len(reply) <= 32
      /\ phase # "idle" => command \in Command
      /\ phase = "idle" => flipped = {}
  BY DEF NoiseInv, PacketsInv, ExchangeTypes
<1>2. ASSUME NEW c \in Command, Send(c) PROVE FlipsShown'
  BY <1>1, <1>2, NoneDiffer DEF Send, FlipsShown
<1>3. ASSUME Noise PROVE FlipsShown'
  <2>1. PICK k \in 0..8 * Len(wire) - 1 :
          /\ \A l \in flipped : l < k
          /\ flipped' = flipped \cup {k}
          /\ wire' = [wire EXCEPT ![k \div 8 + 1] = Flip(@, k % 8)]
    BY <1>3 DEF Noise
  <2>2. /\ phase' = phase /\ command' = command /\ reply' = reply /\ heard' = heard
        /\ phase \in {"sending", "answering"} /\ flipped' # {}
    BY <1>3, <2>1 DEF Noise
  <2>3. k \notin flipped
    <3>1. k \in Int /\ ~(k < k)
      OBVIOUS
    <3> QED BY <2>1, <3>1
  <2>4. Len(wire') = Len(wire)
    BY <1>1, <2>1, FlipIsOdd
  <2>5. ASSUME phase = "sending" PROVE DifferIn(Packet(command), wire', flipped')
    <3>1. Packet(command) \in Seq(Byte) /\ DifferIn(Packet(command), wire, flipped)
      BY <1>1, <2>5, PacketsAssumption, WellFormedArrives DEF FlipsShown, Arrives
    <3> QED BY <1>1, <2>1, <2>3, <3>1, FlipShows
  <2>6. ASSUME phase = "answering", Len(wire) # 84
        PROVE  /\ DifferIn(generate_answer_packet(reply), wire', flipped')
               /\ heard = Unheard => reply = <<255>>
    <3>1. /\ generate_answer_packet(reply) \in Seq(Byte)
          /\ DifferIn(generate_answer_packet(reply), wire, flipped)
          /\ heard = Unheard => reply = <<255>>
      BY <1>1, <2>6, AnswerPacketIs DEF FlipsShown
    <3> QED BY <1>1, <2>1, <2>3, <3>1, FlipShows
  <2> QED BY <2>2, <2>4, <2>5, <2>6 DEF FlipsShown
<1>4. ASSUME ChipAnswers PROVE FlipsShown'
  BY <1>4, NoneDiffer DEF ChipAnswers, FlipsShown
<1>5. ASSUME Silence PROVE FlipsShown'
  <2>1. phase' = "answering" /\ Len(wire') = 84
    <3>1. PICK level : wire' = [n \in 1..84 |-> level]
      BY <1>5 DEF Silence
    <3> QED BY <1>5, <3>1 DEF Silence
  <2> QED BY <2>1 DEF FlipsShown
<1>6. ASSUME HostReads \/ Return PROVE FlipsShown'
  BY <1>6 DEF HostReads, Return, FlipsShown
<1>7. CASE UNCHANGED vars
  BY <1>7 DEF vars, FlipsShown
<1> QED BY <1>2, <1>3, <1>4, <1>5, <1>6, <1>7 DEF Next

FewFlips == Cardinality(flipped) \in 0..3

LEMMA FlipsStayFew ==
  ASSUME \A n \in Nat : MaxFlips(n) \in 0..3, NoiseInv, FewFlips, [Next]_vars
  PROVE  FewFlips'
<1>1. /\ IsFiniteSet(flipped) /\ Len(wire) \in Nat
      /\ Cardinality({}) = 0 /\ Cardinality(flipped) \in Nat
  BY LenProperties, FS_EmptySet, FS_CardinalityType
     DEF NoiseInv, FlipsCounted, PacketsInv, ExchangeTypes
<1>2. ASSUME Noise PROVE FewFlips'
  <2>1. PICK k : flipped' = flipped \cup {k}
    BY <1>2 DEF Noise
  <2>2. Cardinality(flipped) < MaxFlips(Len(wire)) /\ MaxFlips(Len(wire)) \in 0..3
    BY <1>1, <1>2 DEF Noise
  <2>3. Cardinality(flipped') \in {Cardinality(flipped), Cardinality(flipped) + 1}
    BY <1>1, <2>1, FS_AddElement
  <2> QED BY <1>1, <2>2, <2>3 DEF FewFlips
<1>3. ASSUME NEW c \in Command, Send(c) PROVE FewFlips'
  BY <1>3 DEF Send, FewFlips
<1>4. ASSUME ChipAnswers \/ Silence \/ HostReads \/ Return PROVE FewFlips'
  <2>1. flipped' = {} \/ flipped' = flipped
    BY <1>4 DEF ChipAnswers, Silence, HostReads, Return
  <2> QED BY <1>1, <2>1 DEF FewFlips
<1>5. CASE UNCHANGED vars
  BY <1>5 DEF vars, FewFlips
<1> QED BY <1>2, <1>3, <1>4, <1>5 DEF Next

FewFlipsInv ==
  NoiseInv /\ FlipsShown /\ FewFlips /\ HeardAsMeant /\ DamageIsNoticed

LEMMA FewFlipsStart == Init => FewFlipsInv
<1> SUFFICES ASSUME Init PROVE FewFlipsInv
  OBVIOUS
<1>1. Cardinality({}) = 0
  BY FS_EmptySet
<1> QED BY <1>1, NoiseStart DEF Init, FewFlipsInv, FlipsShown, FewFlips, HeardAsMeant,
           DamageIsNoticed

\* A sent command that noise has hit breaks its seal, so the chip leaves it.
LEMMA FewFlipsUnheard ==
  ASSUME FewFlipsInv, phase = "sending"
  PROVE  Decode(wire) \in {Unheard, Meant(command)}
<1> DEFINE p == Packet(command)
<1>1. /\ wire \in Seq(Byte) /\ command \in WellFormed /\ flipped \subseteq 0..8 * Len(wire) - 1
      /\ IsFiniteSet(flipped) /\ Counted(wire, flipped)
      /\ flipped = {} => wire = p
  BY PacketsAssumption
     DEF FewFlipsInv, NoiseInv, FlipsCounted, PacketsInv, ExchangeTypes, TypeOK
<1>2. p \in Seq(Byte) /\ Len(p) <= 39 /\ Decode(p) = Meant(command) /\ Meant(command) # Unheard
  BY <1>1, WellFormedArrives, CommandsAreEven DEF Arrives
<1>3. DifferIn(p, wire, flipped) /\ Cardinality(flipped) \in 0..3
  BY DEF FewFlipsInv, FlipsShown, FewFlips
<1> HIDE DEF p
<1>4. Intact(p)
  BY <1>2 DEF Decode
<1>5. Len(p) \in 2..39 /\ Sealed(p)
  <2>1. \A m \in Nat : m >= 7 /\ m <= 39 => m \in 2..39
    OBVIOUS
  <2>2. Len(p) \in Nat /\ Len(p) >= 7
    BY <1>2, <1>4, LenProperties DEF Intact
  <2> QED BY <1>2, <1>4, <2>1, <2>2, IntactIsSealed, Zenon
<1>6. CASE flipped = {}
  BY <1>1, <1>2, <1>6
<1>7. CASE flipped # {}
  <2>1. Cardinality(flipped) \in 1..3
    BY <1>1, <1>3, <1>7, FS_EmptySet
  <2>2. flipped \subseteq 0..8 * Len(p) - 1
    BY <1>1, <1>3 DEF DifferIn
  <2>3. ~(Sealed(wire) /\ Even(wire))
    BY <1>1, <1>2, <1>3, <1>5, <2>1, <2>2, FewFlipsBreak
  <2>4. ~Intact(wire)
    BY <1>1, <2>3, IntactIsSealed
  <2> QED BY <2>4 DEF Decode
<1> QED BY <1>6, <1>7

\* What the host accepts is the answer of the chip to what was meant.
LEMMA FewFlipsNoticed ==
  ASSUME FewFlipsInv, HostReads, LengthArrived, result'[1] # "error"
  PROVE  flipped = {} /\ heard = Meant(command) /\ result'[1] = "ok"
<1> USE DEF BUFFSIZE_NI2C
<1> DEFINE p == generate_answer_packet(reply)
<1>1. /\ wire \in Seq(Byte) /\ reply \in Seq(Byte) /\ Len(reply) <= 32
      /\ flipped \subseteq 0..8 * Len(wire) - 1 /\ IsFiniteSet(flipped)
      /\ Len(wire) \in 3..35 /\ Counted(wire, flipped)
      /\ DifferIn(p, wire, flipped) /\ Cardinality(flipped) \in 0..3
      /\ flipped = {} => wire = p
      /\ heard = Unheard => reply = <<255>>
      /\ wire[1] = Len(wire) /\ HeardAsMeant
  BY DEF FewFlipsInv, NoiseInv, FlipsCounted, PacketsInv, ExchangeTypes, TypeOK, FlipsShown,
         FewFlips, LengthArrived, HostReads
<1>2. result' = Checked(wire)
  <2>1. Buffer[1] = Len(wire) /\ SubSeq(Buffer, 1, Buffer[1]) = wire
    <3>1. Len(wire) \in 1..BUFFSIZE_NI2C
      BY <1>1
    <3> QED BY <1>1, <3>1, BufferIs
  <2>2. ~LengthOutOfBounds
    <3> DEFINE n == Len(wire)
    <3>1. Buffer[1] = n /\ n \in 3..35
      BY <1>1, <2>1
    <3> HIDE DEF n
    <3> QED BY <3>1 DEF LengthOutOfBounds
  <2> QED BY <2>1, <2>2 DEF HostReads
<1>3. /\ check_packet(wire)
      /\ ~(wire[1] = 4 /\ wire[2] \in {3, 15, 255, 17})
  BY <1>2 DEF Checked, Error
<1>4. Len(wire) >= 3
  <2>1. \A n \in 3..35 : n >= 3
    OBVIOUS
  <2> QED BY <1>1, <2>1, Zenon
<1>5. Sealed(wire) /\ Even(wire)
  BY <1>1, <1>3, <1>4, CheckedIsSealed
<1>6. flipped = {}
  <2> SUFFICES ASSUME flipped # {} PROVE FALSE
    OBVIOUS
  <2>1. Cardinality(flipped) \in 1..3
    BY <1>1, FS_EmptySet
  <2>2. p \in Seq(Byte) /\ p[1] = Len(p) /\ check_packet(p)
    BY <1>1, AnswerPacketIs
  <2>3. Len(p) = Len(wire)
    BY <1>1 DEF DifferIn
  <2> HIDE DEF p
  <2>4. Len(p) >= 3 /\ Len(p) \in 2..39
    <3>1. \A n \in 3..35 : n >= 3 /\ n \in 2..39
      OBVIOUS
    <3> QED BY <1>1, <2>3, <3>1, Zenon
  <2>5. Sealed(p)
    BY <2>2, <2>4, CheckedIsSealed
  <2>6. flipped \subseteq 0..8 * Len(p) - 1
    BY <1>1, <2>3, Zenon
  <2> QED BY <1>1, <1>5, <2>1, <2>2, <2>4, <2>5, <2>6, FewFlipsBreak
<1>7. heard # Unheard
  <2> SUFFICES ASSUME heard = Unheard PROVE FALSE
    OBVIOUS
  <2>1. reply = <<255>> /\ wire = p
    BY <1>1, <1>6
  <2>2. p[1] = 3 + Len(reply) /\ \A i \in 1..Len(reply) : p[1 + i] = reply[i]
    BY <1>1, AnswerPacketIs
  <2>3. Len(reply) = 1 /\ reply[1] = 255 /\ 1 \in 1..Len(reply)
    BY <2>1
  <2>4. p[1] = 4 /\ p[2] = 255
    <3>1. p[1 + 1] = 255 /\ 1 + 1 = 2 /\ 3 + 1 = 4
      BY <2>2, <2>3
    <3> QED BY <2>2, <2>3, <3>1
  <2> QED BY <1>3, <2>1, <2>4
<1>8. result'[1] = "ok"
  BY <1>2, CheckedType
<1> QED BY <1>1, <1>6, <1>7, <1>8 DEF HeardAsMeant

LEMMA FewFlipsStep ==
  ASSUME \A n \in Nat : MaxFlips(n) \in 0..3, FewFlipsInv, [Next]_vars
  PROVE  FewFlipsInv'
<1>1. NoiseInv' /\ FlipsShown' /\ FewFlips'
  BY NoiseStep, FlipsShow, FlipsStayFew DEF FewFlipsInv
<1>2. HeardAsMeant /\ DamageIsNoticed
  BY DEF FewFlipsInv
<1>3. HeardAsMeant' /\ DamageIsNoticed'
  <2>1. ASSUME NEW c \in Command, Send(c) PROVE HeardAsMeant' /\ DamageIsNoticed'
    BY <2>1 DEF Send, FewFlipsInv, NoiseInv, HeardAsMeant, DamageIsNoticed
  <2>2. ASSUME Noise PROVE HeardAsMeant' /\ DamageIsNoticed'
    BY <1>2, <2>2 DEF Noise, HeardAsMeant, DamageIsNoticed
  <2>3. ASSUME ChipAnswers PROVE HeardAsMeant' /\ DamageIsNoticed'
    <3>1. Decode(wire) \in {Unheard, Meant(command)}
      BY <2>3, FewFlipsUnheard DEF ChipAnswers
    <3> QED BY <2>3, <3>1 DEF ChipAnswers, HeardAsMeant, DamageIsNoticed
  <2>4. ASSUME Silence PROVE HeardAsMeant' /\ DamageIsNoticed'
    BY <1>2, <2>4 DEF Silence, HeardAsMeant, DamageIsNoticed
  <2>5. ASSUME HostReads PROVE HeardAsMeant' /\ DamageIsNoticed'
    <3>1. /\ phase' = "received" /\ command' = command /\ wire' = wire
          /\ flipped' = flipped /\ heard' = heard
      BY <2>5 DEF HostReads
    <3>2. LengthArrived /\ result'[1] # "error" =>
            flipped = {} /\ heard = Meant(command) /\ result'[1] = "ok"
      BY <2>5, FewFlipsNoticed
    <3> QED BY <1>2, <3>1, <3>2
            DEF HeardAsMeant, DamageIsNoticed, LengthArrived
  <2>6. ASSUME Return PROVE HeardAsMeant' /\ DamageIsNoticed'
    BY <2>6 DEF Return, HeardAsMeant, DamageIsNoticed
  <2>7. CASE UNCHANGED vars
    <3>1. UNCHANGED <<phase, command, wire, flipped, heard, reply, result>>
      BY <2>7 DEF vars
    <3> QED BY <1>2, <3>1 DEF HeardAsMeant, DamageIsNoticed, LengthArrived
  <2> QED BY <2>1, <2>2, <2>3, <2>4, <2>5, <2>6, <2>7 DEF Next
<1> QED BY <1>1, <1>3 DEF FewFlipsInv

\* On a bus that flips at most three bits of a packet, the chip carries out the
\* command that was meant or none, for every command of the library.
THEOREM FewFlipsHeardAsMeant ==
  ASSUME \A n \in Nat : MaxFlips(n) \in 0..3
  PROVE  Spec => []HeardAsMeant
<1>1. Init => FewFlipsInv
  BY FewFlipsStart
<1>2. FewFlipsInv /\ [Next]_vars => FewFlipsInv'
  BY FewFlipsStep
<1>3. FewFlipsInv => HeardAsMeant
  BY DEF FewFlipsInv
<1> QED BY <1>1, <1>2, <1>3, PTL DEF Spec

\* And the caller gets nothing but the answer of the chip to that command, as
\* the chip has given it, if the byte of the length has come as it was sent.
THEOREM DamagedDataNoticed ==
  ASSUME \A n \in Nat : MaxFlips(n) \in 0..3
  PROVE  Spec => []DamageIsNoticed
<1>1. Init => FewFlipsInv
  BY FewFlipsStart
<1>2. FewFlipsInv /\ [Next]_vars => FewFlipsInv'
  BY FewFlipsStep
<1>3. FewFlipsInv => DamageIsNoticed
  BY DEF FewFlipsInv
<1> QED BY <1>1, <1>2, <1>3, PTL DEF Spec
=============================================================================
