-------------------------------- MODULE Crc --------------------------------
(***************************************************************************)
(* The checksum of src/crc.rs, and the definition it is checked against:   *)
(* the remainder of the message divided by the CRC-32 generator, over the  *)
(* field with two elements.  A u32 is a pair of 16-bit halves, high first, *)
(* because TLC's integers have 32 bits and a sign.                         *)
(***************************************************************************)
EXTENDS Naturals, Sequences, SequencesExt, Bitwise

Byte == 0..255
Half == 2^16

XorWords(v, w) == <<v[1] ^^ w[1], v[2] ^^ w[2]>>
ShiftRight(w, n) == <<w[1] \div 2^n, (w[1] % 2^n) * (Half \div 2^n) + w[2] \div 2^n>>
Complement(w) == <<Half - 1 - w[1], Half - 1 - w[2]>>

\* 0xEDB88320 and 0xFFFFFFFF.
Polynomial == <<60856, 33568>>
AllOnes == <<Half - 1, Half - 1>>

TableStep(c) ==
  IF c[2] % 2 = 1 THEN XorWords(Polynomial, ShiftRight(c, 1)) ELSE ShiftRight(c, 1)

\* build_table; entry e is at e + 1.
Table == <<>> \o
  [i \in 1..256 |-> FoldLeft(LAMBDA c, j : TableStep(c), <<0, i - 1>>, [j \in 1..8 |-> j])]

\* Mutant: the state is shifted by the wrong distance.
FoldShort(c, b) == XorWords(ShiftRight(c, 7), Table[((c[2] % 256) ^^ b) + 1])

\* One byte folded into the state.
FoldByte(c, b) == XorWords(ShiftRight(c, 8), Table[((c[2] % 256) ^^ b) + 1])

\* Crc::update: the bytes folded in, in order.  The fold is split in halves,
\* and looks at the state between them, to keep TLC's recursion shallow.
RECURSIVE Update(_, _)
Update(crc, bytes) ==
  LET half == Len(bytes) \div 2
      mid == Update(crc, SubSeq(bytes, 1, half))
  IN  IF bytes = <<>> THEN crc
      ELSE IF half = 0 THEN FoldByte(crc, bytes[1])
      ELSE IF mid[1] < Half THEN Update(mid, SubSeq(bytes, half + 1, Len(bytes)))
      ELSE mid

\* Crc::finish.
Finished(crc) == Complement(crc)

crc32(bytes) == Finished(Update(AllOnes, bytes))

\* u32::to_le_bytes of a checksum.
CrcBytes(crc) == <<crc[2] % 256, crc[2] \div 256, crc[1] % 256, crc[1] \div 256>>

-----------------------------------------------------------------------------
(* The reference.  A polynomial is the set of the places its ones have in  *)
(* the message, which is read from the least significant bit of its first  *)
(* byte; subtraction is symmetric difference.                              *)

Minus(p, q) == (p \ q) \cup (q \ p)

\* x^32 + x^26 + x^23 + ... + 1, by the distance from the leading term.
Generator == {0, 6, 9, 10, 16, 20, 21, 22, 24, 25, 27, 28, 30, 31, 32}

Ones(bytes) ==
  {i \in 1..(8 * Len(bytes)) : (bytes[(i - 1) \div 8 + 1] \div 2^((i - 1) % 8)) % 2 = 1}

\* Long division: the terms i to n of p are cancelled from the left.
RECURSIVE Divided(_, _, _)
Divided(p, i, n) ==
  IF i > n THEN p
  ELSE IF i \in p THEN Divided(Minus(p, {i + d : d \in Generator}), i + 1, n)
  ELSE Divided(p, i + 1, n)

\* The first 32 bits inverted, 32 zeros appended, the remainder inverted.
Remainder(bytes) ==
  LET n == 8 * Len(bytes) IN
  {i - n : i \in ((n + 1)..(n + 32)) \ Divided(Minus(Ones(bytes), 1..32), 1, n)}

\* A word as the set of its ones, the least significant first.
OnesOf(w) ==
  {i \in 1..16 : (w[2] \div 2^(i - 1)) % 2 = 1}
    \cup {i \in 17..32 : (w[1] \div 2^(i - 17)) % 2 = 1}

=============================================================================
