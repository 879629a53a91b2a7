------------------------------- MODULE IdBits --------------------------------
(***************************************************************************)
(* EqualSubset and FirstDifferenceSubset (ids/bits.go), on which the snow  *)
(* tree rests: they compare two identifiers from bit start to bit stop,    *)
(* not inclusive, a byte at a time, with masks for the first and the last  *)
(* byte.  An identifier is the tuple of its bits, in the order of their    *)
(* indices; a byte or a mask is the set of the bits that are one.          *)
(***************************************************************************)
EXTENDS Integers, Sequences, FiniteSetsExt

CONSTANT BitsPerByte

ASSUME BytesHaveBits == BitsPerByte \in Nat \ {0}

\* id[i], for the identifier as an array of bytes
Byte(id, i) == {b \in 0..(BitsPerByte - 1) : id[i * BitsPerByte + b + 1] = 1}

\* -1 << startBit
StartMask(start) == (start % BitsPerByte)..(BitsPerByte - 1)

\* Bug: the mask ends before the last bit instead of after it.
StopMaskShort(last) == 0..((last % BitsPerByte) - 1)

\* (1 << (stopBit + 1)) - 1, where stop has been decremented to last.
StopMask(last) == 0..(last % BitsPerByte)

EqualSubset(start, stop, id1, id2) ==
  LET last       == stop - 1
      startIndex == start \div BitsPerByte
      stopIndex  == last \div BitsPerByte
      same(i, m) == Byte(id1, i) \cap m = Byte(id2, i) \cap m
      between    == (startIndex + 1)..(stopIndex - 1)
  IN  \/ start > last \/ last < 0
      \/ /\ last < Len(id1)
         /\ \A i \in between : Byte(id1, i) = Byte(id2, i)
         /\ IF startIndex = stopIndex
            THEN same(startIndex, StartMask(start) \cap StopMask(last))
            ELSE /\ same(startIndex, StartMask(start))
                 /\ same(stopIndex, StopMask(last))

\* The bits in which two bytes differ under a mask, as bits of the identifier.
XorBits(i, id1, id2, mask) ==
  {i * BitsPerByte + b : b \in SymDiff(Byte(id1, i), Byte(id2, i)) \cap mask}

\* The first byte, then the ones between, then the last.
FirstOf(first, middle, end) ==
  IF first # {} THEN {Min(first)} ELSE IF middle # {} THEN {Min(middle)}
  ELSE IF end # {} THEN {Min(end)} ELSE {}

\* The index of the first difference, as a set that is empty if there is none.
FirstDifferenceSubset(start, stop, id1, id2) ==
  LET last       == stop - 1
      startIndex == start \div BitsPerByte
      stopIndex  == last \div BitsPerByte
      xor(i, m)  == XorBits(i, id1, id2, m)
      between    == (startIndex + 1)..(stopIndex - 1)
  IN  IF start > last \/ last < 0 \/ last >= Len(id1) THEN {}
      ELSE IF startIndex = stopIndex
      THEN FirstOf(xor(startIndex, StartMask(start) \cap StopMask(last)), {}, {})
      ELSE FirstOf(xor(startIndex, StartMask(start)),
                   UNION {xor(i, 0..(BitsPerByte - 1)) : i \in between},
                   xor(stopIndex, StopMask(last)))

=============================================================================
