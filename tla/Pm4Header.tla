----------------------------- MODULE Pm4Header -----------------------------
(***************************************************************************)
(* Headers of PM4 packets (research/internal/pm4/opcodes.go, decoder.go):  *)
(* how they are built and what the decoder reads out of a dword.  A dword  *)
(* is a natural number; TLC represents those below 2^31, and no type-4 or  *)
(* type-7 header is above that.                                            *)
(***************************************************************************)
EXTENDS Integers

Bits(word, low, width) == (word \div 2^low) % 2^width

Type4 == 4 * 2^28     \* Type4Mask
Type7 == 7 * 2^28     \* Type7Mask

\* Bit b of the nibble a dword folds to: the exclusive or of that bit of its
\* eight nibbles.
FoldedBit(val, b) ==
    LET bit(n) == Bits(Bits(val, 4 * n, 4), b, 1)
    IN  (bit(0) + bit(1) + bit(2) + bit(3) + bit(4) + bit(5) + bit(6) + bit(7)) % 2

\* CalcParity: fold to a nibble and look it up; 1 for an even number of ones.
CalcParity(val) ==
    LET nibble == FoldedBit(val, 0) + 2 * FoldedBit(val, 1) + 4 * FoldedBit(val, 2)
                    + 8 * FoldedBit(val, 3)
    IN  Bits(\h9669, nibble, 1)

\* What a header has room for.  Pkt4Header and Pkt7Header do not mask the count.
RegsOfHeader    == 0 .. 2^16 - 1
CountsOfHeader4 == 0 .. 2^7 - 1
CountsOfHeader7 == 0 .. 2^14 - 1

\* Pkt4Header, Pkt7Header: the bits are disjoint for a count the header has room
\* for, and the disjunction is a sum.
Pkt4Header(reg, count) ==
    Type4 + count + CalcParity(count) * 2^7 + (reg % 2^18) * 2^8 + CalcParity(reg) * 2^27

Pkt7Header(opcode, count) ==
    Type7 + count + CalcParity(count) * 2^15 + (opcode % 2^7) * 2^16
          + CalcParity(opcode % 2^7) * 2^23

\* type4RegOffset, type4RegCount, type7Opcode, type7PayloadSize.
RegOffset(hdr)   == Bits(hdr, 8, 19)
RegCount(hdr)    == Bits(hdr, 0, 7)
Opcode(hdr)      == Bits(hdr, 16, 7)
PayloadSize(hdr) == Bits(hdr, 0, 14)

\* isType4, isType7.
IsType4(hdr) ==
    /\ Bits(hdr, 28, 4) = 4
    /\ CalcParity(RegOffset(hdr)) = Bits(hdr, 27, 1)
    /\ CalcParity(RegCount(hdr)) = Bits(hdr, 7, 1)

IsType7(hdr) ==
    /\ Bits(hdr, 24, 8) = 7 * 16
    /\ CalcParity(Opcode(hdr)) = Bits(hdr, 23, 1)
    /\ CalcParity(PayloadSize(hdr)) = Bits(hdr, 15, 1)
=============================================================================
