--------------------------- MODULE PacketManager ---------------------------
(***************************************************************************)
(* The arithmetic of the packet history of one stream: the wrapping        *)
(* comparison of sequence numbers, the test of an incoming number against  *)
(* the receive window, and the two readings of a 32-bit acknowledgement    *)
(* mask.  A mask is the set of its one bits.                               *)
(***************************************************************************)
EXTENDS Integers

CONSTANTS
  SeqMod,     \* number of sequence numbers (2^32 in the code)
  MaskBits,   \* width of an acknowledgement mask (32)
  MaxRecent   \* MAX_RECENT_PACKETS (128)

ASSUME SizesAssumption ==
  /\ MaskBits \in Nat \ {0}
  /\ MaxRecent \in Nat \ {0}
  /\ SeqMod \in Nat /\ SeqMod > 2 * MaxRecent

Bits  == 0 .. MaskBits - 1
Masks == SUBSET Bits

\* The largest distance seqgt() takes for "newer", SEQ_MAX / 2.
HalfSeq == (SeqMod - 1) \div 2

SeqGt(s1, s2) ==
  \/ s1 > s2 /\ s1 - s2 <= HalfSeq
  \/ s1 < s2 /\ s2 - s1 > HalfSeq

\* a - b on unsigned sequence numbers.
SeqMinus(a, b) == IF a >= b THEN a - b ELSE a - b + SeqMod

-----------------------------------------------------------------------------

\* Faulty variant: the mask has no width.
ShiftLeftUnbounded(mask, n) == {b + n : b \in mask}

ShiftLeft(mask, n) == {b \in Bits : b - n \in mask}

(***************************************************************************)
(* A shift by MaskBits or more is undefined.  The instructions a compiler  *)
(* emits for it either take the count modulo the width or shift every bit  *)
(* out; the model allows both.                                             *)
(***************************************************************************)
ShiftCounts(n) == IF n < MaskBits THEN {n} ELSE {n % MaskBits, MaskBits}

\* The code's test that seq is not too old to be looked up in the mask.
NotTooOld(seq, last) == SeqGt(seq, SeqMinus(last, MaxRecent))

\* Faulty variant: the shift is one too far.
PositionsOneTooFar(seq, last) == {ShiftLeft({0}, n) : n \in ShiftCounts(last - seq)}

\* The masks that may stand for 1 << (last - seq - 1).
PositionsOf(seq, last) == {ShiftLeft({0}, n) : n \in ShiftCounts(last - seq - 1)}

\* Faulty variant: the packet that was the newest one is forgotten.
AdvancedMasksForgetLast(mask, seq, last) ==
  {ShiftLeft(ShiftLeft(mask, 1), n) : n \in ShiftCounts(seq - last - 1)}

\* The masks that may result when seq becomes the newest packet received.
AdvancedMasks(mask, seq, last) ==
  {ShiftLeft(ShiftLeft(mask, 1) \cup {0}, n) : n \in ShiftCounts(seq - last - 1)}

(***************************************************************************)
(* wasLocalAcked() looks a packet at distance d behind the last            *)
(* acknowledged one up in bit MaskBits - d.  AdvancedMasks and PositionsOf *)
(* put it in bit d - 1.                                                    *)
(***************************************************************************)
WasLocalAcked(seq, last, mask) ==
  \/ seq = last
  \/ /\ seq < last
     /\ last - seq <= MaskBits
     /\ MaskBits - (last - seq) \in mask
=============================================================================
