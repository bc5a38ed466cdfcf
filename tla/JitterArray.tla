---------------------------- MODULE JitterArray ----------------------------
(***************************************************************************)
(* The ring of audio frames the jitter buffer keeps, one for the main      *)
(* stream and one for the error-correction copies.  A frame stands for the *)
(* time stamp it was encoded at, so that what a slot holds can be compared *)
(* with what it is read as.  back and front are the slots of backSeq, the  *)
(* oldest time stamp, and frontSeq, the newest.                            *)
(***************************************************************************)
EXTENDS Integers, FiniteSets

CONSTANTS
  SlotCount,   \* JITTER_SLOT_COUNT (64)
  UIntMod,     \* number of values of an unsigned time stamp (2^32)
  NoFrame      \* an empty slot

ASSUME ArrayAssumption ==
  /\ SlotCount \in Nat \ {0}
  /\ UIntMod \in Nat /\ UIntMod > SlotCount
  /\ UIntMod % SlotCount = 0
  /\ NoFrame \notin Nat

SlotNos    == 0 .. SlotCount - 1
TimeStamps == 0 .. UIntMod - 1
InvalidSeq == UIntMod - 1
Frames     == TimeStamps \cup {NoFrame}

Arrays == [front : SlotNos, back : SlotNos,
           frontSeq : TimeStamps, backSeq : TimeStamps,
           slots : [SlotNos -> Frames]]

Cleared == [front |-> 0, back |-> 0, frontSeq |-> InvalidSeq, backSeq |-> InvalidSeq,
            slots |-> [i \in SlotNos |-> NoFrame]]

Empty(a) == a.frontSeq = InvalidSeq

Offset(a, seq) == (a.back + ((seq - a.backSeq) % UIntMod)) % SlotCount

Reachable(a, seq) == ~Empty(a) /\ seq <= a.frontSeq /\ seq >= a.backSeq

FrameAt(a, seq) == IF Reachable(a, seq) THEN a.slots[Offset(a, seq)] ELSE NoFrame

Has(a, seq) == FrameAt(a, seq) # NoFrame

\* The array after the frame read as seq has been moved out.
Without(a, seq) ==
  IF Has(a, seq) THEN [a EXCEPT !.slots = [a.slots EXCEPT ![Offset(a, seq)] = NoFrame]] ELSE a

\* The n slots from slot i on.
Run(i, n) == {(i + k) % SlotCount : k \in 0 .. n - 1}

Occupied(a, slots) == {i \in slots : a.slots[i] # NoFrame}

\* The slots from back to the one before front; count() leaves front out.
Count(a) ==
  CASE Empty(a) -> 0
    [] ~Empty(a) /\ a.back = a.front -> Cardinality(Occupied(a, {a.back}))
    [] OTHER -> Cardinality(Occupied(a, Run(a.back, (a.front - a.back) % SlotCount)))

\* Faulty variant: the slots are dropped, but the oldest time stamp is not moved.
DroppedSlotsOnly(a, seq) ==
  LET gone == Run(a.back, (Offset(a, seq) - a.back) % SlotCount)
  IN  [a EXCEPT !.back = Offset(a, seq),
                !.slots = [i \in SlotNos |-> IF i \in gone THEN NoFrame ELSE a.slots[i]]]

Dropped(a, seq) ==
  LET gone == Run(a.back, (Offset(a, seq) - a.back) % SlotCount)
  IN  [a EXCEPT !.back = Offset(a, seq), !.backSeq = seq,
                !.slots = [i \in SlotNos |-> IF i \in gone THEN NoFrame ELSE a.slots[i]]]

\* advance(): drops everything before seq.
Advanced(a, seq) ==
  IF Empty(a) THEN a
  ELSE IF seq > a.frontSeq THEN Cleared
  ELSE IF seq < a.backSeq THEN a
  ELSE Dropped(a, seq)

\* How many slots put() gives up to make room, which it returns.
Surplus(a, seq) ==
  IF ~Empty(a) /\ seq - a.backSeq > SlotCount THEN seq - a.backSeq - SlotCount ELSE 0

(***************************************************************************)
(* put(): the frame goes as many slots after front as seq lies after       *)
(* backSeq, and becomes the front whether or not it is the newest.         *)
(***************************************************************************)
Stored(a, seq) ==
  LET surplus == Surplus(a, seq)
      room    == IF surplus > 0 THEN Advanced(a, a.backSeq + surplus) ELSE a
      slot    == (room.front + (seq - a.backSeq)) % SlotCount
  IN  IF Empty(a)
      THEN [front |-> 0, back |-> 0, frontSeq |-> seq, backSeq |-> seq,
            slots |-> [a.slots EXCEPT ![0] = seq]]
      ELSE IF seq < a.backSeq THEN a
      ELSE [room EXCEPT !.front = slot, !.frontSeq = seq,
                        !.slots = [room.slots EXCEPT ![slot] = seq]]
=============================================================================
