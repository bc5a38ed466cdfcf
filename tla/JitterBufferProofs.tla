-------------------------- MODULE JitterBufferProofs --------------------------
(***************************************************************************)
(* The ring loses no frame and plays none in another's place while frames  *)
(* come in order, for a ring of any size; and the losses counted and the   *)
(* playback position are right whatever comes.                             *)
(***************************************************************************)
EXTENDS JitterBuffer, FiniteSetTheorems, TLAPS

\* Slot i, n places on in the ring.
Wrapped(i, n) == IF i + n >= SlotCount THEN i + n - SlotCount ELSE i + n

\* The frames of an array that holds at most one ring's length of time stamps lie in their
\* order from back to front.
Lined(a) ==
  /\ Empty(a) => \A i \in SlotNos : a.slots[i] = NoFrame
  /\ ~Empty(a) =>
       /\ a.backSeq <= a.frontSeq /\ a.frontSeq - a.backSeq < SlotCount
       /\ a.front = Offset(a, a.frontSeq)
       /\ \A i \in SlotNos : a.slots[i] # NoFrame =>
            /\ a.backSeq <= a.slots[i] /\ a.slots[i] <= a.frontSeq
            /\ Offset(a, a.slots[i]) = i

Inv ==
  /\ TypeOK
  /\ aligned => Lined(main) /\ Lined(ec)
  /\ LossesSinceReset

-------------------------------------------------------------------------------
(* Arithmetic of the ring                                                      *)

\* A remainder is smaller than what is divided by; of what is less than twice that, it is
\* the number itself or the number less once that.
LEMMA Remainders ==
  ASSUME NEW m \in Nat, m > 0, NEW n \in Int
  PROVE  /\ n % m \in 0 .. m - 1
         /\ n >= 0 /\ n < m => n % m = n
         /\ n >= m /\ n < m + m => n % m = n - m
         /\ n < 0 /\ n >= -m => n % m = n + m
  <1>1. n % m \in 0 .. m - 1
    OBVIOUS
  <1>2. n >= 0 /\ n < m => n % m = n
    OBVIOUS
  <1>3. n >= m /\ n < m + m => n % m = n - m
    OBVIOUS
  <1>4. n < 0 /\ n >= -m => n % m = n + m
    OBVIOUS
  <1> QED
    BY <1>1, <1>2, <1>3, <1>4

\* The numbers of the ring.
LEMMA Sizes ==
  /\ SlotCount \in Nat /\ SlotCount > 0 /\ UIntMod \in Nat /\ UIntMod > SlotCount
  /\ 0 \in SlotNos /\ InvalidSeq \in TimeStamps
  /\ TimeStamps \subseteq Nat /\ SlotNos \subseteq Nat /\ NoFrame \notin TimeStamps
  BY ArrayAssumption DEF SlotNos, TimeStamps, InvalidSeq

\* In the ring a remainder is a wrapping around.
LEMMA SlotAhead ==
  ASSUME NEW i \in SlotNos, NEW n \in SlotNos
  PROVE  (i + n) % SlotCount = Wrapped(i, n) /\ Wrapped(i, n) \in SlotNos
  BY Sizes, Remainders, i + n \in Int DEF Wrapped, SlotNos

\* Less than a ring's length on is another slot.
LEMMA StaysPut ==
  ASSUME NEW i \in Nat, i < SlotCount, NEW n \in Nat, n < SlotCount, Wrapped(i, n) = i
  PROVE  n = 0
  BY Sizes DEF Wrapped

\* Where a time stamp less than a ring's length after the oldest lies.
LEMMA OffsetAhead ==
  ASSUME NEW a, a.back \in SlotNos, a.backSeq \in TimeStamps,
         NEW t \in Nat, t >= a.backSeq, t - a.backSeq < SlotCount
  PROVE  /\ Offset(a, t) = Wrapped(a.back, t - a.backSeq) /\ t - a.backSeq \in SlotNos
         /\ Offset(a, t) \in SlotNos
  <1>1. /\ t - a.backSeq \in SlotNos
        /\ t - a.backSeq \in Int /\ t - a.backSeq < UIntMod /\ t - a.backSeq >= 0
    BY Sizes DEF SlotNos, TimeStamps
  <1>2. (t - a.backSeq) % UIntMod = t - a.backSeq
    BY <1>1, Sizes, Remainders
  <1> QED
    BY <1>1, <1>2, SlotAhead DEF Offset

\* The fields of an array, as numbers.
LEMMA ArrayFields ==
  ASSUME NEW a \in Arrays
  PROVE  /\ a.front \in SlotNos /\ a.back \in SlotNos /\ a.front \in Nat /\ a.back \in Nat
         /\ a.frontSeq \in TimeStamps /\ a.backSeq \in TimeStamps
         /\ a.frontSeq \in Nat /\ a.backSeq \in Nat
         /\ a.slots \in [SlotNos -> Frames]
  <1>1. /\ a.front \in SlotNos /\ a.back \in SlotNos
        /\ a.frontSeq \in TimeStamps /\ a.backSeq \in TimeStamps
        /\ a.slots \in [SlotNos -> Frames]
    BY DEF Arrays
  <1> QED
    BY <1>1 DEF SlotNos, TimeStamps

\* A time stamp belongs to one of the slots.
LEMMA OffsetType ==
  ASSUME NEW a \in Arrays, NEW seq \in Int
  PROVE  Offset(a, seq) \in SlotNos
  <1>1. a.back \in Nat /\ seq - a.backSeq \in Int
    BY ArrayFields
  <1>2. (seq - a.backSeq) % UIntMod \in Nat
    BY <1>1, Sizes, Remainders
  <1>3. a.back + ((seq - a.backSeq) % UIntMod) \in Int
    BY <1>1, <1>2
  <1> QED
    BY <1>3, Sizes, Remainders DEF Offset, SlotNos

\* No two time stamps less than a ring's length apart share a slot.
LEMMA WrappedDiffers ==
  ASSUME NEW i \in SlotNos, NEW n \in SlotNos, NEW k \in SlotNos, Wrapped(i, n) = Wrapped(i, k)
  PROVE  n = k
  BY Sizes DEF Wrapped, SlotNos

\* Going on from where one is gets as far as going all the way, and the way back is as far.
LEMMA WrappedOn ==
  ASSUME NEW i \in SlotNos, NEW k \in SlotNos, NEW j \in SlotNos, k <= j
  PROVE  /\ Wrapped(Wrapped(i, k), j - k) = Wrapped(i, j)
         /\ (Wrapped(i, k) - i) % SlotCount = k
  <1>1. i \in Nat /\ k \in Nat /\ j \in Nat /\ i < SlotCount /\ k < SlotCount /\ j < SlotCount
    BY Sizes DEF SlotNos
  <1>2. Wrapped(Wrapped(i, k), j - k) = Wrapped(i, j)
    BY <1>1, Sizes DEF Wrapped
  <1>3. CASE i + k >= SlotCount
    <2>1. Wrapped(i, k) - i = k - SlotCount
      BY <1>1, <1>3, Sizes DEF Wrapped
    <2>2. k - SlotCount \in Int /\ k - SlotCount < 0 /\ k - SlotCount >= -SlotCount
      BY <1>1, Sizes
    <2>3. (k - SlotCount) % SlotCount = (k - SlotCount) + SlotCount
      BY <2>2, Sizes, Remainders
    <2> QED
      BY <1>1, <1>2, <2>1, <2>3, Sizes
  <1>4. CASE i + k < SlotCount
    <2>1. Wrapped(i, k) - i = k
      BY <1>1, <1>4, Sizes DEF Wrapped
    <2>2. k % SlotCount = k
      BY <1>1, Sizes, Remainders
    <2> QED
      BY <1>2, <2>1, <2>2
  <1> QED
    BY <1>1, <1>3, <1>4, Sizes

-------------------------------------------------------------------------------
(* What the ring's operations do                                               *)

\* clear() leaves an array without a frame.
LEMMA ClearedFacts ==
  /\ Cleared \in Arrays /\ Empty(Cleared) /\ Lined(Cleared)
  /\ \A i \in SlotNos : Cleared.slots[i] = NoFrame
  BY Sizes DEF Cleared, Arrays, Frames, Empty, Lined

\* The slot that count() and advance() go through.
LEMMA RunIsInRing ==
  ASSUME NEW i \in SlotNos, NEW n \in Nat
  PROVE  Run(i, n) \subseteq SlotNos
  <1>1. ASSUME NEW k \in 0 .. n - 1
        PROVE  (i + k) % SlotCount \in SlotNos
    <2>1. i + k \in Int
      BY Sizes
    <2> QED
      BY <2>1, Sizes, Remainders DEF SlotNos
  <1> QED
    BY <1>1 DEF Run

\* The count of frames is a number.
LEMMA CountIsNat ==
  ASSUME NEW a \in Arrays
  PROVE  Count(a) \in Nat
  <1>1. ASSUME NEW slots, slots \subseteq SlotNos
        PROVE  Cardinality(Occupied(a, slots)) \in Nat
    <2>1. IsFiniteSet(SlotNos)
      BY Sizes, FS_Interval DEF SlotNos
    <2>2. Occupied(a, slots) \subseteq SlotNos
      BY <1>1 DEF Occupied
    <2> QED
      BY <2>1, <2>2, FS_Subset, FS_CardinalityType
  <1>2. (a.front - a.back) % SlotCount \in Nat /\ a.back \in SlotNos
    <2>1. a.front - a.back \in Int
      BY ArrayFields
    <2> QED
      BY <2>1, ArrayFields, Sizes, Remainders
  <1>3. {a.back} \subseteq SlotNos /\ Run(a.back, (a.front - a.back) % SlotCount) \subseteq SlotNos
    BY <1>2, RunIsInRing
  <1> QED
    BY <1>1, <1>3 DEF Count

\* Taking a frame out leaves the others where they are.
LEMMA WithoutFacts ==
  ASSUME NEW a \in Arrays, NEW seq \in TimeStamps
  PROVE  /\ Without(a, seq) \in Arrays
         /\ Lined(a) => Lined(Without(a, seq))
  <1> DEFINE b == Without(a, seq)
             slots == [a.slots EXCEPT ![Offset(a, seq)] = NoFrame]
  <1>1. CASE ~Has(a, seq)
    BY <1>1 DEF Without
  <1>2. CASE Has(a, seq)
    <2>1. b = [a EXCEPT !.slots = slots]
      BY <1>2 DEF Without
    <2>2. /\ slots \in [SlotNos -> Frames]
          /\ \A i \in SlotNos : slots[i] \in {a.slots[i], NoFrame}
      BY Sizes, OffsetType DEF Arrays, Frames
    <2> HIDE DEF slots
    <2>3. /\ b.front = a.front /\ b.back = a.back /\ b.frontSeq = a.frontSeq
          /\ b.backSeq = a.backSeq /\ b.slots = slots /\ b \in Arrays
      BY <2>1, <2>2 DEF Arrays
    <2> HIDE DEF b
    <2>4. Lined(a) => Lined(b)
      BY <2>2, <2>3 DEF Lined, Empty, Offset
    <2> QED
      BY <2>3, <2>4 DEF b
  <1> QED
    BY <1>1, <1>2

\* Moving the back forward gives up frames before it only.
LEMMA DroppedFacts ==
  ASSUME NEW a \in Arrays, NEW seq \in TimeStamps, ~Empty(a),
         seq <= a.frontSeq, seq >= a.backSeq
  PROVE  /\ Dropped(a, seq) \in Arrays
         /\ Lined(a) => Lined(Dropped(a, seq))
  <1> DEFINE b == Dropped(a, seq)
             n == (Offset(a, seq) - a.back) % SlotCount
             gone == Run(a.back, n)
             slots == [i \in SlotNos |-> IF i \in gone THEN NoFrame ELSE a.slots[i]]
  <1>1. /\ a.front \in SlotNos /\ a.back \in SlotNos
        /\ a.frontSeq \in TimeStamps /\ a.backSeq \in TimeStamps
        /\ a.frontSeq \in Nat /\ a.backSeq \in Nat /\ seq \in Nat
        /\ a.slots \in [SlotNos -> Frames]
    BY ArrayFields, Sizes
  <1>2. Offset(a, seq) \in SlotNos
    BY <1>1, OffsetType
  <1>3. slots \in [SlotNos -> Frames]
    BY <1>1 DEF Frames
  <1>4. /\ b.front = a.front /\ b.back = Offset(a, seq)
        /\ b.frontSeq = a.frontSeq /\ b.backSeq = seq /\ b.slots = slots
        /\ b \in Arrays
    <2> HIDE DEF slots
    <2>1. b = [a EXCEPT !.back = Offset(a, seq), !.backSeq = seq, !.slots = slots]
      BY DEF Dropped, slots
    <2> QED
      BY <1>2, <1>3, <2>1 DEF Arrays
  <1>5. ASSUME Lined(a)
        PROVE  Lined(b)
    <2>1. /\ a.frontSeq - a.backSeq < SlotCount /\ a.front = Offset(a, a.frontSeq)
          /\ \A i \in SlotNos : a.slots[i] # NoFrame =>
               /\ a.backSeq <= a.slots[i] /\ a.slots[i] <= a.frontSeq
               /\ Offset(a, a.slots[i]) = i
      BY <1>5 DEF Lined
    <2>2. seq - a.backSeq \in SlotNos /\ Offset(a, seq) = Wrapped(a.back, seq - a.backSeq)
      <3>1. seq - a.backSeq < SlotCount
        BY <1>1, <2>1, Sizes
      <3> QED
        BY <1>1, <3>1, OffsetAhead
    <2>3. n = seq - a.backSeq
      <3>1. seq - a.backSeq <= seq - a.backSeq
        BY <1>1
      <3> QED
        BY <1>1, <2>2, <3>1, WrappedOn
    <2>4. ASSUME NEW t \in Nat, t >= a.backSeq, t <= a.frontSeq
          PROVE  /\ t >= seq => Offset(b, t) = Offset(a, t)
                 /\ t < seq => Offset(a, t) \in gone
      <3>1. /\ Offset(a, t) = Wrapped(a.back, t - a.backSeq)
            /\ t - a.backSeq \in SlotNos
        <4>1. t - a.backSeq < SlotCount
          BY <1>1, <2>1, <2>4, Sizes
        <4> QED
          BY <1>1, <2>4, <4>1, OffsetAhead
      <3>2. ASSUME t >= seq
            PROVE  Offset(b, t) = Offset(a, t)
        <4>1. Offset(b, t) = Wrapped(b.back, t - b.backSeq)
          <5>1. t - seq < SlotCount
            BY <1>1, <2>1, <2>4, Sizes
          <5> HIDE DEF b
          <5> QED
            BY <1>2, <1>4, <2>4, <3>2, <5>1, OffsetAhead
        <4>2. seq - a.backSeq <= t - a.backSeq
              /\ t - seq = (t - a.backSeq) - (seq - a.backSeq)
          BY <1>1, <2>4, <3>2
        <4> HIDE DEF b
        <4> QED
          BY <1>1, <1>4, <2>2, <3>1, <4>1, <4>2, WrappedOn
      <3>3. ASSUME t < seq
            PROVE  Offset(a, t) \in gone
        <4>1. t - a.backSeq \in 0 .. n - 1
          BY <1>1, <2>3, <2>4, <3>3
        <4>2. Offset(a, t) = (a.back + (t - a.backSeq)) % SlotCount
          BY <1>1, <3>1, SlotAhead
        <4> QED
          BY <4>1, <4>2 DEF Run
      <3> QED
        BY <3>2, <3>3
    <2>5. ASSUME NEW i \in SlotNos, slots[i] # NoFrame
          PROVE  /\ seq <= slots[i] /\ slots[i] <= a.frontSeq
                 /\ Offset(b, slots[i]) = i
      <3>1. i \notin gone /\ slots[i] = a.slots[i]
        BY <2>5
      <3>2. slots[i] \in Nat
        BY <1>3, <2>5, Sizes DEF Frames
      <3> HIDE DEF slots, gone, n
      <3> QED
        BY <1>1, <2>1, <2>4, <2>5, <3>1, <3>2
    <2>6. Offset(b, a.frontSeq) = a.front
      <3> HIDE DEF b, n, gone, slots
      <3> QED
        BY <1>1, <2>1, <2>4
    <2>7. a.frontSeq - seq < SlotCount
      BY <1>1, <2>1, Sizes
    <2> HIDE DEF b, slots, n, gone
    <2> QED
      BY <1>4, <2>5, <2>6, <2>7 DEF Lined, Empty
  <1> QED
    BY <1>4, <1>5

\* advance() leaves the frames it keeps in line.
LEMMA AdvancedFacts ==
  ASSUME NEW a \in Arrays, NEW seq \in TimeStamps
  PROVE  /\ Advanced(a, seq) \in Arrays
         /\ Lined(a) => Lined(Advanced(a, seq))
  <1>1. a.frontSeq \in Nat /\ a.backSeq \in Nat /\ seq \in Nat
    BY ArrayFields, Sizes
  <1>2. \/ Advanced(a, seq) = a
        \/ Advanced(a, seq) = Cleared
        \/ /\ ~Empty(a) /\ seq <= a.frontSeq /\ seq >= a.backSeq
           /\ Advanced(a, seq) = Dropped(a, seq)
    BY <1>1 DEF Advanced
  <1> QED
    BY <1>2, ClearedFacts, DroppedFacts

\* put() leaves frames in line that it stores in their place.
LEMMA StoredFacts ==
  ASSUME NEW a \in Arrays, NEW seq \in TimeStamps, seq # InvalidSeq
  PROVE  /\ Stored(a, seq) \in Arrays
         /\ Lined(a) /\ InPlace(a, seq) => Lined(Stored(a, seq))
  <1> DEFINE surplus == Surplus(a, seq)
             room == IF surplus > 0 THEN Advanced(a, a.backSeq + surplus) ELSE a
             slot == (room.front + (seq - a.backSeq)) % SlotCount
             b == Stored(a, seq)
  <1>1. /\ a.front \in SlotNos /\ a.back \in SlotNos
        /\ a.frontSeq \in TimeStamps /\ a.backSeq \in TimeStamps
        /\ a.frontSeq \in Nat /\ a.backSeq \in Nat /\ seq \in Nat
        /\ a.slots \in [SlotNos -> Frames]
    BY ArrayFields, Sizes
  <1>2. CASE Empty(a)
    <2> DEFINE slots == [a.slots EXCEPT ![0] = seq]
    <2>1. /\ slots \in [SlotNos -> Frames] /\ slots[0] = seq
          /\ \A i \in SlotNos \ {0} : slots[i] = a.slots[i]
      BY <1>1, Sizes DEF Frames
    <2>2. b = [front |-> 0, back |-> 0, frontSeq |-> seq, backSeq |-> seq, slots |-> slots]
      BY <1>2 DEF Stored
    <2> HIDE DEF slots, b
    <2>3. /\ b \in Arrays /\ b.front = 0 /\ b.back = 0 /\ b.frontSeq = seq
          /\ b.backSeq = seq /\ b.slots = slots
      BY <2>1, <2>2, Sizes DEF Arrays
    <2>4. ASSUME Lined(a)
          PROVE  Lined(b)
      <3>1. \A i \in SlotNos \ {0} : slots[i] = NoFrame
        BY <1>2, <2>1, <2>4 DEF Lined
      <3>2. Offset(b, seq) = 0
        <4>1. Offset(b, seq) = Wrapped(b.back, seq - b.backSeq)
          BY <1>1, <2>3, Sizes, OffsetAhead
        <4> QED
          BY <1>1, <2>3, <4>1, Sizes DEF Wrapped
      <3>3. ~Empty(b)
        BY <2>3 DEF Empty
      <3> QED
        BY <1>1, <2>1, <2>3, <3>1, <3>2, <3>3, Sizes DEF Lined
    <2> QED
      BY <2>3, <2>4 DEF b
  <1>3. CASE ~Empty(a) /\ seq < a.backSeq
    BY <1>3 DEF Stored
  <1>4. CASE ~Empty(a) /\ seq >= a.backSeq
    <2>1. /\ surplus \in Nat /\ a.backSeq + surplus \in TimeStamps
          /\ seq - a.backSeq < SlotCount => ~(surplus > 0)
      BY <1>1, Sizes DEF Surplus, TimeStamps
    <2>2. room \in Arrays
      BY <2>1, AdvancedFacts
    <2>3. slot \in SlotNos
      <3>1. room.front \in Nat
        BY <2>2, ArrayFields
      <3>2. room.front + (seq - a.backSeq) \in Int
        BY <1>1, <3>1
      <3> HIDE DEF room
      <3> QED
        BY <3>2, Sizes, Remainders DEF SlotNos
    <2> DEFINE slots == [room.slots EXCEPT ![slot] = seq]
    <2>4. b = [room EXCEPT !.front = slot, !.frontSeq = seq, !.slots = slots]
      BY <1>1, <1>4 DEF Stored
    <2>5. /\ slots \in [SlotNos -> Frames] /\ slots[slot] = seq
          /\ \A i \in SlotNos \ {slot} : slots[i] = room.slots[i]
      <3> HIDE DEF room, slot
      <3>1. room.slots \in [SlotNos -> Frames]
        BY <2>2, ArrayFields
      <3> QED
        BY <2>3, <3>1 DEF Frames
    <2>6. /\ b.front = slot /\ b.back = room.back /\ b.frontSeq = seq
          /\ b.backSeq = room.backSeq /\ b.slots = slots /\ b \in Arrays
      <3> HIDE DEF room, slot, slots, b
      <3> QED
        BY <2>2, <2>3, <2>4, <2>5 DEF Arrays
    <2>7. ASSUME Lined(a), InPlace(a, seq)
          PROVE  Lined(b)
      <3>1. a.front = a.back /\ seq - a.backSeq < SlotCount
        BY <1>1, <1>4, <2>7 DEF InPlace
      <3>2. room = a
        BY <2>1, <3>1
      <3>3. /\ a.backSeq <= a.frontSeq /\ a.frontSeq - a.backSeq < SlotCount
            /\ a.front = Offset(a, a.frontSeq)
            /\ \A i \in SlotNos : a.slots[i] # NoFrame =>
                 /\ a.backSeq <= a.slots[i] /\ a.slots[i] <= a.frontSeq
                 /\ Offset(a, a.slots[i]) = i
        BY <1>4, <2>7 DEF Lined
      <3>4. a.frontSeq = a.backSeq
        <4>1. /\ Wrapped(a.back, a.frontSeq - a.backSeq) = a.back
              /\ a.frontSeq - a.backSeq \in SlotNos
          BY <1>1, <3>1, <3>3, OffsetAhead
        <4>2. /\ a.back \in Nat /\ a.back < SlotCount
              /\ a.frontSeq - a.backSeq \in Nat /\ a.frontSeq - a.backSeq < SlotCount
          BY <1>1, <4>1, Sizes DEF SlotNos
        <4> DEFINE n == a.frontSeq - a.backSeq
        <4>3. n = 0
          <5> HIDE DEF n
          <5>1. n \in Nat /\ n < SlotCount /\ Wrapped(a.back, n) = a.back
            BY <4>1, <4>2 DEF n
          <5> QED
            BY <4>2, <5>1, StaysPut
        <4> QED
          BY <1>1, <4>3
      <3>5. slot = Offset(a, seq)
        <4>1. Offset(a, seq) = Wrapped(a.back, seq - a.backSeq) /\ seq - a.backSeq \in SlotNos
          BY <1>1, <1>4, <3>1, OffsetAhead
        <4> QED
          BY <1>1, <3>1, <3>2, <4>1, SlotAhead
      <3> HIDE DEF slot, room, slots, b, surplus
      <3>6. \A t : Offset(b, t) = Offset(a, t)
        BY <2>6, <3>2 DEF Offset
      <3>7. ASSUME NEW i \in SlotNos, slots[i] # NoFrame
            PROVE  /\ a.backSeq <= slots[i] /\ slots[i] <= seq
                   /\ Offset(a, slots[i]) = i
        <4>1. CASE i = slot
          BY <1>1, <1>4, <2>5, <3>5, <4>1
        <4>2. CASE i # slot
          <5>1. slots[i] = a.slots[i] /\ slots[i] \in Nat
            BY <2>5, <3>2, <3>7, <4>2, Sizes DEF Frames
          <5> QED
            BY <1>1, <1>4, <3>3, <3>4, <3>7, <5>1
        <4> QED
          BY <4>1, <4>2
      <3>8. ~Empty(b)
        BY <2>6 DEF Empty
      <3> QED
        BY <1>1, <1>4, <2>6, <3>1, <3>2, <3>5, <3>6, <3>7, <3>8 DEF Lined
    <2> QED
      BY <2>6, <2>7
  <1> QED
    BY <1>1, <1>2, <1>3, <1>4

\* What lies in its order is found under its own time stamp, and only there.
LEMMA LinedIsExact ==
  ASSUME NEW a \in Arrays, Lined(a)
  PROVE  Exact(a)
  <1>1. /\ a.back \in SlotNos /\ a.backSeq \in TimeStamps /\ a.frontSeq \in Nat
        /\ a.backSeq \in Nat /\ a.slots \in [SlotNos -> Frames]
    BY ArrayFields
  <1>2. CASE Empty(a)
    BY <1>2 DEF Lined, Exact, FrameAt, Reachable
  <1>3. CASE ~Empty(a)
    <2>1. /\ a.frontSeq - a.backSeq < SlotCount
          /\ \A i \in SlotNos : a.slots[i] # NoFrame =>
               /\ a.backSeq <= a.slots[i] /\ a.slots[i] <= a.frontSeq
               /\ Offset(a, a.slots[i]) = i
      BY <1>3 DEF Lined
    <2>2. ASSUME NEW t \in Nat, t >= a.backSeq, t <= a.frontSeq
          PROVE  /\ Offset(a, t) = Wrapped(a.back, t - a.backSeq)
                 /\ t - a.backSeq \in SlotNos /\ Offset(a, t) \in SlotNos
      <3>1. t - a.backSeq < SlotCount
        BY <1>1, <2>1, <2>2, Sizes
      <3> QED
        BY <1>1, <2>2, <3>1, OffsetAhead
    <2>3. ASSUME NEW t \in TimeStamps
          PROVE  FrameAt(a, t) \in {t, NoFrame}
      <3>1. CASE ~Reachable(a, t)
        BY <3>1 DEF FrameAt
      <3>2. CASE Reachable(a, t) /\ a.slots[Offset(a, t)] # NoFrame
        <4> DEFINE v == a.slots[Offset(a, t)]
        <4>1. t \in Nat /\ t >= a.backSeq /\ t <= a.frontSeq
          BY <3>2, Sizes DEF Reachable
        <4>2. Offset(a, t) \in SlotNos
          BY <2>2, <4>1
        <4>3. v \in Nat
          BY <1>1, <3>2, <4>2, Sizes DEF Frames
        <4>4. v >= a.backSeq /\ v <= a.frontSeq /\ Offset(a, v) = Offset(a, t)
          BY <1>1, <2>1, <3>2, <4>2, <4>3
        <4> HIDE DEF v
        <4>5. v - a.backSeq = t - a.backSeq
          BY <1>1, <2>2, <4>1, <4>3, <4>4, WrappedDiffers
        <4>6. v = t
          BY <1>1, <4>1, <4>3, <4>5
        <4> QED
          BY <4>6 DEF FrameAt, v
      <3>3. CASE Reachable(a, t) /\ a.slots[Offset(a, t)] = NoFrame
        BY <3>3 DEF FrameAt
      <3> QED
        BY <3>1, <3>2, <3>3
    <2>4. ASSUME NEW i \in SlotNos, a.slots[i] # NoFrame
          PROVE  FrameAt(a, a.slots[i]) = a.slots[i]
      <3>1. a.slots[i] \in Nat
        BY <1>1, <2>4, Sizes DEF Frames
      <3>2. Reachable(a, a.slots[i]) /\ Offset(a, a.slots[i]) = i
        BY <1>1, <1>3, <2>1, <2>4, <3>1 DEF Reachable
      <3> QED
        BY <3>2 DEF FrameAt
    <2> QED
      BY <2>3, <2>4 DEF Exact
  <1> QED
    BY <1>2, <1>3

-------------------------------------------------------------------------------
(* The steps of the buffer                                                     *)

ArraysOK == main \in Arrays /\ ec \in Arrays

InOrder == aligned => Lined(main) /\ Lined(ec)

\* The bounds, as numbers.
LEMMA Bounds ==
  /\ LastTime \in Nat /\ LastTime < InvalidSeq /\ DelayLimit \in Nat
  /\ LossesToReset \in Nat /\ LossesToReset > 0 /\ GotPerDelay \in Nat
  /\ MinDelays \subseteq Nat
  BY BufferAssumption

\* The time stamps packets have are valid.
LEMMA TimesAreTimeStamps ==
  \A t \in 0 .. LastTime : t \in TimeStamps /\ t # InvalidSeq /\ t \in Nat
  BY Bounds, Sizes DEF TimeStamps, InvalidSeq

\* A signed time stamp, compared as an unsigned one.
LEMMA UnsignedType ==
  ASSUME NEW t \in Int
  PROVE  Unsigned(t) \in TimeStamps
  BY Sizes, Remainders DEF Unsigned, TimeStamps

\* The delay is a number of frames.
LEMMA DelayIsNat ==
  ASSUME NEW m \in Arrays, NEW e \in Arrays
  PROVE  Delay(m, e) \in Nat
  <1>1. Count(m) \in Nat /\ Count(e) \in Nat
    BY CountIsNat
  <1> QED
    BY <1>1 DEF Delay, MaxOf

\* Whatever is dropped first, what is put in is put in its place or ends the alignment.
LEMMA PutInArrays ==
  ASSUME TypeOK, InOrder, NEW isEc \in BOOLEAN, NEW t \in 0 .. LastTime, PutIn(isEc, t)
  PROVE  /\ ArraysOK' /\ InOrder' /\ nextFetch' \in Int /\ aligned' \in BOOLEAN
         /\ ~wasReset => nextFetch' >= nextFetch
  <1> DEFINE next == Resynced(t)
             m1   == Advanced(main, Unsigned(next - 1))
             e1   == Advanced(ec, Unsigned(next - 1))
             skip == IF Delay(m1, e1) > DelayLimit THEN 1 ELSE 0
             m2   == IF skip = 1 THEN Advanced(m1, Unsigned(next + 1)) ELSE m1
             e2   == IF skip = 1 THEN Advanced(e1, Unsigned(next + 1)) ELSE e1
             own  == Own(isEc, m2, e2)
  <1>1. next \in Int /\ (~wasReset => next = nextFetch)
    BY Bounds, TimesAreTimeStamps DEF Resynced, TypeOK
  <1>2. Unsigned(next - 1) \in TimeStamps /\ Unsigned(next + 1) \in TimeStamps
    <2>1. next - 1 \in Int /\ next + 1 \in Int
      BY <1>1
    <2> HIDE DEF next
    <2> QED
      BY <2>1, UnsignedType
  <1>3. m1 \in Arrays /\ e1 \in Arrays /\ (aligned => Lined(m1) /\ Lined(e1))
    <2> HIDE DEF next
    <2> QED
      BY <1>2, AdvancedFacts DEF TypeOK, InOrder
  <1>4. m2 \in Arrays /\ e2 \in Arrays /\ (aligned => Lined(m2) /\ Lined(e2))
    <2> HIDE DEF next, m1, e1, skip
    <2> QED
      BY <1>2, <1>3, AdvancedFacts
  <1>5. skip \in {0, 1} /\ own \in Arrays
    <2> HIDE DEF next, m1, e1, m2, e2
    <2> QED
      BY <1>4 DEF Own
  <1>6. Surplus(own, t) \in Nat
    <2> HIDE DEF own
    <2>1. own.backSeq \in Nat /\ t \in Nat
      BY <1>5, ArrayFields
    <2> QED
      BY <2>1, Sizes DEF Surplus
  <1>7. \/ nextFetch' = next /\ main' = m1 /\ ec' = e1 /\ aligned' = aligned
        \/ /\ nextFetch' = next + skip + Surplus(own, t)
           /\ main' = IF isEc THEN m2 ELSE Stored(m2, t)
           /\ ec' = IF isEc THEN Stored(e2, t) ELSE e2
           /\ aligned' = (aligned /\ InPlace(own, t))
    BY DEF PutIn
  <1>8. own = IF isEc THEN e2 ELSE m2
    BY DEF Own
  <1> HIDE DEF next, m1, e1, skip, m2, e2, own
  <1>9. CASE nextFetch' = next /\ main' = m1 /\ ec' = e1 /\ aligned' = aligned
    BY <1>1, <1>3, <1>9 DEF ArraysOK, InOrder, TypeOK
  <1>10. CASE /\ nextFetch' = next + skip + Surplus(own, t)
              /\ main' = IF isEc THEN m2 ELSE Stored(m2, t)
              /\ ec' = IF isEc THEN Stored(e2, t) ELSE e2
              /\ aligned' = (aligned /\ InPlace(own, t))
    <2>1. nextFetch' \in Int /\ (~wasReset => nextFetch' >= nextFetch)
      BY <1>1, <1>5, <1>6, <1>10 DEF TypeOK
    <2>2. t \in TimeStamps /\ t # InvalidSeq
      BY TimesAreTimeStamps
    <2>3. /\ Stored(own, t) \in Arrays
          /\ Lined(own) /\ InPlace(own, t) => Lined(Stored(own, t))
      BY <1>5, <2>2, StoredFacts
    <2>4. CASE isEc
      BY <1>4, <1>8, <1>10, <2>1, <2>3, <2>4 DEF ArraysOK, InOrder
    <2>5. CASE ~isEc
      BY <1>4, <1>8, <1>10, <2>1, <2>3, <2>5 DEF ArraysOK, InOrder
    <2> QED
      BY <2>4, <2>5
  <1> QED
    BY <1>7, <1>9, <1>10

\* HandleInput(): early, late and timely frames, and resyncs.
LEMMA HandleInputInv ==
  ASSUME Inv, NEW isEc \in BOOLEAN, NEW t \in 0 .. LastTime, HandleInput(isEc, t),
         arrived' \subseteq 0 .. LastTime, copies' \subseteq 0 .. LastTime
  PROVE  Inv'
  <1>1. CASE PutIn(isEc, t)
    <2>1. ArraysOK' /\ InOrder' /\ nextFetch' \in Int /\ aligned' \in BOOLEAN
      BY <1>1, PutInArrays DEF Inv, InOrder
    <2>2. /\ gotSinceReset' = gotSinceReset + 1 /\ wasReset' = FALSE
          /\ first' = (first \/ wasReset)
          /\ late' = (late \/ (~isEc /\ (Late(t, Resynced(t)) \/ TooLate(t, Resynced(t)))))
          /\ UNCHANGED <<minDelay, needBuffering, lostCount, lostSinceReset>>
      BY <1>1 DEF PutIn
    <2>3. first' \in BOOLEAN /\ late' \in BOOLEAN /\ wasReset' \in BOOLEAN
      BY <2>2
    <2>4. TypeOK'
      BY <2>1, <2>2, <2>3 DEF Inv, TypeOK, ArraysOK
    <2> QED
      BY <2>1, <2>2, <2>4 DEF Inv, InOrder, LossesSinceReset
  <1>2. CASE AlreadyIn(isEc, t)
    BY <1>2 DEF AlreadyIn, Inv, TypeOK, LossesSinceReset, flags, counters
  <1> QED
    BY <1>1, <1>2 DEF HandleInput

\* What is fetched from and what is skipped for it.
LEMMA FetchFacts ==
  ASSUME Inv
  PROVE  /\ FetchFrom \in Int /\ Unsigned(FetchFrom) \in TimeStamps
         /\ Skipped(main) \in Arrays /\ Skipped(ec) \in Arrays
         /\ aligned => Lined(Skipped(main)) /\ Lined(Skipped(ec))
         /\ Delay(Skipped(main), Skipped(ec)) \in Nat
         /\ ~first => FetchFrom = nextFetch
  <1>1. FetchFrom \in Int /\ (~first => FetchFrom = nextFetch)
    <2>1. Delay(main, ec) \in Nat
      BY DelayIsNat DEF Inv, TypeOK
    <2> QED
      BY <2>1, Bounds DEF FetchFrom, TooDeep, Inv, TypeOK
  <1>2. Unsigned(FetchFrom) \in TimeStamps
    BY <1>1, UnsignedType
  <1>3. /\ Skipped(main) \in Arrays /\ Skipped(ec) \in Arrays
        /\ aligned => Lined(Skipped(main)) /\ Lined(Skipped(ec))
    BY <1>2, AdvancedFacts DEF Skipped, Inv, TypeOK
  <1> QED
    BY <1>1, <1>2, <1>3, DelayIsNat

\* A frame that is taken out is not counted as lost.
LEMMA TakeOutInv ==
  ASSUME Inv, TakeOut
  PROVE  Inv'
  <1>1. /\ FetchFrom \in Int /\ Unsigned(FetchFrom) \in TimeStamps
        /\ Skipped(main) \in Arrays /\ Skipped(ec) \in Arrays
        /\ aligned => Lined(Skipped(main)) /\ Lined(Skipped(ec))
    BY FetchFacts
  <1>2. /\ main' = Without(Skipped(main), Unsigned(FetchFrom))
        /\ ec' = Without(Skipped(ec), Unsigned(FetchFrom))
        /\ nextFetch' = FetchFrom + 1
        /\ lostCount' = 0 /\ ~needBuffering' /\ needBuffering' \in BOOLEAN
        /\ first' \in BOOLEAN
        /\ UNCHANGED <<minDelay, wasReset, late, lostSinceReset, gotSinceReset,
                       arrived, copies, aligned>>
    BY DEF TakeOut
  <1>3. /\ main' \in Arrays /\ ec' \in Arrays
        /\ aligned => Lined(main') /\ Lined(ec')
    BY <1>1, <1>2, WithoutFacts
  <1>4. nextFetch' \in Int
    BY <1>1, <1>2
  <1>5. lostCount' \in 0 .. LossesToReset - 1
    BY <1>2, Bounds
  <1>6. TypeOK'
    BY <1>2, <1>3, <1>4, <1>5 DEF Inv, TypeOK
  <1> QED
    BY <1>2, <1>3, <1>6 DEF Inv, TypeOK, LossesSinceReset

\* A miss counts one loss, unless the buffer is filling.
LEMMA MissInv ==
  ASSUME Inv, MissWhileBuffering \/ Miss
  PROVE  Inv'
  <1>1. /\ FetchFrom \in Int /\ Skipped(main) \in Arrays /\ Skipped(ec) \in Arrays
        /\ aligned => Lined(Skipped(main)) /\ Lined(Skipped(ec))
    BY FetchFacts
  <1>2. /\ main' = Skipped(main) /\ ec' = Skipped(ec) /\ nextFetch' = FetchFrom + 1
        /\ first' \in BOOLEAN
        /\ UNCHANGED <<minDelay, wasReset, needBuffering, late, gotSinceReset,
                       arrived, copies, aligned>>
    BY DEF MissWhileBuffering, Miss, counters
  <1>3. \/ lostCount' = lostCount /\ lostSinceReset' = lostSinceReset
        \/ /\ ~needBuffering /\ lostCount + 1 < LossesToReset
           /\ lostCount' = lostCount + 1 /\ lostSinceReset' = lostSinceReset + 1
    <2>1. lostCount \in Nat
      BY Bounds DEF Inv, TypeOK
    <2> QED
      BY <2>1, Bounds DEF MissWhileBuffering, Miss, GivesUp, counters
  <1>4. nextFetch' \in Int
    BY <1>1, <1>2
  <1>5. /\ lostCount' \in 0 .. LossesToReset - 1 /\ lostSinceReset' \in Nat
        /\ LossesSinceReset'
    BY <1>2, <1>3, Bounds DEF Inv, TypeOK, LossesSinceReset
  <1>6. TypeOK'
    BY <1>1, <1>2, <1>4, <1>5 DEF Inv, TypeOK
  <1> QED
    BY <1>1, <1>2, <1>5, <1>6 DEF Inv

\* The loss that resets the buffer is none of those counted after.
LEMMA MissAndResetInv ==
  ASSUME Inv, MissAndReset
  PROVE  Inv'
  <1>1. nextFetch' \in Int
    <2> DEFINE delay == Delay(Skipped(main), Skipped(ec))
    <2>1. FetchFrom \in Int /\ delay \in Nat /\ minDelay \in Nat
      BY FetchFacts, Bounds DEF Inv, TypeOK
    <2>2. nextFetch' = FetchFrom + 1 - MaxOf(0, minDelay - delay)
      BY DEF MissAndReset
    <2> HIDE DEF delay
    <2> QED
      BY <2>1, <2>2 DEF MaxOf
  <1>2. /\ main' = Cleared /\ ec' = Cleared
        /\ wasReset' \in BOOLEAN /\ needBuffering' \in BOOLEAN /\ first' \in BOOLEAN
        /\ lostCount' = 0 /\ lostSinceReset' = 0 /\ gotSinceReset' = 0
        /\ UNCHANGED <<minDelay, late, arrived, copies, aligned>>
    BY DEF MissAndReset
  <1>3. lostCount' \in 0 .. LossesToReset - 1
    BY <1>2, Bounds
  <1>4. TypeOK'
    BY <1>1, <1>2, <1>3, ClearedFacts DEF Inv, TypeOK
  <1> QED
    BY <1>2, <1>4, ClearedFacts DEF Inv, LossesSinceReset

\* A packet's frame and its copies.
LEMMA InputInv ==
  ASSUME Inv, (\E t \in 0 .. LastTime : Arrive(t)) \/ InputCopy
  PROVE  Inv'
  <1>1. ASSUME NEW t \in 0 .. LastTime, Arrive(t)
        PROVE  Inv'
    <2>1. /\ arrived' \subseteq 0 .. LastTime /\ copies' \subseteq 0 .. LastTime
          /\ HandleInput(FALSE, t)
      BY <1>1 DEF Arrive, Inv, TypeOK
    <2> QED
      BY <2>1, HandleInputInv
  <1>2. CASE InputCopy
    <2>1. PICK t \in copies : /\ copies' = copies \ {t}
                              /\ HandleInput(TRUE, t) /\ arrived' = arrived
      BY <1>2 DEF InputCopy
    <2>2. /\ arrived' \subseteq 0 .. LastTime /\ copies' \subseteq 0 .. LastTime
          /\ t \in 0 .. LastTime
      BY <2>1 DEF Inv, TypeOK
    <2> QED
      BY <2>1, <2>2, HandleInputInv
  <1> QED
    BY <1>1, <1>2

\* Tick() and a new delay move no frame out of line.
LEMMA TimersInv ==
  ASSUME Inv, Tick \/ SetMinPacketCount \/ UNCHANGED vars
  PROVE  Inv'
  <1>1. CASE Tick
    <2>1. /\ minDelay' \in MinDelays /\ wasReset' \in BOOLEAN /\ late' \in BOOLEAN
          /\ UNCHANGED <<main, ec, nextFetch, needBuffering, first, counters, arrived,
                         copies, aligned>>
      BY <1>1 DEF Tick, Inv, TypeOK
    <2> QED
      BY <2>1 DEF Inv, TypeOK, LossesSinceReset, counters
  <1>2. CASE SetMinPacketCount
    BY <1>2 DEF SetMinPacketCount, Inv, TypeOK, LossesSinceReset, counters, flags
  <1>3. CASE UNCHANGED vars
    BY <1>3 DEF vars, Inv, TypeOK, LossesSinceReset, counters, flags
  <1> QED
    BY <1>1, <1>2, <1>3

-------------------------------------------------------------------------------
(* The theorems                                                                *)

\* A new buffer is empty.
LEMMA InitInv ==
  ASSUME Init
  PROVE  Inv
  <1>1. main = Cleared /\ ec = Cleared /\ nextFetch \in Int /\ minDelay \in MinDelays
    BY DEF Init
  <1>2. /\ wasReset \in BOOLEAN /\ needBuffering \in BOOLEAN /\ first \in BOOLEAN
        /\ late \in BOOLEAN /\ aligned \in BOOLEAN
    BY DEF Init
  <1>3. lostCount = 0 /\ lostSinceReset = 0 /\ gotSinceReset = 0 /\ arrived = {} /\ copies = {}
    BY DEF Init
  <1>4. lostCount \in 0 .. LossesToReset - 1
    BY <1>3, Bounds
  <1>5. TypeOK
    BY <1>1, <1>2, <1>3, <1>4, ClearedFacts DEF TypeOK
  <1> QED
    BY <1>1, <1>3, <1>5, ClearedFacts DEF Inv, LossesSinceReset

\* Every step keeps the invariant.
LEMMA NextInv ==
  ASSUME Inv, [Next]_vars
  PROVE  Inv'
  BY InputInv, TakeOutInv, MissInv, MissAndResetInv, TimersInv DEF Next, HandleOutput

\* The inductive invariant of the rings and the counters.
THEOREM Invariance == Spec => []Inv
  <1>1. Init => Inv
    BY InitInv
  <1>2. Inv /\ [Next]_vars => Inv'
    BY NextInv
  <1> QED
    BY <1>1, <1>2, PTL DEF Spec

\* Type correctness, for any ring, stream and thresholds: the slots and time stamps of both
\* arrays stay in range, and the losses in a row stay below those that reset the buffer.
THEOREM TypeCorrect == Spec => []TypeOK
  <1>1. Inv => TypeOK
    BY DEF Inv
  <1> QED
    BY <1>1, Invariance, PTL

\* As long as each frame is put in an array that is empty or holds one time stamp, put()
\* and get() agree on the slots: every frame is found under its own time stamp, whatever
\* advance() dropped and however far the ring went round.
THEOREM NothingMisplaced == Spec => []ExactWhileAligned
  <1>1. Inv => ExactWhileAligned
    BY LinedIsExact DEF Inv, TypeOK, ExactWhileAligned
  <1> QED
    BY <1>1, Invariance, PTL

\* Reset() leaves no loss of before behind, and the losses in a row never exceed those
\* since the reset.
THEOREM LossesStartAfresh == Spec => []LossesSinceReset
  <1>1. Inv => LossesSinceReset
    BY DEF Inv
  <1> QED
    BY <1>1, Invariance, PTL

\* A step that moves playback back follows a reset, is one, or comes before the first frame.
LEMMA StepForward ==
  ASSUME Inv, Next, nextFetch' < nextFetch
  PROVE  wasReset \/ wasReset' \/ first
  <1> SUFFICES ASSUME ~wasReset, ~first
               PROVE  wasReset'
    OBVIOUS
  <1>1. nextFetch \in Int /\ FetchFrom = nextFetch
    BY FetchFacts DEF Inv, TypeOK
  <1>2. ASSUME NEW isEc \in BOOLEAN, NEW t \in 0 .. LastTime, HandleInput(isEc, t)
        PROVE  FALSE
    <2>1. CASE PutIn(isEc, t)
      <3>1. nextFetch' \in Int /\ nextFetch' >= nextFetch
        BY <2>1, PutInArrays DEF Inv, InOrder
      <3> QED
        BY <1>1, <3>1
    <2>2. CASE AlreadyIn(isEc, t)
      BY <1>1, <2>2 DEF AlreadyIn
    <2> QED
      BY <1>2, <2>1, <2>2 DEF HandleInput
  <1>3. ASSUME NEW t \in 0 .. LastTime, Arrive(t)
        PROVE  FALSE
    BY <1>2, <1>3 DEF Arrive
  <1>4. CASE InputCopy
    <2>1. PICK t \in copies : HandleInput(TRUE, t)
      BY <1>4 DEF InputCopy
    <2> QED
      BY <1>2, <2>1 DEF Inv, TypeOK
  <1>5. CASE TakeOut \/ MissWhileBuffering \/ Miss
    BY <1>1, <1>5 DEF TakeOut, MissWhileBuffering, Miss
  <1>6. CASE MissAndReset
    BY <1>6 DEF MissAndReset
  <1>7. CASE Tick \/ SetMinPacketCount
    <2>1. nextFetch' = nextFetch
      BY <1>7 DEF Tick, SetMinPacketCount
    <2> QED
      BY <1>1, <2>1
  <1> QED
    BY <1>3, <1>4, <1>5, <1>6, <1>7 DEF Next, HandleOutput

\* The decoder's position goes back only where the buffer starts again: in HandleInput()
\* after a reset or resync, and in HandleOutput() when it resets or was not asked before.
THEOREM PlaysForward == Spec => BackOnlyToRestart
  <1>1. Inv /\ [Next]_vars => [nextFetch' < nextFetch => wasReset \/ wasReset' \/ first]_vars
    BY StepForward
  <1> QED
    BY <1>1, Invariance, PTL DEF Spec, BackOnlyToRestart
===============================================================================
