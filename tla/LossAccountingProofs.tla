------------------------ MODULE LossAccountingProofs ------------------------
(***************************************************************************)
(* The books of LossAccounting agree, for any number of streams, slots and *)
(* packets.  A first invariant adds to the properties that nothing is in   *)
(* the books that is numbered above lastSentSeq: a packet that             *)
(* PacketSent() lets into a slot was never seen before, so it is in no     *)
(* other slot and none of its transmissions is settled.  A second one,     *)
(* Books, has the sums: what is in flight by its sizes, and the losses     *)
(* that may still be taken back.                                           *)
(***************************************************************************)
EXTENDS LossAccounting, WellFoundedInduction, FiniteSetTheorems, SequenceTheorems, TLAPS

Shape ==
  /\ inflightPackets \in [SlotNos -> Slots \cup {Free}]
  /\ lastSentSeq \in [Streams -> 0 .. MaxNumbered]
  /\ lossCount \in Nat
  /\ recentOutgoing \in [Streams -> Seq(Recents)]
  /\ tracked \subseteq Packets

(***************************************************************************)
(* lastSentSeq bounds what is in the books.                                *)
(***************************************************************************)
NewestBounds ==
  /\ \A p \in tracked : p[2] <= lastSentSeq[p[1]]
  /\ \A s \in Streams : \A i \in DOMAIN recentOutgoing[s] :
       recentOutgoing[s][i].seq <= lastSentSeq[s]

Inv ==
  /\ Shape
  /\ NewestBounds
  /\ OneSlotPerPacket
  /\ LossesCountedOnce
  /\ IsFiniteSet(givenUp)
  /\ SettledIsNotInFlight

-----------------------------------------------------------------------------

\* Below half of the sequence space, seqgt() is the order of the numbers.
LEMMA SeqGtIsGreater ==
  ASSUME NEW a \in 0 .. MaxNumbered, NEW b \in 0 .. MaxNumbered
  PROVE  SeqGt(a, b) <=> a > b
  BY SizesAssumption, AccountingAssumption DEF SeqGt, HalfSeq

\* A slot in use has a packet; the free ones are all alike.
LEMMA SlotKinds ==
  ASSUME Shape, NEW i \in SlotNos
  PROVE  /\ i \in InUse => inflightPackets[i] \in Slots /\ PacketIn(inflightPackets[i]) \in Packets
         /\ i \notin InUse => inflightPackets[i] = Free
  <1>1. inflightPackets[i] \in Slots \cup {Free}
    BY DEF Shape
  <1>2. CASE inflightPackets[i] \in Slots
    BY <1>2 DEF Slots, InUse, PacketIn, Packets
  <1>3. CASE inflightPackets[i] = Free
    BY <1>3 DEF Free, InUse
  <1>4. QED
    BY <1>1, <1>2, <1>3

\* Slots and packets correspond one to one.
LEMMA HeldCounts ==
  ASSUME Inv, NEW I \in SUBSET InUse
  PROVE  /\ IsFiniteSet(I) /\ IsFiniteSet(Held(I))
         /\ Cardinality(Held(I)) = Cardinality(I)
  <1>1. IsFiniteSet(I)
    <2>1. IsFiniteSet(SlotNos)
      BY AccountingAssumption, FS_Interval DEF SlotNos
    <2>2. QED
      BY <2>1, FS_Subset DEF InUse
  <1> DEFINE f == [i \in I |-> PacketIn(inflightPackets[i])]
  <1>2. f \in Bijection(I, Held(I))
    <2>1. f \in [I -> Held(I)]
      BY DEF Held
    <2>2. \A i, j \in I : f[i] = f[j] => i = j
      BY DEF Inv, OneSlotPerPacket
    <2>3. \A p \in Held(I) : \E i \in I : f[i] = p
      BY DEF Held
    <2>4. QED
      BY <2>1, <2>2, <2>3 DEF Bijection, Injection, Surjection, IsInjective
  <1>3. QED
    BY <1>1, <1>2, FS_Bijection DEF ExistsBijection

\* Freeing slots takes exactly their packets out of the network.
LEMMA FreedSlots ==
  ASSUME Inv, NEW I \in SUBSET InUse, inflightPackets' = Freed(I)
  PROVE  /\ inflightPackets' \in [SlotNos -> Slots \cup {Free}]
         /\ InUse' = InUse \ I
         /\ \A i \in InUse' : inflightPackets'[i] = inflightPackets[i]
         /\ InFlight' = InFlight \ Held(I)
         /\ Held(I) \subseteq InFlight
         /\ OneSlotPerPacket'
  <1>1. inflightPackets' \in [SlotNos -> Slots \cup {Free}]
    BY DEF Inv, Shape, Freed
  <1>2. InUse' = InUse \ I /\ \A i \in InUse' : inflightPackets'[i] = inflightPackets[i]
    BY DEF InUse, Freed, Free
  <1>3. Held(I) \subseteq InFlight
    BY DEF Held, InFlight
  <1>4. InFlight' = InFlight \ Held(I)
    BY <1>2 DEF Held, InFlight, Inv, OneSlotPerPacket
  <1>5. OneSlotPerPacket'
    BY <1>2 DEF Inv, OneSlotPerPacket
  <1>6. QED
    BY <1>1, <1>2, <1>3, <1>4, <1>5

\* addRecentOutgoingPacket() adds one unsettled entry and drops others.
LEMMA EntriesOfWith ==
  ASSUME NEW list \in Seq(Recents), NEW n \in SeqNumbers
  PROVE  /\ With(list, n) \in Seq(Recents)
         /\ \A i \in DOMAIN With(list, n) :
              \/ With(list, n)[i] = [seq |-> n, age |-> 0, acked |-> FALSE, lost |-> FALSE]
              \/ \E j \in DOMAIN list : With(list, n)[i] = list[j]
  <1> DEFINE e == [seq |-> n, age |-> 0, acked |-> FALSE, lost |-> FALSE]
             all == Append(list, e)
             k == Len(all) - MaxRecent + 1
             from == Max({1, k})
  <1>1. e \in Recents
    BY AccountingAssumption DEF Recents, Ages
  <1>2. from \in 1 .. Len(all)
    <2>1. k \in Int /\ k <= Len(all) /\ Len(all) >= 1
      BY SizesAssumption, <1>1
    <2>2. \E x \in {1, k} : \A y \in {1, k} : x >= y
      BY <2>1
    <2>3. from \in {1, k} /\ \A y \in {1, k} : from >= y
      BY <2>2 DEF Max
    <2>4. QED
      BY <2>1, <2>3
  <1>3. /\ all \in Seq(Recents) /\ Len(all) = Len(list) + 1
        /\ \A i \in 1 .. Len(list) : all[i] = list[i]
        /\ all[Len(all)] = e
    BY <1>1
  <1>4. With(list, n) = SubSeq(all, from, Len(all))
    BY DEF With
  <1> HIDE DEF all, from
  <1>5. /\ With(list, n) \in Seq(Recents)
        /\ \A i \in DOMAIN With(list, n) :
             from + i - 1 \in 1 .. Len(all) /\ With(list, n)[i] = all[from + i - 1]
    <2>1. \A i \in from .. Len(all) : all[i] \in Recents
      BY <1>2, <1>3
    <2>2. /\ SubSeq(all, from, Len(all)) \in Seq(Recents)
          /\ Len(SubSeq(all, from, Len(all))) = Len(all) - from + 1
          /\ \A i \in 1 .. Len(all) - from + 1 :
               SubSeq(all, from, Len(all))[i] = all[from + i - 1]
      BY <1>2, <1>3, <2>1, SubSeqProperties
    <2>3. DOMAIN With(list, n) = 1 .. Len(all) - from + 1
      BY <1>4, <2>2
    <2>4. \A i \in 1 .. Len(all) - from + 1 : from + i - 1 \in 1 .. Len(all)
      BY <1>2, <1>3
    <2>5. QED
      BY <1>4, <2>2, <2>3, <2>4
  <1>6. QED
    <2> SUFFICES ASSUME NEW i \in DOMAIN With(list, n)
                 PROVE  With(list, n)[i] = e \/ \E j \in DOMAIN list : With(list, n)[i] = list[j]
      BY <1>5
    <2>1. PICK j \in 1 .. Len(all) : With(list, n)[i] = all[j]
      BY <1>5
    <2>2. CASE j = Len(all)
      BY <1>3, <2>1, <2>2
    <2>3. CASE j # Len(all)
      <3>1. j \in 1 .. Len(list) /\ DOMAIN list = 1 .. Len(list)
        BY <1>3, <2>3
      <3>2. QED
        BY <1>3, <2>1, <3>1
    <2>4. QED
      BY <2>2, <2>3

-----------------------------------------------------------------------------

\* Nothing is in the books.
LEMMA InitInv == Init => Inv
  <1> SUFFICES ASSUME Init PROVE Inv
    OBVIOUS
  <1>1. Shape
    BY AccountingAssumption DEF Init, Shape
  <1>2. InUse = {} /\ InFlight = {}
    BY DEF Init, InUse, InFlight, Held, Free
  <1>3. NewestBounds /\ OneSlotPerPacket /\ SettledIsNotInFlight
    BY <1>2 DEF Init, NewestBounds, OneSlotPerPacket, SettledIsNotInFlight
  <1>4. LossesCountedOnce /\ IsFiniteSet(givenUp)
    BY <1>2, FS_EmptySet DEF Init, LossesCountedOnce
  <1>5. QED
    BY <1>1, <1>3, <1>4 DEF Inv

\* A number not yet sent is in no book.
LEMMA NumberInv ==
  ASSUME Inv, NEW s \in Streams, Number(s)
  PROVE  Inv'
  BY DEF Inv, Number, conctl, history, Shape, NewestBounds, OneSlotPerPacket, LossesCountedOnce,
         SettledIsNotInFlight, InUse, InFlight, Held

\* Giving up the packets of slots keeps the accounts, and so does releasing them.
LEMMA GiveUp ==
  ASSUME Inv, NEW I \in SUBSET InUse
  PROVE  /\ IsFiniteSet(givenUp \cup Held(I))
         /\ Cardinality(givenUp \cup Held(I)) = lossCount + Cardinality(I)
  <1>1. givenUp \cap Held(I) = {}
    BY DEF Inv, LossesCountedOnce, InFlight, Held
  <1>2. IsFiniteSet(givenUp) /\ IsFiniteSet(Held(I))
    BY HeldCounts DEF Inv
  <1>3. Cardinality(givenUp \cap Held(I)) = 0
    BY <1>1, FS_EmptySet
  <1>4. Cardinality(givenUp) = lossCount /\ lossCount \in Nat
    BY DEF Inv, LossesCountedOnce, Shape
  <1>5. Cardinality(Held(I)) = Cardinality(I) /\ Cardinality(I) \in Nat
    BY HeldCounts, FS_CardinalityType
  <1>6. /\ IsFiniteSet(givenUp \cup Held(I))
        /\ Cardinality(givenUp \cup Held(I))
             = Cardinality(givenUp) + Cardinality(Held(I)) - Cardinality(givenUp \cap Held(I))
    BY <1>2, FS_Union
  <1>7. QED
    BY <1>3, <1>4, <1>5, <1>6

\* A packet above lastSentSeq is not in the books.
LEMMA NewPacketUnknown ==
  ASSUME Inv, NEW s \in Streams, NEW n \in SeqNumbers, n > lastSentSeq[s]
  PROVE  /\ <<s, n>> \notin tracked
         /\ <<s, n>> \notin InFlight \cup givenUp \cup released
         /\ \A i \in DOMAIN recentOutgoing[s] : recentOutgoing[s][i].seq # n
  <1>1. <<s, n>> \notin tracked
    <2>1. lastSentSeq[s] \in 0 .. MaxNumbered
      BY DEF Inv, Shape
    <2>2. QED
      BY <2>1 DEF Inv, NewestBounds, SeqNumbers
  <1>2. \A i \in DOMAIN recentOutgoing[s] : recentOutgoing[s][i].seq # n
    <2> SUFFICES ASSUME NEW i \in DOMAIN recentOutgoing[s] PROVE recentOutgoing[s][i].seq # n
      OBVIOUS
    <2>1. recentOutgoing[s][i].seq <= lastSentSeq[s]
      BY DEF Inv, NewestBounds
    <2>2. recentOutgoing[s][i] \in Recents
      BY DEF Inv, Shape
    <2>3. QED
      BY <2>1, <2>2, AccountingAssumption DEF Inv, Shape, Recents, SeqNumbers
  <1>3. QED
    BY <1>1, <1>2 DEF Inv, LossesCountedOnce

\* The entries of the lists are those of before, but for one that is not settled.
LEMMA TransmitLists ==
  ASSUME Inv, NEW s \in Streams, NEW n \in SeqNumbers,
         AddRecentOutgoingPacket(s, n)
  PROVE  /\ recentOutgoing' \in [Streams -> Seq(Recents)]
         /\ \A t \in Streams : \A i \in DOMAIN recentOutgoing'[t] :
              \/ /\ t = s
                 /\ recentOutgoing'[t][i].seq = n
                 /\ ~Settled(recentOutgoing'[t][i])
              \/ \E j \in DOMAIN recentOutgoing[t] :
                   recentOutgoing'[t][i] = recentOutgoing[t][j]
  <1>1. recentOutgoing \in [Streams -> Seq(Recents)]
    BY DEF Inv, Shape
  <1>2. recentOutgoing'[s] = With(recentOutgoing[s], n)
        /\ \A t \in Streams : t # s => recentOutgoing'[t] = recentOutgoing[t]
    BY <1>1 DEF AddRecentOutgoingPacket
  <1>3. With(recentOutgoing[s], n) \in Seq(Recents)
    BY <1>1, EntriesOfWith
  <1>4. recentOutgoing' \in [Streams -> Seq(Recents)]
    BY <1>1, <1>3 DEF AddRecentOutgoingPacket
  <1>5. ASSUME NEW t \in Streams, NEW i \in DOMAIN recentOutgoing'[t]
        PROVE  \/ /\ t = s
                  /\ recentOutgoing'[t][i].seq = n
                  /\ ~Settled(recentOutgoing'[t][i])
               \/ \E j \in DOMAIN recentOutgoing[t] :
                    recentOutgoing'[t][i] = recentOutgoing[t][j]
    <2>1. CASE t = s
      <3>1. \/ With(recentOutgoing[s], n)[i]
                 = [seq |-> n, age |-> 0, acked |-> FALSE, lost |-> FALSE]
            \/ \E j \in DOMAIN recentOutgoing[s] :
                 With(recentOutgoing[s], n)[i] = recentOutgoing[s][j]
        <4>1. i \in DOMAIN With(recentOutgoing[s], n) /\ recentOutgoing[s] \in Seq(Recents)
          BY <1>1, <1>2, <2>1
        <4>2. QED
          BY <4>1, EntriesOfWith
      <3>2. QED
        BY <1>2, <2>1, <3>1 DEF Settled
    <2>2. CASE t # s
      BY <1>2, <2>2
    <2>3. QED
      BY <2>1, <2>2
  <1>6. QED
    BY <1>4, <1>5

\* A transmission adds its own number to one list, and no other.
LEMMA TransmitNumbers ==
  ASSUME Inv, NEW s \in Streams, NEW n \in SeqNumbers,
         AddRecentOutgoingPacket(s, n)
  PROVE  \A t \in Streams : \A k \in DOMAIN recentOutgoing'[t] :
           /\ recentOutgoing'[t][k].seq \in SeqNumbers
           /\ \/ t = s /\ recentOutgoing'[t][k].seq = n
              \/ recentOutgoing'[t][k].seq <= lastSentSeq[t]
  <1> SUFFICES ASSUME NEW t \in Streams, NEW k \in DOMAIN recentOutgoing'[t]
               PROVE  /\ recentOutgoing'[t][k].seq \in SeqNumbers
                      /\ \/ t = s /\ recentOutgoing'[t][k].seq = n
                         \/ recentOutgoing'[t][k].seq <= lastSentSeq[t]
    OBVIOUS
  <1>1. \/ t = s /\ recentOutgoing'[t][k].seq = n
        \/ \E j \in DOMAIN recentOutgoing[t] : recentOutgoing'[t][k] = recentOutgoing[t][j]
    BY TransmitLists
  <1>2. CASE \E j \in DOMAIN recentOutgoing[t] : recentOutgoing'[t][k] = recentOutgoing[t][j]
    <2>1. PICK j \in DOMAIN recentOutgoing[t] : recentOutgoing'[t][k] = recentOutgoing[t][j]
      BY <1>2
    <2>2. recentOutgoing[t][j] \in Recents
      BY DEF Inv, Shape
    <2>3. recentOutgoing[t][j].seq <= lastSentSeq[t]
      BY DEF Inv, NewestBounds
    <2>4. QED
      BY <2>1, <2>2, <2>3 DEF Recents
  <1>3. QED
    BY <1>1, <1>2

\* A repetition only adds to a list.
LEMMA RepeatInv ==
  ASSUME Inv, NEW s \in Streams, NEW n \in SeqNumbers, NEW size \in Sizes[s],
         Transmit(s, n, size), Repeats(s, n)
  PROVE  Inv'
  <1>1. n <= lastSentSeq[s]
    <2>1. n \in 0 .. MaxNumbered /\ lastSentSeq[s] \in 0 .. MaxNumbered
      BY AccountingAssumption DEF Inv, Shape, SeqNumbers
    <2>2. QED
      BY <2>1, SeqGtIsGreater DEF Repeats
  <1>2. UNCHANGED <<conctl, tracked, givenUp, released>>
    BY DEF Transmit, PacketSent
  <1>3. AddRecentOutgoingPacket(s, n)
    BY DEF Transmit
  <1>4. Shape'
    BY <1>2, <1>3, TransmitLists DEF Inv, Shape, conctl
  <1>5. NewestBounds'
    <2>1. lastSentSeq' = lastSentSeq /\ tracked' = tracked
      BY <1>2 DEF conctl
    <2>2. ASSUME NEW t \in Streams, NEW k \in DOMAIN recentOutgoing'[t]
          PROVE  recentOutgoing'[t][k].seq <= lastSentSeq[t]
      BY <1>1, <1>3, TransmitNumbers
    <2>3. QED
      BY <2>1, <2>2 DEF Inv, NewestBounds
  <1>6. InUse' = InUse /\ InFlight' = InFlight
    BY <1>2 DEF InUse, InFlight, Held, conctl
  <1>7. OneSlotPerPacket' /\ LossesCountedOnce' /\ IsFiniteSet(givenUp')
    BY <1>2, <1>6 DEF Inv, OneSlotPerPacket, LossesCountedOnce, conctl
  <1>8. SettledIsNotInFlight'
    <2> SUFFICES ASSUME NEW t \in Streams, NEW k \in DOMAIN recentOutgoing'[t],
                        Settled(recentOutgoing'[t][k])
                 PROVE  <<t, recentOutgoing'[t][k].seq>> \notin InFlight'
      BY DEF SettledIsNotInFlight
    <2>1. PICK j \in DOMAIN recentOutgoing[t] : recentOutgoing'[t][k] = recentOutgoing[t][j]
      BY <1>3, TransmitLists
    <2>2. QED
      BY <1>6, <2>1 DEF Inv, SettledIsNotInFlight
  <1>9. QED
    BY <1>4, <1>5, <1>7, <1>8 DEF Inv

\* A packet sent for the first time takes a slot, and what was there is given up.
LEMMA FirstTransmissionInv ==
  ASSUME Inv, NEW s \in Streams, NEW n \in SeqNumbers, NEW size \in Sizes[s],
         Transmit(s, n, size), ~Repeats(s, n)
  PROVE  Inv'
  <1> DEFINE new == [used |-> TRUE, stream |-> s, seq |-> n, size |-> size, age |-> 0]
  <1>1. n > lastSentSeq[s] /\ lastSentSeq[s] \in 0 .. MaxNumbered
    <2>1. n \in 0 .. MaxNumbered /\ lastSentSeq[s] \in 0 .. MaxNumbered
      BY AccountingAssumption DEF Inv, Shape, SeqNumbers
    <2>2. QED
      BY <2>1, SeqGtIsGreater DEF Repeats
  <1>2. /\ lastSentSeq' = [lastSentSeq EXCEPT ![s] = n]
        /\ tracked' = tracked \cup {<<s, n>>}
        /\ AddRecentOutgoingPacket(s, n)
        /\ released' = released
        /\ Occupy(s, n, size)
    BY DEF Transmit, PacketSent
  <1>3. PICK i \in SlotNos :
          /\ inflightPackets' = [inflightPackets EXCEPT ![i] = new]
          /\ givenUp' = givenUp \cup Held({i} \cap InUse)
          /\ lossCount' = lossCount + Cardinality({i} \cap InUse)
    BY <1>2 DEF Occupy
  <1> DEFINE I == {i} \cap InUse
  <1>4. new \in Slots /\ new.used /\ PacketIn(new) = <<s, n>>
    BY AccountingAssumption DEF Slots, Ages, PacketIn
  <1> HIDE DEF new
  <1>5. /\ inflightPackets' \in [SlotNos -> Slots \cup {Free}]
        /\ inflightPackets'[i] = new
        /\ \A j \in SlotNos : j # i => inflightPackets'[j] = inflightPackets[j]
    BY <1>3, <1>4 DEF Inv, Shape
  <1>6. InUse' = InUse \cup {i}
    BY <1>4, <1>5 DEF InUse
  <1>7. /\ <<s, n>> \notin tracked
        /\ <<s, n>> \notin InFlight \cup givenUp \cup released
        /\ \A k \in DOMAIN recentOutgoing[s] : recentOutgoing[s][k].seq # n
    BY <1>1, NewPacketUnknown
  <1>8. InFlight' = (InFlight \ Held(I)) \cup {<<s, n>>} /\ Held(I) \subseteq InFlight
    <2>1. Held(I) \subseteq InFlight
      BY DEF Held, InFlight
    <2>2. \A p \in InFlight' : p \in (InFlight \ Held(I)) \cup {<<s, n>>}
      BY <1>4, <1>5, <1>6 DEF InFlight, Held, Inv, OneSlotPerPacket, InUse
    <2>3. \A p \in InFlight \ Held(I) : p \in InFlight'
      BY <1>5, <1>6 DEF InFlight, Held, InUse
    <2>4. <<s, n>> \in InFlight'
      BY <1>4, <1>5, <1>6 DEF InFlight, Held
    <2>5. QED
      BY <2>1, <2>2, <2>3, <2>4
  <1>9. OneSlotPerPacket'
    <2>1. \A j \in InUse : PacketIn(inflightPackets[j]) # <<s, n>>
      BY <1>7 DEF InFlight, Held
    <2>2. QED
      BY <1>4, <1>5, <1>6, <2>1 DEF Inv, OneSlotPerPacket, InUse
  <1>10. Shape'
    <2>1. lossCount' \in Nat
      <3>1. Cardinality(I) \in Nat
        BY HeldCounts, FS_CardinalityType
      <3>2. QED
        BY <1>3, <3>1 DEF Inv, Shape
    <2>2. tracked' \subseteq Packets
      BY <1>2 DEF Inv, Shape, Packets
    <2>3. lastSentSeq' \in [Streams -> 0 .. MaxNumbered]
      BY <1>2, AccountingAssumption DEF Inv, Shape, SeqNumbers
    <2>4. QED
      BY <1>2, <1>5, <2>1, <2>2, <2>3, TransmitLists DEF Shape
  <1>11. NewestBounds'
    <2>1. \A t \in Streams : lastSentSeq[t] <= lastSentSeq'[t]
      BY <1>1, <1>2 DEF Inv, Shape, SeqNumbers
    <2>2. ASSUME NEW p \in tracked' PROVE p[2] <= lastSentSeq'[p[1]]
      <3>1. CASE p \in tracked
        BY <2>1, <3>1, AccountingAssumption, <1>2 DEF Inv, Shape, NewestBounds, Packets, SeqNumbers
      <3>2. CASE p = <<s, n>>
        BY <1>2, <3>2 DEF Inv, Shape, SeqNumbers
      <3>3. QED
        BY <1>2, <3>1, <3>2
    <2>3. ASSUME NEW t \in Streams, NEW k \in DOMAIN recentOutgoing'[t]
          PROVE  recentOutgoing'[t][k].seq <= lastSentSeq'[t]
      <3>1. AddRecentOutgoingPacket(s, n)
        BY <1>2
      <3>2. /\ recentOutgoing'[t][k].seq \in SeqNumbers
            /\ \/ t = s /\ recentOutgoing'[t][k].seq = n
               \/ recentOutgoing'[t][k].seq <= lastSentSeq[t]
        BY <3>1, TransmitNumbers
      <3>3. lastSentSeq[t] \in Nat /\ lastSentSeq'[t] \in Nat /\ (t = s => lastSentSeq'[t] = n)
        BY <1>2 DEF Inv, Shape, SeqNumbers
      <3>4. QED
        BY <2>1, <3>2, <3>3 DEF SeqNumbers
    <2>4. QED
      BY <2>2, <2>3 DEF NewestBounds
  <1>12. LossesCountedOnce' /\ IsFiniteSet(givenUp')
    <2>1. IsFiniteSet(givenUp') /\ Cardinality(givenUp') = lossCount'
      BY <1>3, GiveUp
    <2>2. QED
      BY <1>2, <1>3, <1>7, <1>8, <2>1 DEF Inv, LossesCountedOnce
  <1>13. SettledIsNotInFlight'
    <2> SUFFICES ASSUME NEW t \in Streams, NEW k \in DOMAIN recentOutgoing'[t],
                        Settled(recentOutgoing'[t][k])
                 PROVE  <<t, recentOutgoing'[t][k].seq>> \notin InFlight'
      BY DEF SettledIsNotInFlight
    <2>1. PICK j \in DOMAIN recentOutgoing[t] : recentOutgoing'[t][k] = recentOutgoing[t][j]
      BY <1>2, TransmitLists
    <2>2. <<t, recentOutgoing[t][j].seq>> \notin InFlight
      BY <2>1 DEF Inv, SettledIsNotInFlight
    <2>3. <<t, recentOutgoing[t][j].seq>> # <<s, n>>
      BY <1>7
    <2>4. QED
      BY <1>8, <2>1, <2>2, <2>3
  <1>14. QED
    BY <1>9, <1>10, <1>11, <1>12, <1>13 DEF Inv

\* The three actions that free slots or settle transmissions, as far as they are
\* alike: the lists keep their packets, and what is newly settled is not in flight.
LEMMA FreeingInv ==
  ASSUME Inv, NEW I \in SUBSET InUse, inflightPackets' = Freed(I),
         UNCHANGED <<lastSentSeq, tracked>>,
         recentOutgoing' \in [Streams -> Seq(Recents)],
         \A s \in Streams :
           /\ DOMAIN recentOutgoing'[s] = DOMAIN recentOutgoing[s]
           /\ \A k \in DOMAIN recentOutgoing[s] :
                /\ recentOutgoing'[s][k].seq = recentOutgoing[s][k].seq
                /\ Settled(recentOutgoing'[s][k]) =>
                     \/ Settled(recentOutgoing[s][k])
                     \/ <<s, recentOutgoing[s][k].seq>> \notin InFlight \ Held(I),
         lossCount' \in Nat, LossesCountedOnce', IsFiniteSet(givenUp')
  PROVE  Inv'
  <1>1. Shape'
    BY FreedSlots DEF Inv, Shape
  <1>2. NewestBounds'
    BY DEF Inv, NewestBounds
  <1>3. OneSlotPerPacket' /\ InFlight' = InFlight \ Held(I)
    BY FreedSlots
  <1>4. SettledIsNotInFlight'
    BY <1>3 DEF Inv, SettledIsNotInFlight
  <1>5. QED
    BY <1>1, <1>2, <1>3, <1>4 DEF Inv

\* What the handlers do to an entry.
LEMMA EntryChanges ==
  ASSUME NEW e \in Recents
  PROVE  /\ [e EXCEPT !.acked = TRUE] \in Recents
         /\ [e EXCEPT !.acked = TRUE].seq = e.seq
         /\ [e EXCEPT !.lost = TRUE] \in Recents
         /\ [e EXCEPT !.lost = TRUE].seq = e.seq
         /\ [e EXCEPT !.age = Older(@)] \in Recents
         /\ [e EXCEPT !.age = Older(@)].seq = e.seq
         /\ [e EXCEPT !.age = Older(@)].acked = e.acked
         /\ [e EXCEPT !.age = Older(@)].lost = e.lost
  <1>1. \A age \in Ages : Older(age) \in Ages
    BY AccountingAssumption DEF Ages, Older
  <1>2. QED
    BY <1>1 DEF Recents

\* A list of transmissions, as a function.
LEMMA ListIsFunction ==
  ASSUME NEW list \in Seq(Recents)
  PROVE  /\ Len(list) \in Nat /\ DOMAIN list = 1 .. Len(list)
         /\ \A k \in DOMAIN list : list[k] \in Recents
         /\ [1 .. Len(list) -> Recents] \subseteq Seq(Recents)
  BY SeqDef

\* An acknowledgement changes no number, and nothing of the others.
LEMMA AcknowledgedKeeps ==
  ASSUME NEW list \in Seq(Recents), NEW I
  PROVE  /\ Acknowledged(list, I) \in Seq(Recents)
         /\ DOMAIN Acknowledged(list, I) = DOMAIN list
         /\ \A k \in DOMAIN list :
              /\ Acknowledged(list, I)[k].seq = list[k].seq
              /\ k \notin I => Acknowledged(list, I)[k] = list[k]
  <1>1. Acknowledged(list, I) \in [1 .. Len(list) -> Recents]
    BY ListIsFunction, EntryChanges DEF Acknowledged
  <1>2. QED
    BY <1>1, ListIsFunction, EntryChanges DEF Acknowledged

\* Finding some lost changes no number, and nothing of the others.
LEMMA FoundLostKeeps ==
  ASSUME NEW list \in Seq(Recents), NEW I
  PROVE  /\ FoundLost(list, I) \in Seq(Recents)
         /\ DOMAIN FoundLost(list, I) = DOMAIN list
         /\ \A k \in DOMAIN list :
              /\ FoundLost(list, I)[k].seq = list[k].seq
              /\ k \notin I => FoundLost(list, I)[k] = list[k]
  <1>1. FoundLost(list, I) \in [1 .. Len(list) -> Recents]
    BY ListIsFunction, EntryChanges DEF FoundLost
  <1>2. QED
    BY <1>1, ListIsFunction, EntryChanges DEF FoundLost

\* Time changes neither numbers nor what is settled.
LEMMA AgedKeeps ==
  ASSUME NEW list \in Seq(Recents)
  PROVE  /\ Aged(list) \in Seq(Recents)
         /\ DOMAIN Aged(list) = DOMAIN list
         /\ \A k \in DOMAIN list :
              /\ Aged(list)[k].seq = list[k].seq
              /\ Settled(Aged(list)[k]) <=> Settled(list[k])
  <1>1. Aged(list) \in [1 .. Len(list) -> Recents]
    BY ListIsFunction, EntryChanges DEF Aged
  <1>2. QED
    BY <1>1, ListIsFunction, EntryChanges DEF Aged, Settled

\* The slots that hold some packets hold those in flight among them.
LEMMA HoldingFacts ==
  ASSUME NEW P
  PROVE  /\ Holding(P) \in SUBSET InUse
         /\ Held(Holding(P)) = InFlight \cap P
  BY DEF Holding, Held, InUse, InFlight

\* An acknowledgement settles transmissions and releases their slots.
LEMMA TakeAckInv ==
  ASSUME Inv, NEW s \in Streams, NEW peerSeq \in SeqNumbers, NEW ack \in SeqNumbers,
         NEW mask \in Masks, TakeAck(s, peerSeq, ack, mask)
  PROVE  Inv'
  <1> DEFINE list == recentOutgoing[s]
             I == NewlyAcked(list, ack, mask)
             P == ToRelease(s, peerSeq, I)
             S == Holding(P)
  <1>1. /\ recentOutgoing' = [recentOutgoing EXCEPT ![s] = Acknowledged(@, I)]
        /\ inflightPackets' = Freed(S)
        /\ released' = released \cup Held(S)
        /\ UNCHANGED <<lastSentSeq, lossCount, tracked, givenUp>>
    BY DEF TakeAck
  <1>2. list \in Seq(Recents) /\ recentOutgoing \in [Streams -> Seq(Recents)]
    BY DEF Inv, Shape
  <1>3. /\ S \in SUBSET InUse
        /\ Held(S) = InFlight \cap P
    BY HoldingFacts
  <1>4. \A i \in I : <<s, list[i].seq>> \in P
    BY DEF ToRelease
  <1> HIDE DEF I, P, S
  <1>5. recentOutgoing'[s] = Acknowledged(list, I)
    BY <1>1, <1>2
  <1>6. recentOutgoing' \in [Streams -> Seq(Recents)]
    BY <1>1, <1>2, AcknowledgedKeeps
  <1>7. ASSUME NEW t \in Streams
        PROVE  /\ DOMAIN recentOutgoing'[t] = DOMAIN recentOutgoing[t]
               /\ \A k \in DOMAIN recentOutgoing[t] :
                    /\ recentOutgoing'[t][k].seq = recentOutgoing[t][k].seq
                    /\ Settled(recentOutgoing'[t][k]) =>
                         \/ Settled(recentOutgoing[t][k])
                         \/ <<t, recentOutgoing[t][k].seq>> \notin InFlight \ Held(S)
    <2>1. CASE t # s
      BY <1>1, <1>2, <2>1
    <2>2. CASE t = s
      <3>1. \A k \in I : <<s, list[k].seq>> \notin InFlight \ Held(S)
        BY <1>3, <1>4
      <3>2. /\ DOMAIN Acknowledged(list, I) = DOMAIN list
            /\ \A k \in DOMAIN list :
                 /\ Acknowledged(list, I)[k].seq = list[k].seq
                 /\ k \notin I => Acknowledged(list, I)[k] = list[k]
        BY <1>2, AcknowledgedKeeps
      <3>3. QED
        BY <1>5, <2>2, <3>1, <3>2
    <2>3. QED
      BY <2>1, <2>2
  <1>8. LossesCountedOnce' /\ IsFiniteSet(givenUp') /\ lossCount' \in Nat
    <2>1. InFlight' = InFlight \ Held(S) /\ Held(S) \subseteq InFlight
      BY <1>1, <1>3, FreedSlots
    <2>2. QED
      BY <1>1, <2>1 DEF Inv, LossesCountedOnce, Shape
  <1>9. QED
    BY <1>1, <1>3, <1>6, <1>7, <1>8, FreeingInv

\* The timer gives up what was in slots for too long, and finds losses.
LEMMA TickInv ==
  ASSUME Inv, TickCongestionControl
  PROVE  Inv'
  <1>1. PICK timeout \in Timeouts :
          /\ recentOutgoing' = [s \in Streams |->
               FoundLost(recentOutgoing[s], Overdue(recentOutgoing[s], timeout))]
          /\ inflightPackets' = Freed(Expired \cup LostSlots(timeout))
          /\ lossCount' = lossCount + LossesFound(Expired, LostSlots(timeout))
          /\ givenUp' = givenUp \cup Held(Expired \cup LostSlots(timeout))
          /\ UNCHANGED <<lastSentSeq, tracked, released>>
    BY DEF TickCongestionControl
  <1> DEFINE P == {p \in Packets : \E i \in Overdue(recentOutgoing[p[1]], timeout) :
                                     recentOutgoing[p[1]][i].seq = p[2]}
             S == Expired \cup LostSlots(timeout)
  <1>2. S \in SUBSET InUse /\ InFlight \cap P \subseteq Held(S)
    <2>1. LostSlots(timeout) = Holding(P)
      BY DEF LostSlots
    <2>2. Expired \subseteq InUse
      BY DEF Expired, InUse
    <2>3. Held(Holding(P)) \subseteq Held(S)
      BY <2>1 DEF Held
    <2>4. Holding(P) \in SUBSET InUse /\ Held(Holding(P)) = InFlight \cap P
      BY HoldingFacts
    <2> HIDE DEF P
    <2>5. QED
      BY <2>1, <2>2, <2>3, <2>4
  <1>3. recentOutgoing \in [Streams -> Seq(Recents)]
    BY DEF Inv, Shape
  <1>4. ASSUME NEW s \in Streams, NEW k \in DOMAIN recentOutgoing[s],
               k \in Overdue(recentOutgoing[s], timeout)
        PROVE  <<s, recentOutgoing[s][k].seq>> \in P
    <2>1. recentOutgoing[s][k] \in Recents
      BY <1>3
    <2>2. QED
      BY <1>4, <2>1 DEF Packets, Recents
  <1> HIDE DEF P
  <1>5. ASSUME NEW s \in Streams
        PROVE  /\ recentOutgoing'[s] \in Seq(Recents)
               /\ DOMAIN recentOutgoing'[s] = DOMAIN recentOutgoing[s]
               /\ \A k \in DOMAIN recentOutgoing[s] :
                    /\ recentOutgoing'[s][k].seq = recentOutgoing[s][k].seq
                    /\ Settled(recentOutgoing'[s][k]) =>
                         \/ Settled(recentOutgoing[s][k])
                         \/ <<s, recentOutgoing[s][k].seq>> \notin InFlight \ Held(S)
    <2> DEFINE list == recentOutgoing[s]
               O == Overdue(list, timeout)
    <2>1. list \in Seq(Recents)
      BY <1>3
    <2>2. recentOutgoing'[s] = FoundLost(list, O)
      BY <1>1
    <2>3. \A k \in DOMAIN list : k \in O => <<s, list[k].seq>> \notin InFlight \ Held(S)
      BY <1>2, <1>4
    <2> HIDE DEF O
    <2>4. /\ FoundLost(list, O) \in Seq(Recents)
          /\ DOMAIN FoundLost(list, O) = DOMAIN list
          /\ \A k \in DOMAIN list :
               /\ FoundLost(list, O)[k].seq = list[k].seq
               /\ k \notin O => FoundLost(list, O)[k] = list[k]
      BY <2>1, FoundLostKeeps
    <2>5. QED
      BY <2>2, <2>3, <2>4
  <1>6. recentOutgoing' \in [Streams -> Seq(Recents)]
    BY <1>1, <1>5
  <1>7. /\ lossCount' = lossCount + Cardinality(S)
        /\ givenUp' = givenUp \cup Held(S)
        /\ inflightPackets' = Freed(S)
    BY <1>1 DEF LossesFound
  <1> HIDE DEF S
  <1>8. lossCount' \in Nat /\ IsFiniteSet(givenUp') /\ LossesCountedOnce'
    <2>1. InFlight' = InFlight \ Held(S) /\ Held(S) \subseteq InFlight
      BY <1>2, <1>7, FreedSlots
    <2>2. IsFiniteSet(givenUp') /\ lossCount' = Cardinality(givenUp')
      BY <1>2, <1>7, GiveUp
    <2>3. QED
      BY <1>1, <1>7, <2>1, <2>2, FS_CardinalityType DEF Inv, LossesCountedOnce
  <1>9. QED
    BY <1>1, <1>2, <1>5, <1>6, <1>7, <1>8, FreeingInv

\* Time alone changes ages.
LEMMA ElapseInv ==
  ASSUME Inv, Elapse
  PROVE  Inv'
  <1>1. \A age \in Ages : Older(age) \in Ages
    BY AccountingAssumption DEF Ages, Older
  <1>2. ASSUME NEW i \in SlotNos
        PROVE  /\ inflightPackets'[i] \in Slots \cup {Free}
               /\ i \in InUse' <=> i \in InUse
               /\ i \in InUse => PacketIn(inflightPackets'[i]) = PacketIn(inflightPackets[i])
    <2>1. CASE i \in InUse
      <3>1. inflightPackets[i] \in Slots /\ inflightPackets[i].used
        BY <2>1, SlotKinds DEF Inv, InUse
      <3>2. inflightPackets'[i] = [inflightPackets[i] EXCEPT !.age = Older(@)]
        BY <3>1 DEF Elapse
      <3>3. /\ inflightPackets'[i] \in Slots
            /\ PacketIn(inflightPackets'[i]) = PacketIn(inflightPackets[i])
            /\ inflightPackets'[i].used
        BY <1>1, <3>1, <3>2 DEF Slots, PacketIn
      <3>4. QED
        BY <2>1, <3>3 DEF InUse
    <2>2. CASE i \notin InUse
      <3>1. inflightPackets'[i] = Free
        BY <2>2 DEF Elapse, InUse
      <3>2. QED
        BY <2>2, <3>1 DEF InUse, Free
    <2>3. QED
      BY <2>1, <2>2
  <1>3. InUse' = InUse /\ InFlight' = InFlight
    <2>1. InUse' = InUse
      BY <1>2 DEF InUse
    <2>2. QED
      BY <1>2, <2>1 DEF InFlight, Held, InUse
  <1>4. UNCHANGED <<lastSentSeq, lossCount, tracked, givenUp, released>>
    BY DEF Elapse, history
  <1>5. ASSUME NEW s \in Streams
        PROVE  /\ recentOutgoing'[s] \in Seq(Recents)
               /\ DOMAIN recentOutgoing'[s] = DOMAIN recentOutgoing[s]
               /\ \A k \in DOMAIN recentOutgoing[s] :
                    /\ recentOutgoing'[s][k].seq = recentOutgoing[s][k].seq
                    /\ Settled(recentOutgoing'[s][k]) <=> Settled(recentOutgoing[s][k])
    <2>1. recentOutgoing[s] \in Seq(Recents)
      BY DEF Inv, Shape
    <2>2. recentOutgoing'[s] = Aged(recentOutgoing[s])
      BY DEF Elapse
    <2>3. QED
      BY <2>1, <2>2, AgedKeeps
  <1>6. Shape'
    <2>1. inflightPackets' \in [SlotNos -> Slots \cup {Free}]
      BY <1>2 DEF Elapse
    <2>2. recentOutgoing' \in [Streams -> Seq(Recents)]
      BY <1>5 DEF Elapse
    <2>3. QED
      BY <1>4, <2>1, <2>2 DEF Inv, Shape
  <1>7. NewestBounds' /\ SettledIsNotInFlight'
    BY <1>3, <1>4, <1>5 DEF Inv, NewestBounds, SettledIsNotInFlight
  <1>8. OneSlotPerPacket' /\ LossesCountedOnce' /\ IsFiniteSet(givenUp')
    BY <1>2, <1>3, <1>4 DEF Inv, OneSlotPerPacket, LossesCountedOnce, InUse
  <1>9. QED
    BY <1>6, <1>7, <1>8 DEF Inv

-----------------------------------------------------------------------------

\* Every step keeps the invariant.
LEMMA NextInv == Inv /\ [Next]_vars => Inv'
  <1> SUFFICES ASSUME Inv, [Next]_vars PROVE Inv'
    OBVIOUS
  <1>1. ASSUME NEW s \in Streams, Number(s) PROVE Inv'
    BY <1>1, NumberInv
  <1>2. ASSUME NEW s \in Streams, NEW n \in SeqNumbers, NEW size \in Sizes[s],
               Transmit(s, n, size)
        PROVE  Inv'
    BY <1>2, RepeatInv, FirstTransmissionInv
  <1>3. ASSUME NEW s \in Streams, NEW peerSeq \in SeqNumbers, NEW ack \in SeqNumbers,
               NEW mask \in Masks, TakeAck(s, peerSeq, ack, mask)
        PROVE  Inv'
    BY <1>3, TakeAckInv
  <1>4. CASE TickCongestionControl
    BY <1>4, TickInv
  <1>5. CASE Elapse
    BY <1>5, ElapseInv
  <1>6. CASE UNCHANGED vars
    BY <1>6 DEF vars, conctl, history, Inv, Shape, NewestBounds, OneSlotPerPacket,
                LossesCountedOnce, SettledIsNotInFlight, InUse, InFlight, Held
  <1>7. QED
    BY <1>1, <1>2, <1>3, <1>4, <1>5, <1>6 DEF Next

(***************************************************************************)
(* The invariant holds in every reachable state.                           *)
(***************************************************************************)
THEOREM Invariance == Spec => []Inv
  BY InitInv, NextInv, PTL DEF Spec

(***************************************************************************)
(* However packets are repeated and reordered, CongestionControl keeps     *)
(* each in one slot at most.                                               *)
(***************************************************************************)
THEOREM EachInOneSlot == Spec => []OneSlotPerPacket
  <1>1. Inv => OneSlotPerPacket
    BY DEF Inv
  <1>2. QED
    BY <1>1, Invariance, PTL

(***************************************************************************)
(* Every packet has one fate, and lossCount counts each loss once.         *)
(***************************************************************************)
THEOREM EachLossOnce == Spec => []LossesCountedOnce
  <1>1. Inv => LossesCountedOnce
    BY DEF Inv
  <1>2. QED
    BY <1>1, Invariance, PTL

(***************************************************************************)
(* What recentOutgoingPackets takes to be settled is in no slot.           *)
(***************************************************************************)
THEOREM BooksAgree == Spec => []SettledIsNotInFlight
  <1>1. Inv => SettledIsNotInFlight
    BY DEF Inv
  <1>2. QED
    BY <1>1, Invariance, PTL

-----------------------------------------------------------------------------
(***************************************************************************)
(* Sums over finite sets.  MapThenSumSet() adds up recursively, one chosen *)
(* element at a time; that such a recursive function exists, and that the  *)
(* order makes no difference, is shown here by way of smallest             *)
(* counterexamples, of numbers and of sets.                                *)
(***************************************************************************)

\* Of some natural numbers one is the smallest.
LEMMA SmallestNumber ==
  ASSUME NEW T, T \subseteq Nat, T # {}
  PROVE  \E x \in T : \A y \in T : x <= y
  <1> DEFINE R == OpToRel(<, Nat)
  <1>1. \A x, y \in Nat : x < y => <<x, y>> \in R
    BY DEF OpToRel
  <1>2. IsWellFoundedOn(R, Nat)
    BY NatLessThanWellFounded
  <1> HIDE DEF R
  <1>3. PICK x \in T : \A y \in T : ~(<<y, x>> \in R)
    BY <1>2, WFMin
  <1>4. ASSUME NEW y \in T
        PROVE  x <= y
    <2>1. x \in Nat /\ y \in Nat
      OBVIOUS
    <2>2. ~(y < x)
      BY <1>1, <1>3, <2>1
    <2> QED
      BY <2>1, <2>2
  <1> QED
    BY <1>4

\* Of some subsets of a finite set one has none of the others in it.
LEMMA SmallestSubset ==
  ASSUME NEW S, IsFiniteSet(S), NEW C, C \subseteq SUBSET S, C # {}
  PROVE  \E T \in C : \A U \in C : U \subseteq T => U = T
  <1> DEFINE R == StrictSubsetOrdering(S)
  <1>1. \A U, T \in SUBSET S : U \subseteq T /\ U # T => <<U, T>> \in R
    BY DEF StrictSubsetOrdering
  <1>2. IsWellFoundedOn(R, SUBSET S)
    BY FS_StrictSubsetOrderingWellFounded, FS_FiniteSubsetsOfFinite
  <1> HIDE DEF R
  <1>3. PICK T \in C : \A U \in C : ~(<<U, T>> \in R)
    BY <1>2, WFMin
  <1>4. ASSUME NEW U \in C, U \subseteq T
        PROVE  U = T
    <2>1. U \in SUBSET S /\ T \in SUBSET S
      OBVIOUS
    <2> QED
      BY <1>1, <1>3, <1>4, <2>1
  <1> QED
    BY <1>4

\* The element that is added first.
Chosen(T) == CHOOSE x \in T : TRUE

\* What g[T] has to be, given what it is of smaller sets, to be the sum of v over T.
SumStep(g, v, T) == IF T = {} THEN 0 ELSE v[Chosen(T)] + g[T \ {Chosen(T)}]

\* g adds up v over the subsets of S.
Adds(g, v, S) == g = [T \in SUBSET S |-> SumStep(g, v, T)]

Numbers(v, S) == \A x \in S : v[x] \in Nat

\* There is an element to be added first.
LEMMA ChosenFacts ==
  ASSUME NEW T, T # {}
  PROVE  Chosen(T) \in T
  BY DEF Chosen

\* One step of a sum.
LEMMA AddsFacts ==
  ASSUME NEW S, NEW g, NEW v, Adds(g, v, S), NEW T \in SUBSET S
  PROVE  /\ T = {} => g[T] = 0
         /\ T # {} => /\ Chosen(T) \in T
                      /\ T \ {Chosen(T)} \in SUBSET S
                      /\ g[T] = v[Chosen(T)] + g[T \ {Chosen(T)}]
  <1>1. g[T] = SumStep(g, v, T)
    BY DEF Adds
  <1> QED
    BY <1>1, ChosenFacts DEF SumStep

\* There is such a function.
LEMMA SumExists ==
  ASSUME NEW S, IsFiniteSet(S), NEW v, Numbers(v, S)
  PROVE  \E g \in [SUBSET S -> Nat] : Adds(g, v, S)
  <1> DEFINE Upto(g, n) == \A T \in SUBSET S : Cardinality(T) <= n => g[T] = SumStep(g, v, T)
             Bad == {n \in Nat : ~\E g \in [SUBSET S -> Nat] : Upto(g, n)}
  <1>1. \A T \in SUBSET S : IsFiniteSet(T) /\ Cardinality(T) \in Nat
    BY FS_Subset, FS_CardinalityType
  <1>2. 0 \notin Bad
    <2> DEFINE g == [T \in SUBSET S |-> 0]
    <2>1. g \in [SUBSET S -> Nat]
      OBVIOUS
    <2>2. ASSUME NEW T \in SUBSET S, Cardinality(T) <= 0
          PROVE  g[T] = SumStep(g, v, T)
      <3>1. T = {}
        BY <1>1, <2>2, FS_EmptySet
      <3> QED
        BY <3>1 DEF SumStep
    <2> QED
      BY <2>1, <2>2
  <1>3. ASSUME NEW n \in Nat, n \notin Bad
        PROVE  n + 1 \notin Bad
    <2>1. PICK f \in [SUBSET S -> Nat] : Upto(f, n)
      BY <1>3
    <2> DEFINE g == [T \in SUBSET S |-> SumStep(f, v, T)]
    <2>2. ASSUME NEW T \in SUBSET S
          PROVE  SumStep(f, v, T) \in Nat
      <3>1. CASE T = {}
        BY <3>1 DEF SumStep
      <3>2. CASE T # {}
        <4>1. v[Chosen(T)] \in Nat /\ T \ {Chosen(T)} \in SUBSET S
          BY <3>2, ChosenFacts DEF Numbers
        <4>2. f[T \ {Chosen(T)}] \in Nat
          BY <4>1
        <4> QED
          BY <3>2, <4>1, <4>2 DEF SumStep
      <3> QED
        BY <3>1, <3>2
    <2>3. g \in [SUBSET S -> Nat]
      BY <2>2
    <2>4. ASSUME NEW T \in SUBSET S, Cardinality(T) <= n + 1
          PROVE  g[T] = SumStep(g, v, T)
      <3>1. CASE T = {}
        BY <3>1 DEF SumStep
      <3>2. CASE T # {}
        <4> DEFINE U == T \ {Chosen(T)}
        <4>1. Chosen(T) \in T /\ U \in SUBSET S
          BY <3>2, ChosenFacts
        <4>2. Cardinality(U) = Cardinality(T) - 1
          BY <1>1, <4>1, FS_RemoveElement
        <4>3. Cardinality(U) <= n
          BY <1>1, <2>4, <4>2
        <4>4. f[U] = SumStep(f, v, U)
          BY <2>1, <4>1, <4>3
        <4>5. g[U] = f[U]
          BY <4>1, <4>4
        <4>6. g[T] = v[Chosen(T)] + f[U]
          BY <3>2 DEF SumStep
        <4> QED
          BY <3>2, <4>5, <4>6 DEF SumStep
      <3> QED
        BY <3>1, <3>2
    <2> HIDE DEF g
    <2> QED
      BY <2>3, <2>4
  <1>4. Bad = {}
    <2> SUFFICES ASSUME Bad # {} PROVE FALSE
      OBVIOUS
    <2>1. Bad \subseteq Nat
      OBVIOUS
    <2> HIDE DEF Bad
    <2>2. PICK m \in Bad : \A y \in Bad : m <= y
      BY <2>1, SmallestNumber
    <2>3. m \in Nat /\ m # 0
      BY <1>2, <2>1, <2>2
    <2>4. m - 1 \in Nat /\ (m - 1) + 1 = m
      BY <2>3
    <2>5. m - 1 \notin Bad
      BY <2>2, <2>3, <2>4
    <2> QED
      BY <1>3, <2>2, <2>4, <2>5
  <1>5. PICK g \in [SUBSET S -> Nat] : Upto(g, Cardinality(S))
    BY <1>1, <1>4
  <1>6. ASSUME NEW T \in SUBSET S
        PROVE  g[T] = SumStep(g, v, T)
    <2>1. Cardinality(T) <= Cardinality(S)
      BY FS_Subset
    <2> QED
      BY <1>5, <2>1
  <1> QED
    BY <1>6 DEF Adds

\* There is only one, and it depends on nothing but the numbers added.
LEMMA SumUnique ==
  ASSUME NEW S, IsFiniteSet(S), NEW g, NEW v, Adds(g, v, S),
         NEW D, D \subseteq S, NEW h, NEW u, Adds(h, u, D), \A x \in D : u[x] = v[x]
  PROVE  \A T \in SUBSET D : h[T] = g[T]
  <1> DEFINE C == {T \in SUBSET D : h[T] # g[T]}
  <1> SUFFICES ASSUME C # {} PROVE FALSE
    OBVIOUS
  <1>1. C \subseteq SUBSET S
    OBVIOUS
  <1> HIDE DEF C
  <1>2. PICK T \in C : \A U \in C : U \subseteq T => U = T
    BY <1>1, SmallestSubset
  <1>3. T \in SUBSET D /\ T \in SUBSET S /\ h[T] # g[T]
    BY DEF C
  <1>4. T # {}
    BY <1>3, AddsFacts
  <1> DEFINE U == T \ {Chosen(T)}
  <1>5. Chosen(T) \in T /\ h[T] = u[Chosen(T)] + h[U] /\ g[T] = v[Chosen(T)] + g[U]
    BY <1>3, <1>4, AddsFacts
  <1>6. h[U] = g[U]
    BY <1>2, <1>3, <1>5 DEF C
  <1> QED
    BY <1>3, <1>5, <1>6

\* The sum of v over S.
Total(v, S) == (CHOOSE g : Adds(g, v, S))[S]

\* Whatever adds up the subsets of S finds their sums.
LEMMA TotalIsSum ==
  ASSUME NEW S, IsFiniteSet(S), NEW v, Numbers(v, S), NEW g, Adds(g, v, S)
  PROVE  \A T \in SUBSET S : g[T] = Total(v, T) /\ g[T] \in Nat
  <1>1. PICK f \in [SUBSET S -> Nat] : Adds(f, v, S)
    BY SumExists
  <1>2. \A T \in SUBSET S : g[T] = f[T]
    BY <1>1, SumUnique
  <1>3. ASSUME NEW T \in SUBSET S
        PROVE  g[T] = Total(v, T)
    <2> DEFINE h == CHOOSE h : Adds(h, v, T)
    <2>1. IsFiniteSet(T) /\ Numbers(v, T)
      BY FS_Subset DEF Numbers
    <2>2. \E f1 : Adds(f1, v, T)
      BY <2>1, SumExists
    <2>3. Adds(h, v, T)
      BY <2>2
    <2>4. Total(v, T) = h[T]
      BY DEF Total
    <2> HIDE DEF h
    <2>5. h[T] = g[T]
      BY <2>3, SumUnique
    <2> QED
      BY <2>4, <2>5
  <1> QED
    BY <1>1, <1>2, <1>3

\* The sum, its type, and that the element chosen first may be any.
LEMMA TotalFacts ==
  ASSUME NEW S, IsFiniteSet(S), NEW v, Numbers(v, S)
  PROVE  /\ Total(v, S) \in Nat
         /\ S = {} => Total(v, S) = 0
         /\ S # {} => Total(v, S) = v[Chosen(S)] + Total(v, S \ {Chosen(S)})
  <1>1. PICK g : Adds(g, v, S)
    BY SumExists
  <1>2. \A T \in SUBSET S : g[T] = Total(v, T) /\ g[T] \in Nat
    BY <1>1, TotalIsSum
  <1>3. g[S] = Total(v, S) /\ Total(v, S) \in Nat
    BY <1>2
  <1>4. S = {} => g[S] = 0
    BY <1>1, AddsFacts
  <1>5. S # {} => S \ {Chosen(S)} \in SUBSET S /\ g[S] = v[Chosen(S)] + g[S \ {Chosen(S)}]
    BY <1>1, AddsFacts
  <1>6. S # {} => g[S] = v[Chosen(S)] + Total(v, S \ {Chosen(S)})
    BY <1>2, <1>5
  <1> QED
    BY <1>3, <1>4, <1>6

\* The sum does not depend on which element is added first.
LEMMA TotalOfOthers ==
  ASSUME NEW S, IsFiniteSet(S), NEW v, Numbers(v, S)
  PROVE  \A x \in S : Total(v, S) = v[x] + Total(v, S \ {x})
  <1> DEFINE C == {T \in SUBSET S : \E x \in T : Total(v, T) # v[x] + Total(v, T \ {x})}
  <1>1. C = {}
    <2> SUFFICES ASSUME C # {} PROVE FALSE
      OBVIOUS
    <2>1. C \subseteq SUBSET S
      OBVIOUS
    <2> HIDE DEF C
    <2>2. PICK T \in C : \A U \in C : U \subseteq T => U = T
      BY <2>1, SmallestSubset
    <2>3. PICK x \in T : Total(v, T) # v[x] + Total(v, T \ {x})
      BY <2>2 DEF C
    <2> DEFINE y == Chosen(T)
    <2>4. \A U \in SUBSET S :
            /\ Total(v, U) \in Nat
            /\ U # {} => Total(v, U) = v[Chosen(U)] + Total(v, U \ {Chosen(U)})
      <3> SUFFICES ASSUME NEW U \in SUBSET S
                   PROVE  /\ Total(v, U) \in Nat
                          /\ U # {} => Total(v, U) = v[Chosen(U)] + Total(v, U \ {Chosen(U)})
        OBVIOUS
      <3>1. IsFiniteSet(U) /\ Numbers(v, U)
        BY FS_Subset DEF Numbers
      <3> QED
        BY <3>1, TotalFacts
    <2>5. T \in SUBSET S /\ y \in T /\ Total(v, T) = v[y] + Total(v, T \ {y})
      BY <2>1, <2>3, <2>4, ChosenFacts
    <2> HIDE DEF y
    <2>6. x # y
      BY <2>3, <2>5
    <2>7. ASSUME NEW a \in T, NEW b \in T, a # b
          PROVE  Total(v, T \ {a}) = v[b] + Total(v, (T \ {a}) \ {b})
      <3>1. T \ {a} \notin C /\ T \ {a} \in SUBSET S /\ b \in T \ {a}
        BY <2>2, <2>5, <2>7
      <3> QED
        BY <3>1 DEF C
    <2>8. (T \ {x}) \ {y} = (T \ {y}) \ {x}
      OBVIOUS
    <2>9. /\ Total(v, T \ {x}) = v[y] + Total(v, (T \ {x}) \ {y})
          /\ Total(v, T \ {y}) = v[x] + Total(v, (T \ {x}) \ {y})
      BY <2>5, <2>6, <2>7, <2>8
    <2>10. v[x] \in Nat /\ v[y] \in Nat /\ Total(v, (T \ {x}) \ {y}) \in Nat
      BY <2>4, <2>5 DEF Numbers
    <2>11. Total(v, T) = v[x] + Total(v, T \ {x})
      <3> HIDE DEF Total
      <3> DEFINE r == Total(v, (T \ {x}) \ {y})
      <3>1. r \in Nat /\ Total(v, T) = v[y] + (v[x] + r) /\ Total(v, T \ {x}) = v[y] + r
        BY <2>5, <2>9, <2>10
      <3> HIDE DEF r
      <3> QED
        BY <2>10, <3>1
    <2> QED
      BY <2>3, <2>11
  <1>2. S \in SUBSET S
    OBVIOUS
  <1> QED
    BY <1>1, <1>2

\* Two sums are compared, or added, number by number.
LEMMA TotalSplits ==
  ASSUME NEW S, IsFiniteSet(S), NEW v, Numbers(v, S), NEW T \in SUBSET S
  PROVE  Total(v, S) = Total(v, T) + Total(v, S \ T)
  <1> DEFINE C == {U \in SUBSET T : Total(v, S) # Total(v, S \ U) + Total(v, U)}
  <1>1. \A U \in SUBSET S : IsFiniteSet(U) /\ Numbers(v, U) /\ Total(v, U) \in Nat
    <2> SUFFICES ASSUME NEW U \in SUBSET S
                 PROVE  IsFiniteSet(U) /\ Numbers(v, U) /\ Total(v, U) \in Nat
      OBVIOUS
    <2>1. IsFiniteSet(U) /\ Numbers(v, U)
      BY FS_Subset DEF Numbers
    <2> QED
      BY <2>1, TotalFacts
  <1>2. C = {}
    <2> SUFFICES ASSUME C # {} PROVE FALSE
      OBVIOUS
    <2>1. C \subseteq SUBSET S
      OBVIOUS
    <2> HIDE DEF C
    <2>2. PICK U \in C : \A V \in C : V \subseteq U => V = U
      BY <2>1, SmallestSubset
    <2>3. U \in SUBSET T /\ U \in SUBSET S /\ Total(v, S) # Total(v, S \ U) + Total(v, U)
      BY <2>2 DEF C
    <2>4. U # {}
      <3>1. S \ {} = S /\ {} \in SUBSET S
        OBVIOUS
      <3>2. Total(v, {}) = 0 /\ Total(v, S) \in Nat
        BY <1>1, <3>1, TotalFacts
      <3>3. Total(v, S) = Total(v, S) + 0
        BY <3>2
      <3> QED
        BY <2>3, <3>1, <3>2, <3>3
    <2>5. PICK x \in U : TRUE
      BY <2>4
    <2> DEFINE V == U \ {x}
               W == S \ U
    <2>6. V \in SUBSET T /\ V \in SUBSET S /\ V \notin C /\ W \in SUBSET S
      BY <2>2, <2>3, <2>5
    <2>7. Total(v, S) = Total(v, S \ V) + Total(v, V)
      BY <2>6 DEF C
    <2>8. x \in S \ V /\ (S \ V) \ {x} = W /\ S \ V \in SUBSET S
      BY <2>3, <2>5
    <2>9. Total(v, U) = v[x] + Total(v, V)
      BY <1>1, <2>3, <2>5, TotalOfOthers
    <2>10. Total(v, S \ V) = v[x] + Total(v, W)
      <3>1. IsFiniteSet(S \ V) /\ Numbers(v, S \ V)
        BY <1>1, <2>8
      <3>2. Total(v, S \ V) = v[x] + Total(v, (S \ V) \ {x})
        BY <2>8, <3>1, TotalOfOthers
      <3> QED
        BY <2>8, <3>2
    <2>11. v[x] \in Nat /\ Total(v, V) \in Nat /\ Total(v, W) \in Nat
      BY <1>1, <2>3, <2>6 DEF Numbers
    <2> HIDE DEF V
    <2>12. Total(v, S) = Total(v, W) + Total(v, U)
      BY <2>7, <2>9, <2>10, <2>11
    <2> QED
      BY <2>3, <2>12
  <1>3. Total(v, S) = Total(v, S \ T) + Total(v, T)
    BY <1>2
  <1>4. Total(v, S \ T) \in Nat /\ Total(v, T) \in Nat
    BY <1>1
  <1> QED
    BY <1>3, <1>4

\* Equal numbers, larger ones, and sums of two.
LEMMA TotalCompares ==
  ASSUME NEW S, IsFiniteSet(S), NEW u, NEW v, Numbers(u, S), Numbers(v, S)
  PROVE  /\ (\A x \in S : u[x] = v[x]) => Total(u, S) = Total(v, S)
         /\ (\A x \in S : u[x] <= v[x]) => Total(u, S) <= Total(v, S)
  <1>1. ASSUME \A x \in S : u[x] <= v[x]
        PROVE  Total(u, S) <= Total(v, S)
    <2> DEFINE C == {T \in SUBSET S : ~(Total(u, T) <= Total(v, T))}
    <2>1. C = {}
      <3> SUFFICES ASSUME C # {} PROVE FALSE
        OBVIOUS
      <3>1. C \subseteq SUBSET S
        OBVIOUS
      <3> HIDE DEF C
      <3>2. PICK T \in C : \A U \in C : U \subseteq T => U = T
        BY <3>1, SmallestSubset
      <3>3. T \in SUBSET S /\ ~(Total(u, T) <= Total(v, T))
        BY <3>2 DEF C
      <3>4. IsFiniteSet(T) /\ Numbers(u, T) /\ Numbers(v, T)
        BY <3>3, FS_Subset DEF Numbers
      <3>5. T # {}
        <4>1. T = {} => Total(u, T) = 0 /\ Total(v, T) = 0
          BY <3>4, TotalFacts
        <4> QED
          BY <3>3, <4>1
      <3> DEFINE x == Chosen(T)
                 U == T \ {x}
      <3>6. x \in T /\ U \in SUBSET S /\ U \notin C
        BY <3>2, <3>3, <3>5, ChosenFacts
      <3>7. Total(u, T) = u[x] + Total(u, U) /\ Total(v, T) = v[x] + Total(v, U)
        BY <3>4, <3>5, TotalFacts
      <3>8. Total(u, U) <= Total(v, U)
        BY <3>6 DEF C
      <3>9. /\ u[x] \in Nat /\ v[x] \in Nat /\ u[x] <= v[x]
            /\ Total(u, U) \in Nat /\ Total(v, U) \in Nat
        <4>1. IsFiniteSet(U) /\ Numbers(u, U) /\ Numbers(v, U)
          BY <3>6, FS_Subset DEF Numbers
        <4>2. x \in S
          BY <3>3, <3>6
        <4> QED
          BY <1>1, <4>1, <4>2, TotalFacts DEF Numbers
      <3> HIDE DEF x, U
      <3>10. Total(u, T) <= Total(v, T)
        BY <3>7, <3>8, <3>9
      <3> QED
        BY <3>3, <3>10
    <2>2. S \in SUBSET S
      OBVIOUS
    <2> QED
      BY <2>1, <2>2
  <1>2. ASSUME \A x \in S : u[x] = v[x]
        PROVE  Total(u, S) = Total(v, S)
    <2>1. PICK g : Adds(g, v, S)
      BY SumExists
    <2>2. PICK h : Adds(h, u, S)
      BY SumExists
    <2>3. S \in SUBSET S
      OBVIOUS
    <2>4. h[S] = g[S]
      BY <1>2, <2>1, <2>2, <2>3, SumUnique
    <2>5. g[S] = Total(v, S)
      BY <2>1, <2>3, TotalIsSum
    <2>6. h[S] = Total(u, S)
      BY <2>2, <2>3, TotalIsSum
    <2> QED
      BY <2>4, <2>5, <2>6
  <1> QED
    BY <1>1, <1>2

\* Sums of sums.
LEMMA TotalAdds ==
  ASSUME NEW S, IsFiniteSet(S), NEW u, NEW v, NEW w, Numbers(u, S), Numbers(v, S), Numbers(w, S),
         \A x \in S : w[x] = u[x] + v[x]
  PROVE  Total(w, S) = Total(u, S) + Total(v, S)
  <1> DEFINE C == {T \in SUBSET S : Total(w, T) # Total(u, T) + Total(v, T)}
  <1>1. C = {}
    <2> SUFFICES ASSUME C # {} PROVE FALSE
      OBVIOUS
    <2>1. C \subseteq SUBSET S
      OBVIOUS
    <2> HIDE DEF C
    <2>2. PICK T \in C : \A U \in C : U \subseteq T => U = T
      BY <2>1, SmallestSubset
    <2>3. T \in SUBSET S /\ Total(w, T) # Total(u, T) + Total(v, T)
      BY <2>2 DEF C
    <2>4. IsFiniteSet(T) /\ Numbers(u, T) /\ Numbers(v, T) /\ Numbers(w, T)
      BY <2>3, FS_Subset DEF Numbers
    <2>5. T # {}
      <3>1. T = {} => Total(u, T) = 0 /\ Total(v, T) = 0 /\ Total(w, T) = 0
        BY <2>4, TotalFacts
      <3> QED
        BY <2>3, <3>1
    <2> DEFINE x == Chosen(T)
               U == T \ {x}
    <2>6. x \in T /\ U \in SUBSET S /\ U \notin C
      BY <2>2, <2>3, <2>5, ChosenFacts
    <2>7. /\ Total(u, T) = u[x] + Total(u, U) /\ Total(v, T) = v[x] + Total(v, U)
          /\ Total(w, T) = w[x] + Total(w, U)
      BY <2>4, <2>5, TotalFacts
    <2>8. Total(w, U) = Total(u, U) + Total(v, U)
      BY <2>6 DEF C
    <2>9. /\ u[x] \in Nat /\ v[x] \in Nat /\ w[x] = u[x] + v[x]
          /\ Total(u, U) \in Nat /\ Total(v, U) \in Nat
      <3>1. IsFiniteSet(U) /\ Numbers(u, U) /\ Numbers(v, U)
        BY <2>6, FS_Subset DEF Numbers
      <3>2. x \in S
        BY <2>3, <2>6
      <3> QED
        BY <3>1, <3>2, TotalFacts DEF Numbers
    <2> HIDE DEF x, U
    <2>10. Total(w, T) = Total(u, T) + Total(v, T)
      BY <2>7, <2>8, <2>9
    <2> QED
      BY <2>3, <2>10
  <1>2. S \in SUBSET S
    OBVIOUS
  <1> QED
    BY <1>1, <1>2

-----------------------------------------------------------------------------
(* The data in flight                                                      *)

\* What DataIn() adds up, for any slots.
DataOf(slots, S) == LET SizeOf(i) == slots[i].size IN MapThenSumSet(SizeOf, S)

\* The sum of some slots' sizes, as the model states it.
LEMMA SizesAddUp ==
  ASSUME NEW slots, NEW S, IsFiniteSet(S), NEW v,
         \A i \in S : v[i] = slots[i].size /\ v[i] \in Nat
  PROVE  DataOf(slots, S) = Total(v, S)
  <1> DEFINE Sum(g) == g = [T \in SUBSET S |-> IF T = {} THEN 0
                              ELSE slots[Chosen(T)].size + g[T \ {Chosen(T)}]]
             h == CHOOSE g : Sum(g)
  <1>1. DataOf(slots, S) = h[S]
    BY DEF DataOf, MapThenSumSet, MapThenFoldSet, Chosen
  <1>2. ASSUME NEW T \in SUBSET S, NEW g
        PROVE  SumStep(g, v, T) = IF T = {} THEN 0
                                  ELSE slots[Chosen(T)].size + g[T \ {Chosen(T)}]
    <2>1. T # {} => v[Chosen(T)] = slots[Chosen(T)].size
      BY ChosenFacts
    <2> QED
      BY <2>1 DEF SumStep
  <1>3. ASSUME NEW g
        PROVE  Sum(g) <=> Adds(g, v, S)
    BY <1>2 DEF Adds
  <1>4. Numbers(v, S)
    BY DEF Numbers
  <1>5. \E g : Adds(g, v, S)
    BY <1>4, SumExists
  <1> HIDE DEF Sum
  <1>6. Sum(h)
    BY <1>3, <1>5
  <1>7. Adds(h, v, S)
    BY <1>3, <1>6
  <1> HIDE DEF h
  <1>8. h[S] = Total(v, S)
    BY <1>4, <1>7, TotalIsSum
  <1> QED
    BY <1>1, <1>8

\* The slots are finitely many.
LEMMA SlotSets ==
  /\ IsFiniteSet(SlotNos)
  /\ InUse \subseteq SlotNos
  /\ InUse' \subseteq SlotNos
  <1>1. IsFiniteSet(SlotNos)
    BY AccountingAssumption, FS_Interval DEF SlotNos
  <1> QED
    BY <1>1 DEF InUse

SizeAt == [i \in SlotNos |-> inflightPackets[i].size]

\* What some slots hold is a sum of numbers.
LEMMA SizesOfSlots ==
  ASSUME Shape, NEW I \in SUBSET InUse
  PROVE  /\ IsFiniteSet(I)
         /\ Numbers(SizeAt, I)
         /\ DataIn(I) = Total(SizeAt, I)
         /\ DataIn(I) \in Nat
  <1>1. IsFiniteSet(I) /\ I \subseteq SlotNos
    BY SlotSets, FS_Subset
  <1>2. \A i \in I : SizeAt[i] = inflightPackets[i].size /\ SizeAt[i] \in Nat
    BY <1>1, SlotKinds DEF SizeAt, Slots
  <1>3. DataIn(I) = Total(SizeAt, I)
    <2>1. DataIn(I) = DataOf(inflightPackets, I)
      BY DEF DataIn, DataOf
    <2> QED
      BY <1>1, <1>2, <2>1, SizesAddUp
  <1>4. Numbers(SizeAt, I)
    BY <1>2 DEF Numbers
  <1> QED
    BY <1>1, <1>3, <1>4, TotalFacts

\* The same of the next state, whose slots in use have the sizes v.
LEMMA SizesOfNextSlots ==
  ASSUME NEW v, \A i \in InUse' : v[i] = inflightPackets'[i].size /\ v[i] \in Nat
  PROVE  DataIn(InUse)' = Total(v, InUse')
  <1>1. IsFiniteSet(InUse')
    BY SlotSets, FS_Subset
  <1>2. DataOf(inflightPackets', InUse') = Total(v, InUse')
    BY <1>1, SizesAddUp
  <1>3. DataIn(InUse)' = DataOf(inflightPackets', InUse')
    BY DEF DataIn, DataOf, MapThenSumSet, MapThenFoldSet
  <1> QED
    BY <1>2, <1>3

\* Slots that are freed take their sizes with them.
LEMMA FreedData ==
  ASSUME Inv, InflightSizeExact, NEW I \in SUBSET InUse, inflightPackets' = Freed(I),
         inflightDataSize' = inflightDataSize - DataIn(I)
  PROVE  InflightSizeExact'
  <1>1. /\ InUse' = InUse \ I
        /\ \A i \in InUse' : inflightPackets'[i] = inflightPackets[i]
    BY FreedSlots
  <1>2. /\ Numbers(SizeAt, InUse) /\ IsFiniteSet(InUse)
        /\ inflightDataSize = Total(SizeAt, InUse)
        /\ DataIn(I) = Total(SizeAt, I)
    BY SizesOfSlots DEF Inv, InflightSizeExact
  <1>3. \A i \in InUse' : SizeAt[i] = inflightPackets'[i].size /\ SizeAt[i] \in Nat
    BY <1>1, <1>2, SlotSets DEF SizeAt, Numbers
  <1>4. DataIn(InUse)' = Total(SizeAt, InUse \ I)
    BY <1>1, <1>3, SizesOfNextSlots
  <1>5. Total(SizeAt, InUse) = Total(SizeAt, I) + Total(SizeAt, InUse \ I)
    BY <1>2, TotalSplits
  <1>6. Total(SizeAt, I) \in Nat /\ Total(SizeAt, InUse \ I) \in Nat
    <2>1. DataIn(InUse \ I) = Total(SizeAt, InUse \ I) /\ DataIn(InUse \ I) \in Nat
      BY SizesOfSlots DEF Inv
    <2> QED
      BY <1>2, <2>1, SizesOfSlots DEF Inv
  <1>7. inflightDataSize' = DataIn(InUse)'
    BY <1>2, <1>4, <1>5, <1>6
  <1> QED
    BY <1>7 DEF InflightSizeExact

\* A slot is taken over: its old size goes, and the new one comes.
LEMMA OccupiedData ==
  ASSUME Inv, InflightSizeExact, NEW s \in Streams, NEW n \in SeqNumbers, NEW size \in Nat,
         Occupy(s, n, size)
  PROVE  InflightSizeExact'
  <1>1. PICK i \in SlotNos :
          /\ inflightPackets' = [inflightPackets EXCEPT ![i] =
               [used |-> TRUE, stream |-> s, seq |-> n, size |-> size, age |-> 0]]
          /\ inflightDataSize' = inflightDataSize - DataIn({i} \cap InUse) + size
    BY DEF Occupy
  <1> DEFINE J == {i} \cap InUse
             Rest == InUse \ {i}
             v == [SizeAt EXCEPT ![i] = size]
  <1>2. /\ inflightPackets'[i].used /\ inflightPackets'[i].size = size
        /\ \A j \in SlotNos : j # i => inflightPackets'[j] = inflightPackets[j]
    BY <1>1 DEF Inv, Shape
  <1>3. InUse' = Rest \cup {i} /\ i \in InUse'
    BY <1>2 DEF InUse
  <1>4. /\ J \in SUBSET InUse /\ Rest \in SUBSET InUse /\ Rest = InUse \ J
        /\ Rest \subseteq SlotNos /\ i \notin Rest
    BY SlotSets
  <1> HIDE DEF J, Rest
  <1>5. /\ Numbers(SizeAt, InUse) /\ IsFiniteSet(InUse)
        /\ inflightDataSize = Total(SizeAt, InUse)
        /\ DataIn(J) = Total(SizeAt, J) /\ DataIn(J) \in Nat
        /\ Numbers(SizeAt, Rest) /\ IsFiniteSet(Rest) /\ Total(SizeAt, Rest) \in Nat
    BY <1>4, SizesOfSlots DEF Inv, InflightSizeExact
  <1>6. inflightDataSize = DataIn(J) + Total(SizeAt, Rest)
    BY <1>4, <1>5, TotalSplits
  <1>7. /\ v[i] = size
        /\ \A j \in Rest : v[j] = SizeAt[j] /\ v[j] = inflightPackets'[j].size
    BY <1>2, <1>4 DEF SizeAt
  <1> HIDE DEF v
  <1>8. \A j \in InUse' : v[j] = inflightPackets'[j].size /\ v[j] \in Nat
    BY <1>2, <1>3, <1>5, <1>7 DEF Numbers
  <1>9. DataIn(InUse)' = Total(v, InUse')
    BY <1>8, SizesOfNextSlots
  <1>10. IsFiniteSet(InUse') /\ Numbers(v, InUse') /\ Numbers(v, Rest)
    BY <1>3, <1>8, SlotSets, FS_Subset DEF Numbers
  <1>11. Total(v, InUse') = v[i] + Total(v, InUse' \ {i})
    BY <1>3, <1>10, TotalOfOthers
  <1>12. InUse' \ {i} = Rest
    BY <1>3, <1>4
  <1>13. Total(v, Rest) = Total(SizeAt, Rest)
    BY <1>5, <1>7, <1>10, TotalCompares
  <1>14. DataIn(InUse)' = size + Total(SizeAt, Rest)
    BY <1>7, <1>9, <1>11, <1>12, <1>13
  <1>15. inflightDataSize' = inflightDataSize - DataIn(J) + size
    BY <1>1 DEF J
  <1>16. inflightDataSize' = DataIn(InUse)'
    <2> DEFINE r == Total(SizeAt, Rest)
               t == DataIn(J)
    <2>1. r \in Nat /\ t \in Nat /\ inflightDataSize = t + r
      BY <1>5, <1>6
    <2>2. inflightDataSize' = inflightDataSize - t + size /\ DataIn(InUse)' = size + r
      BY <1>14, <1>15
    <2> HIDE DEF r, t
    <2> QED
      BY <2>1, <2>2
  <1> QED
    BY <1>16 DEF InflightSizeExact

\* What is in flight grows older, not larger.
LEMMA OlderData ==
  ASSUME Inv, InflightSizeExact, Elapse
  PROVE  InflightSizeExact'
  <1>1. ASSUME NEW i \in SlotNos
        PROVE  /\ i \in InUse' <=> i \in InUse
               /\ i \in InUse => inflightPackets'[i].size = inflightPackets[i].size
    <2>1. CASE i \in InUse
      <3>1. inflightPackets[i] \in Slots /\ inflightPackets[i].used
        BY <2>1, SlotKinds DEF Inv, InUse
      <3>2. inflightPackets'[i] = [inflightPackets[i] EXCEPT !.age = Older(@)]
        BY <3>1 DEF Elapse
      <3> QED
        BY <2>1, <3>1, <3>2 DEF Slots, InUse
    <2>2. CASE i \notin InUse
      <3>1. inflightPackets'[i] = Free
        BY <2>2 DEF Elapse, InUse
      <3> QED
        BY <2>2, <3>1 DEF InUse, Free
    <2> QED
      BY <2>1, <2>2
  <1>2. InUse' = InUse
    BY <1>1, SlotSets
  <1>3. Numbers(SizeAt, InUse) /\ inflightDataSize = Total(SizeAt, InUse)
    BY SizesOfSlots DEF Inv, InflightSizeExact
  <1>4. \A i \in InUse' : SizeAt[i] = inflightPackets'[i].size /\ SizeAt[i] \in Nat
    BY <1>1, <1>2, <1>3, SlotSets DEF SizeAt, Numbers
  <1>5. DataIn(InUse)' = Total(SizeAt, InUse)
    BY <1>2, <1>4, SizesOfNextSlots
  <1>6. inflightDataSize' = inflightDataSize
    BY DEF Elapse
  <1> QED
    BY <1>3, <1>5, <1>6 DEF InflightSizeExact

-----------------------------------------------------------------------------
(* Transmissions found lost                                                *)

\* The entries whose loss an acknowledgement would take back.
AtRisk(list) == {i \in DOMAIN list : list[i].lost /\ ~list[i].acked}

RiskIn(lists) == [s \in Streams |-> Cardinality(AtRisk(lists[s]))]

\* Entries of a list can be counted.
LEMMA EntrySets ==
  ASSUME NEW list \in Seq(Recents), NEW I \in SUBSET DOMAIN list
  PROVE  IsFiniteSet(I) /\ Cardinality(I) \in Nat
  <1>1. IsFiniteSet(DOMAIN list)
    BY ListIsFunction, FS_Interval
  <1> QED
    BY <1>1, FS_Subset, FS_CardinalityType

\* So can those whose loss may be taken back.
LEMMA RiskIsNumber ==
  ASSUME NEW list \in Seq(Recents)
  PROVE  IsFiniteSet(AtRisk(list)) /\ Cardinality(AtRisk(list)) \in Nat
  <1>1. AtRisk(list) \in SUBSET DOMAIN list
    BY DEF AtRisk
  <1> QED
    BY <1>1, EntrySets

\* The list is cut at its limit, and the entries that stay move up.
LEMMA WithIsSuffix ==
  ASSUME NEW list \in Seq(Recents), NEW n \in SeqNumbers
  PROVE  /\ With(list, n) \in Seq(Recents) /\ Len(With(list, n)) <= MaxRecent
         /\ \E from \in Nat \ {0} :
              \A i \in DOMAIN With(list, n) :
                \/ ~With(list, n)[i].lost
                \/ /\ from + i - 1 \in DOMAIN list
                   /\ With(list, n)[i] = list[from + i - 1]
  <1> DEFINE e == [seq |-> n, age |-> 0, acked |-> FALSE, lost |-> FALSE]
             all == Append(list, e)
             k == Len(all) - MaxRecent + 1
             from == Max({1, k})
  <1>1. e \in Recents
    BY AccountingAssumption DEF Recents, Ages
  <1>2. from \in 1 .. Len(all) /\ from >= k /\ k \in Int /\ k = Len(all) - MaxRecent + 1
    <2>1. k \in Int /\ k <= Len(all) /\ Len(all) >= 1
      BY SizesAssumption, <1>1
    <2>2. \E x \in {1, k} : \A y \in {1, k} : x >= y
      BY <2>1
    <2>3. from \in {1, k} /\ \A y \in {1, k} : from >= y
      BY <2>2 DEF Max
    <2> QED
      BY <2>1, <2>3
  <1>3. /\ all \in Seq(Recents) /\ Len(all) = Len(list) + 1 /\ Len(list) \in Nat
        /\ \A i \in 1 .. Len(list) : all[i] = list[i]
        /\ all[Len(all)] = e
    BY <1>1
  <1>4. With(list, n) = SubSeq(all, from, Len(all))
    BY DEF With
  <1> HIDE DEF all, from, k
  <1>5. /\ SubSeq(all, from, Len(all)) \in Seq(Recents)
        /\ Len(SubSeq(all, from, Len(all))) = Len(all) - from + 1
        /\ \A i \in 1 .. Len(all) - from + 1 :
             SubSeq(all, from, Len(all))[i] = all[from + i - 1]
    <2>1. \A i \in from .. Len(all) : all[i] \in Recents
      BY <1>2, <1>3
    <2> QED
      BY <1>2, <1>3, <2>1, SubSeqProperties
  <1>6. Len(With(list, n)) <= MaxRecent
    BY <1>2, <1>3, <1>4, <1>5, SizesAssumption
  <1>7. ASSUME NEW i \in DOMAIN With(list, n)
        PROVE  \/ ~With(list, n)[i].lost
               \/ /\ from + i - 1 \in DOMAIN list
                  /\ With(list, n)[i] = list[from + i - 1]
    <2>1. i \in 1 .. Len(all) - from + 1
      BY <1>4, <1>5
    <2>2. With(list, n)[i] = all[from + i - 1] /\ from + i - 1 \in 1 .. Len(all)
      <3>1. With(list, n)[i] = all[from + i - 1]
        BY <1>4, <1>5, <2>1
      <3>2. from + i - 1 \in 1 .. Len(all)
        BY <1>2, <1>3, <2>1
      <3> QED
        BY <3>1, <3>2
    <2>3. CASE from + i - 1 = Len(all)
      BY <1>3, <2>2, <2>3
    <2>4. CASE from + i - 1 # Len(all)
      <3>1. from + i - 1 \in 1 .. Len(list) /\ DOMAIN list = 1 .. Len(list)
        BY <1>2, <1>3, <2>2, <2>4
      <3> QED
        BY <1>3, <2>2, <3>1
    <2> QED
      BY <2>3, <2>4
  <1>8. from \in Nat \ {0}
    BY <1>2, <1>3
  <1> QED
    BY <1>4, <1>5, <1>6, <1>7, <1>8

\* A new transmission is not lost; the one that falls off the list may have been.
LEMMA RiskOfWith ==
  ASSUME NEW list \in Seq(Recents), NEW n \in SeqNumbers
  PROVE  Cardinality(AtRisk(With(list, n))) <= Cardinality(AtRisk(list))
  <1>1. With(list, n) \in Seq(Recents)
    BY WithIsSuffix
  <1>2. PICK from \in Nat \ {0} :
          \A i \in DOMAIN With(list, n) :
            \/ ~With(list, n)[i].lost
            \/ /\ from + i - 1 \in DOMAIN list
               /\ With(list, n)[i] = list[from + i - 1]
    BY WithIsSuffix
  <1> DEFINE A == AtRisk(With(list, n))
             f == [i \in A |-> from + i - 1]
  <1>3. ASSUME NEW i \in A
        PROVE  i \in Nat /\ f[i] \in AtRisk(list)
    <2>1. i \in DOMAIN With(list, n) /\ With(list, n)[i].lost /\ ~With(list, n)[i].acked
      BY DEF AtRisk
    <2>2. from + i - 1 \in DOMAIN list /\ With(list, n)[i] = list[from + i - 1]
      BY <1>2, <2>1
    <2>3. i \in Nat
      BY <1>1, <2>1, ListIsFunction
    <2> QED
      BY <2>1, <2>2, <2>3 DEF AtRisk
  <1>4. f \in [A -> AtRisk(list)]
    BY <1>3
  <1>5. \A i, j \in A : f[i] = f[j] => i = j
    BY <1>3
  <1> HIDE DEF A, f
  <1>6. f \in Injection(A, AtRisk(list))
    BY <1>4, <1>5 DEF Injection, IsInjective
  <1>7. IsFiniteSet(AtRisk(list))
    BY RiskIsNumber
  <1>8. Cardinality(A) <= Cardinality(AtRisk(list))
    BY <1>6, <1>7, FS_Injection
  <1> QED
    BY <1>8 DEF A

\* What is taken back is what was at risk and is no more.
LEMMA RiskOfAcknowledged ==
  ASSUME NEW list \in Seq(Recents), NEW I \in SUBSET DOMAIN list, \A i \in I : ~list[i].acked
  PROVE  /\ LossesTakenBack(list, I) \in Nat
         /\ Cardinality(AtRisk(list))
              = Cardinality(AtRisk(Acknowledged(list, I))) + LossesTakenBack(list, I)
  <1> DEFINE B == {i \in I : list[i].lost}
  <1>1. AtRisk(list) \cap I = B
    BY DEF AtRisk
  <1>2. AtRisk(Acknowledged(list, I)) = AtRisk(list) \ I
    <2>1. \A i \in DOMAIN list :
            /\ i \in I => Acknowledged(list, I)[i].acked
            /\ i \notin I => Acknowledged(list, I)[i] = list[i]
      BY ListIsFunction DEF Acknowledged, Recents
    <2>2. DOMAIN Acknowledged(list, I) = DOMAIN list
      BY DEF Acknowledged
    <2> QED
      BY <2>1, <2>2 DEF AtRisk
  <1>3. LossesTakenBack(list, I) = Cardinality(B)
    BY DEF LossesTakenBack
  <1>4. Cardinality(B) \in Nat
    <2>1. B \in SUBSET DOMAIN list
      OBVIOUS
    <2> HIDE DEF B
    <2> QED
      BY <2>1, EntrySets
  <1>5. IsFiniteSet(AtRisk(list)) /\ Cardinality(AtRisk(list)) \in Nat
    BY RiskIsNumber
  <1> HIDE DEF B
  <1>6. Cardinality(AtRisk(list) \ I) = Cardinality(AtRisk(list)) - Cardinality(B)
    BY <1>1, <1>5, FS_Difference
  <1> QED
    BY <1>2, <1>3, <1>4, <1>5, <1>6

\* What is found lost is at risk from then on.
LEMMA RiskOfFoundLost ==
  ASSUME NEW list \in Seq(Recents), NEW timeout
  PROVE  LET O == Overdue(list, timeout)
         IN  /\ Cardinality(O) \in Nat
             /\ Cardinality(AtRisk(FoundLost(list, O))) = Cardinality(AtRisk(list)) + Cardinality(O)
  <1> DEFINE O == Overdue(list, timeout)
  <1>1. /\ O \in SUBSET DOMAIN list
        /\ \A i \in O : ~list[i].acked /\ ~list[i].lost
    BY DEF Overdue
  <1> HIDE DEF O
  <1>2. AtRisk(FoundLost(list, O)) = AtRisk(list) \cup O
    <2>1. \A i \in DOMAIN list :
            /\ i \in O => FoundLost(list, O)[i].lost /\ FoundLost(list, O)[i].acked = list[i].acked
            /\ i \notin O => FoundLost(list, O)[i] = list[i]
      BY ListIsFunction DEF FoundLost, Recents
    <2>2. DOMAIN FoundLost(list, O) = DOMAIN list
      BY DEF FoundLost
    <2> QED
      BY <1>1, <2>1, <2>2 DEF AtRisk
  <1>3. AtRisk(list) \cap O = {}
    BY <1>1 DEF AtRisk
  <1>4. /\ IsFiniteSet(AtRisk(list)) /\ Cardinality(AtRisk(list)) \in Nat
        /\ IsFiniteSet(O) /\ Cardinality(O) \in Nat
    BY <1>1, RiskIsNumber, EntrySets
  <1>5. Cardinality(AtRisk(list) \cap O) = 0
    BY <1>3, FS_EmptySet
  <1>6. Cardinality(AtRisk(list) \cup O) = Cardinality(AtRisk(list)) + Cardinality(O)
    <2>1. Cardinality(AtRisk(list) \cup O)
            = Cardinality(AtRisk(list)) + Cardinality(O) - Cardinality(AtRisk(list) \cap O)
      BY <1>4, FS_Union
    <2> QED
      BY <1>4, <1>5, <2>1
  <1> QED
    BY <1>2, <1>4, <1>6 DEF O

\* Time puts nothing at risk.
LEMMA RiskOfAged ==
  ASSUME NEW list \in Seq(Recents)
  PROVE  AtRisk(Aged(list)) = AtRisk(list)
  <1>1. \A i \in DOMAIN list :
          Aged(list)[i].lost = list[i].lost /\ Aged(list)[i].acked = list[i].acked
    BY ListIsFunction, EntryChanges DEF Aged
  <1>2. DOMAIN Aged(list) = DOMAIN list
    BY DEF Aged
  <1> QED
    BY <1>1, <1>2 DEF AtRisk

\* What SendLossesCovered adds up, for any lists, and what the timer does.
RisksOf(lists) ==
  MapThenSumSet(LAMBDA s : Cardinality({i \in DOMAIN lists[s] :
                                          lists[s][i].lost /\ ~lists[s][i].acked}), Streams)

OverduesOf(lists, timeout) ==
  MapThenSumSet(LAMBDA s : Cardinality(Overdue(lists[s], timeout)), Streams)

\* The losses that may be taken back, of all streams.
LEMMA RisksAddUp ==
  ASSUME NEW lists \in [Streams -> Seq(Recents)]
  PROVE  /\ Numbers(RiskIn(lists), Streams)
         /\ RisksOf(lists) = Total(RiskIn(lists), Streams)
         /\ RisksOf(lists) \in Nat
  <1> DEFINE v == RiskIn(lists)
             Sum(g) == g = [T \in SUBSET Streams |-> IF T = {} THEN 0
                              ELSE Cardinality({i \in DOMAIN lists[Chosen(T)] :
                                                  lists[Chosen(T)][i].lost /\ ~lists[Chosen(T)][i].acked})
                                     + g[T \ {Chosen(T)}]]
             h == CHOOSE g : Sum(g)
  <1>1. RisksOf(lists) = h[Streams]
    BY DEF RisksOf, MapThenSumSet, MapThenFoldSet, Chosen
  <1>2. ASSUME NEW T \in SUBSET Streams, NEW g
        PROVE  SumStep(g, v, T) =
                 IF T = {} THEN 0
                 ELSE Cardinality({i \in DOMAIN lists[Chosen(T)] :
                                     lists[Chosen(T)][i].lost /\ ~lists[Chosen(T)][i].acked})
                        + g[T \ {Chosen(T)}]
    <2>1. T # {} => v[Chosen(T)] =
                      Cardinality({i \in DOMAIN lists[Chosen(T)] :
                                     lists[Chosen(T)][i].lost /\ ~lists[Chosen(T)][i].acked})
      BY ChosenFacts DEF RiskIn, AtRisk
    <2> QED
      BY <2>1 DEF SumStep
  <1>3. ASSUME NEW g
        PROVE  Sum(g) <=> Adds(g, v, Streams)
    BY <1>2 DEF Adds
  <1>4. Numbers(v, Streams)
    BY RiskIsNumber DEF Numbers, RiskIn
  <1>5. IsFiniteSet(Streams)
    BY AccountingAssumption
  <1>6. \E g : Adds(g, v, Streams)
    BY <1>4, <1>5, SumExists
  <1> HIDE DEF Sum
  <1>7. Sum(h)
    BY <1>3, <1>6
  <1>8. Adds(h, v, Streams)
    BY <1>3, <1>7
  <1> HIDE DEF h, v
  <1>9. h[Streams] = Total(v, Streams) /\ h[Streams] \in Nat
    BY <1>4, <1>5, <1>8, TotalIsSum
  <1> QED
    BY <1>1, <1>4, <1>9 DEF v

OverdueIn(lists, timeout) == [s \in Streams |-> Cardinality(Overdue(lists[s], timeout))]

\* The transmissions that are overdue, of all streams.
LEMMA OverduesAddUp ==
  ASSUME NEW lists \in [Streams -> Seq(Recents)], NEW timeout
  PROVE  /\ Numbers(OverdueIn(lists, timeout), Streams)
         /\ OverduesOf(lists, timeout) = Total(OverdueIn(lists, timeout), Streams)
         /\ OverduesOf(lists, timeout) \in Nat
  <1> DEFINE v == OverdueIn(lists, timeout)
             Sum(g) == g = [T \in SUBSET Streams |-> IF T = {} THEN 0
                              ELSE Cardinality(Overdue(lists[Chosen(T)], timeout))
                                     + g[T \ {Chosen(T)}]]
             h == CHOOSE g : Sum(g)
  <1>1. OverduesOf(lists, timeout) = h[Streams]
    BY DEF OverduesOf, MapThenSumSet, MapThenFoldSet, Chosen
  <1>2. ASSUME NEW T \in SUBSET Streams, NEW g
        PROVE  SumStep(g, v, T) =
                 IF T = {} THEN 0
                 ELSE Cardinality(Overdue(lists[Chosen(T)], timeout)) + g[T \ {Chosen(T)}]
    <2>1. T # {} => v[Chosen(T)] = Cardinality(Overdue(lists[Chosen(T)], timeout))
      BY ChosenFacts DEF OverdueIn
    <2> QED
      BY <2>1 DEF SumStep
  <1>3. ASSUME NEW g
        PROVE  Sum(g) <=> Adds(g, v, Streams)
    BY <1>2 DEF Adds
  <1>4. Numbers(v, Streams)
    <2>1. \A s \in Streams : Cardinality(Overdue(lists[s], timeout)) \in Nat
      BY RiskOfFoundLost
    <2> QED
      BY <2>1 DEF Numbers, OverdueIn
  <1>5. IsFiniteSet(Streams)
    BY AccountingAssumption
  <1>6. \E g : Adds(g, v, Streams)
    BY <1>4, <1>5, SumExists
  <1> HIDE DEF Sum
  <1>7. Sum(h)
    BY <1>3, <1>6
  <1>8. Adds(h, v, Streams)
    BY <1>3, <1>7
  <1> HIDE DEF h, v
  <1>9. h[Streams] = Total(v, Streams) /\ h[Streams] \in Nat
    BY <1>4, <1>5, <1>8, TotalIsSum
  <1> QED
    BY <1>1, <1>4, <1>9 DEF v

\* The property, by the sum it is about, now and after a step.
LEMMA CoveredMeans ==
  /\ SendLossesCovered <=> sendLosses >= RisksOf(recentOutgoing)
  /\ SendLossesCovered' <=> sendLosses' >= RisksOf(recentOutgoing')
  <1>1. SendLossesCovered <=> sendLosses >= RisksOf(recentOutgoing)
    BY DEF SendLossesCovered, RisksOf, MapThenSumSet, MapThenFoldSet
  <1>2. SendLossesCovered' <=> sendLosses' >= RisksOf(recentOutgoing')
    BY DEF SendLossesCovered, RisksOf, MapThenSumSet, MapThenFoldSet
  <1> QED
    BY <1>1, <1>2

\* Fewer losses to take back in one list, or in all.
LEMMA RisksShrink ==
  ASSUME NEW old \in [Streams -> Seq(Recents)], NEW new \in [Streams -> Seq(Recents)],
         \A s \in Streams : Cardinality(AtRisk(new[s])) <= Cardinality(AtRisk(old[s]))
  PROVE  RisksOf(new) <= RisksOf(old)
  <1>1. /\ Numbers(RiskIn(old), Streams) /\ RisksOf(old) = Total(RiskIn(old), Streams)
        /\ Numbers(RiskIn(new), Streams) /\ RisksOf(new) = Total(RiskIn(new), Streams)
    BY RisksAddUp
  <1>2. \A s \in Streams : RiskIn(new)[s] <= RiskIn(old)[s]
    BY DEF RiskIn
  <1>3. IsFiniteSet(Streams)
    BY AccountingAssumption
  <1> QED
    BY <1>1, <1>2, <1>3, TotalCompares

\* Losses taken back in one list.
LEMMA RisksTakenBack ==
  ASSUME NEW old \in [Streams -> Seq(Recents)], NEW new \in [Streams -> Seq(Recents)],
         NEW s \in Streams, NEW n \in Nat,
         Cardinality(AtRisk(old[s])) = Cardinality(AtRisk(new[s])) + n,
         \A t \in Streams : t # s => new[t] = old[t]
  PROVE  RisksOf(old) = RisksOf(new) + n
  <1> DEFINE u == RiskIn(old)
             v == RiskIn(new)
             Rest == Streams \ {s}
  <1>1. /\ Numbers(u, Streams) /\ RisksOf(old) = Total(u, Streams)
        /\ Numbers(v, Streams) /\ RisksOf(new) = Total(v, Streams)
    BY RisksAddUp
  <1>2. u[s] = v[s] + n /\ \A t \in Rest : u[t] = v[t]
    BY DEF RiskIn
  <1>3. IsFiniteSet(Streams) /\ IsFiniteSet(Rest) /\ Rest \subseteq Streams
    BY AccountingAssumption, FS_Subset
  <1> HIDE DEF u, v
  <1>4. Total(u, Streams) = u[s] + Total(u, Rest) /\ Total(v, Streams) = v[s] + Total(v, Rest)
    BY <1>1, <1>3, TotalOfOthers
  <1>5. Numbers(u, Rest) /\ Numbers(v, Rest)
    BY <1>1 DEF Numbers
  <1> HIDE DEF Rest
  <1>6. Total(u, Rest) = Total(v, Rest) /\ Total(v, Rest) \in Nat
    BY <1>2, <1>3, <1>5, TotalCompares, TotalFacts
  <1>7. v[s] \in Nat
    BY <1>1 DEF Numbers
  <1> QED
    BY <1>1, <1>2, <1>4, <1>6, <1>7

\* Losses found in all lists.
LEMMA RisksFound ==
  ASSUME NEW old \in [Streams -> Seq(Recents)], NEW new \in [Streams -> Seq(Recents)],
         NEW timeout,
         \A s \in Streams : new[s] = FoundLost(old[s], Overdue(old[s], timeout))
  PROVE  RisksOf(new) = RisksOf(old) + OverduesOf(old, timeout)
  <1>1. /\ Numbers(RiskIn(old), Streams) /\ RisksOf(old) = Total(RiskIn(old), Streams)
        /\ Numbers(RiskIn(new), Streams) /\ RisksOf(new) = Total(RiskIn(new), Streams)
    BY RisksAddUp
  <1>2. /\ Numbers(OverdueIn(old, timeout), Streams)
        /\ OverduesOf(old, timeout) = Total(OverdueIn(old, timeout), Streams)
    BY OverduesAddUp
  <1>3. \A s \in Streams : RiskIn(new)[s] = RiskIn(old)[s] + OverdueIn(old, timeout)[s]
    BY RiskOfFoundLost DEF RiskIn, OverdueIn
  <1>4. IsFiniteSet(Streams)
    BY AccountingAssumption
  <1> QED
    BY <1>1, <1>2, <1>3, <1>4, TotalAdds

-----------------------------------------------------------------------------
(* Both books                                                              *)

Books ==
  /\ TypeOK
  /\ InflightSizeExact
  /\ SendLossesCovered

\* The types that no sum is needed for.
Plain ==
  /\ numbered \in [Streams -> 0 .. MaxNumbered]
  /\ lastAckedSeq \in [Streams -> 0 .. MaxNumbered]
  /\ transmissions \in 0 .. MaxTransmissions
  /\ transmitted \subseteq Packets
  /\ \A s \in Streams : Len(recentOutgoing[s]) <= MaxRecent

\* What is left to show of a step, as the invariant holds after it.
LEMMA BooksStep ==
  ASSUME Inv', InflightSizeExact', SendLossesCovered', sendLosses' \in Nat, Plain'
  PROVE  Books'
  <1>1. inflightDataSize' \in Nat
    <2>1. \A i \in InUse' : inflightPackets'[i].size \in Nat
      <3> SUFFICES ASSUME NEW i \in InUse' PROVE inflightPackets'[i].size \in Nat
        OBVIOUS
      <3>1. i \in SlotNos /\ inflightPackets'[i].used
        BY DEF InUse
      <3>2. inflightPackets'[i] \in Slots \cup {Free}
        BY <3>1 DEF Inv, Shape
      <3>3. CASE inflightPackets'[i] \in Slots
        BY <3>3 DEF Slots
      <3>4. CASE inflightPackets'[i] = Free
        BY <3>1, <3>4 DEF Free
      <3> QED
        BY <3>2, <3>3, <3>4
    <2> DEFINE v == [i \in InUse' |-> inflightPackets'[i].size]
    <2>2. \A i \in InUse' : v[i] = inflightPackets'[i].size /\ v[i] \in Nat
      BY <2>1
    <2> HIDE DEF v
    <2>3. DataIn(InUse)' = Total(v, InUse')
      BY <2>2, SizesOfNextSlots
    <2>4. IsFiniteSet(InUse') /\ Numbers(v, InUse')
      BY <2>2, SlotSets, FS_Subset DEF Numbers
    <2>5. Total(v, InUse') \in Nat
      BY <2>4, TotalFacts
    <2> QED
      BY <2>3, <2>5 DEF InflightSizeExact
  <1>2. tracked' \subseteq Packets /\ givenUp' \subseteq Packets /\ released' \subseteq Packets
    BY DEF Inv, Shape, LossesCountedOnce
  <1>3. TypeOK'
    BY <1>1, <1>2 DEF Inv, Shape, Plain, TypeOK
  <1> QED
    BY <1>3 DEF Books

\* Numbering a packet changes neither sum.
LEMMA NumberBooks ==
  ASSUME Inv, Books, Inv', NEW s \in Streams, Number(s)
  PROVE  Books'
  <1>1. UNCHANGED <<lastAckedSeq, conctl, recentOutgoing, sendLosses, history>>
    BY DEF Number
  <1>2. InUse' = InUse /\ DataIn(InUse)' = DataIn(InUse)
    BY <1>1 DEF InUse, DataIn, MapThenSumSet, MapThenFoldSet, conctl
  <1>3. InflightSizeExact'
    BY <1>1, <1>2 DEF Books, InflightSizeExact, conctl
  <1>4. SendLossesCovered' /\ sendLosses' \in Nat
    BY <1>1, CoveredMeans DEF Books, TypeOK
  <1>5. numbered' \in [Streams -> 0 .. MaxNumbered]
    BY AccountingAssumption DEF Number, Books, TypeOK
  <1>6. Plain'
    BY <1>1, <1>5 DEF Books, TypeOK, Plain, history
  <1> QED
    BY <1>3, <1>4, <1>6, BooksStep

\* A transmission adds its size, less that of the packet it pushes out.
LEMMA TransmitBooks ==
  ASSUME Inv, Books, Inv', NEW s \in Streams, NEW n \in SeqNumbers, NEW size \in Sizes[s],
         Transmit(s, n, size)
  PROVE  Books'
  <1>1. /\ transmissions < MaxTransmissions /\ transmissions' = transmissions + 1
        /\ transmitted' = transmitted \cup {<<s, n>>}
        /\ PacketSent(s, n, size)
        /\ recentOutgoing' = [recentOutgoing EXCEPT ![s] = With(@, n)]
        /\ UNCHANGED <<numbered, lastAckedSeq, sendLosses>>
    BY DEF Transmit, AddRecentOutgoingPacket
  <1>2. size \in Nat
    BY AccountingAssumption
  <1>3. InflightSizeExact'
    <2>1. CASE UNCHANGED conctl
      <3>1. InUse' = InUse /\ DataIn(InUse)' = DataIn(InUse)
        BY <2>1 DEF InUse, DataIn, MapThenSumSet, MapThenFoldSet, conctl
      <3> QED
        BY <2>1, <3>1 DEF Books, InflightSizeExact, conctl
    <2>2. CASE Occupy(s, n, size)
      BY <1>2, <2>2, OccupiedData DEF Books
    <2> QED
      BY <1>1, <2>1, <2>2 DEF PacketSent
  <1>4. recentOutgoing \in [Streams -> Seq(Recents)] /\ recentOutgoing' \in [Streams -> Seq(Recents)]
    BY DEF Inv, Shape
  <1>5. /\ recentOutgoing'[s] = With(recentOutgoing[s], n)
        /\ \A t \in Streams : t # s => recentOutgoing'[t] = recentOutgoing[t]
    BY <1>1, <1>4
  <1>6. /\ Len(With(recentOutgoing[s], n)) <= MaxRecent
        /\ Cardinality(AtRisk(With(recentOutgoing[s], n))) <= Cardinality(AtRisk(recentOutgoing[s]))
    BY <1>4, WithIsSuffix, RiskOfWith
  <1>7. ASSUME NEW t \in Streams
        PROVE  Cardinality(AtRisk(recentOutgoing'[t])) <= Cardinality(AtRisk(recentOutgoing[t]))
    <2>1. Cardinality(AtRisk(recentOutgoing[t])) \in Nat
      BY <1>4, RiskIsNumber
    <2> QED
      BY <1>5, <1>6, <2>1
  <1>8. RisksOf(recentOutgoing') <= RisksOf(recentOutgoing)
    BY <1>4, <1>7, RisksShrink
  <1>9. SendLossesCovered' /\ sendLosses' \in Nat
    <2>1. RisksOf(recentOutgoing') \in Nat /\ RisksOf(recentOutgoing) \in Nat
      BY <1>4, RisksAddUp
    <2>2. sendLosses \in Nat /\ sendLosses >= RisksOf(recentOutgoing) /\ sendLosses' = sendLosses
      BY <1>1, CoveredMeans DEF Books, TypeOK
    <2>3. sendLosses' >= RisksOf(recentOutgoing')
      BY <1>8, <2>1, <2>2
    <2> QED
      BY <2>2, <2>3, CoveredMeans
  <1>10. Plain'
    <2>1. \A t \in Streams : Len(recentOutgoing'[t]) <= MaxRecent
      BY <1>5, <1>6 DEF Books, TypeOK
    <2>2. transmissions' \in 0 .. MaxTransmissions
      BY <1>1, AccountingAssumption DEF Books, TypeOK
    <2>3. transmitted' \subseteq Packets
      BY <1>1 DEF Books, TypeOK, Packets
    <2> QED
      BY <1>1, <2>1, <2>2, <2>3 DEF Books, TypeOK, Plain
  <1> QED
    BY <1>3, <1>9, <1>10, BooksStep

\* An acknowledgement takes back as many losses as were at risk in its packets.
LEMMA TakeAckBooks ==
  ASSUME Inv, Books, Inv', NEW s \in Streams, NEW peerSeq \in SeqNumbers, NEW ack \in SeqNumbers,
         NEW mask \in Masks, TakeAck(s, peerSeq, ack, mask)
  PROVE  Books'
  <1> DEFINE list == recentOutgoing[s]
             I == NewlyAcked(list, ack, mask)
             S == Holding(ToRelease(s, peerSeq, I))
  <1>1. /\ lastAckedSeq' = [lastAckedSeq EXCEPT ![s] = ack]
        /\ recentOutgoing' = [recentOutgoing EXCEPT ![s] = Acknowledged(@, I)]
        /\ sendLosses' = sendLosses - LossesTakenBack(list, I)
        /\ inflightPackets' = Freed(S)
        /\ inflightDataSize' = inflightDataSize - DataIn(S)
        /\ UNCHANGED <<numbered, transmissions, transmitted>>
    BY DEF TakeAck
  <1>2. /\ recentOutgoing \in [Streams -> Seq(Recents)]
        /\ recentOutgoing' \in [Streams -> Seq(Recents)] /\ list \in Seq(Recents)
    BY DEF Inv, Shape
  <1>3. I \in SUBSET DOMAIN list /\ \A i \in I : ~list[i].acked
    BY DEF NewlyAcked
  <1>4. S \in SUBSET InUse
    BY HoldingFacts
  <1> HIDE DEF I, S
  <1>5. InflightSizeExact'
    BY <1>1, <1>4, FreedData DEF Books
  <1>6. /\ recentOutgoing'[s] = Acknowledged(list, I)
        /\ \A t \in Streams : t # s => recentOutgoing'[t] = recentOutgoing[t]
    BY <1>1, <1>2
  <1>7. /\ LossesTakenBack(list, I) \in Nat
        /\ RisksOf(recentOutgoing) = RisksOf(recentOutgoing') + LossesTakenBack(list, I)
    <2>1. /\ LossesTakenBack(list, I) \in Nat
          /\ Cardinality(AtRisk(list))
               = Cardinality(AtRisk(Acknowledged(list, I))) + LossesTakenBack(list, I)
      BY <1>2, <1>3, RiskOfAcknowledged
    <2> DEFINE n == LossesTakenBack(list, I)
    <2>2. /\ n \in Nat
          /\ Cardinality(AtRisk(recentOutgoing[s])) = Cardinality(AtRisk(recentOutgoing'[s])) + n
      BY <1>6, <2>1
    <2> HIDE DEF n
    <2>3. RisksOf(recentOutgoing) = RisksOf(recentOutgoing') + n
      BY <1>2, <1>6, <2>2, RisksTakenBack
    <2> QED
      BY <2>1, <2>3 DEF n
  <1>8. SendLossesCovered' /\ sendLosses' \in Nat
    <2>1. RisksOf(recentOutgoing') \in Nat
      BY <1>2, RisksAddUp
    <2>2. sendLosses \in Nat /\ sendLosses >= RisksOf(recentOutgoing)
      BY CoveredMeans DEF Books, TypeOK
    <2> DEFINE n == LossesTakenBack(list, I)
               r == RisksOf(recentOutgoing')
    <2>3. /\ n \in Nat /\ r \in Nat /\ sendLosses >= r + n /\ sendLosses' = sendLosses - n
      BY <1>1, <1>7, <2>1, <2>2
    <2> HIDE DEF n, r
    <2>4. sendLosses' \in Nat /\ sendLosses' >= r
      BY <2>2, <2>3
    <2> QED
      BY <2>4, CoveredMeans DEF r
  <1>9. Plain'
    <2>1. DOMAIN Acknowledged(list, I) = DOMAIN list /\ Acknowledged(list, I) \in Seq(Recents)
      BY <1>2, AcknowledgedKeeps
    <2>2. Len(Acknowledged(list, I)) = Len(list)
      BY <1>2, <2>1, ListIsFunction
    <2>3. \A t \in Streams : Len(recentOutgoing'[t]) <= MaxRecent
      BY <1>6, <2>2 DEF Books, TypeOK
    <2>4. lastAckedSeq' \in [Streams -> 0 .. MaxNumbered]
      <3>1. lastAckedSeq \in [Streams -> 0 .. MaxNumbered] /\ ack \in 0 .. MaxNumbered
        BY AccountingAssumption DEF Books, TypeOK, SeqNumbers
      <3> QED
        BY <1>1, <3>1
    <2> QED
      BY <1>1, <2>3, <2>4 DEF Books, TypeOK, Plain
  <1> QED
    BY <1>5, <1>8, <1>9, BooksStep

\* The timer counts as many losses as it puts at risk.
LEMMA TickBooks ==
  ASSUME Inv, Books, Inv', TickCongestionControl
  PROVE  Books'
  <1>1. PICK timeout \in Timeouts :
          /\ recentOutgoing' = [s \in Streams |->
               FoundLost(recentOutgoing[s], Overdue(recentOutgoing[s], timeout))]
          /\ sendLosses' = sendLosses + OverduesOf(recentOutgoing, timeout)
          /\ inflightPackets' = Freed(Expired \cup LostSlots(timeout))
          /\ inflightDataSize' = inflightDataSize - DataIn(Expired \cup LostSlots(timeout))
          /\ UNCHANGED <<numbered, lastAckedSeq, transmissions, transmitted>>
    BY DEF TickCongestionControl, OverduesOf
  <1> DEFINE S == Expired \cup LostSlots(timeout)
  <1>2. S \in SUBSET InUse
    BY HoldingFacts DEF LostSlots, Expired, InUse
  <1> HIDE DEF S
  <1>3. InflightSizeExact'
    BY <1>1, <1>2, FreedData DEF Books, S
  <1>4. recentOutgoing \in [Streams -> Seq(Recents)] /\ recentOutgoing' \in [Streams -> Seq(Recents)]
    BY DEF Inv, Shape
  <1>5. \A s \in Streams : recentOutgoing'[s] =
          FoundLost(recentOutgoing[s], Overdue(recentOutgoing[s], timeout))
    BY <1>1
  <1>6. RisksOf(recentOutgoing') = RisksOf(recentOutgoing) + OverduesOf(recentOutgoing, timeout)
    BY <1>4, <1>5, RisksFound
  <1>7. SendLossesCovered' /\ sendLosses' \in Nat
    <2> DEFINE o == OverduesOf(recentOutgoing, timeout)
               r == RisksOf(recentOutgoing)
    <2>1. o \in Nat /\ r \in Nat
      BY <1>4, RisksAddUp, OverduesAddUp
    <2>2. sendLosses \in Nat /\ sendLosses >= r
      BY CoveredMeans DEF Books, TypeOK
    <2>3. sendLosses' = sendLosses + o /\ RisksOf(recentOutgoing') = r + o
      BY <1>1, <1>6
    <2> HIDE DEF o, r
    <2>4. sendLosses' \in Nat /\ sendLosses' >= RisksOf(recentOutgoing')
      BY <2>1, <2>2, <2>3
    <2> QED
      BY <2>4, CoveredMeans
  <1>8. ASSUME NEW s \in Streams
        PROVE  Len(recentOutgoing'[s]) <= MaxRecent
    <2> DEFINE list == recentOutgoing[s]
               O == Overdue(list, timeout)
    <2>1. list \in Seq(Recents) /\ Len(list) <= MaxRecent
      BY <1>4 DEF Books, TypeOK
    <2> HIDE DEF O
    <2>2. DOMAIN FoundLost(list, O) = DOMAIN list /\ FoundLost(list, O) \in Seq(Recents)
      BY <2>1, FoundLostKeeps
    <2>3. Len(FoundLost(list, O)) = Len(list)
      BY <2>1, <2>2, ListIsFunction
    <2> QED
      BY <1>5, <2>1, <2>3 DEF O
  <1>9. Plain'
    BY <1>1, <1>8 DEF Books, TypeOK, Plain
  <1> QED
    BY <1>3, <1>7, <1>9, BooksStep

\* Time changes neither sum.
LEMMA ElapseBooks ==
  ASSUME Inv, Books, Inv', Elapse
  PROVE  Books'
  <1>1. InflightSizeExact'
    BY OlderData DEF Books
  <1>2. recentOutgoing \in [Streams -> Seq(Recents)] /\ recentOutgoing' \in [Streams -> Seq(Recents)]
    BY DEF Inv, Shape
  <1>3. /\ \A s \in Streams : recentOutgoing'[s] = Aged(recentOutgoing[s])
        /\ UNCHANGED <<numbered, lastAckedSeq, sendLosses, transmissions, transmitted>>
    BY DEF Elapse, history
  <1>4. ASSUME NEW s \in Streams
        PROVE  /\ Cardinality(AtRisk(recentOutgoing'[s])) <= Cardinality(AtRisk(recentOutgoing[s]))
               /\ Len(recentOutgoing'[s]) <= MaxRecent
    <2>1. recentOutgoing[s] \in Seq(Recents) /\ Len(recentOutgoing[s]) <= MaxRecent
      BY <1>2 DEF Books, TypeOK
    <2>2. AtRisk(recentOutgoing'[s]) = AtRisk(recentOutgoing[s])
      BY <1>3, <2>1, RiskOfAged
    <2>3. Cardinality(AtRisk(recentOutgoing[s])) \in Nat
      BY <2>1, RiskIsNumber
    <2>4. Len(recentOutgoing'[s]) = Len(recentOutgoing[s])
      BY <1>2, <1>3, <2>1, AgedKeeps, ListIsFunction
    <2> QED
      BY <2>1, <2>2, <2>3, <2>4
  <1>5. RisksOf(recentOutgoing') <= RisksOf(recentOutgoing)
    BY <1>2, <1>4, RisksShrink
  <1>6. SendLossesCovered' /\ sendLosses' \in Nat
    <2>1. RisksOf(recentOutgoing') \in Nat /\ RisksOf(recentOutgoing) \in Nat
      BY <1>2, RisksAddUp
    <2>2. sendLosses \in Nat /\ sendLosses >= RisksOf(recentOutgoing) /\ sendLosses' = sendLosses
      BY <1>3, CoveredMeans DEF Books, TypeOK
    <2>3. sendLosses' >= RisksOf(recentOutgoing')
      BY <1>5, <2>1, <2>2
    <2> QED
      BY <2>2, <2>3, CoveredMeans
  <1>7. Plain'
    BY <1>3, <1>4 DEF Books, TypeOK, Plain
  <1> QED
    BY <1>1, <1>6, <1>7, BooksStep

\* Both sums are empty.
LEMMA InitBooks ==
  ASSUME Init
  PROVE  Books
  <1>1. Inv
    BY InitInv
  <1>2. InUse = {}
    BY DEF Init, InUse, Free
  <1>3. DataIn(InUse) = 0
    <2>1. /\ IsFiniteSet(InUse) /\ Numbers(SizeAt, InUse)
          /\ DataIn(InUse) = Total(SizeAt, InUse)
      BY <1>1, SizesOfSlots DEF Inv
    <2> QED
      BY <1>2, <2>1, TotalFacts
  <1>4. InflightSizeExact
    BY <1>3 DEF Init, InflightSizeExact
  <1>5. RisksOf(recentOutgoing) = 0
    <2> DEFINE v == RiskIn(recentOutgoing)
    <2>1. recentOutgoing \in [Streams -> Seq(Recents)] /\ IsFiniteSet(Streams)
      BY <1>1, AccountingAssumption DEF Inv, Shape
    <2>2. Numbers(v, Streams) /\ RisksOf(recentOutgoing) = Total(v, Streams)
      BY <2>1, RisksAddUp
    <2>3. \A s \in Streams : v[s] = 0
      <3>1. \A s \in Streams : AtRisk(recentOutgoing[s]) = {}
        BY DEF Init, AtRisk
      <3> QED
        BY <3>1, FS_EmptySet DEF RiskIn
    <2> HIDE DEF v
    <2>4. Total(v, Streams) \in Nat
      BY <2>1, <2>2, TotalFacts
    <2>5. Total(v, Streams) = Total(v, Streams) + Total(v, Streams)
      BY <2>1, <2>2, <2>3, TotalAdds
    <2>6. Total(v, Streams) = 0
      <3> DEFINE n == Total(v, Streams)
      <3>1. n \in Nat /\ n = n + n
        BY <2>4, <2>5
      <3> HIDE DEF n
      <3>2. n = 0
        BY <3>1
      <3> QED
        BY <3>2 DEF n
    <2> QED
      BY <2>2, <2>6
  <1>6. SendLossesCovered
    BY <1>5, CoveredMeans DEF Init
  <1>7. TypeOK
    <2>1. \A s \in Streams : Len(recentOutgoing[s]) <= MaxRecent
      BY SizesAssumption DEF Init
    <2>2. numbered \in [Streams -> 0 .. MaxNumbered] /\ lastAckedSeq \in [Streams -> 0 .. MaxNumbered]
      BY AccountingAssumption DEF Init
    <2>3. /\ inflightDataSize \in Nat /\ sendLosses \in Nat
          /\ transmissions \in 0 .. MaxTransmissions
          /\ {transmitted, tracked, givenUp, released} \subseteq SUBSET Packets
      BY AccountingAssumption DEF Init
    <2> QED
      BY <1>1, <2>1, <2>2, <2>3 DEF Inv, Shape, TypeOK
  <1> QED
    BY <1>4, <1>6, <1>7 DEF Books

\* Every step keeps both books.
LEMMA NextBooks ==
  ASSUME Inv, Books, Inv', [Next]_vars
  PROVE  Books'
  <1>1. CASE Next
    BY <1>1, NumberBooks, TransmitBooks, TakeAckBooks, TickBooks, ElapseBooks DEF Next
  <1>2. CASE UNCHANGED vars
    <2>1. UNCHANGED <<numbered, lastAckedSeq, conctl, recentOutgoing, sendLosses, history>>
      BY <1>2 DEF vars
    <2>2. InUse' = InUse /\ DataIn(InUse)' = DataIn(InUse)
      BY <2>1 DEF InUse, DataIn, MapThenSumSet, MapThenFoldSet, conctl
    <2>3. InflightSizeExact' /\ SendLossesCovered' /\ sendLosses' \in Nat
      BY <2>1, <2>2, CoveredMeans DEF Books, TypeOK, InflightSizeExact, conctl
    <2>4. Plain'
      BY <2>1 DEF Books, TypeOK, Plain, history
    <2> QED
      BY <2>3, <2>4, BooksStep
  <1> QED
    BY <1>1, <1>2

(***************************************************************************)
(* The second inductive invariant, relative to the first: both books add   *)
(* up, and everything keeps its type.                                      *)
(***************************************************************************)
THEOREM BooksInvariance == Spec => []Books
  <1>1. Inv /\ Books /\ Inv' /\ [Next]_vars => Books'
    BY NextBooks
  <1>2. QED
    BY <1>1, InitBooks, Invariance, PTL DEF Spec

(***************************************************************************)
(* Every variable keeps its type: inflightDataSize, lossCount and          *)
(* sendLosses, all unsigned, never go below zero.                          *)
(***************************************************************************)
THEOREM TypeCorrect == Spec => []TypeOK
  <1>1. Books => TypeOK
    BY DEF Books
  <1>2. QED
    BY <1>1, BooksInvariance, PTL

(***************************************************************************)
(* inflightDataSize is the size of what is in the slots, in whichever      *)
(* order packets are acknowledged, given up, pushed out and repeated.      *)
(***************************************************************************)
THEOREM DataInFlightIsExact == Spec => []InflightSizeExact
  <1>1. Books => InflightSizeExact
    BY DEF Books
  <1>2. QED
    BY <1>1, BooksInvariance, PTL

(***************************************************************************)
(* sendLosses never wraps: it covers all losses an acknowledgement may     *)
(* still take back.                                                        *)
(***************************************************************************)
THEOREM LossesAreCovered == Spec => []SendLossesCovered
  <1>1. Books => SendLossesCovered
    BY DEF Books
  <1>2. QED
    BY <1>1, BooksInvariance, PTL
=============================================================================
