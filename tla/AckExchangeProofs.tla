------------------------- MODULE AckExchangeProofs -------------------------
(***************************************************************************)
(* The safety properties of AckExchange, for every pair of peers, every    *)
(* width of the mask and every number of packets.  The invariant adds to   *)
(* the properties what they need of the packets still in the network: an   *)
(* acknowledgement in flight was true when it was sent, and stays true     *)
(* because a peer never forgets what it accepted.                          *)
(***************************************************************************)
EXTENDS AckExchange, TLAPS

(***************************************************************************)
(* Every number in use is one its sender may have sent.                    *)
(***************************************************************************)
NumbersSent ==
  /\ \A p \in Peers : accepted[p] \subseteq 1 .. MaxSeq[Other(p)]
  /\ \A m \in network : m.seq \in 1 .. MaxSeq[m.from]

(***************************************************************************)
(* An acknowledgement in flight names only packets its sender accepted.    *)
(***************************************************************************)
NetworkTruthful ==
  \A m \in network :
    /\ m.ackSeq \in accepted[m.from] \cup {0}
    /\ nearby[m.from] =>
         \A d \in 1 .. MaskBits :
           d - 1 \in m.ackMask /\ m.ackSeq - d >= 1 => m.ackSeq - d \in accepted[m.from]

Inv ==
  /\ TypeOK
  /\ NumbersSent
  /\ NewestReceived
  /\ WindowExact
  /\ AcceptedOnce
  /\ NetworkTruthful
  /\ AckTruthful

-----------------------------------------------------------------------------

\* Half of the sequence space is a number, and less than the whole.
LEMMA Halves == HalfSeq \in Nat /\ HalfSeq < SeqMod
  BY SizesAssumption DEF HalfSeq

\* The peers are two.
LEMMA OtherPeer ==
  ASSUME NEW p \in Peers
  PROVE  /\ Other(p) \in Peers /\ Other(p) # p
         /\ Other(Other(p)) = p
         /\ \A q \in Peers : q # p => q = Other(p)
  <1>1. PICK q \in Peers : Peers = {p, q} /\ p # q
    BY PeersAssumption
  <1>2. Other(p) = q
    BY <1>1 DEF Other
  <1>3. Other(q) = p
    BY <1>1 DEF Other
  <1>4. QED
    BY <1>1, <1>2, <1>3

\* Below half of the sequence space, seqgt() is the order of the numbers.
LEMMA SeqGtIsGreater ==
  ASSUME NEW a \in 0 .. HalfSeq, NEW b \in 0 .. HalfSeq
  PROVE  SeqGt(a, b) <=> a > b
  BY Halves DEF SeqGt

\* No number in use, nor one a window later, reaches half of the sequence space.
LEMMA SmallSeq ==
  ASSUME NEW p \in Peers
  PROVE  MaxSeq[p] \in Nat /\ MaxSeq[p] + MaxRecent <= HalfSeq /\ MaxSeq[p] < SeqMod
  BY PeersAssumption, SizesAssumption, Halves

\* Within the mask, 1 << n is bit n.
LEMMA PositionIsBit ==
  ASSUME NEW n \in Bits
  PROVE  ShiftCounts(n) = {n} /\ ShiftLeft({0}, n) = {n}
  BY SizesAssumption DEF Bits, ShiftCounts, ShiftLeft

\* Within the mask, advancing by n + 1 keeps every bit's distance and sets bit n.
LEMMA AdvancedBits ==
  ASSUME NEW mask \in Masks, NEW n \in Bits, NEW b \in Bits
  PROVE  b \in ShiftLeft(ShiftLeft(mask, 1) \cup {0}, n) <=> b = n \/ b - n - 1 \in mask
  BY SizesAssumption DEF Bits, Masks, ShiftLeft

\* Whatever the distance, the operations on a mask give a mask.
LEMMA MaskTypes ==
  ASSUME NEW mask, NEW s, NEW last
  PROVE  /\ AdvancedMasks(mask, s, last) \subseteq Masks
         /\ PositionsOf(s, last) \subseteq Masks
  BY DEF AdvancedMasks, PositionsOf, Masks, ShiftLeft

-----------------------------------------------------------------------------

(***************************************************************************)
(* The initial states.  The mask is arbitrary: it is read only for packets *)
(* numbered 1 or more, and there are none before packet 0.                 *)
(***************************************************************************)
LEMMA InitInv == Init => Inv
  <1> SUFFICES ASSUME Init PROVE Inv
    OBVIOUS
  <1>1. TypeOK
    BY SizesAssumption, SmallSeq DEF Init, TypeOK, SeqNos, Masks
  <1>2. NumbersSent /\ NetworkTruthful
    BY DEF Init, NumbersSent, NetworkTruthful
  <1>3. NewestReceived /\ AcceptedOnce
    BY DEF Init, NewestReceived, AcceptedOnce
  <1>4. WindowExact
    BY SizesAssumption DEF Init, WindowExact
  <1>5. AckTruthful
    BY OtherPeer DEF Init, AckTruthful
  <1>6. QED
    BY <1>1, <1>2, <1>3, <1>4, <1>5 DEF Inv

(***************************************************************************)
(* A new packet carries what its sender accepted.                          *)
(***************************************************************************)
LEMMA SendInv ==
  ASSUME Inv, NEW p \in Peers, Send(p)
  PROVE  Inv'
  <1> DEFINE m == [from |-> p, seq |-> seq[p],
                   ackSeq |-> lastRemoteSeq[p], ackMask |-> lastRemoteSeqsMask[p]]
  <1>1. m \in Packets /\ m.seq \in 1 .. MaxSeq[p]
    <2>1. seq[p] \in 1 .. MaxSeq[p] /\ MaxSeq[p] \in Nat /\ MaxSeq[p] < SeqMod
      BY SmallSeq DEF Inv, TypeOK, Send
    <2>2. seq[p] \in SeqNos
      BY <2>1, SizesAssumption DEF SeqNos
    <2>3. lastRemoteSeq[p] \in SeqNos /\ lastRemoteSeqsMask[p] \in Masks
      BY DEF Inv, TypeOK
    <2>4. QED
      BY <2>1, <2>2, <2>3 DEF Packets
  <1>2. /\ network' = network \cup {m}
        /\ UNCHANGED <<lastAckedSeq, lastAckedSeqsMask, acked, remote, history>>
    BY DEF Send
  <1>3. TypeOK'
    BY <1>1, <1>2, SmallSeq DEF Inv, TypeOK, Send, remote, history
  <1>4. NumbersSent'
    BY <1>1, <1>2 DEF Inv, NumbersSent, history
  <1>5. NetworkTruthful'
    <2>1. m.ackSeq \in accepted[p] \cup {0}
      BY DEF Inv, NewestReceived
    <2>2. nearby[p] => \A d \in 1 .. MaskBits :
            d - 1 \in m.ackMask /\ m.ackSeq - d >= 1 => m.ackSeq - d \in accepted[p]
      BY DEF Inv, WindowExact
    <2>3. QED
      BY <1>2, <2>1, <2>2 DEF Inv, NetworkTruthful, history
  <1>6. (NewestReceived /\ WindowExact /\ AcceptedOnce /\ AckTruthful)'
    BY <1>2 DEF Inv, NewestReceived, WindowExact, AcceptedOnce, AckTruthful, remote, history
  <1>7. QED
    BY <1>3, <1>4, <1>5, <1>6 DEF Inv

-----------------------------------------------------------------------------

(***************************************************************************)
(* The acknowledgement half of ProcessIncomingPacket().  It reads what the *)
(* network carries, so it is true of the packets the other peer accepted.  *)
(***************************************************************************)
LEMMA AckHalf ==
  ASSUME Inv, NEW p \in Peers, NEW m \in network, m.from # p,
         HandleAck(p, m),
         \A q \in Peers : accepted[q] \subseteq accepted'[q],
         \A q \in Peers : q # p => nearby'[q] = nearby[q] /\ accepted'[q] = accepted[q],
         nearby'[p] => nearby[p]
  PROVE  /\ AckTruthful'
         /\ lastAckedSeq' \in [Peers -> SeqNos]
         /\ lastAckedSeqsMask' \in [Peers -> Masks]
         /\ acked' \in [Peers -> SUBSET SeqNos]
  <1>1. m \in Packets
    BY DEF Inv, TypeOK
  <1>2. m.from = Other(p)
    BY <1>1, OtherPeer DEF Packets
  <1>3. CASE ~Acknowledges(p, m)
    <2>1. UNCHANGED <<lastAckedSeq, lastAckedSeqsMask, acked>>
      BY <1>3 DEF HandleAck
    <2>2. AckTruthful'
      <3> SUFFICES ASSUME NEW q \in Peers
                   PROVE  /\ lastAckedSeq[q] \in accepted'[Other(q)] \cup {0}
                          /\ nearby'[Other(q)] =>
                               \A d \in 1 .. MaskBits :
                                 d - 1 \in lastAckedSeqsMask[q] /\ lastAckedSeq[q] - d >= 1
                                   => lastAckedSeq[q] - d \in accepted'[Other(q)]
        BY <2>1 DEF AckTruthful
      <3>1. Other(q) \in Peers
        BY OtherPeer
      <3>2. nearby'[Other(q)] => nearby[Other(q)]
        BY <3>1
      <3>3. QED
        BY <3>1, <3>2 DEF Inv, AckTruthful
    <2>3. QED
      BY <2>1, <2>2 DEF Inv, TypeOK
  <1>4. CASE Acknowledges(p, m)
    <2>1. TakeAck(p, m)
      BY <1>4 DEF HandleAck
    <2>2. /\ m.ackSeq \in accepted'[Other(p)] \cup {0}
          /\ nearby'[Other(p)] =>
               \A d \in 1 .. MaskBits :
                 d - 1 \in m.ackMask /\ m.ackSeq - d >= 1 => m.ackSeq - d \in accepted'[Other(p)]
      <3>1. Other(p) \in Peers /\ Other(p) # p
        BY OtherPeer
      <3>2. nearby'[Other(p)] = nearby[Other(p)] /\ accepted'[Other(p)] = accepted[Other(p)]
        BY <3>1
      <3>3. QED
        BY <1>2, <3>2 DEF Inv, NetworkTruthful
    <2>3. AckTruthful'
      <3> SUFFICES ASSUME NEW q \in Peers
                   PROVE  /\ lastAckedSeq'[q] \in accepted'[Other(q)] \cup {0}
                          /\ nearby'[Other(q)] =>
                               \A d \in 1 .. MaskBits :
                                 d - 1 \in lastAckedSeqsMask'[q] /\ lastAckedSeq'[q] - d >= 1
                                   => lastAckedSeq'[q] - d \in accepted'[Other(q)]
        BY DEF AckTruthful
      <3>1. CASE q = p
        <4>1. lastAckedSeq'[q] = m.ackSeq /\ lastAckedSeqsMask'[q] = m.ackMask
          BY <2>1, <3>1 DEF TakeAck, Inv, TypeOK
        <4>2. QED
          BY <2>2, <3>1, <4>1
      <3>2. CASE q # p
        <4>1. lastAckedSeq'[q] = lastAckedSeq[q] /\ lastAckedSeqsMask'[q] = lastAckedSeqsMask[q]
          BY <2>1, <3>2 DEF TakeAck, Inv, TypeOK
        <4>2. Other(q) \in Peers /\ (nearby'[Other(q)] => nearby[Other(q)])
          BY OtherPeer
        <4>3. QED
          BY <4>1, <4>2 DEF Inv, AckTruthful
      <3>3. QED
        BY <3>1, <3>2
    <2>4. m.ackSeq \in SeqNos /\ m.ackMask \in Masks
      BY <1>1 DEF Packets
    <2>5. Recent(p) \subseteq SeqNos
      BY SmallSeq, SizesAssumption DEF Recent, SeqNos, Inv, TypeOK
    <2>6. QED
      BY <2>1, <2>3, <2>4, <2>5 DEF TakeAck, Inv, TypeOK
  <1>5. QED
    BY <1>3, <1>4

(***************************************************************************)
(* What NoteAccepted() does to the history.                                *)
(***************************************************************************)
LEMMA Noted ==
  ASSUME TypeOK, NEW p \in Peers, NEW s \in SeqNos, NoteAccepted(p, s)
  PROVE  /\ accepted' \in [Peers -> SUBSET SeqNos]
         /\ acceptedTwice' \in [Peers -> SUBSET SeqNos]
         /\ nearby' \in [Peers -> BOOLEAN]
         /\ accepted'[p] = accepted[p] \cup {s}
         /\ acceptedTwice'[p] = acceptedTwice[p] \cup ({s} \cap accepted[p])
         /\ nearby'[p] => nearby[p] /\ s - lastRemoteSeq[p] \in -MaskBits .. MaskBits
         /\ \A q \in Peers : q # p => /\ accepted'[q] = accepted[q]
                                      /\ acceptedTwice'[q] = acceptedTwice[q]
                                      /\ nearby'[q] = nearby[q]
  BY DEF TypeOK, NoteAccepted

(***************************************************************************)
(* A packet newer than all before it: no packet at its number or between   *)
(* the two was accepted, and AdvancedBits renumbers the rest.              *)
(***************************************************************************)
LEMMA ReceiveNewerInv ==
  ASSUME Inv, NEW p \in Peers, NEW m \in network, m.from # p, ReceiveNewer(p, m)
  PROVE  Inv'
  <1> DEFINE last == lastRemoteSeq[p]
  <1>1. /\ m \in Packets /\ m.seq \in SeqNos /\ last \in SeqNos
        /\ m.from = Other(p)
    BY OtherPeer DEF Inv, TypeOK, Packets
  <1>2. /\ m.seq \in Nat /\ last \in Nat /\ m.seq > last
        /\ m.seq \notin accepted[p] /\ m.seq \in 1 .. MaxSeq[Other(p)]
    BY <1>1 DEF ReceiveNewer, Inv, NewestReceived, NumbersSent, SeqNos
  <1>3. PICK mask \in AdvancedMasks(lastRemoteSeqsMask[p], m.seq, last) :
          lastRemoteSeqsMask' = [lastRemoteSeqsMask EXCEPT ![p] = mask]
    BY DEF ReceiveNewer
  <1>4. /\ lastRemoteSeq' = [lastRemoteSeq EXCEPT ![p] = m.seq]
        /\ NoteAccepted(p, m.seq) /\ HandleAck(p, m) /\ UNCHANGED <<seq, network>>
    BY DEF ReceiveNewer
  <1>5. TypeOK
    BY DEF Inv
  <1>6. /\ accepted' \in [Peers -> SUBSET SeqNos]
        /\ acceptedTwice' \in [Peers -> SUBSET SeqNos]
        /\ nearby' \in [Peers -> BOOLEAN]
        /\ accepted'[p] = accepted[p] \cup {m.seq}
        /\ acceptedTwice'[p] = acceptedTwice[p]
        /\ nearby'[p] => nearby[p] /\ m.seq - last \in -MaskBits .. MaskBits
        /\ \A q \in Peers : q # p => /\ accepted'[q] = accepted[q]
                                     /\ acceptedTwice'[q] = acceptedTwice[q]
                                     /\ nearby'[q] = nearby[q]
    <2>1. acceptedTwice[p] \cup ({m.seq} \cap accepted[p]) = acceptedTwice[p]
      BY <1>2
    <2>2. acceptedTwice'[p] = acceptedTwice[p] \cup ({m.seq} \cap accepted[p])
      BY <1>1, <1>4, <1>5, Noted
    <2>3. QED
      BY <1>1, <1>4, <1>5, <2>1, <2>2, Noted
  <1>7. /\ AckTruthful'
        /\ lastAckedSeq' \in [Peers -> SeqNos]
        /\ lastAckedSeqsMask' \in [Peers -> Masks]
        /\ acked' \in [Peers -> SUBSET SeqNos]
    <2>1. /\ \A q \in Peers : accepted[q] \subseteq accepted'[q]
          /\ \A q \in Peers : q # p => nearby'[q] = nearby[q] /\ accepted'[q] = accepted[q]
          /\ nearby'[p] => nearby[p]
      BY <1>6
    <2>2. QED
      BY <1>4, <2>1, AckHalf
  <1>8. TypeOK'
    <2>1. mask \in Masks
      BY <1>3, MaskTypes
    <2>2. QED
      BY <1>1, <1>3, <1>4, <1>5, <1>6, <1>7, <2>1 DEF TypeOK
  <1>9. NumbersSent'
    BY <1>2, <1>4, <1>6 DEF Inv, NumbersSent
  <1>10. NewestReceived'
    BY <1>1, <1>2, <1>4, <1>5, <1>6 DEF Inv, NewestReceived, TypeOK, SeqNos
  <1>11. WindowExact'
    <2> SUFFICES ASSUME NEW q \in Peers, nearby'[q], NEW d \in 1 .. MaskBits,
                        lastRemoteSeq'[q] - d >= 1
                 PROVE  d - 1 \in lastRemoteSeqsMask'[q]
                          <=> lastRemoteSeq'[q] - d \in accepted'[q]
      BY DEF WindowExact
    <2>1. CASE q # p
      BY <2>1, <1>3, <1>4, <1>5, <1>6 DEF Inv, WindowExact, TypeOK
    <2>2. CASE q = p
      <3> DEFINE n == m.seq - last - 1
      <3>1. nearby[p] /\ n \in Bits
        BY <1>2, <1>6, <2>2, SizesAssumption DEF Bits
      <3>2. mask = ShiftLeft(ShiftLeft(lastRemoteSeqsMask[p], 1) \cup {0}, n)
        <4>1. ShiftCounts(m.seq - last - 1) = {n}
          BY <3>1, PositionIsBit
        <4>2. QED
          BY <1>3, <4>1 DEF AdvancedMasks
      <3>3. d - 1 \in Bits /\ lastRemoteSeqsMask[p] \in Masks
        BY <1>5, SizesAssumption DEF Bits, TypeOK
      <3>4. d - 1 \in mask <=> d - 1 = n \/ d - 1 - n - 1 \in lastRemoteSeqsMask[p]
        BY <3>1, <3>2, <3>3, AdvancedBits
      <3>5. lastRemoteSeqsMask'[q] = mask /\ lastRemoteSeq'[q] = m.seq
        BY <1>3, <1>4, <1>5, <2>2 DEF TypeOK
      <3>6. m.seq - d \in accepted'[p] <=> m.seq - d \in accepted[p]
        BY <1>2, <1>6
      <3>7. CASE d - 1 < n
        <4>1. d - 1 - n - 1 \notin lastRemoteSeqsMask[p]
          BY <3>1, <3>3, <3>7 DEF Masks, Bits
        <4>2. m.seq - d \notin accepted[p]
          BY <1>2, <3>7 DEF Inv, NewestReceived
        <4>3. QED
          BY <2>2, <3>1, <3>4, <3>5, <3>6, <3>7, <4>1, <4>2
      <3>8. CASE d - 1 = n
        <4>1. m.seq - d = last /\ last >= 1
          BY <1>2, <2>2, <3>5, <3>8
        <4>2. last \in accepted[p]
          BY <4>1 DEF Inv, NewestReceived
        <4>3. QED
          BY <2>2, <3>4, <3>5, <3>6, <3>8, <4>1, <4>2
      <3>9. CASE d - 1 > n
        <4> DEFINE e == d - 1 - n
        <4>1. e \in 1 .. MaskBits /\ last - e = m.seq - d /\ last - e >= 1
          BY <1>2, <2>2, <3>1, <3>5, <3>9, SizesAssumption DEF Bits
        <4>2. e - 1 \in lastRemoteSeqsMask[p] <=> last - e \in accepted[p]
          BY <3>1, <4>1 DEF Inv, WindowExact
        <4>3. QED
          BY <2>2, <3>1, <3>4, <3>5, <3>6, <3>9, <4>1, <4>2
      <3>10. QED
        BY <1>2, <3>1, <3>7, <3>8, <3>9 DEF Bits
    <2>3. QED
      BY <2>1, <2>2
  <1>12. AcceptedOnce'
    BY <1>6 DEF Inv, AcceptedOnce
  <1>13. NetworkTruthful'
    BY <1>4, <1>5, <1>6 DEF Inv, NetworkTruthful, TypeOK, Packets
  <1>14. QED
    BY <1>7, <1>8, <1>9, <1>10, <1>11, <1>12, <1>13 DEF Inv

(***************************************************************************)
(* A packet overtaken by a newer one: its free bit says that it was not    *)
(* accepted before, and setting it records that it is now.                 *)
(***************************************************************************)
LEMMA ReceiveOlderInv ==
  ASSUME Inv, NEW p \in Peers, NEW m \in network, m.from # p, ReceiveOlder(p, m)
  PROVE  Inv'
  <1> DEFINE last == lastRemoteSeq[p]
  <1> DEFINE n == last - m.seq - 1
  <1>1. /\ m \in Packets /\ m.seq \in SeqNos /\ last \in SeqNos
        /\ m.from = Other(p)
    BY OtherPeer DEF Inv, TypeOK, Packets
  <1>2. /\ m.seq \in Nat /\ last \in Nat /\ m.seq < last
        /\ m.seq \in 1 .. MaxSeq[Other(p)]
    BY <1>1 DEF ReceiveOlder, Inv, NumbersSent, SeqNos
  <1>3. PICK pos \in PositionsOf(m.seq, last) :
          /\ lastRemoteSeqsMask[p] \cap pos = {}
          /\ lastRemoteSeqsMask' = [lastRemoteSeqsMask EXCEPT ![p] = @ \cup pos]
    BY DEF ReceiveOlder
  <1>4. NoteAccepted(p, m.seq) /\ HandleAck(p, m) /\ UNCHANGED <<seq, lastRemoteSeq, network>>
    BY DEF ReceiveOlder
  <1>5. TypeOK
    BY DEF Inv
  <1>6. /\ accepted' \in [Peers -> SUBSET SeqNos]
        /\ acceptedTwice' \in [Peers -> SUBSET SeqNos]
        /\ nearby' \in [Peers -> BOOLEAN]
        /\ accepted'[p] = accepted[p] \cup {m.seq}
        /\ acceptedTwice'[p] = acceptedTwice[p] \cup ({m.seq} \cap accepted[p])
        /\ nearby'[p] => nearby[p] /\ m.seq - last \in -MaskBits .. MaskBits
        /\ \A q \in Peers : q # p => /\ accepted'[q] = accepted[q]
                                     /\ acceptedTwice'[q] = acceptedTwice[q]
                                     /\ nearby'[q] = nearby[q]
    BY <1>1, <1>4, <1>5, Noted
  <1>7. /\ AckTruthful'
        /\ lastAckedSeq' \in [Peers -> SeqNos]
        /\ lastAckedSeqsMask' \in [Peers -> Masks]
        /\ acked' \in [Peers -> SUBSET SeqNos]
    <2>1. /\ \A q \in Peers : accepted[q] \subseteq accepted'[q]
          /\ \A q \in Peers : q # p => nearby'[q] = nearby[q] /\ accepted'[q] = accepted[q]
          /\ nearby'[p] => nearby[p]
      BY <1>6
    <2>2. QED
      BY <1>4, <2>1, AckHalf
  <1>8. TypeOK'
    <2>1. pos \in Masks
      BY <1>3, MaskTypes
    <2>2. lastRemoteSeqsMask' \in [Peers -> Masks]
      BY <1>3, <1>5, <2>1 DEF TypeOK, Masks
    <2>3. QED
      BY <1>4, <1>5, <1>6, <1>7, <2>2 DEF TypeOK
  <1>9. NumbersSent'
    BY <1>2, <1>4, <1>6 DEF Inv, NumbersSent
  <1>10. NewestReceived'
    BY <1>1, <1>2, <1>4, <1>5, <1>6 DEF Inv, NewestReceived, TypeOK, SeqNos
  <1>11. nearby'[p] => nearby[p] /\ n \in Bits /\ pos = {n}
    <2> SUFFICES ASSUME nearby'[p]
                 PROVE  nearby[p] /\ n \in Bits /\ pos = {n}
      OBVIOUS
    <2>1. nearby[p] /\ n \in Bits
      BY <1>2, <1>6, SizesAssumption DEF Bits
    <2>2. ShiftCounts(last - m.seq - 1) = {n} /\ ShiftLeft({0}, n) = {n}
      BY <2>1, PositionIsBit
    <2>3. QED
      BY <1>3, <2>1, <2>2 DEF PositionsOf
  <1>12. WindowExact'
    <2> SUFFICES ASSUME NEW q \in Peers, nearby'[q], NEW d \in 1 .. MaskBits,
                        lastRemoteSeq'[q] - d >= 1
                 PROVE  d - 1 \in lastRemoteSeqsMask'[q]
                          <=> lastRemoteSeq'[q] - d \in accepted'[q]
      BY DEF WindowExact
    <2>1. CASE q # p
      BY <2>1, <1>3, <1>4, <1>5, <1>6 DEF Inv, WindowExact, TypeOK
    <2>2. CASE q = p
      <3>1. lastRemoteSeq'[q] = last /\ lastRemoteSeqsMask'[q] = lastRemoteSeqsMask[p] \cup {n}
        BY <1>3, <1>4, <1>5, <1>11, <2>2 DEF TypeOK
      <3>2. d - 1 \in lastRemoteSeqsMask[p] <=> last - d \in accepted[p]
        BY <1>11, <2>2, <3>1 DEF Inv, WindowExact
      <3>3. d - 1 = n <=> last - d = m.seq
        BY <1>2
      <3>4. QED
        BY <1>6, <2>2, <3>1, <3>2, <3>3
    <2>3. QED
      BY <2>1, <2>2
  <1>13. AcceptedOnce'
    <2> SUFFICES ASSUME NEW q \in Peers, nearby'[q]
                 PROVE  acceptedTwice'[q] = {}
      BY DEF AcceptedOnce
    <2>1. CASE q # p
      BY <2>1, <1>6 DEF Inv, AcceptedOnce
    <2>2. CASE q = p
      <3>1. nearby[p] /\ n \in Bits /\ n \notin lastRemoteSeqsMask[p]
        BY <1>3, <1>11, <2>2
      <3>2. n + 1 \in 1 .. MaskBits /\ last - (n + 1) = m.seq /\ n + 1 - 1 = n
        BY <1>2, <3>1, SizesAssumption DEF Bits
      <3>3. last - (n + 1) \notin accepted[p]
        BY <1>2, <3>1, <3>2 DEF Inv, WindowExact
      <3>4. acceptedTwice[p] = {}
        BY <3>1 DEF Inv, AcceptedOnce
      <3>5. QED
        BY <1>6, <2>2, <3>2, <3>3, <3>4
    <2>3. QED
      BY <2>1, <2>2
  <1>14. NetworkTruthful'
    BY <1>4, <1>5, <1>6 DEF Inv, NetworkTruthful, TypeOK, Packets
  <1>15. QED
    BY <1>7, <1>8, <1>9, <1>10, <1>12, <1>13, <1>14 DEF Inv

(***************************************************************************)
(* A step that changes nothing.                                            *)
(***************************************************************************)
LEMMA StutterInv == Inv /\ UNCHANGED vars => Inv'
  BY DEF Inv, vars, local, remote, history, TypeOK, NumbersSent, NewestReceived,
         WindowExact, AcceptedOnce, NetworkTruthful, AckTruthful

-----------------------------------------------------------------------------

(***************************************************************************)
(* The invariant of the exchange, for every two peers, every number of     *)
(* packets and every width of the mask.                                    *)
(***************************************************************************)
THEOREM Invariance == Spec => []Inv
  <1>1. Inv /\ [Next]_vars => Inv'
    <2> SUFFICES ASSUME Inv, [Next]_vars
                 PROVE  Inv'
      OBVIOUS
    <2>1. CASE UNCHANGED vars
      BY <2>1, StutterInv
    <2>2. ASSUME NEW p \in Peers, Send(p)
          PROVE  Inv'
      BY <2>2, SendInv
    <2>3. ASSUME NEW p \in Peers, NEW m \in network, Receive(p, m)
          PROVE  Inv'
      <3>1. m.from # p
        BY <2>3 DEF Receive
      <3>2. CASE ReceiveNewer(p, m)
        BY <3>1, <3>2, ReceiveNewerInv
      <3>3. CASE ReceiveOlder(p, m)
        BY <3>1, <3>3, ReceiveOlderInv
      <3>4. CASE Discard(p, m)
        BY <3>4, StutterInv DEF Discard
      <3>5. QED
        BY <2>3, <3>2, <3>3, <3>4 DEF Receive
    <2>4. QED
      BY <2>1, <2>2, <2>3 DEF Next
  <1>2. QED
    BY <1>1, InitInv, PTL DEF Spec

(***************************************************************************)
(* Every variable keeps its type: no sequence number passes the bound and  *)
(* no mask is wider than MaskBits, even after an undefined shift.          *)
(***************************************************************************)
THEOREM TypeCorrect == Spec => []TypeOK
  BY Invariance, PTL DEF Inv

(***************************************************************************)
(* A packet is handled once while the window is not overrun, however often *)
(* the network delivers it.                                                *)
(***************************************************************************)
THEOREM HandledOnce == Spec => []AcceptedOnce
  BY Invariance, PTL DEF Inv

(***************************************************************************)
(* The mask and the newest number are exactly the packets received.        *)
(***************************************************************************)
THEOREM WindowIsExact == Spec => [](NewestReceived /\ WindowExact)
  BY Invariance, PTL DEF Inv

(***************************************************************************)
(* What a peer keeps as acknowledged was received by the other one.        *)
(***************************************************************************)
THEOREM AcksAreTrue == Spec => []AckTruthful
  BY Invariance, PTL DEF Inv

(***************************************************************************)
(* The wrapping comparison orders the numbers of one call, so a stale      *)
(* acknowledgement never replaces a newer one.                             *)
(***************************************************************************)
THEOREM AcksMoveForward == Spec => AckNeverRollsBack
  <1> DEFINE Forward ==
        \A p \in Peers : \/ lastAckedSeq'[p] > lastAckedSeq[p]
                         \/ /\ lastAckedSeq'[p] = lastAckedSeq[p]
                            /\ lastAckedSeqsMask'[p] = lastAckedSeqsMask[p]
  <1>1. Inv /\ [Next]_vars => [Forward]_vars
    <2> SUFFICES ASSUME Inv, Next
                 PROVE  Forward
      OBVIOUS
    <2>1. ASSUME NEW p \in Peers, Send(p)
          PROVE  Forward
      BY <2>1 DEF Send
    <2>2. ASSUME NEW p \in Peers, NEW m \in network, m.from # p, HandleAck(p, m)
          PROVE  Forward
      <3>1. CASE ~Acknowledges(p, m)
        BY <2>2, <3>1 DEF HandleAck
      <3>2. CASE Acknowledges(p, m)
        <4>1. m.from = Other(p) /\ Other(p) \in Peers /\ Other(Other(p)) = p
          BY <2>2, OtherPeer DEF Inv, TypeOK, Packets
        <4>2. m.ackSeq \in 0 .. HalfSeq /\ lastAckedSeq[p] \in 0 .. HalfSeq
          <5>1. accepted[Other(p)] \subseteq 1 .. MaxSeq[p]
            BY <4>1 DEF Inv, NumbersSent
          <5>2. m.ackSeq \in accepted[Other(p)] \cup {0}
            BY <4>1 DEF Inv, NetworkTruthful
          <5>3. lastAckedSeq[p] \in accepted[Other(p)] \cup {0}
            BY DEF Inv, AckTruthful
          <5>4. MaxSeq[p] \in Nat /\ MaxSeq[p] <= HalfSeq
            BY SmallSeq, SizesAssumption, Halves
          <5>5. QED
            BY <5>1, <5>2, <5>3, <5>4, Halves
        <4>3. m.ackSeq > lastAckedSeq[p]
          BY <3>2, <4>2, SeqGtIsGreater DEF Acknowledges
        <4>4. TakeAck(p, m)
          BY <2>2, <3>2 DEF HandleAck
        <4>5. QED
          BY <4>3, <4>4 DEF TakeAck, Inv, TypeOK
      <3>3. QED
        BY <3>1, <3>2
    <2>3. ASSUME NEW p \in Peers, NEW m \in network, Discard(p, m)
          PROVE  Forward
      BY <2>3 DEF Discard, vars, local
    <2>4. QED
      BY <2>1, <2>2, <2>3 DEF Next, Receive, ReceiveNewer, ReceiveOlder
  <1>2. QED
    BY <1>1, Invariance, PTL DEF Spec, AckNeverRollsBack
=============================================================================
