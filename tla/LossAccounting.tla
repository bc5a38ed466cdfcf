--------------------------- MODULE LossAccounting ---------------------------
(***************************************************************************)
(* The books a sender keeps of its packets.  CongestionControl has a fixed *)
(* number of slots for the packets of all streams it takes to be in the    *)
(* network and counts those it gives up; every stream's packet manager has *)
(* a list of its recent transmissions and the controller counts the ones   *)
(* that look lost.  Acknowledgements and a timer update both.  A packet    *)
(* may be transmitted again and again, to several endpoints, and later     *)
(* than packets numbered after it.                                         *)
(*                                                                         *)
(* Times are kept as ages: Elapse makes every packet older.                *)
(***************************************************************************)
EXTENDS PacketManager, Sequences, FiniteSets, FiniteSetsExt

CONSTANTS
  Streams,           \* stream ids
  Best,              \* the stream of getBestPacketManager()
  SlotCount,         \* packets CongestionControl keeps track of (100)
  LostAfter,         \* age at which CongestionControl gives one up
  LossTimeouts,      \* ages at which a transmission looks lost, twice the round trip
  Sizes,             \* per stream: packet sizes
  MaxAge,            \* bound: what is older counts as this old
  MaxNumbered,       \* bound: packets numbered, per stream
  MaxTransmissions   \* bound: transmissions

ASSUME AccountingAssumption ==
  /\ IsFiniteSet(Streams) /\ Best \in Streams
  /\ SlotCount \in Nat \ {0}
  /\ LostAfter \in Nat
  /\ LossTimeouts \subseteq Nat
  /\ MaxAge \in Nat /\ \A a \in LossTimeouts \cup {LostAfter} : a < MaxAge
  /\ Sizes \in [Streams -> SUBSET Nat]
  /\ MaxNumbered \in Nat /\ MaxNumbered <= HalfSeq
  /\ MaxTransmissions \in Nat

VARIABLES
  numbered,            \* per stream: packets numbered so far
  lastAckedSeq,        \* per stream: newest packet acknowledged
  \* CongestionControl
  inflightPackets,     \* its slots
  inflightDataSize,
  lastSentSeq,         \* per stream: newest packet put into a slot
  lossCount,
  \* PacketManager and VoIPController
  recentOutgoing,      \* per stream: recentOutgoingPackets
  sendLosses,
  \* History variables: how often something was transmitted, which packets were,
  \* which the slots ever held, those given up, those an acknowledgement freed.
  transmissions, transmitted, tracked, givenUp, released

conctl  == <<inflightPackets, inflightDataSize, lastSentSeq, lossCount>>
history == <<transmissions, transmitted, tracked, givenUp, released>>
vars    == <<numbered, lastAckedSeq, conctl, recentOutgoing, sendLosses, history>>

SeqNumbers == 1 .. MaxNumbered
Packets    == Streams \X SeqNumbers
SlotNos    == 1 .. SlotCount

Ages  == 0 .. MaxAge
Never == MaxAge      \* the timeout nothing exceeds

Free    == [used |-> FALSE]
Slots   == [used : {TRUE}, stream : Streams, seq : SeqNumbers, size : Nat, age : Ages]
Recents == [seq : SeqNumbers, age : Ages, acked : BOOLEAN, lost : BOOLEAN]

TypeOK ==
  /\ numbered \in [Streams -> 0 .. MaxNumbered]
  /\ lastAckedSeq \in [Streams -> 0 .. MaxNumbered]
  /\ inflightPackets \in [SlotNos -> Slots \cup {Free}]
  /\ inflightDataSize \in Nat
  /\ lastSentSeq \in [Streams -> 0 .. MaxNumbered]
  /\ lossCount \in Nat
  /\ recentOutgoing \in [Streams -> Seq(Recents)]
  /\ \A s \in Streams : Len(recentOutgoing[s]) <= MaxRecent
  /\ sendLosses \in Nat
  /\ transmissions \in 0 .. MaxTransmissions
  /\ {transmitted, tracked, givenUp, released} \subseteq SUBSET Packets

Init ==
  /\ numbered = [s \in Streams |-> 0]
  /\ lastAckedSeq = [s \in Streams |-> 0]
  /\ inflightPackets = [i \in SlotNos |-> Free]
  /\ inflightDataSize = 0
  /\ lastSentSeq = [s \in Streams |-> 0]
  /\ lossCount = 0
  /\ recentOutgoing = [s \in Streams |-> <<>>]
  /\ sendLosses = 0
  /\ transmissions = 0
  /\ transmitted = {} /\ tracked = {} /\ givenUp = {} /\ released = {}

-----------------------------------------------------------------------------
(* The slots                                                               *)

PacketIn(slot) == <<slot.stream, slot.seq>>

\* The slots that are in use for one of the packets P.
Holding(P) ==
  {i \in SlotNos : inflightPackets[i].used /\ PacketIn(inflightPackets[i]) \in P}

Expired ==
  {i \in SlotNos : inflightPackets[i].used /\ inflightPackets[i].age > LostAfter}

Held(I)      == {PacketIn(inflightPackets[i]) : i \in I}
Freed(I)     == [i \in SlotNos |-> IF i \in I THEN Free ELSE inflightPackets[i]]
DataIn(I)    == LET SizeOf(i) == inflightPackets[i].size IN MapThenSumSet(SizeOf, I)

InUse    == {i \in SlotNos : inflightPackets[i].used}
InFlight == Held(InUse)

\* The slot for a new packet: the first free one, or one of the oldest.
Available(i) ==
  IF InUse # SlotNos
  THEN i \notin InUse /\ \A j \in 1 .. i - 1 : j \in InUse
  ELSE \A j \in SlotNos : inflightPackets[j].age <= inflightPackets[i].age

\* Faulty variant: only the packet sent last is recognized as a repetition.
RepeatsLast(s, n) == n = lastSentSeq[s]

\* PacketSent() takes a packet older than the newest one for a repetition.
Repeats(s, n) == ~SeqGt(n, lastSentSeq[s]) \/ n = lastSentSeq[s]

\* Faulty variant: the size of the packet that is pushed out stays counted.
OccupyKeepingSize(s, n, size) ==
  \E i \in SlotNos :
    /\ Available(i)
    /\ inflightPackets' = [inflightPackets EXCEPT ![i] =
         [used |-> TRUE, stream |-> s, seq |-> n, size |-> size, age |-> 0]]
    /\ inflightDataSize' = inflightDataSize + size
    /\ givenUp' = givenUp \cup Held({i} \cap InUse)
    /\ lossCount' = lossCount + Cardinality({i} \cap InUse)

\* A slot is used; the packet it held, if any, is given up.
Occupy(s, n, size) ==
  \E i \in SlotNos :
    /\ Available(i)
    /\ inflightPackets' = [inflightPackets EXCEPT ![i] =
         [used |-> TRUE, stream |-> s, seq |-> n, size |-> size, age |-> 0]]
    /\ inflightDataSize' = inflightDataSize - DataIn({i} \cap InUse) + size
    /\ givenUp' = givenUp \cup Held({i} \cap InUse)
    /\ lossCount' = lossCount + Cardinality({i} \cap InUse)

PacketSent(s, n, size) ==
  \/ /\ Repeats(s, n)
     /\ UNCHANGED <<conctl, tracked, givenUp>>
  \/ /\ ~Repeats(s, n)
     /\ lastSentSeq' = [lastSentSeq EXCEPT ![s] = n]
     /\ Occupy(s, n, size)
     /\ tracked' = tracked \cup {<<s, n>>}

-----------------------------------------------------------------------------
(* The list of recent transmissions                                        *)

\* Faulty variant: nothing is dropped.
WithUntrimmed(list, n) == Append(list, [seq |-> n, age |-> 0, acked |-> FALSE, lost |-> FALSE])

With(list, n) ==
  LET all == Append(list, [seq |-> n, age |-> 0, acked |-> FALSE, lost |-> FALSE])
  IN  SubSeq(all, Max({1, Len(all) - MaxRecent + 1}), Len(all))

AddRecentOutgoingPacket(s, n) ==
  recentOutgoing' = [recentOutgoing EXCEPT ![s] = With(@, n)]

Acknowledged(list, I) ==
  [i \in DOMAIN list |-> IF i \in I THEN [list[i] EXCEPT !.acked = TRUE] ELSE list[i]]

FoundLost(list, I) ==
  [i \in DOMAIN list |-> IF i \in I THEN [list[i] EXCEPT !.lost = TRUE] ELSE list[i]]

Older(age) == IF age < MaxAge THEN age + 1 ELSE age

Aged(list) == [i \in DOMAIN list |-> [list[i] EXCEPT !.age = Older(@)]]

\* The manager's lastSentSeq: the packet transmitted last, whatever its number.
LastTransmitted(s) ==
  LET list == recentOutgoing[s] IN IF list = <<>> THEN 0 ELSE list[Len(list)].seq

-----------------------------------------------------------------------------

\* Packet::prepare() numbers a packet, some time before it is transmitted.
Number(s) ==
  /\ numbered[s] < MaxNumbered
  /\ numbered' = [numbered EXCEPT ![s] = @ + 1]
  /\ UNCHANGED <<lastAckedSeq, conctl, recentOutgoing, sendLosses, history>>

\* SendOrEnqueuePacket(), the first time for this packet or again.
Transmit(s, n, size) ==
  /\ n <= numbered[s]
  /\ transmissions < MaxTransmissions
  /\ transmissions' = transmissions + 1
  /\ transmitted' = transmitted \cup {<<s, n>>}
  /\ PacketSent(s, n, size)
  /\ AddRecentOutgoingPacket(s, n)
  /\ UNCHANGED <<numbered, lastAckedSeq, sendLosses, released>>

\* The entries of a list that an acknowledgement is news for.
NewlyAcked(list, ack, mask) ==
  {i \in DOMAIN list : ~list[i].acked /\ WasLocalAcked(list[i].seq, ack, mask)}

\* Faulty variant: every acknowledgement takes back a loss.
LossesTakenBackAlways(list, I) == Cardinality(I)

LossesTakenBack(list, I) == Cardinality({i \in I : list[i].lost})

\* Faulty variant: only the packet numbered like the peer's is looked up.
ToReleaseByPeerSeq(s, peerSeq, I) == {<<s, peerSeq>>}

(***************************************************************************)
(* The packets PacketAcknowledged() is called for: those of the entries I, *)
(* and first the one that has the number of the peer's own packet.         *)
(***************************************************************************)
ToRelease(s, peerSeq, I) ==
  {<<s, peerSeq>>} \cup {<<s, recentOutgoing[s][i].seq>> : i \in I}

(***************************************************************************)
(* ProcessIncomingPacket() reads the acknowledgement in the peer's packet  *)
(* number peerSeq.  What is acknowledged was transmitted.                  *)
(***************************************************************************)
TakeAck(s, peerSeq, ack, mask) ==
  LET list == recentOutgoing[s]
      I    == NewlyAcked(list, ack, mask)
      S    == Holding(ToRelease(s, peerSeq, I))
  IN  /\ <<s, ack>> \in transmitted
      /\ SeqGt(ack, lastAckedSeq[s])
      /\ lastAckedSeq' = [lastAckedSeq EXCEPT ![s] = ack]
      /\ recentOutgoing' = [recentOutgoing EXCEPT ![s] = Acknowledged(@, I)]
      /\ sendLosses' = sendLosses - LossesTakenBack(list, I)
      /\ inflightPackets' = Freed(S)
      /\ inflightDataSize' = inflightDataSize - DataIn(S)
      /\ released' = released \cup Held(S)
      /\ UNCHANGED <<numbered, lastSentSeq, lossCount, transmissions, transmitted, tracked,
                     givenUp>>

-----------------------------------------------------------------------------

\* GetAverageRTT() knows no round trip time while the last packet sent is
\* older than the newest one acknowledged, or too far ahead of it.
RttKnown ==
  LET ahead == LastTransmitted(Best) - lastAckedSeq[Best]
  IN  0 <= ahead /\ ahead < MaskBits

Timeouts == IF RttKnown THEN LossTimeouts ELSE {Never}

Overdue(list, timeout) ==
  {i \in DOMAIN list : ~list[i].acked /\ ~list[i].lost /\ list[i].age > timeout}

\* Faulty variant: the packets the timer finds lost are counted again.
LossesFoundTwice(I, J) == Cardinality(I) + Cardinality(J) + Cardinality(I \cap J)

\* What Tick() and PacketLost() add to the count: a slot is freed once.
LossesFound(I, J) == Cardinality(I \cup J)

\* The slots of the packets with an overdue transmission.
LostSlots(timeout) ==
  Holding({p \in Packets :
             \E i \in Overdue(recentOutgoing[p[1]], timeout) : recentOutgoing[p[1]][i].seq = p[2]})

\* The timer's handler: CongestionControl::Tick(), then PacketLost() for what looks lost.
TickCongestionControl ==
  \E timeout \in Timeouts :
    LET J == LostSlots(timeout)
        I == Expired
    IN  /\ recentOutgoing' = [s \in Streams |->
             FoundLost(recentOutgoing[s], Overdue(recentOutgoing[s], timeout))]
        /\ sendLosses' = sendLosses
             + MapThenSumSet(LAMBDA s : Cardinality(Overdue(recentOutgoing[s], timeout)), Streams)
        /\ inflightPackets' = Freed(I \cup J)
        /\ inflightDataSize' = inflightDataSize - DataIn(I \cup J)
        /\ lossCount' = lossCount + LossesFound(I, J)
        /\ givenUp' = givenUp \cup Held(I \cup J)
        /\ UNCHANGED <<numbered, lastAckedSeq, lastSentSeq, transmissions, transmitted, tracked,
                       released>>

Elapse ==
  /\ inflightPackets' = [i \in SlotNos |->
       IF inflightPackets[i].used
       THEN [inflightPackets[i] EXCEPT !.age = Older(@)] ELSE Free]
  /\ recentOutgoing' = [s \in Streams |-> Aged(recentOutgoing[s])]
  /\ UNCHANGED <<numbered, lastAckedSeq, inflightDataSize, lastSentSeq, lossCount, sendLosses,
                 history>>

Next ==
  \/ \E s \in Streams : Number(s)
  \/ \E s \in Streams, n \in SeqNumbers : \E size \in Sizes[s] : Transmit(s, n, size)
  \/ \E s \in Streams, peerSeq \in SeqNumbers, ack \in SeqNumbers, mask \in Masks :
       TakeAck(s, peerSeq, ack, mask)
  \/ TickCongestionControl
  \/ Elapse

Spec == Init /\ [][Next]_vars

-----------------------------------------------------------------------------

(***************************************************************************)
(* No packet is in two slots, although it may be transmitted many times    *)
(* and out of order: the first slot PacketAcknowledged() or PacketLost()   *)
(* finds is the only one.                                                  *)
(***************************************************************************)
OneSlotPerPacket ==
  \A i, j \in InUse : PacketIn(inflightPackets[i]) = PacketIn(inflightPackets[j]) => i = j

(***************************************************************************)
(* inflightDataSize, which the bitrate is decided from, is the size of the *)
(* packets in the slots, however they leave them.                          *)
(***************************************************************************)
InflightSizeExact == inflightDataSize = DataIn(InUse)

(***************************************************************************)
(* Every packet CongestionControl ever took note of has one fate: it is in *)
(* a slot, or an acknowledgement freed its slot, or it was given up and    *)
(* counted in lossCount once.  Pushed out, expired, found lost by the      *)
(* timer and acknowledged after all, in any order, it counts once.         *)
(***************************************************************************)
LossesCountedOnce ==
  /\ tracked = InFlight \cup givenUp \cup released
  /\ InFlight \cap givenUp = {} /\ InFlight \cap released = {} /\ givenUp \cap released = {}
  /\ lossCount = Cardinality(givenUp)

Settled(e) == e.acked \/ e.lost

(***************************************************************************)
(* The two books agree: a packet one of whose transmissions counts as      *)
(* acknowledged or as lost in recentOutgoingPackets is in no slot, also    *)
(* when it is transmitted again afterwards.                                *)
(***************************************************************************)
SettledIsNotInFlight ==
  \A s \in Streams : \A i \in DOMAIN recentOutgoing[s] :
    Settled(recentOutgoing[s][i]) => <<s, recentOutgoing[s][i].seq>> \notin InFlight

(***************************************************************************)
(* sendLosses covers every transmission that may still be acknowledged     *)
(* after it was found lost, so that taking these losses back never makes   *)
(* the unsigned counter wrap.                                              *)
(***************************************************************************)
SendLossesCovered ==
  sendLosses >= MapThenSumSet(
    LAMBDA s : Cardinality({i \in DOMAIN recentOutgoing[s] :
                              recentOutgoing[s][i].lost /\ ~recentOutgoing[s][i].acked}),
    Streams)
=============================================================================
