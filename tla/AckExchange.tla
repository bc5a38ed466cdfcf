---------------------------- MODULE AckExchange ----------------------------
(***************************************************************************)
(* Two peers exchange the packets of one stream over a network that loses, *)
(* duplicates and reorders them.  Every packet carries the sender's next   *)
(* sequence number, the newest number it has received and the mask of the  *)
(* numbers received before that one.  Each peer drops packets it has       *)
(* already handled and learns from the acknowledgements which of its own   *)
(* packets arrived.                                                        *)
(***************************************************************************)
EXTENDS PacketManager

CONSTANTS
  Peers,     \* the two ends of the call
  MaxSeq     \* bound: peer p sends the packets 1 .. MaxSeq[p]

ASSUME PeersAssumption ==
  /\ \A p \in Peers : \E q \in Peers : Peers = {p, q} /\ p # q
  /\ MaxSeq \in [Peers -> Nat]
  /\ \A p \in Peers : MaxSeq[p] + MaxRecent <= HalfSeq

VARIABLES
  seq,                 \* PacketManager::seq, the next local number
  lastAckedSeq,        \* newest local number the peer acknowledged
  lastAckedSeqsMask,   \* and the mask that came with it
  lastRemoteSeq,       \* newest remote number received
  lastRemoteSeqsMask,  \* and the mask of the ones before it
  acked,               \* recentOutgoingPackets whose ackTime is set
  network,             \* every packet sent; it may be delivered again and again, or never
  \* History variables: the code does not have them.
  accepted,            \* remote numbers for which ackRemoteSeq() returned true
  acceptedTwice,       \* those for which it did so more than once
  nearby               \* every packet so far came within MaskBits of lastRemoteSeq

local   == <<seq, lastAckedSeq, lastAckedSeqsMask, acked>>
remote  == <<lastRemoteSeq, lastRemoteSeqsMask>>
history == <<accepted, acceptedTwice, nearby>>
vars    == <<local, remote, network, history>>

Other(p) == CHOOSE q \in Peers : q # p

SeqNos == 0 .. SeqMod - 1

Packets == [from : Peers, seq : SeqNos, ackSeq : SeqNos, ackMask : Masks]

TypeOK ==
  /\ seq \in [Peers -> Nat]
  /\ \A p \in Peers : seq[p] \in 1 .. MaxSeq[p] + 1
  /\ lastAckedSeq \in [Peers -> SeqNos]
  /\ lastAckedSeqsMask \in [Peers -> Masks]
  /\ lastRemoteSeq \in [Peers -> SeqNos]
  /\ lastRemoteSeqsMask \in [Peers -> Masks]
  /\ acked \in [Peers -> SUBSET SeqNos]
  /\ network \subseteq Packets
  /\ accepted \in [Peers -> SUBSET SeqNos]
  /\ acceptedTwice \in [Peers -> SUBSET SeqNos]
  /\ nearby \in [Peers -> BOOLEAN]

-----------------------------------------------------------------------------

(***************************************************************************)
(* The constructor initializes every member but lastRemoteSeqsMask, which  *)
(* starts with whatever the memory holds.                                  *)
(***************************************************************************)
Init ==
  /\ seq = [p \in Peers |-> 1]
  /\ lastAckedSeq = [p \in Peers |-> 0]
  /\ lastAckedSeqsMask = [p \in Peers |-> {}]
  /\ lastRemoteSeq = [p \in Peers |-> 0]
  /\ lastRemoteSeqsMask \in [Peers -> Masks]
  /\ acked = [p \in Peers |-> {}]
  /\ network = {}
  /\ accepted = [p \in Peers |-> {}]
  /\ acceptedTwice = [p \in Peers |-> {}]
  /\ nearby = [p \in Peers |-> TRUE]

\* Faulty variant: acknowledges the number expected next instead of the newest received.
SendAcksNextExpected(p) ==
  /\ seq[p] <= MaxSeq[p]
  /\ network' = network \cup
       {[from |-> p, seq |-> seq[p],
         ackSeq |-> lastRemoteSeq[p] + 1, ackMask |-> lastRemoteSeqsMask[p]]}
  /\ seq' = [seq EXCEPT ![p] = @ + 1]
  /\ UNCHANGED <<lastAckedSeq, lastAckedSeqsMask, acked, remote, history>>

\* A new packet: Packet::prepare() numbers it and fills in the acknowledgement.
Send(p) ==
  /\ seq[p] <= MaxSeq[p]
  /\ network' = network \cup
       {[from |-> p, seq |-> seq[p],
         ackSeq |-> lastRemoteSeq[p], ackMask |-> lastRemoteSeqsMask[p]]}
  /\ seq' = [seq EXCEPT ![p] = @ + 1]
  /\ UNCHANGED <<lastAckedSeq, lastAckedSeqsMask, acked, remote, history>>

-----------------------------------------------------------------------------

(***************************************************************************)
(* ackRemoteSeq() remembers seqs in lastRemoteSeqsMask.  History for the   *)
(* properties: which numbers it let through.                               *)
(***************************************************************************)
NoteAccepted(p, s) ==
  /\ accepted' = [accepted EXCEPT ![p] = @ \cup {s}]
  /\ acceptedTwice' = [acceptedTwice EXCEPT ![p] = @ \cup ({s} \cap accepted[p])]
  /\ nearby' = [nearby EXCEPT ![p] =
                  @ /\ s - lastRemoteSeq[p] \in -MaskBits .. MaskBits]

\* The packets recentOutgoingPackets still holds.
Recent(p) == {s \in 1 .. seq[p] - 1 : s >= seq[p] - MaxRecent}

\* Faulty variant: the order of acknowledgements is not checked.
AcknowledgesAnything(p, m) == m.ackSeq # 0

Acknowledges(p, m) == m.ackSeq # 0 /\ SeqGt(m.ackSeq, lastAckedSeq[p])

\* The part of ProcessIncomingPacket() that reads the acknowledgement of m.
TakeAck(p, m) ==
  /\ lastAckedSeq' = [lastAckedSeq EXCEPT ![p] = m.ackSeq]
  /\ lastAckedSeqsMask' = [lastAckedSeqsMask EXCEPT ![p] = m.ackMask]
  /\ acked' = [acked EXCEPT ![p] =
                 @ \cup {s \in Recent(p) : WasLocalAcked(s, m.ackSeq, m.ackMask)}]

HandleAck(p, m) ==
  \/ Acknowledges(p, m) /\ TakeAck(p, m)
  \/ ~Acknowledges(p, m) /\ UNCHANGED <<lastAckedSeq, lastAckedSeqsMask, acked>>

-----------------------------------------------------------------------------

\* m becomes the newest packet received.
ReceiveNewer(p, m) ==
  /\ NotTooOld(m.seq, lastRemoteSeq[p])
  /\ m.seq > lastRemoteSeq[p]
  /\ \E mask \in AdvancedMasks(lastRemoteSeqsMask[p], m.seq, lastRemoteSeq[p]) :
       lastRemoteSeqsMask' = [lastRemoteSeqsMask EXCEPT ![p] = mask]
  /\ lastRemoteSeq' = [lastRemoteSeq EXCEPT ![p] = m.seq]
  /\ NoteAccepted(p, m.seq)
  /\ HandleAck(p, m)
  /\ UNCHANGED <<seq, network>>

\* m was overtaken by a newer packet, and its bit is free.
ReceiveOlder(p, m) ==
  /\ NotTooOld(m.seq, lastRemoteSeq[p])
  /\ m.seq < lastRemoteSeq[p]
  /\ \E pos \in PositionsOf(m.seq, lastRemoteSeq[p]) :
       /\ lastRemoteSeqsMask[p] \cap pos = {}
       /\ lastRemoteSeqsMask' = [lastRemoteSeqsMask EXCEPT ![p] = @ \cup pos]
  /\ NoteAccepted(p, m.seq)
  /\ HandleAck(p, m)
  /\ UNCHANGED <<seq, lastRemoteSeq, network>>

\* ackRemoteSeq() returns false: m is ignored, its acknowledgement included.
Discard(p, m) ==
  /\ \/ ~NotTooOld(m.seq, lastRemoteSeq[p])
     \/ m.seq = lastRemoteSeq[p]
     \/ /\ m.seq < lastRemoteSeq[p]
        /\ \E pos \in PositionsOf(m.seq, lastRemoteSeq[p]) :
             lastRemoteSeqsMask[p] \cap pos # {}
  /\ UNCHANGED vars

Receive(p, m) ==
  /\ m.from # p
  /\ ReceiveNewer(p, m) \/ ReceiveOlder(p, m) \/ Discard(p, m)

Next == \E p \in Peers : Send(p) \/ \E m \in network : Receive(p, m)

Spec == Init /\ [][Next]_vars

-----------------------------------------------------------------------------

(***************************************************************************)
(* lastRemoteSeq is the newest number ackRemoteSeq() ever let through (0   *)
(* before the first): a late packet never moves it back, and the mask is   *)
(* therefore always relative to the newest packet.                         *)
(***************************************************************************)
NewestReceived ==
  \A p \in Peers :
    /\ lastRemoteSeq[p] \in accepted[p] \cup {0}
    /\ \A s \in accepted[p] : s <= lastRemoteSeq[p]

(***************************************************************************)
(* As long as no packet arrived more than MaskBits away from the newest    *)
(* one, bit d - 1 of lastRemoteSeqsMask says whether the packet d before   *)
(* the newest one was received, whatever the mask was at the start.        *)
(***************************************************************************)
WindowExact ==
  \A p \in Peers : nearby[p] =>
    \A d \in 1 .. MaskBits :
      lastRemoteSeq[p] - d >= 1 =>
        (d - 1 \in lastRemoteSeqsMask[p] <=> lastRemoteSeq[p] - d \in accepted[p])

(***************************************************************************)
(* As long as no packet arrived more than MaskBits away from the newest    *)
(* one, ackRemoteSeq() lets no packet through twice: a duplicate made by   *)
(* the network or by a retransmission is handled once.                     *)
(***************************************************************************)
AcceptedOnce == \A p \in Peers : nearby[p] => acceptedTwice[p] = {}

(***************************************************************************)
(* What a peer keeps as acknowledged is what the other one received: the   *)
(* number always, and each bit of the mask for packet lastAckedSeq - d at  *)
(* bit d - 1, as long as the other peer's window was never overrun.        *)
(***************************************************************************)
AckTruthful ==
  \A p \in Peers :
    /\ lastAckedSeq[p] \in accepted[Other(p)] \cup {0}
    /\ nearby[Other(p)] =>
         \A d \in 1 .. MaskBits :
           d - 1 \in lastAckedSeqsMask[p] /\ lastAckedSeq[p] - d >= 1
             => lastAckedSeq[p] - d \in accepted[Other(p)]

(***************************************************************************)
(* Acknowledgements arrive in any order, but a stale one replaces neither  *)
(* the last acknowledged number nor the mask that came with it.            *)
(***************************************************************************)
AckNeverRollsBack ==
  [][\A p \in Peers :
       \/ lastAckedSeq'[p] > lastAckedSeq[p]
       \/ /\ lastAckedSeq'[p] = lastAckedSeq[p]
          /\ lastAckedSeqsMask'[p] = lastAckedSeqsMask[p]]_vars

(***************************************************************************)
(* "Ack specified local seq + up to 32 seqs ago, specified by mask"        *)
(* (PacketManager.h): a packet counted as acknowledged was received.       *)
(***************************************************************************)
AckedWasReceived ==
  \A p \in Peers : nearby[Other(p)] => acked[p] \subseteq accepted[Other(p)]

(***************************************************************************)
(* "Ack specified remote seq, returns false if too old or dupe"            *)
(* (PacketManager.h): a packet that is neither is let through.             *)
(***************************************************************************)
RefusedIsOldOrDupe ==
  \A p \in Peers : \A m \in network :
    /\ m.from # p
    /\ m.seq < lastRemoteSeq[p]
    /\ NotTooOld(m.seq, lastRemoteSeq[p])
    /\ \E pos \in PositionsOf(m.seq, lastRemoteSeq[p]) :
         lastRemoteSeqsMask[p] \cap pos # {}
    => m.seq \in accepted[p]
=============================================================================
