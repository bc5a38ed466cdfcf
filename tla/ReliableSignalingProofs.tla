----------------------- MODULE ReliableSignalingProofs -----------------------
(***************************************************************************)
(* Signaling implements the register of its latest value, for any streams, *)
(* packets, values, tries and length of history.  What the invariant adds  *)
(* to the state is about packets: made in the order of the values they     *)
(* carry, and those noted with an extra carry the value it has now.        *)
(***************************************************************************)
EXTENDS ReliableSignaling, SequenceTheorems, TLAPS

\* The packets made and not given up before their first transmission.
Made == network \cup {r.packet : r \in reliable}

\* The packet noted as c.
IsPacket(k, c) == k.stream = c.stream /\ k.seq = c.seq

\* A packet is in the range of what was made and set; what is acknowledged was received.
Bounds ==
  /\ \A k \in Made : k.seq < nextSeq[k.stream] /\ k.made <= made /\ k.version <= version
  /\ \A c \in acks : c.seq \in received[c.stream]
  /\ \A s \in Streams : \A n \in received[s] :
       \E k \in network : IsPacket(k, [stream |-> s, seq |-> n]) /\ k.made <= newestMade

\* The value in force is that of the extra that came last.
LastIsInForce == value = lastReceived /\ InForceIsLastHandled

\* What waits for its first transmission has a try left for it.
NewHasTries == \A r \in reliable : r.sent \/ r.tries > 0

\* Packets carry the values in the order they were set.
InOrder ==
  \A k, l \in Made : k.version # 0 /\ l.version # 0 /\ k.made <= l.made
                       => k.version <= l.version

\* The packets noted with the extra carry its value.
CarriersCarry ==
  \A c \in ToSet(extra) :
    /\ c.seq < nextSeq[c.stream]
    /\ \A k \in Made : IsPacket(k, c) => k.version = version

\* Unless packets overtook each other, no packet that comes next brings back an earlier
\* value, and the other end knows the latest once it has a packet noted with the extra.
Undisturbed ==
  ~overtaken =>
    /\ \A k \in Made : k.version # 0 /\ k.made >= newestMade => k.version >= learned
    /\ \A c \in ToSet(extra) : c.seq \in received[c.stream] => learned = version

Inv ==
  /\ TypeOK /\ Bounds /\ LastIsInForce /\ NewHasTries
  /\ InOrder /\ CarriersCarry /\ Undisturbed

-----------------------------------------------------------------------------

\* HistoricBuffer::Add() keeps its bound and brings in nothing but what is added.
LEMMA AddedProperties ==
  ASSUME NEW q \in Seq(Carriers), Len(q) <= History, NEW c \in Carriers
  PROVE  /\ Added(q, c) \in Seq(Carriers) /\ Len(Added(q, c)) <= History
         /\ ToSet(Added(q, c)) \subseteq ToSet(q) \cup {c}
  <1> DEFINE longer == Append(q, c)
  <1>1. /\ longer \in Seq(Carriers) /\ Len(longer) = Len(q) + 1 /\ longer # <<>>
        /\ \A i \in 1 .. Len(q) : longer[i] = q[i]
        /\ longer[Len(q) + 1] = c
    BY AppendProperties
  <1>2. ToSet(longer) \subseteq ToSet(q) \cup {c}
    BY <1>1 DEF ToSet
  <1>3. /\ Tail(longer) \in Seq(Carriers) /\ Len(Tail(longer)) = Len(q)
        /\ \A i \in 1 .. Len(Tail(longer)) : Tail(longer)[i] = longer[i + 1]
    BY <1>1, HeadTailProperties
  <1>4. ToSet(Tail(longer)) \subseteq ToSet(longer)
    BY <1>1, <1>3 DEF ToSet
  <1>5. History \in Nat \ {0} /\ Len(q) \in Nat
    BY SignalingAssumption
  <1>6. CASE Len(longer) > History
    BY <1>1, <1>2, <1>3, <1>4, <1>5, <1>6 DEF Added
  <1>7. CASE ~(Len(longer) > History)
    BY <1>1, <1>2, <1>5, <1>7 DEF Added
  <1> QED
    BY <1>6, <1>7

\* What is in the network or to be transmitted is a packet.
LEMMA MadeArePackets ==
  ASSUME TypeOK
  PROVE  Made \subseteq Packets
  BY DEF TypeOK, Made, Reliable

\* Nothing was set or sent.
LEMMA InitInv ==
  ASSUME Init
  PROVE  Inv
  <1>1. TypeOK
    <2>1. extra \in Seq(Carriers) /\ Len(extra) = 0
      BY EmptySeq DEF Init
    <2>2. /\ nextSeq \in [Streams -> Seqs] /\ acked \in [Streams -> Nat]
          /\ received \in [Streams -> SUBSET Seqs]
          /\ \A s \in Streams : nextSeq[s] = 1 /\ acked[s] = 0 /\ received[s] = {}
      BY DEF Init, Seqs
    <2>3. \A s \in Streams : nextSeq[s] <= MaxSeq[s] + 1 /\ acked[s] < nextSeq[s]
      BY <2>2, SignalingAssumption
    <2>4. Len(extra) <= History /\ version \in 0 .. MaxVersion /\ learned \in 0 .. version
      BY <2>1, SignalingAssumption DEF Init
    <2> QED
      BY <2>1, <2>2, <2>3, <2>4 DEF Init, TypeOK, None
  <1>2. Made = {} /\ ToSet(extra) = {}
    BY DEF Init, Made, ToSet
  <1> QED
    BY <1>1, <1>2 DEF Init, Inv, Bounds, LastIsInForce, InForceIsLastHandled, NewHasTries,
       InOrder, CarriersCarry, Undisturbed

\* A new value has no carrier yet, so no packet of the old one counts for it.
LEMMA SendExtraInv ==
  ASSUME Inv, SendExtra
  PROVE  Inv'
  <1>1. TypeOK'
    <2>1. extra' \in Seq(Carriers) /\ Len(extra') = 0
      BY EmptySeq DEF SendExtra
    <2>2. version' \in 0 .. MaxVersion /\ learned' \in 0 .. version'
      BY SignalingAssumption DEF Inv, TypeOK, SendExtra, receiver
    <2> QED
      BY <2>1, <2>2, SignalingAssumption DEF Inv, TypeOK, SendExtra, receiver
  <1>2. Made' = Made /\ ToSet(extra') = {}
    BY DEF SendExtra, Made, ToSet
  <1>3. Bounds'
    <2>1. \A k \in Made : k.version <= version'
      BY MadeArePackets DEF Inv, TypeOK, Bounds, SendExtra, Packets
    <2> QED
      BY <1>2, <2>1 DEF Inv, Bounds, IsPacket, SendExtra, receiver
  <1> QED
    BY <1>1, <1>2, <1>3 DEF Inv, LastIsInForce, InForceIsLastHandled, NewHasTries, InOrder,
       CarriersCarry, Undisturbed, SendExtra, receiver

\* The packet SendPacket(s) makes.
NewPacket(s) == [stream |-> s, seq |-> nextSeq[s], made |-> made + 1,
                 version |-> IF pending THEN version ELSE 0]

\* A new packet carries the value there is now, and is noted with it.
LEMMA SendPacketInv ==
  ASSUME Inv, NEW s \in Streams, SendPacket(s)
  PROVE  Inv'
  <1> DEFINE k == NewPacket(s)
             c == [stream |-> s, seq |-> nextSeq[s]]
  <1>1. /\ k \in Packets /\ c \in Carriers
        /\ k.seq <= MaxSeq[s]
        /\ nextSeq' = [nextSeq EXCEPT ![s] = @ + 1]
        /\ made' = made + 1
        /\ extra' = IF pending THEN Added(extra, c) ELSE extra
        /\ UNCHANGED <<acked, pending, receiver, version, mistaken>>
    <2>1. nextSeq[s] \in Seqs /\ made + 1 \in Nat /\ version \in 0 .. MaxVersion
      BY DEF Inv, TypeOK
    <2>2. 0 \in 0 .. MaxVersion
      BY SignalingAssumption
    <2>3. (IF pending THEN version ELSE 0) \in 0 .. MaxVersion
      BY <2>1, <2>2
    <2>4. k \in Packets /\ c \in Carriers
      BY <2>1, <2>3 DEF NewPacket, Packets, Carriers
    <2> QED
      BY <2>4 DEF NewPacket, SendPacket
  <1>2. \/ network' = network \cup {k} /\ UNCHANGED reliable
        \/ /\ \E tries \in Tries \ {0} :
                reliable' = reliable \cup {[packet |-> k, tries |-> tries, sent |-> FALSE]}
           /\ UNCHANGED network
    BY DEF NewPacket, SendPacket
  <1>3. /\ network' \subseteq Packets /\ reliable' \subseteq Reliable /\ NewHasTries'
        /\ network \subseteq network'
    <2> HIDE DEF k
    <2>1. network \subseteq Packets /\ reliable \subseteq Reliable /\ NewHasTries
      BY DEF Inv, TypeOK
    <2>2. CASE network' = network \cup {k} /\ UNCHANGED reliable
      BY <1>1, <2>1, <2>2 DEF NewHasTries
    <2>3. ASSUME NEW tries \in Tries \ {0}, UNCHANGED network,
                 reliable' = reliable \cup {[packet |-> k, tries |-> tries, sent |-> FALSE]}
          PROVE  network' \subseteq Packets /\ reliable' \subseteq Reliable /\ NewHasTries'
      <3>1. tries \in Nat /\ tries > 0
        BY SignalingAssumption
      <3>2. [packet |-> k, tries |-> tries, sent |-> FALSE] \in Reliable
        BY <1>1, <3>1 DEF Reliable
      <3> DEFINE new == [packet |-> k, tries |-> tries, sent |-> FALSE]
      <3>3. new \in Reliable /\ new.tries > 0 /\ reliable' = reliable \cup {new}
        BY <2>3, <3>1, <3>2
      <3> HIDE DEF new
      <3> QED
        BY <2>1, <2>3, <3>3 DEF NewHasTries
    <2> QED
      BY <1>2, <2>2, <2>3
  <1>4. Made' = Made \cup {k}
    <2> HIDE DEF k
    <2>1. CASE network' = network \cup {k} /\ UNCHANGED reliable
      BY <2>1 DEF Made
    <2>2. ASSUME NEW tries, UNCHANGED network,
                 reliable' = reliable \cup {[packet |-> k, tries |-> tries, sent |-> FALSE]}
          PROVE  Made' = Made \cup {k}
      <3>1. [packet |-> k, tries |-> tries, sent |-> FALSE].packet = k
        OBVIOUS
      <3> QED
        BY <2>2, <3>1, Zenon DEF Made
    <2> QED
      BY <1>2, <2>1, <2>2
  <1>5. /\ extra' \in Seq(Carriers) /\ Len(extra') <= History
        /\ ToSet(extra') \subseteq ToSet(extra) \cup {c}
        /\ ~pending => extra' = extra
    BY <1>1, AddedProperties DEF Inv, TypeOK
  <1>6. \A t \in Streams : /\ nextSeq[t] \in Seqs /\ nextSeq'[t] \in Seqs
                           /\ nextSeq[t] <= nextSeq'[t]
                           /\ nextSeq'[t] <= MaxSeq[t] + 1
                           /\ t = s => nextSeq'[t] = nextSeq[t] + 1
    <2> TAKE t \in Streams
    <2>1. nextSeq \in [Streams -> Seqs] /\ nextSeq[t] <= MaxSeq[t] + 1 /\ MaxSeq[t] \in Nat
      BY SignalingAssumption DEF Inv, TypeOK
    <2>2. nextSeq'[t] = IF t = s THEN nextSeq[s] + 1 ELSE nextSeq[t]
      BY <1>1, <2>1
    <2>3. nextSeq[s] <= MaxSeq[s] /\ nextSeq[s] \in Seqs
      BY <1>1, <2>1 DEF NewPacket
    <2> QED
      BY <2>1, <2>2, <2>3 DEF Seqs
  <1>7. TypeOK'
    <2>1. \A t \in Streams : acked'[t] < nextSeq'[t] /\ received'[t] \subseteq 1 .. nextSeq'[t] - 1
      BY <1>1, <1>6 DEF Inv, TypeOK, receiver, Seqs
    <2>2. made' \in Nat /\ newestMade' \in 0 .. made'
      BY <1>1 DEF Inv, TypeOK, receiver
    <2> QED
      BY <1>1, <1>3, <1>5, <1>6, <2>1, <2>2 DEF Inv, TypeOK, receiver
  <1>8. /\ k.stream = s /\ k.seq = nextSeq[s] /\ k.made = made + 1
        /\ k.version = IF pending THEN version ELSE 0
    BY DEF NewPacket
  <1>9. \A l \in Made : /\ l \in Packets /\ l.stream \in Streams /\ l.seq \in Nat
                        /\ l.made \in Nat /\ l.version \in Nat
                        /\ l.seq < nextSeq[l.stream] /\ l.made <= made /\ l.version <= version
    BY MadeArePackets DEF Inv, Bounds, Packets, Seqs
  <1>10. version \in Nat /\ made \in Nat /\ learned \in Nat /\ newestMade \in Nat
         /\ learned <= version /\ newestMade <= made
    BY DEF Inv, TypeOK
  <1>11. Bounds'
    <2>1. \A l \in Made' : l.seq < nextSeq'[l.stream] /\ l.made <= made' /\ l.version <= version'
      BY <1>1, <1>4, <1>6, <1>8, <1>9, <1>10 DEF Seqs
    <2> QED
      BY <1>1, <1>3, <2>1 DEF Inv, Bounds, IsPacket, receiver
  <1>12. InOrder'
    BY <1>4, <1>8, <1>9, <1>10 DEF Inv, InOrder
  <1>13. CarriersCarry'
    <2> SUFFICES ASSUME NEW d \in ToSet(extra')
                 PROVE  /\ d.seq < nextSeq'[d.stream]
                        /\ \A l \in Made' : IsPacket(l, d) => l.version = version'
      BY DEF CarriersCarry
    <2>1. extra \in Seq(Carriers) /\ ToSet(extra) \subseteq Carriers
      BY DEF Inv, TypeOK, ToSet
    <2>2. CASE d \in ToSet(extra)
      <3>1. d.stream \in Streams /\ d.seq \in Nat /\ d.seq < nextSeq[d.stream]
        BY <2>1, <2>2 DEF Inv, CarriersCarry, Carriers, Seqs
      <3>2. ~IsPacket(k, d)
        BY <1>8, <3>1 DEF IsPacket
      <3> QED
        BY <1>1, <1>4, <1>6, <2>2, <3>1, <3>2 DEF Inv, CarriersCarry, Seqs
    <2>3. CASE d \notin ToSet(extra)
      <3>1. d = c /\ pending
        BY <1>5, <2>3
      <3>2. \A l \in Made : ~IsPacket(l, d)
        BY <1>9, <3>1 DEF IsPacket
      <3> QED
        BY <1>1, <1>4, <1>6, <1>8, <3>1, <3>2 DEF Seqs
    <2> QED
      BY <2>2, <2>3
  <1>14. Undisturbed'
    <2> SUFFICES ASSUME ~overtaken
                 PROVE  /\ \A l \in Made' : l.version # 0 /\ l.made >= newestMade => l.version >= learned
                        /\ \A d \in ToSet(extra') : d.seq \in received[d.stream] => learned = version
      BY <1>1 DEF Undisturbed, receiver
    <2>1. c.seq \notin received[c.stream]
      BY <1>6 DEF Inv, TypeOK, Seqs
    <2> QED
      BY <1>4, <1>5, <1>8, <1>10, <2>1 DEF Inv, Undisturbed
  <1> QED
    BY <1>1, <1>3, <1>7, <1>11, <1>12, <1>13, <1>14
       DEF Inv, LastIsInForce, InForceIsLastHandled, receiver

\* A pass over the list that keeps only what has a try left, and everything new.
LEMMA PassOverInv ==
  ASSUME Inv, NEW kept \in SUBSET reliable, \A r \in kept : r.tries > 0, PassOver(kept)
  PROVE  /\ Inv'
         /\ \A r \in kept : \E q \in reliable' : q.packet = r.packet
  <1> DEFINE Passed(r) == [packet |-> r.packet, tries |-> r.tries - 1, sent |-> TRUE]
  <1>1. /\ reliable' = {Passed(r) : r \in kept}
        /\ network' = network \cup {r.packet : r \in kept}
        /\ UNCHANGED <<nextSeq, acked, extra, pending, receiver, version, made, mistaken>>
    BY DEF PassOver
  <1>2. \A r \in kept : /\ r \in Reliable /\ r.packet \in Packets
                        /\ Passed(r) \in Reliable
                        /\ Passed(r).packet = r.packet /\ Passed(r).sent
    BY DEF Inv, TypeOK, Reliable
  <1>3. /\ network' \subseteq Packets /\ reliable' \subseteq Reliable /\ NewHasTries'
        /\ network \subseteq network'
        /\ \A r \in kept : \E q \in reliable' : q.packet = r.packet
    <2> HIDE DEF Passed
    <2>1. network' \subseteq Packets /\ reliable' \subseteq Reliable /\ network \subseteq network'
      BY <1>1, <1>2 DEF Inv, TypeOK
    <2>2. \A q \in reliable' : q.sent
      BY <1>1, <1>2
    <2>3. \A r \in kept : Passed(r) \in reliable' /\ Passed(r).packet = r.packet
      BY <1>1, <1>2
    <2> QED
      BY <2>1, <2>2, <2>3 DEF NewHasTries
  <1>4. Made' \subseteq Made
    BY <1>1, <1>2 DEF Made
  <1>5. TypeOK'
    BY <1>1, <1>3 DEF Inv, TypeOK, receiver
  <1>6. Bounds'
    BY <1>1, <1>3, <1>4 DEF Inv, Bounds, IsPacket, receiver
  <1>7. InOrder' /\ CarriersCarry' /\ Undisturbed'
    BY <1>1, <1>4 DEF Inv, InOrder, CarriersCarry, Undisturbed, IsPacket, receiver
  <1> QED
    BY <1>1, <1>3, <1>5, <1>6, <1>7 DEF Inv, LastIsInForce, InForceIsLastHandled, receiver

\* What is acknowledged was received, in this stream or, mistakenly, in the other.
LEMMA HandleAckInv ==
  ASSUME Inv, NEW s \in Streams, NEW n \in Seqs, HandleAck(s, n)
  PROVE  Inv'
  <1>1. /\ [stream |-> s, seq |-> n] \in acks
        /\ acked' = [acked EXCEPT ![s] = n]
        /\ reliable' \subseteq reliable
        /\ extra' = extra \/ extra' = <<>>
        /\ pending' \in BOOLEAN /\ mistaken' \in BOOLEAN
        /\ UNCHANGED <<nextSeq, receiver, network, version, made>>
    BY DEF HandleAck
  <1>2. ToSet(extra') \subseteq ToSet(extra) /\ Made' \subseteq Made
    BY <1>1 DEF ToSet, Made
  <1>3. TypeOK'
    <2>1. extra' \in Seq(Carriers) /\ Len(extra') <= History
      <3>1. <<>> \in Seq(Carriers) /\ Len(<<>>) = 0
        BY EmptySeq
      <3>2. CASE extra' = <<>>
        BY <3>1, <3>2, SignalingAssumption
      <3>3. CASE extra' = extra
        BY <3>3 DEF Inv, TypeOK
      <3> QED
        BY <1>1, <3>2, <3>3
    <2>2. n \in received[s]
      BY <1>1 DEF Inv, Bounds
    <2>3. n < nextSeq[s]
      BY <2>2 DEF Inv, TypeOK, Seqs
    <2> QED
      BY <1>1, <2>1, <2>3 DEF Inv, TypeOK, receiver, Seqs
  <1>4. Bounds'
    BY <1>1, <1>2 DEF Inv, Bounds, IsPacket, receiver
  <1>5. InOrder' /\ CarriersCarry' /\ Undisturbed' /\ NewHasTries'
    BY <1>1, <1>2 DEF Inv, InOrder, CarriersCarry, Undisturbed, NewHasTries, IsPacket, receiver
  <1> QED
    BY <1>1, <1>3, <1>4, <1>5 DEF Inv, LastIsInForce, InForceIsLastHandled, receiver

\* What is learned is the packet's value; only a packet that is not overtaken may tell.
LEMMA ReceivePacketInv ==
  ASSUME Inv, NEW k \in network, ReceivePacket(k)
  PROVE  /\ Inv'
         /\ learned' # learned => k.version # 0 /\ learned' = k.version
         /\ ~overtaken' => ~overtaken /\ k.made >= newestMade
  <1> DEFINE seen == received[k.stream] \cup {k.seq}
  <1>1. /\ k.seq \notin received[k.stream]
        /\ received' = [received EXCEPT ![k.stream] = seen]
        /\ \E n \in seen : acks' = acks \cup {[stream |-> k.stream, seq |-> n]}
        /\ IF k.version = 0 THEN UNCHANGED <<value, lastReceived, learned>>
           ELSE /\ value' = Processed(k.version)
                /\ lastReceived' = ValueOf(k.version)
                /\ learned' = k.version
        /\ newestMade' = IF k.made > newestMade THEN k.made ELSE newestMade
        /\ overtaken' = (overtaken \/ k.made < newestMade)
        /\ UNCHANGED <<sender, network, version, made, mistaken>>
    BY DEF ReceivePacket
  <1>2. /\ k \in Made /\ k \in Packets
        /\ k.stream \in Streams /\ k.seq \in Seqs /\ k.made \in Nat /\ k.version \in Nat
        /\ k.seq < nextSeq[k.stream] /\ k.made <= made /\ k.version <= version
    BY MadeArePackets DEF Inv, Bounds, Made, Packets
  <1>3. /\ version \in Nat /\ made \in Nat /\ learned \in Nat /\ newestMade \in Nat
        /\ learned <= version /\ newestMade <= made
        /\ received \in [Streams -> SUBSET Seqs] /\ overtaken \in BOOLEAN
    BY DEF Inv, TypeOK
  <1>4. /\ received' \in [Streams -> SUBSET Seqs]
        /\ \A t \in Streams : /\ received[t] \subseteq received'[t]
                              /\ received'[t] \subseteq received[t] \cup
                                                        (IF t = k.stream THEN {k.seq} ELSE {})
        /\ k.seq \in received'[k.stream]
    BY <1>1, <1>2, <1>3
  <1>5. newestMade' \in 0 .. made /\ newestMade <= newestMade' /\ k.made <= newestMade'
    BY <1>1, <1>2, <1>3
  <1>6. Made' = Made
    BY <1>1 DEF Made, sender
  <1>7. ValueOf(k.version) \in {"on", "off"}
    BY DEF ValueOf
  <1>8. \A c \in acks' : /\ c \in Carriers
                         /\ \/ c \in acks
                            \/ c.stream = k.stream /\ c.seq \in received'[k.stream]
    <2> PICK n \in seen : acks' = acks \cup {[stream |-> k.stream, seq |-> n]}
      BY <1>1
    <2>1. n \in received'[k.stream] /\ n \in Seqs
      BY <1>1, <1>2, <1>3
    <2>2. [stream |-> k.stream, seq |-> n] \in Carriers
      BY <1>2, <2>1 DEF Carriers
    <2>3. acks \subseteq Carriers
      BY DEF Inv, TypeOK
    <2> QED
      BY <2>1, <2>2, <2>3
  <1>9. TypeOK'
    <2>1. \A t \in Streams : received'[t] \subseteq 1 .. nextSeq'[t] - 1
      <3> TAKE t \in Streams
      <3>1. nextSeq'[t] = nextSeq[t] /\ nextSeq[t] \in Seqs /\ received[t] \subseteq 1 .. nextSeq[t] - 1
        BY <1>1 DEF Inv, TypeOK, sender
      <3>2. t = k.stream => k.seq \in 1 .. nextSeq[t] - 1
        BY <1>2, <3>1 DEF Seqs
      <3> QED
        BY <1>4, <3>1, <3>2
    <2>2. {lastReceived', value'} \subseteq {None, "on", "off"}
      BY <1>1, <1>7 DEF Inv, TypeOK, Processed
    <2>3. learned' \in 0 .. version' /\ version' \in 0 .. MaxVersion
      BY <1>1, <1>2, <1>3 DEF Inv, TypeOK
    <2>4. /\ made' \in Nat /\ newestMade' \in 0 .. made'
          /\ {overtaken', mistaken'} \subseteq BOOLEAN
      BY <1>1, <1>5 DEF Inv, TypeOK
    <2> QED
      BY <1>1, <1>4, <1>8, <2>1, <2>2, <2>3, <2>4 DEF Inv, TypeOK, sender
  <1>10. Bounds'
    <2>1. \A l \in Made' : l.seq < nextSeq'[l.stream] /\ l.made <= made' /\ l.version <= version'
      BY <1>1, <1>6 DEF Inv, Bounds, sender
    <2>2. \A c \in acks' : c.seq \in received'[c.stream]
      BY <1>4, <1>8 DEF Inv, Bounds, Carriers
    <2>3. ASSUME NEW t \in Streams, NEW n \in received'[t]
          PROVE  \E l \in network' : IsPacket(l, [stream |-> t, seq |-> n])
                                     /\ l.made <= newestMade'
      <3>1. CASE n \in received[t]
        <4> PICK l \in network : IsPacket(l, [stream |-> t, seq |-> n]) /\ l.made <= newestMade
          BY <3>1 DEF Inv, Bounds
        <4>1. l.made \in Nat
          BY DEF Inv, TypeOK, Packets
        <4> QED
          BY <1>1, <1>3, <1>5, <4>1
      <3>2. CASE n \notin received[t]
        <4>1. t = k.stream /\ n = k.seq
          BY <1>4, <3>2
        <4> QED
          BY <1>1, <1>5, <4>1 DEF IsPacket
      <3> QED
        BY <3>1, <3>2
    <2> QED
      BY <2>1, <2>2, <2>3 DEF Bounds
  <1>11. LastIsInForce'
    BY <1>1, <1>3 DEF Inv, LastIsInForce, InForceIsLastHandled, Processed
  <1>12. InOrder' /\ CarriersCarry' /\ NewHasTries'
    BY <1>1, <1>6 DEF Inv, InOrder, CarriersCarry, NewHasTries, IsPacket, sender
  <1>13. ASSUME ~overtaken'
         PROVE  /\ ~overtaken /\ k.made >= newestMade /\ newestMade' = k.made
                /\ k.version # 0 => k.version >= learned
    <2>1. ~overtaken /\ k.made >= newestMade /\ newestMade' = k.made
      <3>1. newestMade' = (IF k.made > newestMade THEN k.made ELSE newestMade)
            /\ overtaken' = (overtaken \/ k.made < newestMade)
        BY <1>1
      <3>2. ~overtaken /\ ~(k.made < newestMade)
        BY <1>13, <3>1
      <3> QED
        BY <1>2, <1>3, <3>1, <3>2
    <2> QED
      BY <1>2, <2>1 DEF Inv, Undisturbed
  <1>14. Undisturbed'
    <2> SUFFICES ASSUME ~overtaken'
                 PROVE  /\ \A l \in Made : l.version # 0 /\ l.made >= k.made => l.version >= learned'
                        /\ \A d \in ToSet(extra) : d.seq \in received'[d.stream] => learned' = version
      BY <1>1, <1>6, <1>13 DEF Undisturbed, sender
    <2>1. ASSUME NEW l \in Made, l.version # 0, l.made >= k.made
          PROVE  l.version >= learned'
      <3>1. l.made \in Nat /\ l.version \in Nat
        BY MadeArePackets DEF Inv, Packets
      <3>2. l.version >= learned
        BY <1>2, <1>3, <1>13, <2>1, <3>1 DEF Inv, Undisturbed
      <3>3. k.version # 0 => l.version >= k.version
        BY <1>2, <2>1, <3>1 DEF Inv, InOrder
      <3> QED
        BY <1>1, <3>2, <3>3
    <2>2. ASSUME NEW d \in ToSet(extra), d.seq \in received'[d.stream]
          PROVE  learned' = version
      <3>1. d.stream \in Streams
        <4>1. extra \in Seq(Carriers) /\ ToSet(extra) \subseteq Carriers
          BY DEF Inv, TypeOK, ToSet
        <4> QED
          BY <4>1 DEF Carriers
      <3>2. CASE d.seq \in received[d.stream]
        <4>1. learned = version
          BY <1>13, <3>2 DEF Inv, Undisturbed
        <4> QED
          BY <1>1, <1>2, <1>3, <1>13, <4>1
      <3>3. CASE d.seq \notin received[d.stream]
        <4>1. IsPacket(k, d)
          BY <1>4, <2>2, <3>1, <3>3 DEF IsPacket
        <4>2. k.version = version
          BY <1>2, <4>1 DEF Inv, CarriersCarry
        <4> QED
          BY <1>1, <1>2, <1>3, <4>2
      <3> QED
        BY <3>2, <3>3
    <2> QED
      BY <2>1, <2>2
  <1> QED
    BY <1>1, <1>9, <1>10, <1>11, <1>12, <1>13, <1>14 DEF Inv

\* What UpdateReliablePackets() keeps.
LEMMA UpdateKeeps ==
  ASSUME Inv, UpdateReliablePackets
  PROVE  \E kept \in SUBSET reliable :
           /\ \A r \in kept : r.tries > 0
           /\ \A r \in reliable \ kept : r.sent
           /\ PassOver(kept)
  <1> PICK timedOut \in SUBSET {r \in reliable : r.sent} :
             PassOver({r \in reliable \ timedOut : r.tries > 0})
    BY DEF UpdateReliablePackets
  <1> DEFINE kept == {r \in reliable \ timedOut : r.tries > 0}
  <1>1. kept \in SUBSET reliable /\ \A r \in kept : r.tries > 0
    OBVIOUS
  <1>2. \A r \in reliable \ kept : r.sent
    BY DEF Inv, NewHasTries
  <1>3. PassOver(kept)
    OBVIOUS
  <1> HIDE DEF kept
  <1> QED
    BY <1>1, <1>2, <1>3

\* Every step keeps the invariant.
LEMMA NextInv ==
  ASSUME Inv, [Next]_vars
  PROVE  Inv'
  <1>1. CASE SendExtra
    BY <1>1, SendExtraInv
  <1>2. ASSUME NEW s \in Streams, SendPacket(s)
        PROVE  Inv'
    BY <1>2, SendPacketInv
  <1>3. CASE UpdateReliablePackets
    BY <1>3, UpdateKeeps, PassOverInv
  <1>4. ASSUME NEW c \in acks, HandleAck(c.stream, c.seq)
        PROVE  Inv'
    <2>1. c.stream \in Streams /\ c.seq \in Seqs
      BY DEF Inv, TypeOK, Carriers
    <2> QED
      BY <1>4, <2>1, HandleAckInv
  <1>5. ASSUME NEW k \in network, ReceivePacket(k)
        PROVE  Inv'
    BY <1>5, ReceivePacketInv
  <1>6. CASE UNCHANGED vars
    BY <1>6 DEF vars, sender, receiver, Inv, TypeOK, Bounds, LastIsInForce,
       InForceIsLastHandled, NewHasTries, InOrder, CarriersCarry, Undisturbed, Made, IsPacket
  <1> QED
    BY <1>1, <1>2, <1>3, <1>4, <1>5, <1>6 DEF Next

\* The inductive invariant holds in every state of the signaling.
THEOREM Invariance == Spec => []Inv
  <1>1. Init => Inv
    BY InitInv
  <1>2. Inv /\ [Next]_vars => Inv'
    BY NextInv
  <1> QED
    BY <1>1, <1>2, PTL DEF Spec

(***************************************************************************)
(* Numbers, packets and histories keep their ranges: in particular no more *)
(* than History packets are remembered for an extra, and the numbers the   *)
(* other end has are numbers that were given out.                          *)
(***************************************************************************)
THEOREM TypeCorrect == Spec => []TypeOK
  BY Invariance, PTL DEF Inv

(***************************************************************************)
(* The value in force is that of the packet handled last, although an      *)
(* extra is compared with the hash of the last one only                    *)
(* (ProcessExtraData(), Protocol.cpp:310-317).                             *)
(***************************************************************************)
THEOREM LastIsInForceAlways == Spec => []InForceIsLastHandled
  <1>1. Inv => InForceIsLastHandled
    BY DEF Inv, LastIsInForce
  <1> QED
    BY <1>1, Invariance, PTL

(***************************************************************************)
(* A reliable packet leaves reliablePackets only after a transmission or   *)
(* for an acknowledgement, and for an acknowledgement only if the other    *)
(* end has it or a number was taken for one of the other stream            *)
(* (UpdateReliablePackets() and HandleReliablePackets(), Reliable.cpp).    *)
(***************************************************************************)
THEOREM ReliableLeavesForAReason == Spec => LeavesForAReason
  <1> DEFINE Reason(r) == /\ r.sent \/ acked' # acked
                          /\ acked' = acked \/ mistaken' \/ r.packet.seq \in received[r.packet.stream]
             Step == \A r \in reliable : Left(r) => Reason(r)
  <1>1. ASSUME Inv, [Next]_vars
        PROVE  [Step]_vars
    <2> SUFFICES ASSUME Next, NEW r \in reliable, Left(r)
                 PROVE  Reason(r)
      BY <1>1
    <2>1. r \notin reliable'
      BY DEF Left
    <2>2. CASE SendExtra
      BY <2>1, <2>2 DEF SendExtra
    <2>3. ASSUME NEW s \in Streams, SendPacket(s)
          PROVE  Reason(r)
      BY <2>1, <2>3 DEF SendPacket
    <2>4. CASE UpdateReliablePackets
      <3> PICK kept \in SUBSET reliable : /\ \A q \in kept : q.tries > 0
                                          /\ \A q \in reliable \ kept : q.sent
                                          /\ PassOver(kept)
        BY <1>1, <2>4, UpdateKeeps
      <3>1. r \notin kept
        BY <1>1, PassOverInv DEF Left
      <3>2. acked' = acked
        BY DEF PassOver
      <3> QED
        BY <3>1, <3>2
    <2>5. ASSUME NEW c \in acks, HandleAck(c.stream, c.seq)
          PROVE  Reason(r)
      <3>1. c.stream \in Streams /\ c.seq \in Seqs /\ c.seq \in received[c.stream]
        BY <1>1 DEF Inv, TypeOK, Bounds, Carriers
      <3>2. r.packet.seq = c.seq
        BY <2>1, <2>5 DEF HandleAck, Matched
      <3>3. acked' # acked
        BY <1>1, <2>5, <3>1 DEF HandleAck, Inv, TypeOK, Seqs
      <3>4. r.packet.stream # c.stream => mistaken'
        BY <2>5, <3>2 DEF HandleAck
      <3> QED
        BY <3>1, <3>2, <3>3, <3>4
    <2>6. ASSUME NEW k \in network, ReceivePacket(k)
          PROVE  Reason(r)
      BY <2>1, <2>6 DEF ReceivePacket, sender
    <2> QED
      BY <2>2, <2>3, <2>4, <2>5, <2>6 DEF Next
  <1> QED
    BY <1>1, Invariance, PTL DEF Spec, LeavesForAReason

-----------------------------------------------------------------------------
(* Refinement                                                              *)

\* Every step of the signaling is one of the register, or leaves it as it is.
LEMMA StepRefines ==
  ASSUME Inv, Inv', [Next]_vars
  PROVE  [Register!Next]_(Register!vars)
  <1> USE DEF Register!Next, Register!vars
  <1>1. /\ version \in Nat /\ learned \in 0 .. version /\ learned' \in 0 .. version'
        /\ overtaken \in BOOLEAN /\ mistaken \in BOOLEAN /\ pending \in BOOLEAN
    BY DEF Inv, TypeOK
  <1>2. CASE SendExtra
    BY <1>1, <1>2 DEF SendExtra, receiver, Register!Set
  <1>3. ASSUME NEW s \in Streams, SendPacket(s)
        PROVE  UNCHANGED Register!vars
    BY <1>3 DEF SendPacket, receiver
  <1>4. CASE UpdateReliablePackets
    BY <1>4 DEF UpdateReliablePackets, PassOver, receiver
  <1>5. ASSUME NEW c \in acks, HandleAck(c.stream, c.seq)
        PROVE  [Register!Next]_(Register!vars)
    <2>1. /\ version' = version /\ learned' = learned /\ overtaken' = overtaken
          /\ mistaken => mistaken'
          /\ pending' => pending
          /\ mistaken' \in BOOLEAN /\ pending' \in BOOLEAN
      BY <1>1, <1>5 DEF HandleAck, receiver
    <2>2. CASE overtaken \/ mistaken'
      <3>1. (overtaken' \/ mistaken') /\ version' = version
            /\ learned' \in 0 .. version
        BY <1>1, <2>1, <2>2
      <3> QED
        BY <2>1, <3>1 DEF Register!Disturbed
    <2>3. CASE ~(overtaken \/ mistaken') /\ pending' = pending
      <3>1. /\ overtaken = FALSE /\ overtaken' = FALSE /\ mistaken = FALSE /\ mistaken' = FALSE
        BY <1>1, <2>1, <2>3
      <3> QED
        BY <2>1, <2>3, <3>1
    <2>4. CASE ~(overtaken \/ mistaken') /\ pending' # pending
      <3>1. PICK d \in ToSet(extra) : d.seq = c.seq /\ d.stream = c.stream
        BY <1>1, <1>5, <2>1, <2>4 DEF HandleAck
      <3>2. d.seq \in received[d.stream]
        BY <3>1 DEF Inv, Bounds
      <3>3. learned = version
        BY <2>4, <3>2 DEF Inv, Undisturbed
      <3> QED
        <4>1. /\ overtaken = FALSE /\ overtaken' = FALSE /\ mistaken = FALSE /\ mistaken' = FALSE
              /\ pending = TRUE /\ pending' = FALSE
          BY <1>1, <2>1, <2>4
        <4>2. Register!Settle
          BY <2>1, <3>3, <4>1 DEF Register!Settle
        <4> QED
          BY <4>2
    <2> QED
      BY <2>2, <2>3, <2>4
  <1>6. ASSUME NEW k \in network, ReceivePacket(k)
        PROVE  [Register!Next]_(Register!vars)
    <2>1. /\ UNCHANGED <<version, pending, mistaken>>
          /\ overtaken' \in BOOLEAN
      BY <1>1, <1>6 DEF ReceivePacket, sender
    <2>2. CASE overtaken' \/ mistaken
      BY <1>1, <2>1, <2>2 DEF Register!Disturbed
    <2>3. CASE ~(overtaken' \/ mistaken)
      <3>1. ~overtaken /\ k.made >= newestMade
            /\ (learned' # learned => k.version # 0 /\ learned' = k.version)
        BY <1>6, <2>3, ReceivePacketInv
      <3>2. learned' # learned => learned' >= learned
        BY <3>1 DEF Inv, Undisturbed, Made
      <3> QED
        BY <1>1, <2>1, <2>3, <3>1, <3>2 DEF Register!Learn
    <2> QED
      BY <2>2, <2>3
  <1>7. CASE UNCHANGED vars
    BY <1>7 DEF vars, sender, receiver
  <1> QED
    BY <1>2, <1>3, <1>4, <1>5, <1>6, <1>7 DEF Next

(***************************************************************************)
(* Signaling implements the register of the latest value, whatever is      *)
(* lost, repeated and replaced, for any number of streams, packets, values *)
(* and tries: the other end never goes back, and currentExtras lets go of  *)
(* an extra only when its latest value is known, as long as no packet      *)
(* overtook another and no number was taken for one of the other stream.   *)
(***************************************************************************)
THEOREM SignalingImplementsRegister == Spec => KeepsTheLatestValue
  <1>1. Init => Register!Init
    BY DEF Init, Register!Init
  <1>2. Inv /\ Inv' /\ [Next]_vars => [Register!Next]_(Register!vars)
    BY StepRefines
  <1> QED
    BY <1>1, <1>2, Invariance, PTL DEF Spec, KeepsTheLatestValue, Register!Spec
=============================================================================
