-------------------------- MODULE ReliableSignaling --------------------------
(***************************************************************************)
(* One end of a running call sets a value (an extra of one kind, say the   *)
(* flags of its audio stream) again and again.  Every new packet carries   *)
(* the value it has then, until a packet that carried it is acknowledged.  *)
(* Packets of two streams, numbered each from 1, may be lost, late or      *)
(* repeated; some are reliable: they are transmitted again as they were.   *)
(* The other end processes an extra unless it is the one it had last.      *)
(*                                                                         *)
(* The two values alternate, as an on/off setting does.  wasLocalAcked()   *)
(* is true of the number acknowledged and of nothing else: the end of the  *)
(* mask it reads is empty in streams of few packets (AckExchange).         *)
(***************************************************************************)
EXTENDS Naturals, Sequences, SequencesExt

CONSTANTS
  Streams,       \* streams packets are sent in
  MaxSeq,        \* bound: packets of each stream
  MaxVersion,    \* bound: values set
  Tries,         \* tries a packet may be sent with; 0: once, and not reliably
  History        \* packets remembered to have carried an extra (16 in the code)

ASSUME SignalingAssumption ==
  /\ MaxSeq \in [Streams -> Nat] /\ MaxVersion \in Nat
  /\ Tries \subseteq Nat
  /\ History \in Nat \ {0}

VARIABLES
  \* the sending end
  nextSeq,       \* per stream: nextLocalSeq()
  acked,         \* per stream: lastAckedSeq
  extra,         \* the entry of currentExtras: <<>>, or the packets that carried it
  pending,       \* the extra is in currentExtras
  reliable,      \* reliablePackets
  \* the receiving end
  received,      \* per stream: numbers of the packets handled
  lastReceived,  \* lastReceivedExtrasByType: the value that came last
  value,         \* the value in force
  \* packets and acknowledgements under way, now or later
  network, acks,
  \* history
  version,       \* values set
  learned,       \* the value handled last, by its number
  made,          \* packets made
  newestMade,    \* of the packets handled, the one made last
  overtaken,     \* a packet was handled after one made later
  mistaken       \* a number was acknowledged in one stream and matched in the other

sender   == <<nextSeq, acked, extra, pending, reliable>>
receiver == <<received, lastReceived, value, acks, learned, newestMade, overtaken>>
vars     == <<sender, receiver, network, version, made, mistaken>>

\* Values alternate; so do their hashes.
ValueOf(v) == IF v % 2 = 1 THEN "on" ELSE "off"
None == "none"

Seqs     == Nat \ {0}
Carriers == [stream : Streams, seq : Seqs]

\* made: the packet's place among all packets; version: of its extra, 0 for none.
Packets  == [stream : Streams, seq : Seqs, made : Nat, version : 0 .. MaxVersion]
Reliable == [packet : Packets, tries : Nat, sent : BOOLEAN]   \* sent: once or more

TypeOK ==
  /\ nextSeq \in [Streams -> Seqs] /\ \A s \in Streams : nextSeq[s] <= MaxSeq[s] + 1
  /\ acked \in [Streams -> Nat] /\ \A s \in Streams : acked[s] < nextSeq[s]
  /\ extra \in Seq(Carriers) /\ Len(extra) <= History
  /\ pending \in BOOLEAN
  /\ reliable \subseteq Reliable
  /\ received \in [Streams -> SUBSET Seqs]
  /\ \A s \in Streams : received[s] \subseteq 1 .. nextSeq[s] - 1
  /\ {lastReceived, value} \subseteq {None, "on", "off"}
  /\ network \subseteq Packets
  /\ acks \subseteq Carriers
  /\ version \in 0 .. MaxVersion /\ learned \in 0 .. version
  /\ made \in Nat /\ newestMade \in 0 .. made
  /\ {overtaken, mistaken} \subseteq BOOLEAN

Init ==
  /\ nextSeq = [s \in Streams |-> 1]
  /\ acked = [s \in Streams |-> 0]
  /\ extra = <<>> /\ pending = FALSE
  /\ reliable = {}
  /\ received = [s \in Streams |-> {}]
  /\ lastReceived = None /\ value = None
  /\ network = {} /\ acks = {}
  /\ version = 0 /\ learned = 0 /\ made = 0 /\ newestMade = 0
  /\ overtaken = FALSE /\ mistaken = FALSE

-----------------------------------------------------------------------------
(* The sending end                                                         *)

\* Faulty variant: packets that carried the value before count for the new one.
SendExtraKeepingSeqs ==
  /\ version < MaxVersion
  /\ version' = version + 1
  /\ pending' = TRUE
  /\ UNCHANGED <<nextSeq, acked, extra, reliable, receiver, network, made, mistaken>>

\* An extra of the same kind is replaced, and has not been carried by anything.
SendExtra ==
  /\ version < MaxVersion
  /\ version' = version + 1
  /\ pending' = TRUE /\ extra' = <<>>
  /\ UNCHANGED <<nextSeq, acked, reliable, receiver, network, made, mistaken>>

\* Faulty variant: nothing falls off the end.
AddedForEver(history, c) == Append(history, c)

\* HistoricBuffer::Add()
Added(history, c) ==
  LET longer == Append(history, c)
  IN  IF Len(longer) > History THEN Tail(longer) ELSE longer

\* SendPacket(): reliable packets are transmitted by UpdateReliablePackets().
SendPacket(s) ==
  LET k == [stream |-> s, seq |-> nextSeq[s], made |-> made + 1,
            version |-> IF pending THEN version ELSE 0]
  IN  /\ k.seq <= MaxSeq[s]
      /\ nextSeq' = [nextSeq EXCEPT ![s] = @ + 1]
      /\ made' = made + 1
      /\ extra' = IF pending THEN Added(extra, [stream |-> s, seq |-> k.seq]) ELSE extra
      /\ \E tries \in Tries :
           IF tries = 0
           THEN network' = network \cup {k} /\ UNCHANGED reliable
           ELSE /\ reliable' = reliable \cup {[packet |-> k, tries |-> tries, sent |-> FALSE]}
                /\ UNCHANGED network
      /\ UNCHANGED <<acked, pending, receiver, version, mistaken>>

\* What one pass leaves in the list and has transmitted.
PassOver(kept) ==
  /\ reliable' = {[packet |-> r.packet, tries |-> r.tries - 1, sent |-> TRUE] : r \in kept}
  /\ network' = network \cup {r.packet : r \in kept}
  /\ UNCHANGED <<nextSeq, acked, extra, pending, receiver, version, made, mistaken>>

\* Faulty variant: the timeout runs from when a packet is queued.
UpdateQueuedPackets ==
  /\ reliable # {}
  /\ \E timedOut \in SUBSET reliable : PassOver({r \in reliable \ timedOut : r.tries > 0})

\* One pass over reliablePackets.  A packet times out after its first transmission.  A
\* try is used up whether or not the packet is transmitted: which makes no difference
\* but for the first time, as network keeps what was transmitted.  Passes are posted
\* with every packet and transmission; here one may come whenever the list has a packet.
UpdateReliablePackets ==
  /\ reliable # {}
  /\ \E timedOut \in SUBSET {r \in reliable : r.sent} :
       PassOver({r \in reliable \ timedOut : r.tries > 0})

\* Faulty variant: an acknowledgement stands for all packets up to it.
MatchedUpTo(n) == {r \in reliable : r.packet.seq <= n}

\* HandleReliablePackets() compares numbers, whatever stream they are of.
Matched(n) == {r \in reliable : r.packet.seq = n}

\* A packet of the other end acknowledges number n of stream s.
HandleAck(s, n) ==
  LET carriers == {c \in ToSet(extra) : pending /\ c.seq = n}
  IN  /\ [stream |-> s, seq |-> n] \in acks
      /\ n > acked[s]
      /\ acked' = [acked EXCEPT ![s] = n]
      /\ reliable' = reliable \ Matched(n)
      /\ pending' = (pending /\ carriers = {})
      /\ extra' = IF carriers = {} THEN extra ELSE <<>>
      /\ mistaken' = \/ mistaken
                     \/ carriers # {} /\ \A c \in carriers : c.stream # s
                     \/ \E r \in reliable : r.packet.seq = n /\ r.packet.stream # s
      /\ UNCHANGED <<nextSeq, receiver, network, version, made>>

-----------------------------------------------------------------------------
(* The receiving end                                                       *)

\* Faulty variant: an extra is processed once in a call.
ProcessedOnce(v) == IF lastReceived = None THEN ValueOf(v) ELSE value

\* ProcessExtraData(): nothing if it is the extra that came last of its kind.
Processed(v) == IF lastReceived = ValueOf(v) THEN value ELSE ValueOf(v)

\* From now on the other end's packets acknowledge the newest packet of the stream.
ReceivePacket(k) ==
  LET seen == received[k.stream] \cup {k.seq}
  IN  /\ k.seq \notin received[k.stream]
      /\ received' = [received EXCEPT ![k.stream] = seen]
      /\ \E n \in seen : /\ \A m \in seen : m <= n
                         /\ acks' = acks \cup {[stream |-> k.stream, seq |-> n]}
      /\ IF k.version = 0 THEN UNCHANGED <<value, lastReceived, learned>>
         ELSE /\ value' = Processed(k.version)
              /\ lastReceived' = ValueOf(k.version)
              /\ learned' = k.version
      /\ newestMade' = IF k.made > newestMade THEN k.made ELSE newestMade
      /\ overtaken' = (overtaken \/ k.made < newestMade)
      /\ UNCHANGED <<sender, network, version, made, mistaken>>

Next ==
  \/ SendExtra
  \/ \E s \in Streams : SendPacket(s)
  \/ UpdateReliablePackets
  \/ \E c \in acks : HandleAck(c.stream, c.seq)
  \/ \E k \in network : ReceivePacket(k)

Spec == Init /\ [][Next]_vars

-----------------------------------------------------------------------------
(* Properties                                                              *)

Register == INSTANCE LatestValue WITH
  set <- version, known <- learned, open <- pending, disturbed <- overtaken \/ mistaken

(***************************************************************************)
(* Signaling implements the register: the other end never goes back and an *)
(* extra leaves currentExtras only when its latest value is known there,   *)
(* although it was replaced while packets with the old value were under    *)
(* way (NetworkAPI.cpp:484-501, Reliable.cpp:73-90).  Two things disturb   *)
(* it and nothing else: a packet that comes after one made later, for      *)
(* which the code has no check, and an acknowledged number that is matched *)
(* in the other stream.                                                    *)
(***************************************************************************)
KeepsTheLatestValue == Register!Spec

(***************************************************************************)
(* Deduplication by the last hash alone loses nothing: whatever was set,   *)
(* lost and repeated, the value in force is that of the packet handled     *)
(* last (Protocol.cpp:310-317).                                            *)
(***************************************************************************)
InForceIsLastHandled == learned > 0 => value = ValueOf(learned)

\* The packet's entry in reliablePackets is gone.
Left(r) == \A q \in reliable' : q.packet # r.packet

(***************************************************************************)
(* A reliable packet leaves the list only after it was transmitted, though *)
(* every pass for another packet counts its tries down as well; and it     *)
(* leaves for an acknowledgement only if the other end has it, or if its   *)
(* number was mistaken for one of the other stream (Reliable.cpp:35, :66). *)
(***************************************************************************)
LeavesForAReason ==
  [][\A r \in reliable : Left(r) =>
       /\ r.sent \/ acked' # acked
       /\ acked' = acked \/ mistaken' \/ r.packet.seq \in received[r.packet.stream]]_vars
=============================================================================
