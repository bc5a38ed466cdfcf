----------------------------- MODULE CallSetup -----------------------------
(***************************************************************************)
(* Two controllers set up a call.  Each sends an init again and again and  *)
(* answers the peer's with an init ack; both are extras, which every new   *)
(* packet carries until one that carried them is acknowledged.  Delayed    *)
(* messages to the message thread fail the call or declare it established; *)
(* then the state follows whether packets keep coming.  The network loses, *)
(* reorders and repeats packets.                                           *)
(*                                                                         *)
(* A handler of the message thread is one step.  Both peers speak the      *)
(* current protocol and have one endpoint for the other.  A call of few    *)
(* packets: no nop is sent for acknowledgement alone (that takes more than *)
(* ten), no packet is refused as old, and wasLocalAcked() is true of the   *)
(* number acknowledged and of nothing else, as the end of the mask it      *)
(* reads is still empty (AckExchange).                                     *)
(***************************************************************************)
EXTENDS Naturals, FiniteSetsExt

CONSTANTS
  Peers,      \* the two ends of the call
  Faults,     \* what may be wrong at a peer: some of FaultKinds
  MaxAudio    \* bound: audio packets a peer sends

\* Its playback or capture device or its UDP socket fails; the peer's init is incompatible.
FaultKinds == {"none", "playback", "capture", "socket", "incompatible"}

ASSUME SetupAssumption ==
  /\ \E p, q \in Peers : Peers = {p, q} /\ p # q
  /\ Faults \subseteq FaultKinds
  /\ MaxAudio \in 1 .. 10

VARIABLES
  fault,          \* per peer: what is wrong there
  call,           \* per peer: the controller's state, flags and pending messages
  nextSeq,        \* per peer and stream: the next packet number
  received,       \* per peer and stream: the peer's packets handled
  acked,          \* per peer and stream: lastAckedSeq
  currentExtras,  \* per peer: extras not yet acknowledged
  carriers,       \* per peer and extra: numbers of the packets that carried it
  reliable,       \* per peer: reliablePackets, sent again and again
  processed,      \* per peer: types in lastReceivedExtrasByType
  network         \* packets under way

exchange == <<nextSeq, received, acked, currentExtras, carriers, reliable, processed, network>>
vars     == <<fault, call, exchange>>

Other(p) == CHOOSE q \in Peers : q # p

States  == {"WAIT_INIT", "WAIT_INIT_ACK", "ESTABLISHED", "FAILED", "RECONNECTING"}
Streams == {"signaling", "audio"}
Extras  == {"init", "initAck"}

\* Signaling packets are the init and the nop that answers the peer's init.
MaxSeq == IF MaxAudio > 2 THEN MaxAudio ELSE 2
Seqs   == 1 .. MaxSeq

Packets == [from : Peers, stream : Streams, seq : Seqs, ack : {0} \cup Seqs, extras : SUBSET Extras]

Calls ==
  [thread          : {"none", "audio", "timers", "post", "posted", "sent"},  \* up to SendInit()
   receiving       : BOOLEAN,      \* the receive thread runs
   state           : States,
   receivedInit    : BOOLEAN,
   receivedInitAck : BOOLEAN,
   audioStarted    : BOOLEAN,
   receivedFirst   : BOOLEAN,      \* receivedFirstStreamPacket
   wasEstablished  : BOOLEAN,      \* the periodic timers run
   initTimeout     : {"none", "queued", "collected"},
   ifNoData        : BOOLEAN,      \* queued: established if there is no audio yet
   onFirstData     : BOOLEAN]      \* queued: established after the first audio

TypeOK ==
  /\ fault \in [Peers -> Faults]
  /\ call \in [Peers -> Calls]
  /\ nextSeq \in [Peers -> [Streams -> 1 .. MaxSeq + 1]]
  /\ received \in [Peers -> [Streams -> SUBSET Seqs]]
  /\ acked \in [Peers -> [Streams -> {0} \cup Seqs]]
  /\ currentExtras \in [Peers -> SUBSET Extras]
  /\ carriers \in [Peers -> [Extras -> SUBSET Seqs]]
  /\ reliable \in [Peers -> SUBSET Packets]
  /\ processed \in [Peers -> SUBSET Extras]
  /\ network \subseteq Packets

NewCall ==
  [thread |-> "none", receiving |-> TRUE, state |-> "WAIT_INIT", receivedInit |-> FALSE,
   receivedInitAck |-> FALSE, audioStarted |-> FALSE, receivedFirst |-> FALSE,
   wasEstablished |-> FALSE, initTimeout |-> "none", ifNoData |-> FALSE, onFirstData |-> FALSE]

\* Both controllers were started: they receive, but send nothing yet.
Init ==
  /\ fault \in [Peers -> Faults]
  /\ call = [p \in Peers |-> NewCall]
  /\ nextSeq = [p \in Peers |-> [s \in Streams |-> 1]]
  /\ received = [p \in Peers |-> [s \in Streams |-> {}]]
  /\ acked = [p \in Peers |-> [s \in Streams |-> 0]]
  /\ currentExtras = [p \in Peers |-> {}]
  /\ carriers = [p \in Peers |-> [e \in Extras |-> {}]]
  /\ reliable = [p \in Peers |-> {}]
  /\ processed = [p \in Peers |-> {}]
  /\ network = {}

\* SetState(): the periodic timers start with the first ESTABLISHED.
WithState(c, state) ==
  [c EXCEPT !.state = state, !.wasEstablished = @ \/ state = "ESTABLISHED"]

-----------------------------------------------------------------------------
(* The thread that starts a call                                           *)

Advance(p, from, to) == call[p].thread = from /\ call' = [call EXCEPT ![p].thread = to]

Connect(p) ==
  /\ Advance(p, "none", "audio")
  /\ UNCHANGED <<fault, exchange>>

\* The thread goes on even if there is no playback device.
InitializeAudio(p) ==
  /\ call[p].thread = "audio"
  /\ call' = [call EXCEPT ![p] = WithState([@ EXCEPT !.thread = "timers"],
                IF fault[p] = "playback" THEN "FAILED" ELSE @.state)]
  /\ UNCHANGED <<fault, exchange>>

InitializeTimers(p) ==
  /\ call[p].thread = "timers"
  /\ call' = [call EXCEPT ![p].thread = "post", ![p].initTimeout = "queued"]
  /\ UNCHANGED <<fault, exchange>>

PostInit(p) ==
  /\ Advance(p, "post", "posted")
  /\ UNCHANGED <<fault, exchange>>

RunSendThread(p) == InitializeAudio(p) \/ InitializeTimers(p) \/ PostInit(p)

-----------------------------------------------------------------------------
(* Sending                                                                 *)

\* Packet k is under way or lost, and lost if the peer's receive thread has ended.
Transmitted(k) ==
  \/ UNCHANGED network
  \/ call[Other(k.from)].receiving /\ network' = network \cup {k}

Newest(seqs) == IF seqs = {} THEN 0 ELSE Max(seqs)

\* Packet::prepare(): the next packet of a stream, carrying some extras.
Prepared(p, stream, seen, extras) ==
  [from |-> p, stream |-> stream, seq |-> nextSeq[p][stream], ack |-> Newest(seen), extras |-> extras]

\* The number and the extras of packet k are noted.
Noted(p, k) ==
  /\ nextSeq' = [nextSeq EXCEPT ![p][k.stream] = @ + 1]
  /\ carriers' = [carriers EXCEPT ![p] =
       [e \in Extras |-> @[e] \cup (IF e \in k.extras THEN {k.seq} ELSE {})]]

\* The init takes along what else is unacknowledged; UpdateReliablePackets() transmits it.
SendInit(p) ==
  LET extras == currentExtras[p] \cup {"init"}
      k      == Prepared(p, "signaling", received[p]["signaling"], extras)
  IN  /\ call[p].thread = "posted"
      /\ call' = [call EXCEPT ![p].thread = "sent",
                              ![p].state = IF @ = "WAIT_INIT" THEN "WAIT_INIT_ACK" ELSE @]
      /\ currentExtras' = [currentExtras EXCEPT ![p] = extras]
      /\ Noted(p, k)
      /\ reliable' = [reliable EXCEPT ![p] = @ \cup {k}]
      /\ UNCHANGED <<fault, received, acked, processed, network>>

\* A reliable packet is sent again as it was, with the extras of its first time.
Retransmit(p) ==
  /\ \E k \in reliable[p] : Transmitted(k)
  /\ UNCHANGED <<fault, call, nextSeq, received, acked, currentExtras, carriers, reliable, processed>>

\* Its timeout is the init timeout too, but starts later.
GiveUp(p) ==
  /\ reliable[p] # {} /\ call[p].initTimeout = "none"
  /\ reliable' = [reliable EXCEPT ![p] = {}]
  /\ UNCHANGED <<fault, call, nextSeq, received, acked, currentExtras, carriers, processed, network>>

\* Faulty variant: audio packets carry no extras.
SendBareFrame(p) ==
  LET k == Prepared(p, "audio", received[p]["audio"], {})
  IN  /\ call[p].audioStarted /\ call[p].receivedInitAck
      /\ fault[p] # "capture"
      /\ k.seq <= MaxAudio
      /\ Noted(p, k)
      /\ Transmitted(k)
      /\ UNCHANGED <<fault, call, received, acked, currentExtras, reliable, processed>>

SendFrame(p) ==
  LET k == Prepared(p, "audio", received[p]["audio"], currentExtras[p])
  IN  /\ call[p].audioStarted /\ call[p].receivedInitAck
      /\ fault[p] # "capture"
      /\ k.seq <= MaxAudio
      /\ Noted(p, k)
      /\ Transmitted(k)
      /\ UNCHANGED <<fault, call, received, acked, currentExtras, reliable, processed>>

-----------------------------------------------------------------------------
(* Receiving                                                               *)

\* Faulty variant: any packet shows that the call is established.
OnAnyPacket(c) == IF c.state = "ESTABLISHED" THEN c ELSE WithState(c, "ESTABLISHED")

OnPacket(c) == IF c.state = "RECONNECTING" THEN WithState(c, "ESTABLISHED") ELSE c

\* A repeated packet: nothing but the state can change.
ReceiveAgain(p, k) ==
  /\ k.seq \in received[p][k.stream]
  /\ call' = [call EXCEPT ![p] = OnPacket(@)]
  /\ network' = network \ {k}
  /\ UNCHANGED <<fault, nextSeq, received, acked, currentExtras, carriers, reliable, processed>>

\* Faulty variant: an extra is processed as often as it comes.
AnyExtra(p, k) == k.extras

\* ProcessExtraData() drops an extra it has just had (the peer has one init and one answer).
NewExtras(p, k) == k.extras \ processed[p]

\* Faulty variant: whoever has the peer's init starts.
StartsOnInit(c, e) ==
  ~c.audioStarted /\ (e = "init" \/ c.receivedInit)

\* The later of init and init ack starts audio.
StartsAudio(c, e) ==
  /\ ~c.audioStarted
  /\ \/ e = "init" /\ c.receivedInitAck
     \/ e = "initAck" /\ c.receivedInit

Started(p, c, e) ==
  IF ~StartsAudio(c, e) THEN c
  ELSE WithState([c EXCEPT !.audioStarted = TRUE], IF fault[p] = "capture" THEN "FAILED" ELSE c.state)

OnInit(p, c) ==
  IF fault[p] = "incompatible" THEN WithState(c, "FAILED")
  ELSE Started(p, [c EXCEPT !.receivedInit = TRUE], "init")

\* Faulty variant: nothing is queued to end the wait for audio.
OnInitAckForgetful(p, c) ==
  Started(p, [c EXCEPT !.receivedInitAck = TRUE,
                       !.initTimeout = IF @ = "queued" THEN "none" ELSE @], "initAck")

\* Cancel() does not reach a timeout already collected.  Whoever would refuse the init ack
\* speaks no version of the peer's, which then refused the init and sends none.
OnInitAck(p, c) ==
  Started(p, [c EXCEPT !.receivedInitAck = TRUE, !.ifNoData = TRUE,
                       !.initTimeout = IF @ = "queued" THEN "none" ELSE @], "initAck")

\* The order of the extras in a packet makes no difference.
OnExtras(p, c, extras) ==
  LET afterInit == IF "init" \in extras THEN OnInit(p, c) ELSE c
  IN  IF "initAck" \in extras THEN OnInitAck(p, afterInit) ELSE afterInit

OnAudio(c) ==
  [c EXCEPT !.receivedFirst = TRUE,
            !.onFirstData = @ \/ (~c.receivedFirst /\ c.state # "ESTABLISHED" /\ c.receivedInitAck)]

\* HandleReliablePackets(): numbers are compared whatever the stream.
Acknowledged(p, k) == {e \in currentExtras[p] : k.ack \in carriers[p][e]}

\* A new packet: its extras first, an answering nop among them, then its acknowledgement.
Receive(p, k) ==
  LET new     == NewExtras(p, k)
      answers == "init" \in new /\ fault[p] # "incompatible"
      seen    == [received[p] EXCEPT ![k.stream] = @ \cup {k.seq}]
      extras  == currentExtras[p] \cup (IF answers THEN {"initAck"} ELSE {})
      nop     == Prepared(p, "signaling", seen["signaling"], extras)
      newer   == k.ack > acked[p][k.stream]
      c       == OnExtras(p, OnPacket(call[p]), new)
  IN  /\ k.seq \notin received[p][k.stream]
      /\ received' = [received EXCEPT ![p] = seen]
      /\ processed' = [processed EXCEPT ![p] = @ \cup k.extras]
      /\ IF answers THEN Noted(p, nop) ELSE UNCHANGED <<nextSeq, carriers>>
      /\ \/ network' = network \ {k}
         \/ answers /\ call[Other(p)].receiving /\ network' = (network \ {k}) \cup {nop}
      /\ acked' = [acked EXCEPT ![p][k.stream] = IF newer THEN k.ack ELSE @]
      /\ currentExtras' = [currentExtras EXCEPT ![p] =
           extras \ (IF newer THEN Acknowledged(p, k) ELSE {})]
      /\ reliable' = [reliable EXCEPT ![p] =
           IF newer THEN {r \in @ : r.seq # k.ack} ELSE @]
      /\ call' = [call EXCEPT ![p] = IF k.stream = "audio" THEN OnAudio(c) ELSE c]
      /\ UNCHANGED fault

NetworkPacketReceived(p) ==
  \E k \in network : k.from = Other(p) /\ (ReceiveAgain(p, k) \/ Receive(p, k))

-----------------------------------------------------------------------------
(* Delayed messages, and the socket                                        *)

\* The message thread takes the timeout off its queue, behind packets of the same batch.
CollectInitTimeout(p) ==
  /\ call[p].initTimeout = "queued"
  /\ call' = [call EXCEPT ![p].initTimeout = "collected"]
  /\ UNCHANGED <<fault, exchange>>

InitTimeout(p) ==
  /\ call[p].initTimeout = "collected"
  /\ call' = [call EXCEPT ![p] = WithState([@ EXCEPT !.initTimeout = "none"], "FAILED")]
  /\ UNCHANGED <<fault, exchange>>

InitTimer(p) == CollectInitTimeout(p) \/ InitTimeout(p)

\* Faulty variant: whatever the state is by now.
EstablishAnyway(p) ==
  /\ call[p].ifNoData
  /\ call' = [call EXCEPT ![p] = WithState([@ EXCEPT !.ifNoData = FALSE], "ESTABLISHED")]
  /\ UNCHANGED <<fault, exchange>>

EstablishIfNoData(p) ==
  /\ call[p].ifNoData
  /\ call' = [call EXCEPT ![p] = WithState([@ EXCEPT !.ifNoData = FALSE],
                IF @.state = "WAIT_INIT_ACK" THEN "ESTABLISHED" ELSE @.state)]
  /\ UNCHANGED <<fault, exchange>>

EstablishOnFirstData(p) ==
  /\ call[p].onFirstData
  /\ call' = [call EXCEPT ![p] = WithState([@ EXCEPT !.onFirstData = FALSE], "ESTABLISHED")]
  /\ UNCHANGED <<fault, exchange>>

\* UpdateAudioBitrate(): how long nothing came is left open.
CheckReceiving(p) ==
  /\ call[p].wasEstablished
  /\ \/ /\ fault[p] \in {"playback", "capture"}
        /\ call' = [call EXCEPT ![p].state = "FAILED"]
     \/ /\ call[p].state = "ESTABLISHED"
        /\ call' = [call EXCEPT ![p].state = "RECONNECTING"]
     \/ /\ call[p].state \in {"ESTABLISHED", "RECONNECTING"}
        /\ call' = [call EXCEPT ![p].state = "FAILED"]
  /\ UNCHANGED <<fault, exchange>>

SocketFails(p) ==
  /\ fault[p] = "socket" /\ call[p].receiving
  /\ call' = [call EXCEPT ![p].receiving = FALSE, ![p].state = "FAILED"]
  /\ UNCHANGED <<fault, exchange>>

Next ==
  \E p \in Peers :
       \/ Connect(p) \/ RunSendThread(p)
       \/ SendInit(p) \/ Retransmit(p) \/ GiveUp(p) \/ SendFrame(p)
       \/ NetworkPacketReceived(p)
       \/ InitTimer(p)
       \/ EstablishIfNoData(p) \/ EstablishOnFirstData(p)
       \/ CheckReceiving(p) \/ SocketFails(p)

Spec == Init /\ [][Next]_vars

\* The send thread runs on, and the message thread comes to what is due (MessageThread).
Progress(p) ==
  /\ WF_vars(RunSendThread(p)) /\ WF_vars(InitTimer(p)) /\ WF_vars(EstablishIfNoData(p))

FairSpec == Spec /\ \A p \in Peers : Progress(p)

\* Of the transmissions that are repeated for ever some get through, and a packet under way
\* is received.
Delivery(p) ==
  /\ WF_vars(Connect(p)) /\ WF_vars(RunSendThread(p)) /\ WF_vars(SendInit(p))
  /\ WF_vars(NetworkPacketReceived(p))
  /\ SF_vars(Retransmit(p) /\ network' # network)

DeliverySpec == Spec /\ \A p \in Peers : Delivery(p)

-----------------------------------------------------------------------------
(* Properties                                                              *)

\* A call is established, or reconnecting, only when the peer answered our init and so has
\* it (Protocol.cpp:217, :498).
OnlyAnsweredEstablished ==
  \A p \in Peers : call[p].state \in {"ESTABLISHED", "RECONNECTING"} =>
    call[p].receivedInitAck /\ call[Other(p)].receivedInit

\* Audio starts only where the send thread has made the encoder (Audio.cpp:36, :69) and
\* after init and init ack came, in whichever order (Protocol.cpp:397, :491).
AudioNeedsSetup ==
  \A p \in Peers : call[p].audioStarted =>
    /\ call[p].thread \notin {"none", "audio"}
    /\ call[p].receivedInit /\ call[p].receivedInitAck

\* Audio finds its incoming stream: the packet or one before it brought the init ack that
\* announces the stream (Protocol.cpp:235-240, PacketStructs.cpp:117-124).
AudioFindsItsStream ==
  \A p \in Peers : call[p].receivedFirst => call[p].receivedInitAck

\* A failed call comes back only through the first audio packet (Protocol.cpp:219-223).
RevivedOnlyByFirstAudio ==
  [][\A p \in Peers : call[p].state = "FAILED" /\ call'[p].state # "FAILED" => call[p].onFirstData]_vars

\* Whoever connects stops waiting: with an answer or by the init timeout, also when the
\* answer cancels the timeout (Protocol.cpp:412, :496).
StopsWaiting ==
  \A p \in Peers :
    (call[p].thread # "none") ~> (call[p].state \notin {"WAIT_INIT", "WAIT_INIT_ACK"})

\* As long as nobody gives up, of two peers that have each other's init one gets an answer:
\* extras are sent until they are acknowledged.  VIOLATED: only new packets carry them, and
\* none may follow the lost nops (Protocol.cpp:385).
AnswerArrives ==
  (\A p \in Peers : [](call[p].state # "FAILED")) =>
    ((\A p \in Peers : call[p].receivedInit) ~> (\E p \in Peers : call[p].receivedInitAck))
=============================================================================
