-------------------------- MODULE CallSetupProofs --------------------------
(***************************************************************************)
(* What the two ends of a call may conclude about each other, for any      *)
(* faults and any number of audio packets.  The invariant follows the      *)
(* knowledge through the network: an extra that is queued, in a packet or  *)
(* in a packet kept for retransmission is there because its sender did     *)
(* what it says, and no peer takes that back.  A second invariant,         *)
(* Dialogue, follows the numbers: what a peer has handled is what it       *)
(* acknowledges, and an extra is dropped only when the peer has it.        *)
(***************************************************************************)
EXTENDS CallSetup, WellFoundedInduction, TLAPS

Shape ==
  /\ call \in [Peers -> Calls]
  /\ currentExtras = [p \in Peers |-> currentExtras[p]]
  /\ reliable = [p \in Peers |-> reliable[p]]

\* What a controller concludes from the init ack it has.
Coherent(c) ==
  /\ c.state \in {"ESTABLISHED", "RECONNECTING"} \/ c.ifNoData \/ c.onFirstData =>
       c.receivedInitAck
  /\ c.audioStarted => c.receivedInit /\ c.receivedInitAck

\* What a controller in state c has from its peer, in state d, is true of the peer.
Backed(c, d) ==
  /\ c.receivedInit => d.thread = "sent"
  /\ c.receivedInitAck => d.receivedInit

\* A controller in state c may send these extras.
Truthful(c, extras) ==
  /\ "init" \in extras => c.thread = "sent"
  /\ "initAck" \in extras => c.receivedInit

Inv ==
  /\ Shape
  /\ \A p \in Peers :
       /\ Coherent(call[p])
       /\ Backed(call[p], call[Other(p)])
       /\ Truthful(call[p], currentExtras[p])
       /\ \A k \in reliable[p] : k.from = p /\ Truthful(call[p], k.extras)
  /\ \A k \in network : k.from \in Peers /\ Truthful(call[k.from], k.extras)

\* Nothing a controller said or received is taken back.
Grows(c, d) ==
  /\ c.thread = "sent" => d.thread = "sent"
  /\ c.receivedInit => d.receivedInit

-----------------------------------------------------------------------------

\* The peers are two.
LEMMA OtherPeer ==
  ASSUME NEW p \in Peers
  PROVE  /\ Other(p) \in Peers /\ Other(p) # p
         /\ Other(Other(p)) = p
         /\ \A q \in Peers : q # p => q = Other(p)
  <1>1. PICK a, b \in Peers : Peers = {a, b} /\ a # b
    BY SetupAssumption
  <1>2. \E q \in Peers : q # p
    BY <1>1
  <1>3. Other(p) \in Peers /\ Other(p) # p
    BY <1>2 DEF Other
  <1>4. Other(Other(p)) \in Peers /\ Other(Other(p)) # Other(p)
    BY <1>3 DEF Other
  <1>5. QED
    BY <1>1, <1>3, <1>4

(***************************************************************************)
(* A step of one peer that keeps its own conclusions coherent and backed   *)
(* and sends only what is true preserves the invariant.                    *)
(***************************************************************************)
LEMMA StepOfOne ==
  ASSUME Inv, NEW p \in Peers, NEW c \in Calls, NEW E, NEW R,
         call' = [call EXCEPT ![p] = c],
         currentExtras' = [currentExtras EXCEPT ![p] = E],
         reliable' = [reliable EXCEPT ![p] = R],
         Grows(call[p], c), Coherent(c), Backed(c, call[Other(p)]),
         Truthful(c, E),
         \A k \in R : k.from = p /\ Truthful(c, k.extras),
         \A k \in network' : k \in network \/ (k.from = p /\ Truthful(c, k.extras))
  PROVE  Inv'
  <1>1. /\ call'[p] = c
        /\ \A q \in Peers : q # p => call'[q] = call[q]
        /\ \A q \in Peers : Grows(call[q], call'[q])
    BY DEF Inv, Shape, Grows
  <1>2. Shape'
    BY DEF Inv, Shape
  <1>3. ASSUME NEW q \in Peers
        PROVE  /\ Coherent(call'[q])
               /\ Backed(call'[q], call'[Other(q)])
    <2>1. CASE q = p
      BY <1>1, <2>1, OtherPeer
    <2>2. CASE q # p
      <3>1. Backed(call[q], call[Other(q)]) /\ Coherent(call[q])
        BY DEF Inv
      <3>2. Grows(call[Other(q)], call'[Other(q)])
        BY <1>1, OtherPeer
      <3>3. QED
        BY <1>1, <2>2, <3>1, <3>2 DEF Backed, Grows
    <2>3. QED
      BY <2>1, <2>2
  <1>4. ASSUME NEW q \in Peers
        PROVE  /\ Truthful(call'[q], currentExtras'[q])
               /\ \A k \in reliable'[q] : k.from = q /\ Truthful(call'[q], k.extras)
    <2>1. CASE q = p
      BY <1>1, <2>1 DEF Inv, Shape
    <2>2. CASE q # p
      BY <1>1, <2>2 DEF Inv, Shape
    <2>3. QED
      BY <2>1, <2>2
  <1>5. ASSUME NEW k \in network'
        PROVE  k.from \in Peers /\ Truthful(call'[k.from], k.extras)
    <2>1. CASE k \in network
      <3>1. k.from \in Peers /\ Truthful(call[k.from], k.extras)
        BY <2>1 DEF Inv
      <3>2. Grows(call[k.from], call'[k.from])
        BY <1>1, <3>1
      <3>3. QED
        BY <3>1, <3>2 DEF Truthful, Grows
    <2>2. CASE k.from = p /\ Truthful(c, k.extras)
      BY <1>1, <2>2
    <2>3. QED
      BY <2>1, <2>2
  <1>6. QED
    BY <1>2, <1>3, <1>4, <1>5 DEF Inv

\* A step that changes nothing but the state of a controller.
LEMMA StepInside ==
  ASSUME Inv, NEW p \in Peers, NEW c \in Calls,
         call' = [call EXCEPT ![p] = c],
         UNCHANGED <<currentExtras, reliable>>, network' \subseteq network,
         Coherent(c),
         c.receivedInit = call[p].receivedInit, c.receivedInitAck = call[p].receivedInitAck,
         call[p].thread = "sent" => c.thread = "sent"
  PROVE  Inv'
  <1>1. /\ currentExtras' = [currentExtras EXCEPT ![p] = currentExtras[p]]
        /\ reliable' = [reliable EXCEPT ![p] = reliable[p]]
    BY DEF Inv, Shape
  <1>2. Grows(call[p], c)
    BY DEF Grows
  <1>3. Backed(c, call[Other(p)])
    BY DEF Inv, Backed
  <1>4. /\ Truthful(c, currentExtras[p])
        /\ \A k \in reliable[p] : k.from = p /\ Truthful(c, k.extras)
    BY DEF Inv, Truthful
  <1>5. QED
    BY <1>1, <1>2, <1>3, <1>4, StepOfOne

-----------------------------------------------------------------------------
(* What the handlers make of a controller                                  *)

\* SetState() changes the state and nothing a conclusion rests on.
LEMMA WithStateFacts ==
  ASSUME NEW c \in Calls, NEW s \in States
  PROVE  LET d == WithState(c, s)
         IN  /\ d \in Calls
             /\ d.state = s
             /\ d.thread = c.thread /\ d.audioStarted = c.audioStarted
             /\ d.receivedInit = c.receivedInit /\ d.receivedInitAck = c.receivedInitAck
             /\ d.ifNoData = c.ifNoData /\ d.onFirstData = c.onFirstData
  BY DEF WithState, Calls, States

\* d comes from c by events that bring in what the extras say, and nothing else.
Follows(c, d, extras) ==
  /\ d \in Calls /\ Coherent(d)
  /\ d.thread = c.thread
  /\ c.receivedInit => d.receivedInit
  /\ d.receivedInit => c.receivedInit \/ "init" \in extras
  /\ d.receivedInitAck => c.receivedInitAck \/ "initAck" \in extras

\* Starting the audio comes after both extras, and takes nothing back.
LEMMA StartedFacts ==
  ASSUME NEW p \in Peers, NEW c \in Calls, Coherent(c), NEW e \in Extras,
         e = "init" => c.receivedInit, e = "initAck" => c.receivedInitAck
  PROVE  LET d == Started(p, c, e)
         IN  /\ d \in Calls /\ Coherent(d)
             /\ d.thread = c.thread
             /\ d.receivedInit = c.receivedInit /\ d.receivedInitAck = c.receivedInitAck
  <1> DEFINE started == [c EXCEPT !.audioStarted = TRUE]
             s == IF fault[p] = "capture" THEN "FAILED" ELSE c.state
  <1>1. CASE ~StartsAudio(c, e)
    BY <1>1 DEF Started
  <1>2. CASE StartsAudio(c, e)
    <2>1. /\ started \in Calls /\ s \in States
          /\ started.thread = c.thread /\ started.audioStarted
          /\ started.receivedInit = c.receivedInit /\ started.receivedInitAck = c.receivedInitAck
          /\ started.ifNoData = c.ifNoData /\ started.onFirstData = c.onFirstData
      BY DEF Calls, States
    <2>2. c.receivedInit /\ c.receivedInitAck
      BY <1>2 DEF StartsAudio
    <2>3. Started(p, c, e) = WithState(started, s)
      BY <1>2 DEF Started
    <2> HIDE DEF started, s
    <2>4. LET d == WithState(started, s)
          IN  /\ d \in Calls /\ d.thread = started.thread
              /\ d.receivedInit = started.receivedInit
              /\ d.receivedInitAck = started.receivedInitAck
      BY <2>1, WithStateFacts
    <2>5. Coherent(Started(p, c, e))
      BY <2>1, <2>2, <2>3, <2>4 DEF Coherent
    <2>6. QED
      BY <2>1, <2>3, <2>4, <2>5
  <1>3. QED
    BY <1>1, <1>2

\* What the peer's init tells a controller; an incompatible one is not received.
LEMMA OnInitFacts ==
  ASSUME NEW p \in Peers, NEW c \in Calls, Coherent(c)
  PROVE  /\ Follows(c, OnInit(p, c), {"init"})
         /\ fault[p] # "incompatible" => OnInit(p, c).receivedInit
  <1> DEFINE d == [c EXCEPT !.receivedInit = TRUE]
  <1>1. CASE fault[p] = "incompatible"
    <2>1. OnInit(p, c) = WithState(c, "FAILED")
      BY <1>1 DEF OnInit
    <2>2. "FAILED" \in States
      BY DEF States
    <2>3. QED
      BY <1>1, <2>1, <2>2, WithStateFacts DEF Follows, Coherent
  <1>2. CASE fault[p] # "incompatible"
    <2>1. d \in Calls /\ Coherent(d)
      BY DEF Calls, Coherent
    <2>2. d.receivedInit /\ d.thread = c.thread /\ d.receivedInitAck = c.receivedInitAck
      BY DEF Calls
    <2>3. OnInit(p, c) = Started(p, d, "init")
      BY <1>2 DEF OnInit
    <2> HIDE DEF d
    <2>4. QED
      BY <2>1, <2>2, <2>3, StartedFacts DEF Follows, Extras
  <1>3. QED
    BY <1>1, <1>2

\* What the peer's init ack tells a controller.
LEMMA OnInitAckFacts ==
  ASSUME NEW p \in Peers, NEW c \in Calls, Coherent(c)
  PROVE  Follows(c, OnInitAck(p, c), {"initAck"})
  <1> DEFINE d == [c EXCEPT !.receivedInitAck = TRUE, !.ifNoData = TRUE,
                            !.initTimeout = IF @ = "queued" THEN "none" ELSE @]
  <1>1. d \in Calls
    BY DEF Calls
  <1>2. /\ d.receivedInitAck /\ d.thread = c.thread /\ d.receivedInit = c.receivedInit
        /\ d.audioStarted = c.audioStarted
    BY DEF Calls
  <1>3. Coherent(d)
    BY <1>2 DEF Coherent
  <1>4. OnInitAck(p, c) = Started(p, d, "initAck")
    BY DEF OnInitAck
  <1> HIDE DEF d
  <1>5. QED
    BY <1>1, <1>2, <1>3, <1>4, StartedFacts DEF Follows, Extras

\* What the extras of one packet tell a controller.
LEMMA OnExtrasFacts ==
  ASSUME NEW p \in Peers, NEW c \in Calls, Coherent(c), NEW extras
  PROVE  /\ Follows(c, OnExtras(p, c, extras), extras)
         /\ "init" \in extras /\ fault[p] # "incompatible" =>
              OnExtras(p, c, extras).receivedInit
  <1> DEFINE afterInit == IF "init" \in extras THEN OnInit(p, c) ELSE c
             d == OnExtras(p, c, extras)
  <1>1. /\ Follows(c, afterInit, extras)
        /\ "init" \in extras /\ fault[p] # "incompatible" => afterInit.receivedInit
    BY OnInitFacts DEF Follows
  <1>2. d = IF "initAck" \in extras THEN OnInitAck(p, afterInit) ELSE afterInit
    BY DEF OnExtras
  <1>3. "initAck" \in extras => Follows(afterInit, d, {"initAck"})
    BY <1>1, <1>2, OnInitAckFacts DEF Follows
  <1> HIDE DEF afterInit, d
  <1>4. Follows(c, d, extras) /\ (afterInit.receivedInit => d.receivedInit)
    BY <1>1, <1>2, <1>3 DEF Follows
  <1>5. QED
    BY <1>1, <1>4 DEF d

\* A packet by itself tells nothing of init and init ack.
LEMMA OnPacketFacts ==
  ASSUME NEW c \in Calls, Coherent(c)
  PROVE  /\ Follows(c, OnPacket(c), {})
         /\ OnPacket(c).receivedInit = c.receivedInit
         /\ OnPacket(c).receivedInitAck = c.receivedInitAck
  <1>1. CASE c.state = "RECONNECTING"
    <2>1. OnPacket(c) = WithState(c, "ESTABLISHED") /\ "ESTABLISHED" \in States
      BY <1>1 DEF OnPacket, States
    <2>2. QED
      BY <1>1, <2>1, WithStateFacts DEF Follows, Coherent
  <1>2. CASE c.state # "RECONNECTING"
    BY <1>2 DEF OnPacket, Follows
  <1>3. QED
    BY <1>1, <1>2

\* Audio by itself tells nothing of the peer's init.
LEMMA OnAudioFacts ==
  ASSUME NEW c \in Calls, Coherent(c)
  PROVE  /\ Follows(c, OnAudio(c), {})
         /\ OnAudio(c).receivedInit = c.receivedInit
  <1>1. OnAudio(c) \in Calls
    BY DEF OnAudio, Calls
  <1>2. /\ OnAudio(c).thread = c.thread /\ OnAudio(c).state = c.state
        /\ OnAudio(c).receivedInit = c.receivedInit
        /\ OnAudio(c).receivedInitAck = c.receivedInitAck
        /\ OnAudio(c).audioStarted = c.audioStarted /\ OnAudio(c).ifNoData = c.ifNoData
        /\ OnAudio(c).onFirstData => c.onFirstData \/ c.receivedInitAck
    BY DEF OnAudio, Calls
  <1>3. QED
    BY <1>1, <1>2 DEF Follows, Coherent

-----------------------------------------------------------------------------
(* The steps                                                               *)

\* A new packet brings in what its sender did, and the answer says that its init came.
LEMMA ReceiveStep ==
  ASSUME Inv, NEW p \in Peers, NEW k \in network, k.from = Other(p), Receive(p, k)
  PROVE  Inv'
  <1> DEFINE new     == NewExtras(p, k)
             answers == "init" \in new /\ fault[p] # "incompatible"
             extras  == currentExtras[p] \cup (IF answers THEN {"initAck"} ELSE {})
             seen    == [received[p] EXCEPT ![k.stream] = @ \cup {k.seq}]
             nop     == Prepared(p, "signaling", seen["signaling"], extras)
             newer   == k.ack > acked[p][k.stream]
             a       == OnPacket(call[p])
             b       == OnExtras(p, a, new)
             d       == IF k.stream = "audio" THEN OnAudio(b) ELSE b
             E       == extras \ (IF newer THEN Acknowledged(p, k) ELSE {})
             R       == IF newer THEN {r \in reliable[p] : r.seq # k.ack} ELSE reliable[p]
  <1>1. /\ call[p] \in Calls /\ Coherent(call[p])
        /\ Backed(call[p], call[Other(p)])
        /\ Truthful(call[p], currentExtras[p])
        /\ \A r \in reliable[p] : r.from = p /\ Truthful(call[p], r.extras)
        /\ Truthful(call[Other(p)], k.extras)
    BY DEF Inv, Shape
  <1>2. /\ call' = [call EXCEPT ![p] = d]
        /\ currentExtras' = [currentExtras EXCEPT ![p] = E]
        /\ reliable' = [reliable EXCEPT ![p] = R]
    BY DEF Receive
  <1>3. network' = network \ {k} \/ (answers /\ network' = (network \ {k}) \cup {nop})
    BY DEF Receive
  <1>4. Follows(call[p], a, {})
    BY <1>1, OnPacketFacts
  <1>5. Follows(a, b, new) /\ (answers => b.receivedInit)
    BY <1>4, OnExtrasFacts DEF Follows
  <1>6. Follows(b, d, {}) /\ (b.receivedInit => d.receivedInit)
    BY <1>5, OnAudioFacts DEF Follows
  <1>7. nop.from = p /\ nop.extras = extras
    BY DEF Prepared
  <1>8. new \subseteq k.extras
    BY DEF NewExtras
  <1> HIDE DEF new, seen, nop, newer, a, b, d
  <1>9. /\ d \in Calls /\ Coherent(d)
        /\ d.thread = call[p].thread
        /\ call[p].receivedInit => d.receivedInit
        /\ d.receivedInit => call[p].receivedInit \/ "init" \in k.extras
        /\ d.receivedInitAck => call[p].receivedInitAck \/ "initAck" \in k.extras
        /\ answers => d.receivedInit
    BY <1>4, <1>5, <1>6, <1>8 DEF Follows
  <1>10. Grows(call[p], d)
    BY <1>9 DEF Grows
  <1>11. Backed(d, call[Other(p)])
    BY <1>1, <1>9 DEF Backed, Truthful
  <1>12. Truthful(d, extras)
    BY <1>1, <1>9 DEF Truthful
  <1>13. Truthful(d, E)
    BY <1>12 DEF Truthful
  <1>14. \A r \in R : r.from = p /\ Truthful(d, r.extras)
    BY <1>1, <1>9 DEF Truthful
  <1>15. \A r \in network' : r \in network \/ (r.from = p /\ Truthful(d, r.extras))
    BY <1>3, <1>7, <1>12
  <1> HIDE DEF E, R
  <1>16. QED
    BY <1>2, <1>9, <1>10, <1>11, <1>13, <1>14, <1>15, StepOfOne

\* A repeated packet brings the extras it had.
LEMMA ReceiveAgainStep ==
  ASSUME Inv, NEW p \in Peers, NEW k \in network, ReceiveAgain(p, k)
  PROVE  Inv'
  <1> DEFINE d == OnPacket(call[p])
  <1>1. call[p] \in Calls /\ Coherent(call[p])
    BY DEF Inv, Shape
  <1>2. Follows(call[p], d, {}) /\ d.receivedInit = call[p].receivedInit
        /\ d.receivedInitAck = call[p].receivedInitAck
    BY <1>1, OnPacketFacts
  <1>3. /\ call' = [call EXCEPT ![p] = d]
        /\ UNCHANGED <<currentExtras, reliable>> /\ network' \subseteq network
    BY DEF ReceiveAgain
  <1> HIDE DEF d
  <1>4. QED
    BY <1>2, <1>3, StepInside DEF Follows

\* The init is sent by whom the peer may then take to have sent it.
LEMMA SendInitStep ==
  ASSUME Inv, NEW p \in Peers, SendInit(p)
  PROVE  Inv'
  <1> DEFINE E == currentExtras[p] \cup {"init"}
             k == Prepared(p, "signaling", received[p]["signaling"], E)
             R == reliable[p] \cup {k}
             c == [call[p] EXCEPT !.thread = "sent",
                     !.state = IF @ = "WAIT_INIT" THEN "WAIT_INIT_ACK" ELSE @]
  <1>1. /\ call[p] \in Calls /\ Coherent(call[p])
        /\ Backed(call[p], call[Other(p)])
        /\ Truthful(call[p], currentExtras[p])
        /\ \A r \in reliable[p] : r.from = p /\ Truthful(call[p], r.extras)
    BY DEF Inv, Shape
  <1>2. /\ call' = [call EXCEPT ![p] = c]
        /\ currentExtras' = [currentExtras EXCEPT ![p] = E]
        /\ reliable' = [reliable EXCEPT ![p] = R]
        /\ network' = network
    BY DEF SendInit
  <1>3. k.from = p /\ k.extras = E
    BY DEF Prepared
  <1>4. c \in Calls /\ c.thread = "sent"
    BY <1>1 DEF Calls, States
  <1>5. /\ c.receivedInit = call[p].receivedInit /\ c.receivedInitAck = call[p].receivedInitAck
        /\ c.audioStarted = call[p].audioStarted
        /\ c.ifNoData = call[p].ifNoData /\ c.onFirstData = call[p].onFirstData
        /\ c.state \in {"ESTABLISHED", "RECONNECTING"} => c.state = call[p].state
    BY <1>1 DEF Calls
  <1> HIDE DEF c, k
  <1>6. Coherent(c) /\ Grows(call[p], c) /\ Backed(c, call[Other(p)])
    BY <1>1, <1>4, <1>5 DEF Coherent, Grows, Backed
  <1>7. Truthful(c, E) /\ \A r \in R : r.from = p /\ Truthful(c, r.extras)
    BY <1>1, <1>3, <1>4, <1>5 DEF Truthful
  <1> HIDE DEF E, R
  <1>8. QED
    BY <1>2, <1>4, <1>6, <1>7, StepOfOne

\* A packet that is sent, for the first time or again, says what its sender may say.
LEMMA TransmitStep ==
  ASSUME Inv, NEW p \in Peers, NEW k,
         UNCHANGED <<call, currentExtras, reliable>>, Transmitted(k),
         k.from = p, Truthful(call[p], k.extras)
  PROVE  Inv'
  <1>1. network' \subseteq network \cup {k}
    BY DEF Transmitted
  <1>2. QED
    BY <1>1 DEF Inv, Shape

\* An audio packet carries extras that are queued.
LEMMA SendFrameStep ==
  ASSUME Inv, NEW p \in Peers, SendFrame(p)
  PROVE  Inv'
  <1> DEFINE k == Prepared(p, "audio", received[p]["audio"], currentExtras[p])
  <1>1. Transmitted(k) /\ UNCHANGED <<call, currentExtras, reliable>>
    BY DEF SendFrame
  <1>2. k.from = p /\ k.extras = currentExtras[p]
    BY DEF Prepared
  <1> HIDE DEF k
  <1>3. Truthful(call[p], k.extras)
    BY <1>2 DEF Inv
  <1>4. QED
    BY <1>1, <1>2, <1>3, TransmitStep

\* What is transmitted again is what was kept.
LEMMA RetransmitStep ==
  ASSUME Inv, NEW p \in Peers, Retransmit(p)
  PROVE  Inv'
  <1>1. PICK k \in reliable[p] : Transmitted(k)
    BY DEF Retransmit
  <1>2. k.from = p /\ Truthful(call[p], k.extras)
    BY DEF Inv
  <1>3. UNCHANGED <<call, currentExtras, reliable>>
    BY DEF Retransmit
  <1>4. QED
    BY <1>1, <1>2, <1>3, TransmitStep

\* A reliable packet given up leaves fewer to account for.
LEMMA GiveUpStep ==
  ASSUME Inv, NEW p \in Peers, GiveUp(p)
  PROVE  Inv'
  BY DEF GiveUp, Inv, Shape

\* The thread that starts the call: audio that fails to start and timers.
LEMMA StartStep ==
  ASSUME Inv, NEW p \in Peers, Connect(p) \/ RunSendThread(p)
  PROVE  Inv'
  <1>1. call[p] \in Calls /\ Coherent(call[p])
    BY DEF Inv, Shape
  <1>2. UNCHANGED <<currentExtras, reliable, network>>
    BY DEF Connect, RunSendThread, InitializeAudio, InitializeTimers, PostInit, exchange
  <1>3. ASSUME NEW from, NEW to \in {"audio", "posted"}, from # "sent", Advance(p, from, to)
        PROVE  Inv'
    <2> DEFINE c == [call[p] EXCEPT !.thread = to]
    <2>1. call' = [call EXCEPT ![p] = c] /\ call[p].thread # "sent"
      BY <1>3 DEF Advance
    <2>2. c \in Calls /\ Coherent(c)
      BY <1>1, <1>3 DEF Calls, Coherent
    <2>3. c.receivedInit = call[p].receivedInit /\ c.receivedInitAck = call[p].receivedInitAck
      BY <1>1 DEF Calls
    <2> HIDE DEF c
    <2>4. QED
      BY <1>2, <2>1, <2>2, <2>3, StepInside
  <1>4. CASE InitializeAudio(p)
    <2> DEFINE b == [call[p] EXCEPT !.thread = "timers"]
               s == IF fault[p] = "playback" THEN "FAILED" ELSE call[p].state
    <2>1. call' = [call EXCEPT ![p] = WithState(b, s)] /\ call[p].thread # "sent"
      BY <1>4 DEF InitializeAudio
    <2>2. /\ b \in Calls /\ s \in States /\ Coherent(b)
          /\ s \in {"ESTABLISHED", "RECONNECTING"} => s = b.state
          /\ b.receivedInit = call[p].receivedInit
          /\ b.receivedInitAck = call[p].receivedInitAck
      BY <1>1 DEF Calls, States, Coherent
    <2> HIDE DEF b, s
    <2>3. /\ WithState(b, s) \in Calls /\ Coherent(WithState(b, s))
          /\ WithState(b, s).receivedInit = call[p].receivedInit
          /\ WithState(b, s).receivedInitAck = call[p].receivedInitAck
      BY <2>2, WithStateFacts DEF Coherent
    <2>4. QED
      BY <1>2, <2>1, <2>3, StepInside
  <1>5. CASE InitializeTimers(p)
    <2> DEFINE c == [call[p] EXCEPT !.thread = "post", !.initTimeout = "queued"]
    <2>1. call' = [call EXCEPT ![p] = c] /\ call[p].thread # "sent"
      BY <1>5 DEF InitializeTimers
    <2>2. c \in Calls /\ Coherent(c)
      BY <1>1 DEF Calls, Coherent
    <2>3. c.receivedInit = call[p].receivedInit /\ c.receivedInitAck = call[p].receivedInitAck
      BY <1>1 DEF Calls
    <2> HIDE DEF c
    <2>4. QED
      BY <1>2, <2>1, <2>2, <2>3, StepInside
  <1>6. QED
    BY <1>3, <1>4, <1>5 DEF Connect, RunSendThread, PostInit

\* Delayed messages, the check for silence and the socket change no more than the state;
\* those that declare the call established are queued only with the init ack.
LEMMA StateStep ==
  ASSUME Inv, NEW p \in Peers, NEW b \in Calls, NEW s \in States,
         UNCHANGED exchange,
         call' = [call EXCEPT ![p] = b] \/ call' = [call EXCEPT ![p] = WithState(b, s)],
         Coherent(b),
         s \in {"ESTABLISHED", "RECONNECTING"} => b.receivedInitAck,
         b.thread = call[p].thread,
         b.receivedInit = call[p].receivedInit, b.receivedInitAck = call[p].receivedInitAck
  PROVE  Inv'
  <1>1. UNCHANGED <<currentExtras, reliable>> /\ network' \subseteq network
    BY DEF exchange
  <1>2. CASE call' = [call EXCEPT ![p] = b]
    BY <1>1, <1>2, StepInside
  <1>3. CASE call' = [call EXCEPT ![p] = WithState(b, s)]
    <2>1. /\ WithState(b, s) \in Calls /\ Coherent(WithState(b, s))
          /\ WithState(b, s).thread = b.thread
          /\ WithState(b, s).receivedInit = b.receivedInit
          /\ WithState(b, s).receivedInitAck = b.receivedInitAck
      BY WithStateFacts DEF Coherent
    <2>2. QED
      BY <1>1, <1>3, <2>1, StepInside
  <1>4. QED
    BY <1>2, <1>3

\* A delayed message that establishes the call was posted with the init ack.
LEMMA DelayedStep ==
  ASSUME Inv, NEW p \in Peers,
         InitTimer(p) \/ EstablishIfNoData(p) \/ EstablishOnFirstData(p)
  PROVE  Inv'
  <1>1. call[p] \in Calls /\ Coherent(call[p])
    BY DEF Inv, Shape
  <1>2. UNCHANGED exchange
    BY DEF InitTimer, CollectInitTimeout, InitTimeout, EstablishIfNoData, EstablishOnFirstData
  <1>3. CASE CollectInitTimeout(p)
    <2> DEFINE b == [call[p] EXCEPT !.initTimeout = "collected"]
    <2>1. call' = [call EXCEPT ![p] = b]
      BY <1>3 DEF CollectInitTimeout
    <2>2. /\ b \in Calls /\ Coherent(b) /\ b.thread = call[p].thread
          /\ b.receivedInit = call[p].receivedInit
          /\ b.receivedInitAck = call[p].receivedInitAck
      BY <1>1 DEF Calls, Coherent
    <2>3. "FAILED" \in States
      BY DEF States
    <2> HIDE DEF b
    <2>4. QED
      BY <1>2, <2>1, <2>2, <2>3, StateStep
  <1>4. CASE InitTimeout(p)
    <2> DEFINE b == [call[p] EXCEPT !.initTimeout = "none"]
    <2>1. call' = [call EXCEPT ![p] = WithState(b, "FAILED")]
      BY <1>4 DEF InitTimeout
    <2>2. /\ b \in Calls /\ Coherent(b) /\ b.thread = call[p].thread
          /\ b.receivedInit = call[p].receivedInit
          /\ b.receivedInitAck = call[p].receivedInitAck
      BY <1>1 DEF Calls, Coherent
    <2>3. "FAILED" \in States
      BY DEF States
    <2> HIDE DEF b
    <2>4. QED
      BY <1>2, <2>1, <2>2, <2>3, StateStep
  <1>5. CASE EstablishIfNoData(p)
    <2> DEFINE b == [call[p] EXCEPT !.ifNoData = FALSE]
               s == IF call[p].state = "WAIT_INIT_ACK" THEN "ESTABLISHED" ELSE call[p].state
    <2>1. call' = [call EXCEPT ![p] = WithState(b, s)] /\ call[p].ifNoData
      BY <1>5 DEF EstablishIfNoData
    <2>2. call[p].receivedInitAck
      BY <1>1, <2>1 DEF Coherent
    <2>3. /\ b \in Calls /\ Coherent(b) /\ b.thread = call[p].thread
          /\ b.receivedInit = call[p].receivedInit
          /\ b.receivedInitAck = call[p].receivedInitAck
          /\ s \in States
      BY <1>1, <2>2 DEF Calls, Coherent, States
    <2> HIDE DEF b, s
    <2>4. QED
      BY <1>2, <2>1, <2>2, <2>3, StateStep
  <1>6. CASE EstablishOnFirstData(p)
    <2> DEFINE b == [call[p] EXCEPT !.onFirstData = FALSE]
    <2>1. call' = [call EXCEPT ![p] = WithState(b, "ESTABLISHED")] /\ call[p].onFirstData
      BY <1>6 DEF EstablishOnFirstData
    <2>2. call[p].receivedInitAck
      BY <1>1, <2>1 DEF Coherent
    <2>3. /\ b \in Calls /\ Coherent(b) /\ b.thread = call[p].thread
          /\ b.receivedInit = call[p].receivedInit
          /\ b.receivedInitAck = call[p].receivedInitAck
          /\ "ESTABLISHED" \in States
      BY <1>1, <2>2 DEF Calls, Coherent, States
    <2> HIDE DEF b
    <2>4. QED
      BY <1>2, <2>1, <2>2, <2>3, StateStep
  <1>7. QED
    BY <1>3, <1>4, <1>5, <1>6 DEF InitTimer

\* The loss of the connection and the end of the socket conclude nothing.
LEMMA CheckStep ==
  ASSUME Inv, NEW p \in Peers, CheckReceiving(p) \/ SocketFails(p)
  PROVE  Inv'
  <1>1. call[p] \in Calls /\ Coherent(call[p])
    BY DEF Inv, Shape
  <1>2. UNCHANGED exchange
    BY DEF CheckReceiving, SocketFails
  <1>3. ASSUME NEW s \in {"FAILED", "RECONNECTING"}, NEW b,
               s = "RECONNECTING" => call[p].state = "ESTABLISHED",
               \/ b = [call[p] EXCEPT !.state = s]
               \/ b = [call[p] EXCEPT !.receiving = FALSE, !.state = s],
               call' = [call EXCEPT ![p] = b]
        PROVE  Inv'
    <2>1. /\ b \in Calls /\ b.thread = call[p].thread
          /\ b.receivedInit = call[p].receivedInit
          /\ b.receivedInitAck = call[p].receivedInitAck
          /\ b.audioStarted = call[p].audioStarted
          /\ b.ifNoData = call[p].ifNoData /\ b.onFirstData = call[p].onFirstData
          /\ b.state = s
      BY <1>1, <1>3 DEF Calls, States
    <2>2. Coherent(b)
      BY <1>1, <1>3, <2>1 DEF Coherent
    <2>3. "FAILED" \in States
      BY DEF States
    <2>4. QED
      BY <1>2, <1>3, <2>1, <2>2, <2>3, StateStep
  <1>4. CASE CheckReceiving(p)
    <2>1. PICK s \in {"FAILED", "RECONNECTING"} :
            /\ call' = [call EXCEPT ![p] = [call[p] EXCEPT !.state = s]]
            /\ s = "RECONNECTING" => call[p].state = "ESTABLISHED"
      BY <1>4 DEF CheckReceiving
    <2> DEFINE b == [call[p] EXCEPT !.state = s]
    <2>2. b = [call[p] EXCEPT !.state = s] /\ call' = [call EXCEPT ![p] = b]
      BY <2>1
    <2> HIDE DEF b
    <2>3. QED
      BY <1>3, <2>1, <2>2
  <1>5. CASE SocketFails(p)
    <2> DEFINE b == [call[p] EXCEPT !.receiving = FALSE, !.state = "FAILED"]
    <2>1. /\ b = [call[p] EXCEPT !.receiving = FALSE, !.state = "FAILED"]
          /\ call' = [call EXCEPT ![p] = b]
      BY <1>5 DEF SocketFails
    <2> HIDE DEF b
    <2>2. QED
      BY <1>3, <2>1
  <1>6. QED
    BY <1>4, <1>5

-----------------------------------------------------------------------------
(* Theorems                                                                *)

\* The inductive invariant: what a controller has concluded is true of its peer.
THEOREM Invariance == Spec => []Inv
  <1>1. Init => Inv
    BY SetupAssumption DEF Init, Inv, Shape, NewCall, Calls, States, Coherent, Backed, Truthful
  <1>2. ASSUME Inv, [Next]_vars
        PROVE  Inv'
    <2>1. CASE UNCHANGED vars
      BY <1>2, <2>1 DEF vars, exchange, Inv, Shape
    <2>2. ASSUME NEW p \in Peers, NetworkPacketReceived(p)
          PROVE  Inv'
      BY <1>2, <2>2, ReceiveStep, ReceiveAgainStep DEF NetworkPacketReceived
    <2>3. CASE Next
      BY <1>2, <2>2, <2>3, StartStep, SendInitStep, RetransmitStep, GiveUpStep, SendFrameStep,
         DelayedStep, CheckStep DEF Next
    <2>4. QED
      BY <1>2, <2>1, <2>3
  <1>3. QED
    BY <1>1, <1>2, PTL DEF Spec

\* A call is established, or reconnecting, only when the peer has our init.
THEOREM EstablishedIsAnswered == Spec => []OnlyAnsweredEstablished
  <1>1. Inv => OnlyAnsweredEstablished
    BY DEF Inv, Coherent, Backed, OnlyAnsweredEstablished
  <1>2. QED
    BY <1>1, Invariance, PTL

\* Audio starts after the encoder was made: the init ack tells that the peer has our init,
\* which the send thread sent after it made the encoder.
THEOREM AudioFindsEncoder == Spec => []AudioNeedsSetup
  <1>1. ASSUME Inv
        PROVE  AudioNeedsSetup
    <2>1. ASSUME NEW p \in Peers, call[p].audioStarted
          PROVE  call[p].thread = "sent" /\ call[p].receivedInit /\ call[p].receivedInitAck
      <3>1. call[p].receivedInit /\ call[p].receivedInitAck
        BY <1>1, <2>1 DEF Inv, Coherent
      <3>2. call[Other(p)].receivedInit
        BY <1>1, <3>1 DEF Inv, Backed
      <3>3. call[Other(Other(p))].thread = "sent"
        BY <1>1, <3>2, OtherPeer DEF Inv, Backed
      <3>4. QED
        BY <3>1, <3>3, OtherPeer
    <2>2. QED
      BY <2>1 DEF AudioNeedsSetup
  <1>2. QED
    BY <1>1, Invariance, PTL

-----------------------------------------------------------------------------
(* Failed calls                                                            *)

Failed(c) == c \in Calls /\ c.state = "FAILED"

\* Whatever a packet brings, a failed controller is failed after it.
LEMMA FailedAfterPacket ==
  ASSUME NEW p \in Peers, NEW c, Failed(c), NEW extras
  PROVE  /\ Failed(OnExtras(p, OnPacket(c), extras))
         /\ Failed(OnAudio(OnExtras(p, OnPacket(c), extras)))
  <1>1. ASSUME NEW a, Failed(a), NEW e
        PROVE  Failed(Started(p, a, e))
    <2> DEFINE b == [a EXCEPT !.audioStarted = TRUE]
    <2>1. b \in Calls /\ b.state = "FAILED"
      BY <1>1 DEF Failed, Calls
    <2>2. \/ Started(p, a, e) = a
          \/ Started(p, a, e) = WithState(b, "FAILED")
      BY <1>1 DEF Started, Failed
    <2>3. "FAILED" \in States
      BY DEF States
    <2> HIDE DEF b
    <2>4. QED
      BY <1>1, <2>1, <2>2, <2>3, WithStateFacts DEF Failed
  <1>2. ASSUME NEW a, Failed(a)
        PROVE  Failed(OnInit(p, a))
    <2> DEFINE b == [a EXCEPT !.receivedInit = TRUE]
    <2>1. Failed(b)
      BY <1>2 DEF Failed, Calls
    <2>2. OnInit(p, a) = WithState(a, "FAILED") \/ OnInit(p, a) = Started(p, b, "init")
      BY DEF OnInit
    <2>3. "FAILED" \in States
      BY DEF States
    <2> HIDE DEF b
    <2>4. QED
      BY <1>1, <1>2, <2>1, <2>2, <2>3, WithStateFacts DEF Failed
  <1>3. ASSUME NEW a, Failed(a)
        PROVE  Failed(OnInitAck(p, a))
    <2> DEFINE b == [a EXCEPT !.receivedInitAck = TRUE, !.ifNoData = TRUE,
                              !.initTimeout = IF @ = "queued" THEN "none" ELSE @]
    <2>1. Failed(b)
      BY <1>3 DEF Failed, Calls
    <2>2. OnInitAck(p, a) = Started(p, b, "initAck")
      BY DEF OnInitAck
    <2> HIDE DEF b
    <2>3. QED
      BY <1>1, <2>1, <2>2
  <1>4. Failed(OnPacket(c))
    BY DEF OnPacket, Failed
  <1>5. Failed(OnExtras(p, OnPacket(c), extras))
    BY <1>2, <1>3, <1>4 DEF OnExtras
  <1>6. ASSUME NEW a, Failed(a)
        PROVE  Failed(OnAudio(a))
    <2>1. OnAudio(a).state = a.state
      BY <1>6 DEF OnAudio, Failed, Calls
    <2>2. a \in Calls /\ a.onFirstData \in BOOLEAN
      BY <1>6 DEF Failed, Calls
    <2> DEFINE first == a.onFirstData
                          \/ (~a.receivedFirst /\ a.state # "ESTABLISHED" /\ a.receivedInitAck)
    <2>3. OnAudio(a) = [a EXCEPT !.receivedFirst = TRUE, !.onFirstData = first]
      BY DEF OnAudio
    <2>4. first \in BOOLEAN
      BY <2>2
    <2> HIDE DEF first
    <2>5. OnAudio(a) \in Calls
      BY <2>2, <2>3, <2>4 DEF Calls
    <2> QED
      BY <1>6, <2>1, <2>5 DEF Failed
  <1>7. QED
    BY <1>5, <1>6

\* A failed call comes back only through the delayed message of its first audio packet.
THEOREM NoOtherRevival == Spec => RevivedOnlyByFirstAudio
  <1> DEFINE Step == \A p \in Peers :
               call[p].state = "FAILED" /\ call'[p].state # "FAILED" => call[p].onFirstData
  <1>1. ASSUME Inv, [Next]_vars
        PROVE  Step
    <2> SUFFICES ASSUME NEW q \in Peers, Failed(call[q]), ~call[q].onFirstData
                 PROVE  call'[q].state = "FAILED"
      BY <1>1 DEF Inv, Shape, Failed
    <2>1. call \in [Peers -> Calls]
      BY <1>1 DEF Inv, Shape
    <2>2. ASSUME NEW p \in Peers, NEW k \in network, Receive(p, k)
          PROVE  call'[q].state = "FAILED"
      <3>1. /\ call' = [call EXCEPT ![p] = call'[p]]
            /\ \/ call'[p] = OnExtras(p, OnPacket(call[p]), NewExtras(p, k))
               \/ call'[p] = OnAudio(OnExtras(p, OnPacket(call[p]), NewExtras(p, k)))
        BY <2>1, <2>2 DEF Receive
      <3>2. QED
        BY <2>1, <3>1, FailedAfterPacket DEF Failed
    <2>3. ASSUME NEW p \in Peers, NEW k \in network, ReceiveAgain(p, k)
          PROVE  call'[q].state = "FAILED"
      BY <2>1, <2>3 DEF ReceiveAgain, OnPacket, Failed
    <2>4. ASSUME NEW p \in Peers, Connect(p) \/ RunSendThread(p)
          PROVE  call'[q].state = "FAILED"
      <3>1. CASE Connect(p) \/ PostInit(p) \/ InitializeTimers(p)
        BY <2>1, <3>1 DEF Connect, PostInit, InitializeTimers, Advance, Failed, Calls
      <3>2. CASE InitializeAudio(p)
        BY <2>1, <3>2 DEF InitializeAudio, WithState, Failed, Calls
      <3>3. QED
        BY <2>4, <3>1, <3>2 DEF RunSendThread
    <2>5. ASSUME NEW p \in Peers, SendInit(p) \/ Retransmit(p) \/ GiveUp(p) \/ SendFrame(p)
          PROVE  call'[q].state = "FAILED"
      BY <2>1, <2>5 DEF SendInit, Retransmit, GiveUp, SendFrame, Failed, Calls
    <2>6. ASSUME NEW p \in Peers, InitTimer(p) \/ EstablishIfNoData(p)
          PROVE  call'[q].state = "FAILED"
      <3>1. CASE CollectInitTimeout(p)
        BY <2>1, <3>1 DEF CollectInitTimeout, Failed, Calls
      <3>2. CASE InitTimeout(p)
        BY <2>1, <3>2 DEF InitTimeout, WithState, Failed, Calls
      <3>3. CASE EstablishIfNoData(p)
        BY <2>1, <3>3 DEF EstablishIfNoData, WithState, Failed, Calls
      <3>4. QED
        BY <2>6, <3>1, <3>2, <3>3 DEF InitTimer
    <2>7. ASSUME NEW p \in Peers, EstablishOnFirstData(p)
          PROVE  call'[q].state = "FAILED"
      BY <2>1, <2>7 DEF EstablishOnFirstData, Failed
    <2>8. ASSUME NEW p \in Peers, CheckReceiving(p) \/ SocketFails(p)
          PROVE  call'[q].state = "FAILED"
      BY <2>1, <2>8 DEF CheckReceiving, SocketFails, Failed, Calls
    <2>9. QED
      BY <1>1, <2>2, <2>3, <2>4, <2>5, <2>6, <2>7, <2>8
         DEF Next, NetworkPacketReceived, vars, Failed
  <1>2. Inv /\ [Next]_vars => [Step]_vars
    BY <1>1
  <1>3. QED
    BY <1>2, Invariance, PTL DEF Spec, RevivedOnlyByFirstAudio

-----------------------------------------------------------------------------
(* Numbers, acknowledgements and the answer                                *)

\* The signaling packets a controller has sent are its init and its answer.
Signaled(c) == (IF c.thread = "sent" THEN 1 ELSE 0) + (IF c.receivedInit THEN 1 ELSE 0)

\* What a controller has handled: seen are the signaling packets it received.
Handled(c, seen, done) ==
  /\ c.receivedInit => "init" \in done /\ seen # {}
  /\ "initAck" \in done \/ c.receivedFirst => c.receivedInitAck

\* A controller in state c holds its answer in extras until the peer, in state d, has it.
\* next is its next signaling number, ack the last one acknowledged, seen what the peer
\* received of them, and answers are the numbers, of either stream, that carried the answer.
Answering(c, d, extras, next, ack, seen, answers) ==
  /\ c.receivedInit => "initAck" \in extras \/ d.receivedInitAck
  /\ c.receivedInitAck => ack >= 1 \/ d.receivedInitAck
  /\ \A i \in seen : i < next /\ (i # 1 => d.receivedInitAck)
  /\ \A i \in answers : i < next \/ c.receivedInitAck
  /\ \A i \in answers \cap seen : c.receivedInitAck \/ d.receivedInitAck

\* A packet of such a controller; seen is what it received of the peer's signaling.
Honest(k, c, d, next, seen, answers) ==
  /\ k.stream = "audio" => c.receivedInitAck /\ ("initAck" \in k.extras \/ d.receivedInitAck)
  /\ k.stream = "signaling" =>
       /\ k.seq < next
       /\ k.ack = 0 \/ k.ack \in seen
       /\ "initAck" \in k.extras => k.ack >= 1
       /\ "initAck" \notin k.extras =>
            /\ k.seq = 1 \/ d.receivedInitAck
            /\ k.seq \in answers => c.receivedInitAck \/ d.receivedInitAck

Seen(p)    == received[p]["signaling"]
Answers(p) == carriers[p]["initAck"]
Said(k)    == Honest(k, call[k.from], call[Other(k.from)], nextSeq[k.from]["signaling"],
                     Seen(k.from), Answers(k.from))

Dialogue ==
  /\ TypeOK
  /\ \A p \in Peers :
       /\ nextSeq[p]["signaling"] = 1 + Signaled(call[p])
       /\ Handled(call[p], Seen(p), processed[p])
       /\ Answering(call[p], call[Other(p)], currentExtras[p], nextSeq[p]["signaling"],
                    acked[p]["signaling"], Seen(Other(p)), Answers(p))
       /\ \A k \in reliable[p] : k.stream = "signaling" /\ Said(k)
  /\ \A k \in network : Said(k)

\* Of some natural numbers one is the smallest.
LEMMA Smallest ==
  ASSUME NEW T, T \subseteq Nat, T # {}
  PROVE  \E x \in T : \A y \in T : x <= y
  <1> DEFINE R == OpToRel(<, Nat)
  <1>1. \A x, y \in Nat : x < y => <<x, y>> \in R
    BY DEF OpToRel
  <1>2. IsWellFoundedOn(R, Nat)
    BY NatLessThanWellFounded
  <1> HIDE DEF R
  <1>3. \E x \in T : \A y \in T : ~(<<y, x>> \in R)
    BY <1>2, WFMin
  <1>4. PICK x \in T : \A y \in T : ~(<<y, x>> \in R)
    BY <1>3
  <1>5. ASSUME NEW y \in T
        PROVE  x <= y
    <2>1. x \in Nat /\ y \in Nat
      OBVIOUS
    <2>2. ~(y < x)
      BY <1>1, <1>4, <2>1
    <2> QED
      BY <2>1, <2>2
  <1> QED
    BY <1>5

\* Of some of the numbers there is a newest.
LEMMA NewestFacts ==
  ASSUME NEW S, S \subseteq Seqs
  PROVE  /\ Newest(S) \in {0} \cup Seqs
         /\ S = {} => Newest(S) = 0
         /\ S # {} => Newest(S) \in S
  <1>1. MaxSeq \in Nat /\ MaxSeq >= 2
    BY SetupAssumption DEF MaxSeq
  <1>2. CASE S = {}
    BY <1>2 DEF Newest
  <1>3. CASE S # {}
    <2> DEFINE Rest == {MaxSeq - n : n \in S}
    <2>1. \A n \in S : n \in Nat /\ n <= MaxSeq
      BY <1>1 DEF Seqs
    <2>2. Rest \subseteq Nat /\ Rest # {}
      BY <1>1, <1>3, <2>1
    <2>3. \A m \in Rest : \E n \in S : m = MaxSeq - n
      OBVIOUS
    <2>4. \A n \in S : MaxSeq - n \in Rest
      OBVIOUS
    <2> HIDE DEF Rest
    <2>5. PICK m \in Rest : \A r \in Rest : m <= r
      BY <2>2, Smallest
    <2>6. PICK n \in S : m = MaxSeq - n
      BY <2>3
    <2>7. ASSUME NEW i \in S
          PROVE  n >= i
      <3>1. m <= MaxSeq - i
        BY <2>4, <2>5
      <3> QED
        BY <1>1, <2>1, <2>6, <3>1
    <2>8. Max(S) \in S
      BY <2>7 DEF Max
    <2> QED
      BY <1>3, <2>8 DEF Newest
  <1> QED
    BY <1>2, <1>3

\* The packet that Packet::prepare() and the sender make.
LEMMA PreparedFacts ==
  ASSUME NEW p \in Peers, NEW stream \in Streams, NEW seen, NEW extras,
         nextSeq[p][stream] \in Seqs, seen \subseteq Seqs, extras \subseteq Extras
  PROVE  LET k == Prepared(p, stream, seen, extras)
         IN  /\ k \in Packets /\ k.from = p /\ k.stream = stream
             /\ k.seq = nextSeq[p][stream] /\ k.ack = Newest(seen) /\ k.extras = extras
  BY NewestFacts DEF Prepared, Packets

\* What the handlers make of what a controller has received.
Brings(c, d, extras) ==
  /\ d \in Calls /\ d.thread = c.thread /\ d.receivedFirst = c.receivedFirst
  /\ c.receivedInit => d.receivedInit
  /\ d.receivedInitAck <=> c.receivedInitAck \/ "initAck" \in extras

\* SetState() adds nothing to what a controller knows.
LEMMA StateBrings ==
  ASSUME NEW c \in Calls, NEW s \in States
  PROVE  Brings(c, WithState(c, s), {}) /\ WithState(c, s).receivedInit = c.receivedInit
  <1>1. WithState(c, s).receivedFirst = c.receivedFirst
    BY DEF WithState, Calls
  <1> QED
    BY <1>1, WithStateFacts DEF Brings

\* Starting the audio adds nothing to what a controller knows.
LEMMA StartedBrings ==
  ASSUME NEW p \in Peers, NEW c \in Calls, NEW e
  PROVE  Brings(c, Started(p, c, e), {}) /\ Started(p, c, e).receivedInit = c.receivedInit
  <1> DEFINE started == [c EXCEPT !.audioStarted = TRUE]
             s == IF fault[p] = "capture" THEN "FAILED" ELSE c.state
  <1>1. /\ started \in Calls /\ s \in States /\ started.thread = c.thread
        /\ started.receivedFirst = c.receivedFirst
        /\ started.receivedInit = c.receivedInit /\ started.receivedInitAck = c.receivedInitAck
    BY DEF Calls, States
  <1>2. Started(p, c, e) = c \/ Started(p, c, e) = WithState(started, s)
    BY DEF Started
  <1> HIDE DEF started, s
  <1>3. /\ Brings(started, WithState(started, s), {})
        /\ WithState(started, s).receivedInit = started.receivedInit
    BY <1>1, StateBrings
  <1> QED
    BY <1>1, <1>2, <1>3 DEF Brings

\* Extras bring what they say, and nothing is forgotten.
LEMMA ExtrasBring ==
  ASSUME NEW p \in Peers, NEW c \in Calls, NEW extras
  PROVE  LET d == OnExtras(p, c, extras)
         IN  /\ Brings(c, d, extras)
             /\ d.receivedInit <=>
                  c.receivedInit \/ ("init" \in extras /\ fault[p] # "incompatible")
  <1>1. ASSUME NEW a \in Calls
        PROVE  /\ Brings(a, OnInit(p, a), {})
               /\ OnInit(p, a).receivedInit <=> a.receivedInit \/ fault[p] # "incompatible"
    <2> DEFINE b == [a EXCEPT !.receivedInit = TRUE]
    <2>1. CASE fault[p] = "incompatible"
      <3>1. OnInit(p, a) = WithState(a, "FAILED") /\ "FAILED" \in States
        BY <2>1 DEF OnInit, States
      <3> QED
        BY <2>1, <3>1, StateBrings
    <2>2. CASE fault[p] # "incompatible"
      <3>1. /\ b \in Calls /\ b.receivedInit /\ b.thread = a.thread
            /\ b.receivedFirst = a.receivedFirst /\ b.receivedInitAck = a.receivedInitAck
        BY DEF Calls
      <3>2. OnInit(p, a) = Started(p, b, "init")
        BY <2>2 DEF OnInit
      <3> HIDE DEF b
      <3> QED
        BY <2>2, <3>1, <3>2, StartedBrings DEF Brings
    <2> QED
      BY <2>1, <2>2
  <1>2. ASSUME NEW a \in Calls
        PROVE  /\ Brings(a, OnInitAck(p, a), {"initAck"})
               /\ OnInitAck(p, a).receivedInit = a.receivedInit
    <2> DEFINE b == [a EXCEPT !.receivedInitAck = TRUE, !.ifNoData = TRUE,
                              !.initTimeout = IF @ = "queued" THEN "none" ELSE @]
    <2>1. b \in Calls
      BY DEF Calls
    <2>2. /\ b.receivedInitAck /\ b.thread = a.thread /\ b.receivedInit = a.receivedInit
          /\ b.receivedFirst = a.receivedFirst
      BY DEF Calls
    <2>3. OnInitAck(p, a) = Started(p, b, "initAck")
      BY DEF OnInitAck
    <2> HIDE DEF b
    <2> QED
      BY <2>1, <2>2, <2>3, StartedBrings DEF Brings
  <1> DEFINE afterInit == IF "init" \in extras THEN OnInit(p, c) ELSE c
             d == OnExtras(p, c, extras)
  <1>3. /\ Brings(c, afterInit, {})
        /\ afterInit.receivedInit <=>
             c.receivedInit \/ ("init" \in extras /\ fault[p] # "incompatible")
    BY <1>1 DEF Brings
  <1>4. d = IF "initAck" \in extras THEN OnInitAck(p, afterInit) ELSE afterInit
    BY DEF OnExtras
  <1> HIDE DEF afterInit, d
  <1>5. Brings(c, d, extras) /\ d.receivedInit = afterInit.receivedInit
    BY <1>2, <1>3, <1>4 DEF Brings
  <1> QED
    BY <1>3, <1>5 DEF d

\* A packet by itself brings nothing.
LEMMA PacketBrings ==
  ASSUME NEW c \in Calls
  PROVE  /\ Brings(c, OnPacket(c), {}) /\ OnPacket(c).receivedInit = c.receivedInit
  <1>1. "ESTABLISHED" \in States
    BY DEF States
  <1>2. OnPacket(c) = c \/ OnPacket(c) = WithState(c, "ESTABLISHED")
    BY DEF OnPacket
  <1> QED
    BY <1>1, <1>2, StateBrings DEF Brings

\* Audio by itself brings nothing.
LEMMA AudioBrings ==
  ASSUME NEW c \in Calls
  PROVE  /\ OnAudio(c) \in Calls /\ OnAudio(c).thread = c.thread
         /\ OnAudio(c).receivedInit = c.receivedInit
         /\ OnAudio(c).receivedInitAck = c.receivedInitAck
  BY DEF OnAudio, Calls

\* Both invariants, for one peer.
LEMMA DialogueFacts ==
  ASSUME Inv, Dialogue, NEW p \in Peers
  PROVE  /\ call[p] \in Calls /\ Coherent(call[p]) /\ Backed(call[p], call[Other(p)])
         /\ Truthful(call[p], currentExtras[p])
         /\ nextSeq[p]["signaling"] = 1 + Signaled(call[p])
         /\ Handled(call[p], Seen(p), processed[p])
         /\ Answering(call[p], call[Other(p)], currentExtras[p], nextSeq[p]["signaling"],
                      acked[p]["signaling"], Seen(Other(p)), Answers(p))
         /\ received[p] \in [Streams -> SUBSET Seqs] /\ acked[p] \in [Streams -> {0} \cup Seqs]
         /\ carriers[p] \in [Extras -> SUBSET Seqs]
         /\ nextSeq[p] \in [Streams -> 1 .. MaxSeq + 1]
         /\ currentExtras[p] \subseteq Extras /\ processed[p] \subseteq Extras
         /\ reliable[p] \subseteq Packets
         /\ Seen(p) \subseteq Seqs /\ Answers(p) \subseteq Seqs
  <1>1. /\ call[p] \in Calls /\ Coherent(call[p]) /\ Backed(call[p], call[Other(p)])
        /\ Truthful(call[p], currentExtras[p])
    BY DEF Inv, Shape
  <1>2. /\ nextSeq[p]["signaling"] = 1 + Signaled(call[p])
        /\ Handled(call[p], Seen(p), processed[p])
        /\ Answering(call[p], call[Other(p)], currentExtras[p], nextSeq[p]["signaling"],
                     acked[p]["signaling"], Seen(Other(p)), Answers(p))
    BY DEF Dialogue
  <1>3. /\ received[p] \in [Streams -> SUBSET Seqs] /\ acked[p] \in [Streams -> {0} \cup Seqs]
        /\ carriers[p] \in [Extras -> SUBSET Seqs]
        /\ nextSeq[p] \in [Streams -> 1 .. MaxSeq + 1]
        /\ currentExtras[p] \subseteq Extras /\ processed[p] \subseteq Extras
        /\ reliable[p] \subseteq Packets
    BY DEF Dialogue, TypeOK
  <1>4. Seen(p) \subseteq Seqs /\ Answers(p) \subseteq Seqs
    BY <1>3 DEF Seen, Answers, Streams, Extras
  <1> QED
    BY <1>1, <1>2, <1>3, <1>4

\* The numbers in use; a controller has at most two signaling packets to send.
LEMMA Counts ==
  /\ MaxSeq \in Nat /\ MaxSeq >= 2 /\ MaxAudio \in Nat /\ MaxAudio <= MaxSeq
  /\ Seqs \subseteq Nat /\ 1 \in Seqs /\ 2 \in Seqs
  /\ \A c : Signaled(c) \in {0, 1, 2}
  BY SetupAssumption DEF MaxSeq, Seqs, Signaled

(***************************************************************************)
(* A step of one peer: what it had sent stays honest, if the numbers that  *)
(* it adds to those of its answer are new ones; what is left to show is    *)
(* about what it sends and what it received.                               *)
(***************************************************************************)
LEMMA DialogueStep ==
  ASSUME Inv, Dialogue, Inv', TypeOK', NEW p \in Peers,
         \A q \in Peers : q # p =>
           /\ call'[q] = call[q] /\ nextSeq'[q] = nextSeq[q] /\ received'[q] = received[q]
           /\ acked'[q] = acked[q] /\ currentExtras'[q] = currentExtras[q]
           /\ carriers'[q] = carriers[q] /\ reliable'[q] = reliable[q]
           /\ processed'[q] = processed[q],
         call[p].receivedInitAck => call'[p].receivedInitAck,
         nextSeq[p]["signaling"] <= nextSeq'[p]["signaling"],
         Seen(p) \subseteq Seen(p)',
         \A i \in Answers(p)' :
           i \in Answers(p) \/ i >= nextSeq[p]["signaling"] \/ call'[p].receivedInitAck,
         \A i \in Seen(p)' : i \notin Seen(p) =>
           /\ i < nextSeq[Other(p)]["signaling"]
           /\ i # 1 => call'[p].receivedInitAck
           /\ i \in Answers(Other(p)) =>
                call[Other(p)].receivedInitAck \/ call'[p].receivedInitAck,
         nextSeq'[p]["signaling"] = 1 + Signaled(call'[p]),
         Handled(call'[p], Seen(p)', processed'[p]),
         Answering(call'[p], call[Other(p)], currentExtras'[p], nextSeq'[p]["signaling"],
                   acked'[p]["signaling"], Seen(Other(p)), Answers(p)'),
         \A k \in reliable'[p] : k \in reliable[p] \/ (k.stream = "signaling" /\ Said(k)'),
         \A k \in network' : k \in network \/ k \in reliable[p] \/ (k.from = p /\ Said(k)')
  PROVE  Dialogue'
  <1> DEFINE q == Other(p)
  <1>1. q \in Peers /\ q # p /\ Other(q) = p /\ \A r \in Peers : r = p \/ r = q
    BY OtherPeer
  <1> HIDE DEF q
  <1>2. /\ call'[q] = call[q] /\ nextSeq'[q] = nextSeq[q] /\ received'[q] = received[q]
        /\ acked'[q] = acked[q] /\ currentExtras'[q] = currentExtras[q]
        /\ carriers'[q] = carriers[q] /\ reliable'[q] = reliable[q]
        /\ processed'[q] = processed[q]
    BY <1>1
  <1>3. Seen(q)' = Seen(q) /\ Answers(q)' = Answers(q)
    BY <1>2 DEF Seen, Answers
  <1>4. /\ nextSeq'[q]["signaling"] = 1 + Signaled(call'[q])
        /\ Handled(call'[q], Seen(q)', processed'[q])
    BY <1>1, <1>2, <1>3 DEF Dialogue
  <1>5. Answering(call'[q], call'[p], currentExtras'[q], nextSeq'[q]["signaling"],
                  acked'[q]["signaling"], Seen(p)', Answers(q)')
    <2>1. Answering(call[q], call[p], currentExtras[q], nextSeq[q]["signaling"],
                    acked[q]["signaling"], Seen(p), Answers(q))
      BY <1>1 DEF Dialogue
    <2>2. Answering(call[q], call'[p], currentExtras[q], nextSeq[q]["signaling"],
                    acked[q]["signaling"], Seen(p)', Answers(q))
      BY <1>1, <2>1 DEF Answering, q
    <2> QED
      BY <1>2, <1>3, <2>2
  <1>6. ASSUME NEW k, k.from = q, Said(k)
        PROVE  Said(k)'
    <2>1. Honest(k, call[q], call[p], nextSeq[q]["signaling"], Seen(q), Answers(q))
      BY <1>1, <1>6 DEF Said
    <2>2. Honest(k, call[q], call'[p], nextSeq[q]["signaling"], Seen(q), Answers(q))
      BY <2>1 DEF Honest
    <2> QED
      BY <1>1, <1>2, <1>3, <1>6, <2>2 DEF Said
  <1>7. ASSUME NEW k \in Packets, k.from = p, Said(k)
        PROVE  Said(k)'
    <2>1. Honest(k, call[p], call[q], nextSeq[p]["signaling"], Seen(p), Answers(p))
      BY <1>1, <1>7 DEF Said, q
    <2>2. /\ k.seq \in Nat
          /\ nextSeq[p]["signaling"] \in Nat /\ nextSeq'[p]["signaling"] \in Nat
      <3>1. k.seq \in Nat
        BY Counts DEF Packets
      <3>2. /\ nextSeq \in [Peers -> [Streams -> 1 .. MaxSeq + 1]]
            /\ nextSeq' \in [Peers -> [Streams -> 1 .. MaxSeq + 1]]
        BY DEF Dialogue, TypeOK
      <3>3. "signaling" \in Streams /\ \A n \in 1 .. MaxSeq + 1 : n \in Nat
        BY Counts DEF Streams
      <3> QED
        BY <3>1, <3>2, <3>3
    <2>3. Honest(k, call'[p], call[q], nextSeq'[p]["signaling"], Seen(p)', Answers(p)')
      BY <2>1, <2>2 DEF Honest
    <2> QED
      BY <1>1, <1>2, <1>7, <2>3 DEF Said, q
  <1>8. \A k \in network : k \in Packets /\ k.from \in Peers /\ Said(k)
    BY DEF Dialogue, TypeOK, Packets
  <1>9. \A r \in Peers : \A k \in reliable[r] :
          k \in Packets /\ k.from = r /\ k.stream = "signaling" /\ Said(k)
    BY DialogueFacts DEF Dialogue, Inv
  <1>10. \A k \in reliable'[p] : k.stream = "signaling" /\ Said(k)'
    BY <1>7, <1>9
  <1>11. \A k \in reliable'[q] : k.stream = "signaling" /\ Said(k)'
    BY <1>1, <1>2, <1>6, <1>9
  <1>12. \A k \in network' : Said(k)'
    BY <1>1, <1>6, <1>7, <1>8, <1>9
  <1>13. Other(p)' = q /\ Other(q)' = p
    BY <1>1 DEF q
  <1>14. ASSUME NEW r \in Peers
         PROVE  /\ nextSeq'[r]["signaling"] = 1 + Signaled(call'[r])
                /\ Handled(call'[r], Seen(r)', processed'[r])
                /\ Answering(call'[r], call'[Other(r)], currentExtras'[r],
                             nextSeq'[r]["signaling"], acked'[r]["signaling"],
                             Seen(Other(r))', Answers(r)')
                /\ \A k \in reliable'[r] : k.stream = "signaling" /\ Said(k)'
    <2>1. CASE r = p
      BY <1>2, <1>3, <1>10, <2>1 DEF q
    <2>2. CASE r = q
      BY <1>1, <1>4, <1>5, <1>11, <2>2
    <2> QED
      BY <1>1, <2>1, <2>2
  <1> QED
    BY <1>12, <1>14 DEF Dialogue

\* Another state, but nothing new sent, received or acknowledged.
Same(c, d) ==
  /\ d.thread = "sent" <=> c.thread = "sent"
  /\ d.receivedInit = c.receivedInit /\ d.receivedInitAck = c.receivedInitAck
  /\ d.receivedFirst = c.receivedFirst

\* A step that leaves numbers, extras and answers alone keeps the second invariant.
LEMMA StillDialogue ==
  ASSUME Inv, Dialogue, Inv', NEW p \in Peers, NEW c \in Calls,
         call' = [call EXCEPT ![p] = c], Same(call[p], c),
         UNCHANGED <<fault, nextSeq, received, acked, currentExtras, carriers, processed>>,
         \A r \in Peers : r # p => reliable'[r] = reliable[r],
         reliable' \in [Peers -> SUBSET Packets], reliable'[p] \subseteq reliable[p],
         network' \subseteq network \cup reliable[p]
  PROVE  Dialogue'
  <1>1. call'[p] = c /\ \A q \in Peers : q # p => call'[q] = call[q]
    BY DEF Inv, Shape
  <1>2. /\ c.receivedInit = call[p].receivedInit /\ c.receivedInitAck = call[p].receivedInitAck
        /\ Signaled(c) = Signaled(call[p]) /\ c.receivedFirst = call[p].receivedFirst
    BY DEF Same, Signaled
  <1>3. Seen(p)' = Seen(p) /\ Answers(p)' = Answers(p)
    BY DEF Seen, Answers
  <1>4. /\ nextSeq'[p]["signaling"] = 1 + Signaled(call'[p])
        /\ Handled(call'[p], Seen(p)', processed'[p])
    BY <1>1, <1>2, <1>3, DialogueFacts DEF Handled
  <1>5. Answering(call'[p], call[Other(p)], currentExtras'[p], nextSeq'[p]["signaling"],
                  acked'[p]["signaling"], Seen(Other(p)), Answers(p)')
    <2>1. Answering(call[p], call[Other(p)], currentExtras[p], nextSeq[p]["signaling"],
                    acked[p]["signaling"], Seen(Other(p)), Answers(p))
      BY DialogueFacts
    <2> QED
      BY <1>1, <1>2, <1>3, <2>1 DEF Answering
  <1>6. TypeOK'
    <2>1. reliable[p] \subseteq Packets /\ network \subseteq Packets
      BY DEF Dialogue, TypeOK
    <2>2. network' \subseteq Packets /\ call' \in [Peers -> Calls]
      BY <2>1 DEF Inv, Shape
    <2> QED
      BY <2>2 DEF Dialogue, TypeOK
  <1>7. nextSeq[p]["signaling"] <= nextSeq'[p]["signaling"]
    BY Counts, DialogueFacts
  <1> QED
    BY <1>1, <1>2, <1>3, <1>4, <1>5, <1>6, <1>7, DialogueStep

\* The thread that starts the call, delayed messages, the check for silence and the socket.
LEMMA InsideDialogue ==
  ASSUME Inv, Dialogue, Inv', NEW p \in Peers,
         \/ Connect(p) \/ RunSendThread(p) \/ InitTimer(p)
         \/ EstablishIfNoData(p) \/ EstablishOnFirstData(p)
         \/ CheckReceiving(p) \/ SocketFails(p)
  PROVE  Dialogue'
  <1>1. call \in [Peers -> Calls]
    BY DEF Inv, Shape
  <1>2. UNCHANGED <<fault, exchange>>
    BY DEF Connect, RunSendThread, InitializeAudio, InitializeTimers, PostInit, InitTimer,
           CollectInitTimeout, InitTimeout, EstablishIfNoData, EstablishOnFirstData,
           CheckReceiving, SocketFails
  <1>3. /\ reliable' = reliable /\ network' = network
        /\ UNCHANGED <<fault, nextSeq, received, acked, currentExtras, carriers, processed>>
    BY <1>2 DEF exchange
  <1>4. reliable \in [Peers -> SUBSET Packets] /\ call[p] \in Calls
    BY <1>1 DEF Dialogue, TypeOK
  <1>5. ASSUME NEW b \in Calls, Same(call[p], b), call' = [call EXCEPT ![p] = b]
        PROVE  Dialogue'
    BY <1>3, <1>4, <1>5, StillDialogue
  <1>6. ASSUME NEW b \in Calls, Same(call[p], b), NEW s \in States,
               call' = [call EXCEPT ![p] = WithState(b, s)]
        PROVE  Dialogue'
    <2> DEFINE c == WithState(b, s)
    <2>1. c \in Calls /\ Same(call[p], c)
      BY <1>6, StateBrings DEF Brings, Same, Calls
    <2> HIDE DEF c
    <2>2. call' = [call EXCEPT ![p] = c]
      BY <1>6 DEF c
    <2> QED
      BY <1>5, <2>1, <2>2
  <1>7. {"ESTABLISHED", "FAILED", "RECONNECTING"} \subseteq States
    BY DEF States
  <1>8. ASSUME NEW from, NEW to \in {"audio", "posted"}, from # "sent", Advance(p, from, to),
               to = "posted" => from = "post"
        PROVE  Dialogue'
    <2> DEFINE b == [call[p] EXCEPT !.thread = to]
    <2>1. call' = [call EXCEPT ![p] = b] /\ call[p].thread # "sent"
      BY <1>8 DEF Advance
    <2>2. b \in Calls /\ Same(call[p], b)
      BY <1>4, <1>8, <2>1 DEF Calls, Same
    <2> HIDE DEF b
    <2> QED
      BY <1>5, <2>1, <2>2
  <1>9. CASE InitializeAudio(p)
    <2> DEFINE b == [call[p] EXCEPT !.thread = "timers"]
               s == IF fault[p] = "playback" THEN "FAILED" ELSE call[p].state
    <2>1. call' = [call EXCEPT ![p] = WithState(b, s)] /\ call[p].thread # "sent"
      BY <1>9 DEF InitializeAudio
    <2>2. b \in Calls /\ Same(call[p], b) /\ s \in States
      BY <1>4, <1>7, <2>1 DEF Calls, Same
    <2> HIDE DEF b, s
    <2> QED
      BY <1>6, <2>1, <2>2
  <1>10. CASE InitializeTimers(p)
    <2> DEFINE b == [call[p] EXCEPT !.thread = "post", !.initTimeout = "queued"]
    <2>1. call' = [call EXCEPT ![p] = b] /\ call[p].thread # "sent"
      BY <1>10 DEF InitializeTimers
    <2>2. b \in Calls /\ Same(call[p], b)
      BY <1>4, <2>1 DEF Calls, Same
    <2> HIDE DEF b
    <2> QED
      BY <1>5, <2>1, <2>2
  <1>11. CASE CollectInitTimeout(p)
    <2> DEFINE b == [call[p] EXCEPT !.initTimeout = "collected"]
    <2>1. call' = [call EXCEPT ![p] = b]
      BY <1>11 DEF CollectInitTimeout
    <2>2. b \in Calls /\ Same(call[p], b)
      BY <1>4 DEF Calls, Same
    <2> HIDE DEF b
    <2> QED
      BY <1>5, <2>1, <2>2
  <1>12. CASE InitTimeout(p)
    <2> DEFINE b == [call[p] EXCEPT !.initTimeout = "none"]
    <2>1. call' = [call EXCEPT ![p] = WithState(b, "FAILED")]
      BY <1>12 DEF InitTimeout
    <2>2. b \in Calls /\ Same(call[p], b)
      BY <1>4 DEF Calls, Same
    <2> HIDE DEF b
    <2> QED
      BY <1>6, <1>7, <2>1, <2>2
  <1>13. CASE EstablishIfNoData(p)
    <2> DEFINE b == [call[p] EXCEPT !.ifNoData = FALSE]
               s == IF call[p].state = "WAIT_INIT_ACK" THEN "ESTABLISHED" ELSE call[p].state
    <2>1. call' = [call EXCEPT ![p] = WithState(b, s)]
      BY <1>13 DEF EstablishIfNoData
    <2>2. b \in Calls /\ Same(call[p], b) /\ s \in States
      BY <1>4, <1>7 DEF Calls, Same
    <2> HIDE DEF b, s
    <2> QED
      BY <1>6, <2>1, <2>2
  <1>14. CASE EstablishOnFirstData(p)
    <2> DEFINE b == [call[p] EXCEPT !.onFirstData = FALSE]
    <2>1. call' = [call EXCEPT ![p] = WithState(b, "ESTABLISHED")]
      BY <1>14 DEF EstablishOnFirstData
    <2>2. b \in Calls /\ Same(call[p], b)
      BY <1>4 DEF Calls, Same
    <2> HIDE DEF b
    <2> QED
      BY <1>6, <1>7, <2>1, <2>2
  <1>15. CASE CheckReceiving(p)
    <2>1. PICK s \in {"FAILED", "RECONNECTING"} :
            call' = [call EXCEPT ![p] = [call[p] EXCEPT !.state = s]]
      BY <1>15 DEF CheckReceiving
    <2> DEFINE b == [call[p] EXCEPT !.state = s]
    <2>2. b \in Calls /\ Same(call[p], b)
      BY <1>4, <1>7 DEF Calls, Same
    <2>3. call' = [call EXCEPT ![p] = b]
      BY <2>1
    <2> HIDE DEF b
    <2> QED
      BY <1>5, <2>2, <2>3
  <1>16. CASE SocketFails(p)
    <2> DEFINE b == [call[p] EXCEPT !.receiving = FALSE, !.state = "FAILED"]
    <2>1. call' = [call EXCEPT ![p] = b]
      BY <1>16 DEF SocketFails
    <2>2. b \in Calls /\ Same(call[p], b)
      BY <1>4, <1>7 DEF Calls, Same
    <2> HIDE DEF b
    <2> QED
      BY <1>5, <2>1, <2>2
  <1> QED
    BY <1>8, <1>9, <1>10, <1>11, <1>12, <1>13, <1>14, <1>15, <1>16
       DEF Connect, RunSendThread, PostInit, InitTimer

\* Reliable packets that are sent again, or no longer.
LEMMA RepeatDialogue ==
  ASSUME Inv, Dialogue, Inv', NEW p \in Peers, Retransmit(p) \/ GiveUp(p)
  PROVE  Dialogue'
  <1>1. /\ call[p] \in Calls /\ call' = [call EXCEPT ![p] = call[p]] /\ Same(call[p], call[p])
        /\ UNCHANGED <<fault, nextSeq, received, acked, currentExtras, carriers, processed>>
    BY DEF Retransmit, GiveUp, Inv, Shape, Same
  <1>2. reliable \in [Peers -> SUBSET Packets]
    BY DEF Dialogue, TypeOK
  <1>3. CASE Retransmit(p)
    <2>1. reliable' = reliable /\ network' \subseteq network \cup reliable[p]
      BY <1>3 DEF Retransmit, Transmitted
    <2> QED
      BY <1>1, <1>2, <2>1, StillDialogue
  <1>4. CASE GiveUp(p)
    <2>1. reliable' = [reliable EXCEPT ![p] = {}] /\ network' = network
      BY <1>4 DEF GiveUp
    <2>2. /\ reliable'[p] = {} /\ \A r \in Peers : r # p => reliable'[r] = reliable[r]
          /\ reliable' \in [Peers -> SUBSET Packets]
      BY <1>2, <2>1
    <2> QED
      BY <1>1, <2>1, <2>2, StillDialogue
  <1> QED
    BY <1>3, <1>4

\* A repeated packet was handled before: it changes neither numbers nor answers.
LEMMA AgainDialogue ==
  ASSUME Inv, Dialogue, Inv', NEW p \in Peers, NEW k \in network, ReceiveAgain(p, k)
  PROVE  Dialogue'
  <1> DEFINE d == OnPacket(call[p])
  <1>1. call[p] \in Calls
    BY DEF Inv, Shape
  <1>2. d \in Calls /\ Same(call[p], d)
    BY <1>1, PacketBrings DEF Brings, Same, Calls
  <1>3. /\ call' = [call EXCEPT ![p] = d] /\ reliable' = reliable
        /\ UNCHANGED <<fault, nextSeq, received, acked, currentExtras, carriers, processed>>
        /\ network' \subseteq network
    BY DEF ReceiveAgain
  <1>4. reliable \in [Peers -> SUBSET Packets]
    BY DEF Dialogue, TypeOK
  <1> HIDE DEF d
  <1> QED
    BY <1>2, <1>3, <1>4, StillDialogue

\* What Packet::prepare() and the list of carriers change.
LEMMA NotedFacts ==
  ASSUME Inv, Dialogue, NEW p \in Peers, NEW k \in Packets,
         k.seq = nextSeq[p][k.stream], Noted(p, k)
  PROVE  /\ nextSeq' \in [Peers -> [Streams -> 1 .. MaxSeq + 1]]
         /\ carriers' \in [Peers -> [Extras -> SUBSET Seqs]]
         /\ nextSeq'[p][k.stream] = k.seq + 1
         /\ \A s \in Streams : s # k.stream => nextSeq'[p][s] = nextSeq[p][s]
         /\ \A q \in Peers : q # p => nextSeq'[q] = nextSeq[q] /\ carriers'[q] = carriers[q]
         /\ Answers(p)' = Answers(p) \cup (IF "initAck" \in k.extras THEN {k.seq} ELSE {})
  <1>1. /\ nextSeq \in [Peers -> [Streams -> 1 .. MaxSeq + 1]]
        /\ carriers \in [Peers -> [Extras -> SUBSET Seqs]]
    BY DEF Dialogue, TypeOK
  <1>2. k.stream \in Streams /\ k.seq \in Seqs
    BY DEF Packets
  <1>3. k.seq + 1 \in 1 .. MaxSeq + 1
    BY <1>2, Counts DEF Seqs
  <1> DEFINE n == [nextSeq[p] EXCEPT ![k.stream] = k.seq + 1]
             r == [e \in Extras |->
                     carriers[p][e] \cup (IF e \in k.extras THEN {k.seq} ELSE {})]
  <1>4. nextSeq' = [nextSeq EXCEPT ![p] = n] /\ carriers' = [carriers EXCEPT ![p] = r]
    BY DEF Noted
  <1>5. /\ n \in [Streams -> 1 .. MaxSeq + 1] /\ n[k.stream] = k.seq + 1
        /\ \A s \in Streams : s # k.stream => n[s] = nextSeq[p][s]
    BY <1>1, <1>2, <1>3
  <1>6. /\ r \in [Extras -> SUBSET Seqs]
        /\ r["initAck"] = carriers[p]["initAck"]
                            \cup (IF "initAck" \in k.extras THEN {k.seq} ELSE {})
    BY <1>1, <1>2 DEF Extras
  <1> HIDE DEF n, r
  <1> QED
    BY <1>1, <1>4, <1>5, <1>6 DEF Answers

\* The init is the first signaling packet, or carries the answer, or the peer has that.
LEMMA SendInitDialogue ==
  ASSUME Inv, Dialogue, Inv', NEW p \in Peers, SendInit(p)
  PROVE  Dialogue'
  <1> DEFINE E == currentExtras[p] \cup {"init"}
             k == Prepared(p, "signaling", received[p]["signaling"], E)
             n == nextSeq[p]["signaling"]
             c == call'[p]
             d == call[Other(p)]
  <1>1. /\ call[p].thread = "posted"
        /\ call' = [call EXCEPT ![p] = [call[p] EXCEPT !.thread = "sent",
             !.state = IF @ = "WAIT_INIT" THEN "WAIT_INIT_ACK" ELSE @]]
        /\ currentExtras' = [currentExtras EXCEPT ![p] = E]
        /\ Noted(p, k)
        /\ reliable' = [reliable EXCEPT ![p] = reliable[p] \cup {k}]
        /\ UNCHANGED <<fault, received, acked, processed, network>>
    BY DEF SendInit
  <1>2. /\ call[p] \in Calls /\ Truthful(call[p], currentExtras[p])
        /\ n = 1 + Signaled(call[p]) /\ Handled(call[p], Seen(p), processed[p])
        /\ Answering(call[p], d, currentExtras[p], n, acked[p]["signaling"],
                     Seen(Other(p)), Answers(p))
        /\ Seen(p) \subseteq Seqs
    BY DialogueFacts
  <1>3. /\ c.thread = "sent" /\ c.receivedInit = call[p].receivedInit
        /\ c.receivedInitAck = call[p].receivedInitAck
        /\ c.receivedFirst = call[p].receivedFirst
        /\ \A q \in Peers : q # p => call'[q] = call[q]
    BY <1>1, <1>2 DEF Inv, Shape, Calls
  <1>4. n = IF call[p].receivedInit THEN 2 ELSE 1
    BY <1>1, <1>2 DEF Signaled
  <1>5. /\ k \in Packets /\ k.from = p /\ k.stream = "signaling" /\ k.seq = n
        /\ k.ack = Newest(Seen(p)) /\ k.extras = E
    <2>1. n \in Seqs /\ E \subseteq Extras /\ "signaling" \in Streams
      BY <1>4, Counts, DialogueFacts DEF Extras, Streams
    <2> QED
      BY <1>2, <2>1, PreparedFacts DEF Seen
  <1> HIDE DEF k, E, c, d
  <1>6. /\ nextSeq' \in [Peers -> [Streams -> 1 .. MaxSeq + 1]]
        /\ carriers' \in [Peers -> [Extras -> SUBSET Seqs]]
        /\ nextSeq'[p]["signaling"] = n + 1
        /\ \A q \in Peers : q # p => nextSeq'[q] = nextSeq[q] /\ carriers'[q] = carriers[q]
        /\ Answers(p)' = Answers(p) \cup (IF "initAck" \in E THEN {n} ELSE {})
    <2>1. k.seq = nextSeq[p][k.stream]
      BY <1>5
    <2>2. /\ nextSeq' \in [Peers -> [Streams -> 1 .. MaxSeq + 1]]
          /\ carriers' \in [Peers -> [Extras -> SUBSET Seqs]]
          /\ nextSeq'[p][k.stream] = k.seq + 1
          /\ \A q \in Peers : q # p => nextSeq'[q] = nextSeq[q] /\ carriers'[q] = carriers[q]
          /\ Answers(p)' = Answers(p) \cup (IF "initAck" \in k.extras THEN {k.seq} ELSE {})
      BY <1>1, <1>5, <2>1, NotedFacts
    <2> QED
      BY <1>5, <2>2
  <1> HIDE DEF n
  <1>7. /\ n \in Nat /\ n \in {1, 2}
        /\ "initAck" \in E <=> "initAck" \in currentExtras[p]
    BY <1>4 DEF E
  <1>8. Seen(p)' = Seen(p)
    BY <1>1 DEF Seen
  <1>9. Answering(c, d, currentExtras'[p], n + 1, acked'[p]["signaling"], Seen(Other(p)),
                  Answers(p)')
    <2>1. currentExtras'[p] = E
      BY <1>1 DEF Inv, Shape
    <2>2. Seen(Other(p)) \subseteq Nat /\ Answers(p) \subseteq Nat
      BY Counts, DialogueFacts, OtherPeer
    <2> QED
      BY <1>1, <1>2, <1>3, <1>6, <1>7, <2>1, <2>2 DEF Answering
  <1>10. Honest(k, c, d, n + 1, Seen(p), Answers(p)')
    <2>1. k.ack = 0 \/ k.ack \in Seen(p)
      BY <1>2, <1>5, NewestFacts
    <2>2. ASSUME "initAck" \in E
          PROVE  k.ack >= 1
      <3>1. Seen(p) # {}
        BY <1>2, <1>7, <2>2 DEF Truthful, Handled
      <3>2. k.ack \in Seqs
        BY <1>2, <1>5, <3>1, NewestFacts
      <3> QED
        BY <3>2, Counts DEF Seqs
    <2>3. ASSUME "initAck" \notin E
          PROVE  /\ n = 1 \/ d.receivedInitAck
                 /\ n \in Answers(p)' => c.receivedInitAck
      BY <1>2, <1>3, <1>4, <1>6, <1>7, <2>3 DEF Answering
    <2> QED
      BY <1>5, <1>7, <2>1, <2>2, <2>3 DEF Honest
  <1>11. ASSUME NEW r, r = k
         PROVE  Said(r)'
    <2>1. call'[Other(p)] = d /\ r.from = p
      BY <1>3, <1>5, <1>11, OtherPeer DEF d
    <2>2. Honest(r, c, d, n + 1, Seen(p), Answers(p)')
      BY <1>10, <1>11
    <2> QED
      BY <1>6, <1>8, <2>1, <2>2 DEF Said, c
  <1>12. TypeOK'
    <2>1. currentExtras' \in [Peers -> SUBSET Extras] /\ reliable' \in [Peers -> SUBSET Packets]
      BY <1>1, <1>5, DialogueFacts DEF Dialogue, TypeOK, E, Extras
    <2>2. call' \in [Peers -> Calls]
      BY DEF Inv, Shape
    <2> QED
      BY <1>1, <1>6, <2>1, <2>2 DEF Dialogue, TypeOK
  <1>13. /\ nextSeq'[p]["signaling"] = 1 + Signaled(c)
         /\ Handled(c, Seen(p)', processed'[p])
    BY <1>1, <1>2, <1>3, <1>4, <1>6, <1>8 DEF Signaled, Handled
  <1>14. reliable'[p] = reliable[p] \cup {k}
    BY <1>1 DEF Inv, Shape
  <1>15. \A q \in Peers : q # p =>
           /\ currentExtras'[q] = currentExtras[q] /\ reliable'[q] = reliable[q]
           /\ received'[q] = received[q] /\ acked'[q] = acked[q]
           /\ processed'[q] = processed[q]
    BY <1>1 DEF Inv, Shape
  <1>16. nextSeq[p]["signaling"] <= nextSeq'[p]["signaling"]
    BY <1>6, <1>7 DEF n
  <1>17. \A i \in Answers(p)' : i \in Answers(p) \/ i >= nextSeq[p]["signaling"]
    BY <1>6, <1>7 DEF n
  <1>18. Answering(call'[p], call[Other(p)], currentExtras'[p], nextSeq'[p]["signaling"],
                   acked'[p]["signaling"], Seen(Other(p)), Answers(p)')
    BY <1>6, <1>9 DEF c, d
  <1>19. /\ nextSeq'[p]["signaling"] = 1 + Signaled(call'[p])
         /\ Handled(call'[p], Seen(p)', processed'[p])
         /\ call[p].receivedInitAck => call'[p].receivedInitAck
    BY <1>3, <1>13 DEF c
  <1>20. \A r \in reliable'[p] : r \in reliable[p] \/ (r.stream = "signaling" /\ Said(r)')
    BY <1>5, <1>11, <1>14
  <1>21. /\ \A q \in Peers : q # p =>
              /\ call'[q] = call[q] /\ nextSeq'[q] = nextSeq[q] /\ carriers'[q] = carriers[q]
         /\ network' = network
    BY <1>1, <1>3, <1>6
  <1> QED
    BY <1>8, <1>12, <1>15, <1>16, <1>17, <1>18, <1>19, <1>20, <1>21, DialogueStep

\* Audio is sent only with the peer's answer, and carries our own until the peer has it.
LEMMA SendFrameDialogue ==
  ASSUME Inv, Dialogue, Inv', NEW p \in Peers, SendFrame(p)
  PROVE  Dialogue'
  <1> DEFINE k == Prepared(p, "audio", received[p]["audio"], currentExtras[p])
             d == call[Other(p)]
  <1>1. /\ call[p].audioStarted /\ call[p].receivedInitAck /\ k.seq <= MaxAudio
        /\ Noted(p, k) /\ Transmitted(k)
        /\ UNCHANGED <<fault, call, received, acked, currentExtras, reliable, processed>>
    BY DEF SendFrame
  <1>2. /\ call[p] \in Calls /\ Coherent(call[p])
        /\ nextSeq[p]["signaling"] = 1 + Signaled(call[p])
        /\ Handled(call[p], Seen(p), processed[p])
        /\ Answering(call[p], d, currentExtras[p], nextSeq[p]["signaling"],
                     acked[p]["signaling"], Seen(Other(p)), Answers(p))
    BY DialogueFacts
  <1>3. /\ k \in Packets /\ k.from = p /\ k.stream = "audio" /\ k.extras = currentExtras[p]
        /\ k.seq = nextSeq[p]["audio"]
    <2>1. "audio" \in Streams /\ currentExtras[p] \subseteq Extras /\ received[p]["audio"] \subseteq Seqs
      BY DialogueFacts DEF Streams
    <2>2. nextSeq[p]["audio"] \in 1 .. MaxSeq + 1
      BY <2>1, DialogueFacts
    <2>3. k.seq = nextSeq[p]["audio"]
      BY DEF Prepared
    <2>4. nextSeq[p]["audio"] \in Seqs
      BY <1>1, <2>2, <2>3, Counts DEF Seqs
    <2> QED
      BY <2>1, <2>4, PreparedFacts
  <1> HIDE DEF k, d
  <1>4. /\ nextSeq' \in [Peers -> [Streams -> 1 .. MaxSeq + 1]]
        /\ carriers' \in [Peers -> [Extras -> SUBSET Seqs]]
        /\ nextSeq'[p]["signaling"] = nextSeq[p]["signaling"]
        /\ \A q \in Peers : q # p => nextSeq'[q] = nextSeq[q] /\ carriers'[q] = carriers[q]
    BY <1>1, <1>3, NotedFacts DEF Streams
  <1>5. Seen(p)' = Seen(p)
    BY <1>1 DEF Seen
  <1>6. TypeOK'
    <2>1. network' \subseteq Packets
      BY <1>1, <1>3 DEF Transmitted, Dialogue, TypeOK
    <2> QED
      BY <1>1, <1>4, <2>1 DEF Dialogue, TypeOK
  <1>7. Answering(call'[p], call[Other(p)], currentExtras'[p], nextSeq'[p]["signaling"],
                  acked'[p]["signaling"], Seen(Other(p)), Answers(p)')
    BY <1>1, <1>2, <1>4 DEF Answering, d
  <1>8. ASSUME NEW r, r = k
        PROVE  Said(r)'
    <2>1. "initAck" \in k.extras \/ d.receivedInitAck
      BY <1>1, <1>2, <1>3 DEF Coherent, Answering
    <2>2. /\ r.from = p /\ r.stream = "audio"
          /\ "initAck" \in r.extras \/ d.receivedInitAck
      BY <1>3, <1>8, <2>1
    <2>3. /\ call'[r.from].receivedInitAck
          /\ "initAck" \in r.extras \/ call'[Other(r.from)].receivedInitAck
      BY <1>1, <2>2 DEF d
    <2> QED
      BY <2>2, <2>3 DEF Said, Honest
  <1>9. \A r \in network' : r \in network \/ (r.from = p /\ Said(r)')
    BY <1>1, <1>3, <1>8 DEF Transmitted
  <1>10. nextSeq[p]["signaling"] <= nextSeq'[p]["signaling"]
    BY <1>2, <1>4, Counts
  <1>11. /\ nextSeq'[p]["signaling"] = 1 + Signaled(call'[p])
         /\ Handled(call'[p], Seen(p)', processed'[p])
         /\ call'[p].receivedInitAck
    BY <1>1, <1>2, <1>4, <1>5
  <1> QED
    BY <1>1, <1>4, <1>5, <1>6, <1>7, <1>9, <1>10, <1>11, DialogueStep

(***************************************************************************)
(* A packet that was not received before.  What it shows is true: audio    *)
(* comes only with the answer or after it, an answer names a packet that   *)
(* arrived, and a number acknowledged stands for the answer only when the  *)
(* peer has that.                                                          *)
(***************************************************************************)

\* Whether packet k, new to p, brings the init of a peer that p can speak with.
Brought(p, k) == "init" \in NewExtras(p, k) /\ fault[p] # "incompatible"

\* What the packet says, and what the controller makes of it.
LEMMA ReceivedFacts ==
  ASSUME Inv, Dialogue, Inv', NEW p \in Peers, NEW k \in network, k.from = Other(p), Receive(p, k)
  PROVE  /\ k \in Packets
         /\ Honest(k, call[Other(p)], call[p], nextSeq[Other(p)]["signaling"],
                   Seen(Other(p)), Answers(Other(p)))
         /\ \A q \in Peers : q # p => call'[q] = call[q]
         /\ call'[p].thread = call[p].thread
         /\ call'[p].receivedInit <=> call[p].receivedInit \/ Brought(p, k)
         /\ call'[p].receivedInitAck <=> call[p].receivedInitAck \/ "initAck" \in k.extras
         /\ call'[p].receivedFirst => call'[p].receivedInitAck
         /\ Brought(p, k) =>
              ~call[p].receivedInit /\ k.stream = "signaling" /\ "init" \in k.extras
  <1> DEFINE new == NewExtras(p, k)
             c   == call[p]
             a   == OnPacket(c)
             b   == OnExtras(p, a, new)
             d   == IF k.stream = "audio" THEN OnAudio(b) ELSE b
  <1>1. /\ c \in Calls /\ Handled(c, Seen(p), processed[p])
        /\ Backed(call[Other(p)], c)
    BY DialogueFacts, OtherPeer
  <1>2. k \in Packets /\ Said(k) /\ Other(Other(p)) = p
    BY OtherPeer DEF Dialogue, TypeOK
  <1>3. Honest(k, call[Other(p)], call[p], nextSeq[Other(p)]["signaling"],
               Seen(Other(p)), Answers(Other(p)))
    BY <1>2 DEF Said
  <1>4. call' = [call EXCEPT ![p] = d]
    BY DEF Receive
  <1>5. new \subseteq k.extras /\ \A e \in k.extras : e \in new \/ e \in processed[p]
    BY DEF NewExtras
  <1>6. Brought(p, k) <=> "init" \in new /\ fault[p] # "incompatible"
    BY DEF Brought
  <1> HIDE DEF new
  <1>7. Brings(c, a, {}) /\ a.receivedInit = c.receivedInit
    BY <1>1, PacketBrings
  <1> HIDE DEF a
  <1>8. /\ Brings(a, b, new)
        /\ b.receivedInit <=> a.receivedInit \/ Brought(p, k)
    BY <1>6, <1>7, ExtrasBring DEF Brings
  <1> HIDE DEF b
  <1>9. /\ d \in Calls /\ d.thread = b.thread
        /\ d.receivedInit = b.receivedInit /\ d.receivedInitAck = b.receivedInitAck
        /\ d.receivedFirst => b.receivedFirst \/ k.stream = "audio"
    BY <1>8, AudioBrings DEF Brings
  <1> HIDE DEF c, d
  <1>10. /\ d.thread = c.thread
         /\ d.receivedInit <=> c.receivedInit \/ Brought(p, k)
         /\ d.receivedInitAck <=> c.receivedInitAck \/ "initAck" \in new
         /\ d.receivedFirst => c.receivedFirst \/ k.stream = "audio"
    BY <1>7, <1>8, <1>9 DEF Brings
  <1>11. d.receivedInitAck <=> c.receivedInitAck \/ "initAck" \in k.extras
    BY <1>1, <1>5, <1>10 DEF Handled
  <1>12. k.stream = "audio" => d.receivedInitAck /\ call[Other(p)].receivedInitAck
    BY <1>3, <1>11 DEF Honest, c
  <1>13. d.receivedFirst => d.receivedInitAck
    BY <1>1, <1>10, <1>11, <1>12 DEF Handled
  <1>14. ASSUME Brought(p, k)
         PROVE  ~c.receivedInit /\ k.stream = "signaling" /\ "init" \in k.extras
    <2>1. "init" \in k.extras /\ "init" \notin processed[p]
      BY <1>14 DEF Brought, NewExtras
    <2>2. ~c.receivedInit
      BY <1>1, <2>1 DEF Handled
    <2>3. k.stream # "audio"
      BY <1>1, <1>12, <2>2 DEF Backed
    <2>4. k.stream \in {"signaling", "audio"}
      BY <1>2 DEF Packets, Streams
    <2> QED
      BY <2>1, <2>2, <2>3, <2>4
  <1>15. call'[p] = d /\ \A q \in Peers : q # p => call'[q] = call[q]
    BY <1>4 DEF Inv, Shape
  <1> QED
    BY <1>2, <1>3, <1>10, <1>11, <1>13, <1>14, <1>15 DEF c

\* What is received, acknowledged and sent in turn.
LEMMA AnsweredFacts ==
  ASSUME Inv, Dialogue, Inv', NEW p \in Peers, NEW k \in network, k.from = Other(p), Receive(p, k)
  PROVE  LET n == nextSeq[p]["signaling"]
             extras == currentExtras[p] \cup (IF Brought(p, k) THEN {"initAck"} ELSE {})
             newer == k.ack > acked[p][k.stream]
         IN  /\ Seen(p)' = Seen(p) \cup (IF k.stream = "signaling" THEN {k.seq} ELSE {})
             /\ processed'[p] = processed[p] \cup k.extras
             /\ acked'[p]["signaling"] =
                  IF k.stream = "signaling" /\ newer THEN k.ack ELSE acked[p]["signaling"]
             /\ currentExtras'[p] = extras \ (IF newer THEN Acknowledged(p, k) ELSE {})
             /\ reliable'[p] \subseteq reliable[p]
             /\ nextSeq'[p]["signaling"] = IF Brought(p, k) THEN n + 1 ELSE n
             /\ Answers(p)' = Answers(p) \cup (IF Brought(p, k) THEN {n} ELSE {})
             /\ \A r \in network' : r \in network \/
                  /\ Brought(p, k)
                  /\ r.from = p /\ r.stream = "signaling" /\ r.seq = n
                  /\ r.ack = Newest(Seen(p)') /\ r.extras = extras
             /\ \A q \in Peers : q # p =>
                  /\ nextSeq'[q] = nextSeq[q] /\ received'[q] = received[q]
                  /\ acked'[q] = acked[q] /\ currentExtras'[q] = currentExtras[q]
                  /\ carriers'[q] = carriers[q] /\ reliable'[q] = reliable[q]
                  /\ processed'[q] = processed[q]
             /\ TypeOK'
  <1> DEFINE n      == nextSeq[p]["signaling"]
             extras == currentExtras[p] \cup (IF Brought(p, k) THEN {"initAck"} ELSE {})
             seen   == [received[p] EXCEPT ![k.stream] = @ \cup {k.seq}]
             nop    == Prepared(p, "signaling", seen["signaling"], extras)
             newer  == k.ack > acked[p][k.stream]
             E      == extras \ (IF newer THEN Acknowledged(p, k) ELSE {})
             R      == IF newer THEN {r \in reliable[p] : r.seq # k.ack} ELSE reliable[p]
             A      == [acked[p] EXCEPT ![k.stream] = IF newer THEN k.ack ELSE @]
  <1>1. /\ k \in Packets /\ k.stream \in Streams /\ k.seq \in Seqs
        /\ k.ack \in {0} \cup Seqs /\ k.extras \subseteq Extras
    BY ReceivedFacts DEF Packets
  <1>2. /\ received' = [received EXCEPT ![p] = seen]
        /\ processed' = [processed EXCEPT ![p] = processed[p] \cup k.extras]
        /\ IF Brought(p, k) THEN Noted(p, nop) ELSE UNCHANGED <<nextSeq, carriers>>
        /\ \/ network' = network \ {k}
           \/ Brought(p, k) /\ network' = (network \ {k}) \cup {nop}
        /\ acked' = [acked EXCEPT ![p] = A]
        /\ currentExtras' = [currentExtras EXCEPT ![p] = E]
        /\ reliable' = [reliable EXCEPT ![p] = R]
        /\ fault' = fault
    BY DEF Receive, Brought
  <1>3. /\ received[p] \in [Streams -> SUBSET Seqs] /\ acked[p] \in [Streams -> {0} \cup Seqs]
        /\ currentExtras[p] \subseteq Extras /\ processed[p] \subseteq Extras
        /\ reliable[p] \subseteq Packets /\ n = 1 + Signaled(call[p])
    BY DialogueFacts
  <1>4. /\ seen \in [Streams -> SUBSET Seqs]
        /\ seen["signaling"] =
             received[p]["signaling"] \cup (IF k.stream = "signaling" THEN {k.seq} ELSE {})
    BY <1>1, <1>3 DEF Streams
  <1>5. /\ A \in [Streams -> {0} \cup Seqs]
        /\ A["signaling"] =
             IF k.stream = "signaling" /\ newer THEN k.ack ELSE acked[p]["signaling"]
    BY <1>1, <1>3 DEF Streams
  <1>6. E \subseteq Extras /\ extras \subseteq Extras /\ R \subseteq reliable[p]
    BY <1>3 DEF Extras
  <1>7. /\ received \in [Peers -> [Streams -> SUBSET Seqs]]
        /\ acked \in [Peers -> [Streams -> {0} \cup Seqs]]
        /\ currentExtras \in [Peers -> SUBSET Extras] /\ processed \in [Peers -> SUBSET Extras]
        /\ reliable \in [Peers -> SUBSET Packets] /\ network \subseteq Packets
        /\ nextSeq \in [Peers -> [Streams -> 1 .. MaxSeq + 1]]
        /\ carriers \in [Peers -> [Extras -> SUBSET Seqs]]
        /\ fault \in [Peers -> Faults]
    BY DEF Dialogue, TypeOK
  <1>8. Seen(p)' = seen["signaling"]
    BY <1>2, <1>7 DEF Seen
  <1>9. ASSUME Brought(p, k)
        PROVE  /\ nop \in Packets /\ nop.from = p /\ nop.stream = "signaling" /\ nop.seq = n
               /\ nop.ack = Newest(Seen(p)') /\ nop.extras = extras
    <2>1. ~call[p].receivedInit
      BY <1>9, ReceivedFacts
    <2>2. n \in Seqs
      BY <1>3, <2>1, Counts DEF Signaled
    <2>3. "signaling" \in Streams /\ seen["signaling"] \subseteq Seqs
      BY <1>4 DEF Streams
    <2> HIDE DEF seen, extras
    <2> QED
      BY <1>6, <1>8, <2>2, <2>3, PreparedFacts
  <1> HIDE DEF nop, E, R, A, seen, newer
  <1>10. /\ nextSeq' \in [Peers -> [Streams -> 1 .. MaxSeq + 1]]
         /\ carriers' \in [Peers -> [Extras -> SUBSET Seqs]]
         /\ nextSeq'[p]["signaling"] = IF Brought(p, k) THEN n + 1 ELSE n
         /\ \A q \in Peers : q # p => nextSeq'[q] = nextSeq[q] /\ carriers'[q] = carriers[q]
         /\ Answers(p)' = Answers(p) \cup (IF Brought(p, k) THEN {n} ELSE {})
    <2>1. CASE Brought(p, k)
      <3>1. Noted(p, nop) /\ nop \in Packets /\ nop.stream = "signaling" /\ nop.seq = n
        BY <1>2, <1>9, <2>1
      <3>2. nop.seq = nextSeq[p][nop.stream] /\ "initAck" \in nop.extras
        BY <1>9, <2>1, <3>1
      <3>3. /\ nextSeq' \in [Peers -> [Streams -> 1 .. MaxSeq + 1]]
            /\ carriers' \in [Peers -> [Extras -> SUBSET Seqs]]
            /\ nextSeq'[p][nop.stream] = nop.seq + 1
            /\ \A q \in Peers : q # p => nextSeq'[q] = nextSeq[q] /\ carriers'[q] = carriers[q]
            /\ Answers(p)' = Answers(p) \cup (IF "initAck" \in nop.extras THEN {nop.seq} ELSE {})
        BY <3>1, <3>2, NotedFacts
      <3> HIDE DEF n
      <3> QED
        BY <2>1, <3>1, <3>2, <3>3
    <2>2. CASE ~Brought(p, k)
      <3>1. nextSeq' = nextSeq /\ carriers' = carriers
        BY <1>2, <2>2
      <3> QED
        BY <1>7, <2>2, <3>1 DEF Answers
    <2> QED
      BY <2>1, <2>2
  <1>11. ASSUME NEW r \in network'
         PROVE  r \in network \/ (r = nop /\ Brought(p, k))
    BY <1>2, <1>11
  <1>12. /\ received' \in [Peers -> [Streams -> SUBSET Seqs]]
         /\ acked' \in [Peers -> [Streams -> {0} \cup Seqs]]
         /\ currentExtras' \in [Peers -> SUBSET Extras]
         /\ processed' \in [Peers -> SUBSET Extras]
         /\ reliable' \in [Peers -> SUBSET Packets]
    BY <1>1, <1>2, <1>3, <1>4, <1>5, <1>6, <1>7
  <1>13. network' \subseteq Packets /\ call' \in [Peers -> Calls] /\ fault' \in [Peers -> Faults]
    BY <1>2, <1>7, <1>9, <1>11 DEF Inv, Shape
  <1>14. TypeOK'
    BY <1>10, <1>12, <1>13 DEF TypeOK
  <1>15. /\ processed'[p] = processed[p] \cup k.extras
         /\ acked'[p] = A /\ currentExtras'[p] = E /\ reliable'[p] = R
         /\ \A q \in Peers : q # p =>
              /\ received'[q] = received[q] /\ acked'[q] = acked[q]
              /\ currentExtras'[q] = currentExtras[q] /\ reliable'[q] = reliable[q]
              /\ processed'[q] = processed[q]
    BY <1>2, <1>7
  <1>16. Seen(p)' = Seen(p) \cup (IF k.stream = "signaling" THEN {k.seq} ELSE {})
    BY <1>4, <1>8 DEF Seen
  <1>17. acked'[p]["signaling"] =
           IF k.stream = "signaling" /\ newer THEN k.ack ELSE acked[p]["signaling"]
    BY <1>5, <1>15
  <1>18. currentExtras'[p] = extras \ (IF newer THEN Acknowledged(p, k) ELSE {})
    BY <1>15 DEF E
  <1>19. \A r \in network' : r \in network \/
           /\ Brought(p, k)
           /\ r.from = p /\ r.stream = "signaling" /\ r.seq = n
           /\ r.ack = Newest(Seen(p)') /\ r.extras = extras
    BY <1>9, <1>11
  <1> QED
    BY <1>6, <1>10, <1>14, <1>15, <1>16, <1>17, <1>18, <1>19 DEF newer

\* The answer leaves the queue only when the peer has it.
LEMMA AnswerStays ==
  ASSUME Inv, Dialogue, Inv', NEW p \in Peers, NEW k \in network, k.from = Other(p), Receive(p, k)
  PROVE  Answering(call'[p], call[Other(p)], currentExtras'[p], nextSeq'[p]["signaling"],
                   acked'[p]["signaling"], Seen(Other(p)), Answers(p)')
  <1> DEFINE c == call[p]
             o == call[Other(p)]
             d == call'[p]
             n == nextSeq[p]["signaling"]
             last == acked[p]["signaling"]
             S == Seen(Other(p))
             brought == Brought(p, k)
             newer == k.ack > acked[p][k.stream]
             extras == currentExtras[p] \cup (IF brought THEN {"initAck"} ELSE {})
  <1>1. Answering(c, o, currentExtras[p], n, last, S, Answers(p))
    BY DialogueFacts
  <1>2. /\ n \in Nat /\ last \in Nat /\ k.ack \in Nat /\ acked[p][k.stream] \in Nat
        /\ S \subseteq Nat /\ Answers(p) \subseteq Nat
        /\ k.stream \in {"signaling", "audio"}
    <2>1. k \in Packets
      BY ReceivedFacts
    <2>2. /\ k.ack \in {0} \cup Seqs /\ k.stream \in {"signaling", "audio"}
          /\ k.stream \in Streams /\ "signaling" \in Streams
      BY <2>1 DEF Packets, Streams
    <2>3. acked[p] \in [Streams -> {0} \cup Seqs] /\ n = 1 + Signaled(c)
      BY DialogueFacts
    <2>4. S \subseteq Seqs /\ Answers(p) \subseteq Seqs
      BY DialogueFacts, OtherPeer
    <2>5. S \subseteq Nat /\ Answers(p) \subseteq Nat /\ n \in Nat
      <3>1. Signaled(c) \in {0, 1, 2} /\ Seqs \subseteq Nat
        BY Counts
      <3>2. n \in Nat
        BY <2>3, <3>1
      <3> QED
        BY <2>4, <3>1, <3>2
    <2>6. \A i \in {0} \cup Seqs : i \in Nat
      BY Counts
    <2>7. last \in Nat /\ k.ack \in Nat /\ acked[p][k.stream] \in Nat
      BY <2>2, <2>3, <2>6
    <2> QED
      BY <2>2, <2>5, <2>7
  <1>3. Honest(k, o, c, nextSeq[Other(p)]["signaling"], S, Answers(Other(p)))
    BY ReceivedFacts
  <1>4. /\ d.receivedInit <=> c.receivedInit \/ brought
        /\ d.receivedInitAck <=> c.receivedInitAck \/ "initAck" \in k.extras
        /\ brought => ~c.receivedInit
    BY ReceivedFacts
  <1>5. Truthful(c, currentExtras[p])
    BY DialogueFacts
  <1>6. /\ acked'[p]["signaling"] = IF k.stream = "signaling" /\ newer THEN k.ack ELSE last
        /\ currentExtras'[p] = extras \ (IF newer THEN Acknowledged(p, k) ELSE {})
        /\ nextSeq'[p]["signaling"] = IF brought THEN n + 1 ELSE n
        /\ Answers(p)' = Answers(p) \cup (IF brought THEN {n} ELSE {})
    BY AnsweredFacts
  <1>7. "initAck" \in Acknowledged(p, k) <=>
          "initAck" \in currentExtras[p] /\ k.ack \in Answers(p)
    BY DEF Acknowledged, Answers
  <1> HIDE DEF c, o, d, n, last, S, brought, extras
  <1>8. ASSUME newer, "initAck" \in Acknowledged(p, k)
        PROVE  o.receivedInitAck
    <2>1. CASE k.stream = "audio"
      BY <1>3, <2>1 DEF Honest
    <2>2. CASE k.stream = "signaling"
      <3>1. k.ack \in S /\ k.ack \in Answers(p) /\ k.ack > last
        BY <1>2, <1>3, <1>7, <1>8, <2>2 DEF Honest, last
      <3>2. c.receivedInitAck \/ o.receivedInitAck
        BY <1>1, <3>1 DEF Answering
      <3>3. c.receivedInitAck => last >= 1 \/ o.receivedInitAck
        BY <1>1 DEF Answering
      <3>4. last >= 1 => k.ack # 1
        BY <1>2, <3>1
      <3>5. k.ack # 1 => o.receivedInitAck
        BY <1>1, <3>1 DEF Answering
      <3> QED
        BY <3>2, <3>3, <3>4, <3>5
    <2> QED
      BY <1>2, <2>1, <2>2
  <1>9. d.receivedInit => "initAck" \in currentExtras'[p] \/ o.receivedInitAck
    <2>1. CASE c.receivedInit
      <3>1. "initAck" \in currentExtras[p] \/ o.receivedInitAck
        BY <1>1, <2>1 DEF Answering
      <3> QED
        BY <1>6, <1>8, <3>1 DEF extras
    <2>2. CASE brought
      <3>1. "initAck" \notin Acknowledged(p, k)
        BY <1>4, <1>5, <1>7, <2>2 DEF Truthful
      <3> QED
        BY <1>6, <2>2, <3>1 DEF extras
    <2> QED
      BY <1>4, <2>1, <2>2
  <1>10. d.receivedInitAck => acked'[p]["signaling"] >= 1 \/ o.receivedInitAck
    <2>1. acked'[p]["signaling"] >= last
      BY <1>2, <1>6 DEF last
    <2>2. acked'[p]["signaling"] \in Nat
      BY <1>2, <1>6
    <2>3. CASE c.receivedInitAck
      <3>1. last >= 1 \/ o.receivedInitAck
        BY <1>1, <2>3 DEF Answering
      <3> QED
        BY <1>2, <2>1, <2>2, <3>1
    <2>4. CASE "initAck" \in k.extras
      <3>1. CASE k.stream = "audio"
        BY <1>3, <3>1 DEF Honest
      <3>2. CASE k.stream = "signaling"
        <4>1. k.ack >= 1
          BY <1>3, <2>4, <3>2 DEF Honest
        <4>2. acked'[p]["signaling"] >= k.ack
          BY <1>2, <1>6, <3>2 DEF last
        <4> QED
          BY <1>2, <2>2, <4>1, <4>2
      <3> QED
        BY <1>2, <3>1, <3>2
    <2> QED
      BY <1>4, <2>3, <2>4
  <1>11. /\ \A i \in S : i < nextSeq'[p]["signaling"] /\ (i # 1 => o.receivedInitAck)
         /\ \A i \in Answers(p)' : i < nextSeq'[p]["signaling"] \/ d.receivedInitAck
         /\ \A i \in Answers(p)' \cap S : d.receivedInitAck \/ o.receivedInitAck
    <2>1. \A i \in S : i < nextSeq'[p]["signaling"] /\ (i # 1 => o.receivedInitAck)
      BY <1>1, <1>2, <1>6 DEF Answering
    <2>2. \A i \in Answers(p)' : i < nextSeq'[p]["signaling"] \/ d.receivedInitAck
      BY <1>1, <1>2, <1>4, <1>6 DEF Answering
    <2>3. n \notin S
      BY <1>1, <1>2 DEF Answering
    <2>4. \A i \in Answers(p)' \cap S : d.receivedInitAck \/ o.receivedInitAck
      BY <1>1, <1>4, <1>6, <2>3 DEF Answering
    <2> QED
      BY <2>1, <2>2, <2>4
  <1> QED
    BY <1>9, <1>10, <1>11 DEF Answering, d, o, S

\* A new packet: what it acknowledges, brings and makes the peer answer.
LEMMA ReceiveDialogue ==
  ASSUME Inv, Dialogue, Inv', NEW p \in Peers, NEW k \in network, k.from = Other(p), Receive(p, k)
  PROVE  Dialogue'
  <1> DEFINE c == call[p]
             o == call[Other(p)]
             d == call'[p]
             n == nextSeq[p]["signaling"]
             brought == Brought(p, k)
             extras == currentExtras[p] \cup (IF brought THEN {"initAck"} ELSE {})
  <1>1. Answering(d, o, currentExtras'[p], nextSeq'[p]["signaling"],
                  acked'[p]["signaling"], Seen(Other(p)), Answers(p)')
    BY AnswerStays
  <1>2. /\ n = 1 + Signaled(c) /\ Handled(c, Seen(p), processed[p])
        /\ n \in Nat /\ Seen(p) \subseteq Seqs
    BY DialogueFacts, Counts
  <1>3. /\ Honest(k, o, c, nextSeq[Other(p)]["signaling"], Seen(Other(p)), Answers(Other(p)))
        /\ d.thread = c.thread
        /\ d.receivedInit <=> c.receivedInit \/ brought
        /\ d.receivedInitAck <=> c.receivedInitAck \/ "initAck" \in k.extras
        /\ d.receivedFirst => d.receivedInitAck
        /\ brought => ~c.receivedInit /\ k.stream = "signaling" /\ "init" \in k.extras
        /\ k \in Packets
        /\ \A q \in Peers : q # p => call'[q] = call[q]
    BY ReceivedFacts
  <1>4. /\ Seen(p)' = Seen(p) \cup (IF k.stream = "signaling" THEN {k.seq} ELSE {})
        /\ processed'[p] = processed[p] \cup k.extras
        /\ reliable'[p] \subseteq reliable[p]
        /\ nextSeq'[p]["signaling"] = IF brought THEN n + 1 ELSE n
        /\ Answers(p)' = Answers(p) \cup (IF brought THEN {n} ELSE {})
        /\ \A r \in network' : r \in network \/
             /\ brought
             /\ r.from = p /\ r.stream = "signaling" /\ r.seq = n
             /\ r.ack = Newest(Seen(p)') /\ r.extras = extras
        /\ \A q \in Peers : q # p =>
             /\ nextSeq'[q] = nextSeq[q] /\ received'[q] = received[q]
             /\ acked'[q] = acked[q] /\ currentExtras'[q] = currentExtras[q]
             /\ carriers'[q] = carriers[q] /\ reliable'[q] = reliable[q]
             /\ processed'[q] = processed[q]
        /\ TypeOK'
    BY AnsweredFacts
  <1> HIDE DEF c, o, d, n, brought, extras
  <1>5. n \in Nat /\ n <= nextSeq'[p]["signaling"]
    BY <1>2, <1>4
  <1>6. Handled(d, Seen(p)', processed'[p])
    BY <1>2, <1>3, <1>4 DEF Handled
  <1>7. nextSeq'[p]["signaling"] = 1 + Signaled(d)
    BY <1>2, <1>3, <1>4 DEF Signaled
  <1>8. Seen(p)' \subseteq Seqs
    BY <1>2, <1>3, <1>4 DEF Packets
  <1>9. ASSUME NEW r \in network', r \notin network
        PROVE  r.from = p /\ Said(r)'
    <2>1. /\ brought
          /\ r.from = p /\ r.stream = "signaling" /\ r.seq = n
          /\ r.ack = Newest(Seen(p)') /\ r.extras = extras
      BY <1>4, <1>9
    <2>2. Seen(p)' # {}
      BY <1>3, <1>4, <2>1
    <2>3. r.ack \in Seen(p)' /\ r.ack \in Seqs
      <3> DEFINE T == Seen(p)'
      <3>1. T \subseteq Seqs /\ T # {} /\ r.ack = Newest(T)
        BY <1>8, <2>1, <2>2
      <3> HIDE DEF T
      <3>2. r.ack \in T /\ r.ack \in Seqs
        BY <3>1, NewestFacts
      <3> QED
        BY <3>2 DEF T
    <2>4. r.ack >= 1 /\ n < nextSeq'[p]["signaling"] /\ "initAck" \in r.extras
      BY <1>4, <1>5, <2>1, <2>3, Counts DEF Seqs, extras
    <2>5. Honest(r, d, call'[Other(p)], nextSeq'[p]["signaling"], Seen(p)', Answers(p)')
      BY <2>1, <2>3, <2>4 DEF Honest
    <2> QED
      BY <2>1, <2>5 DEF Said, d
  <1>10. ASSUME NEW i \in Seen(p)', i \notin Seen(p)
         PROVE  /\ i < nextSeq[Other(p)]["signaling"]
                /\ i # 1 => d.receivedInitAck
                /\ i \in Answers(Other(p)) => o.receivedInitAck \/ d.receivedInitAck
    <2>1. k.stream = "signaling" /\ i = k.seq
      BY <1>4, <1>10
    <2> QED
      BY <1>3, <2>1 DEF Honest
  <1>11. \A i \in Answers(p)' : i \in Answers(p) \/ i >= n
    BY <1>4, <1>5
  <1>12. Seen(p) \subseteq Seen(p)' /\ (c.receivedInitAck => d.receivedInitAck)
    BY <1>3, <1>4
  <1>13. \A r \in reliable'[p] : r \in reliable[p] \/ (r.stream = "signaling" /\ Said(r)')
    BY <1>4
  <1>14. \A q \in Peers : q # p =>
           /\ call'[q] = call[q] /\ nextSeq'[q] = nextSeq[q] /\ received'[q] = received[q]
           /\ acked'[q] = acked[q] /\ currentExtras'[q] = currentExtras[q]
           /\ carriers'[q] = carriers[q] /\ reliable'[q] = reliable[q]
           /\ processed'[q] = processed[q]
    BY <1>3, <1>4
  <1>15. /\ call[p].receivedInitAck => call'[p].receivedInitAck
         /\ nextSeq[p]["signaling"] <= nextSeq'[p]["signaling"]
         /\ Seen(p) \subseteq Seen(p)' /\ TypeOK'
    BY <1>4, <1>5, <1>12 DEF c, d, n
  <1>16. \A i \in Answers(p)' :
           i \in Answers(p) \/ i >= nextSeq[p]["signaling"] \/ call'[p].receivedInitAck
    BY <1>11 DEF n
  <1>17. \A i \in Seen(p)' : i \notin Seen(p) =>
           /\ i < nextSeq[Other(p)]["signaling"]
           /\ i # 1 => call'[p].receivedInitAck
           /\ i \in Answers(Other(p)) =>
                call[Other(p)].receivedInitAck \/ call'[p].receivedInitAck
    BY <1>10 DEF o, d
  <1>18. /\ nextSeq'[p]["signaling"] = 1 + Signaled(call'[p])
         /\ Handled(call'[p], Seen(p)', processed'[p])
         /\ Answering(call'[p], call[Other(p)], currentExtras'[p], nextSeq'[p]["signaling"],
                      acked'[p]["signaling"], Seen(Other(p)), Answers(p)')
    BY <1>1, <1>6, <1>7 DEF o, d
  <1>19. \A r \in network' : r \in network \/ r \in reliable[p] \/ (r.from = p /\ Said(r)')
    BY <1>9
  <1> QED
    BY <1>13, <1>14, <1>15, <1>16, <1>17, <1>18, <1>19, DialogueStep

-----------------------------------------------------------------------------
(* Theorems                                                                *)

\* Before the call nothing was sent.
LEMMA InitDialogue ==
  ASSUME Init
  PROVE  Dialogue
  <1>1. /\ call = [p \in Peers |-> NewCall] /\ NewCall \in Calls
        /\ NewCall.thread = "none" /\ ~NewCall.receivedInit /\ ~NewCall.receivedInitAck
        /\ ~NewCall.receivedFirst
    BY DEF Init, NewCall, Calls, States
  <1>2. 1 \in 1 .. MaxSeq + 1
    BY Counts
  <1>3. "signaling" \in Streams /\ "initAck" \in Extras
    BY DEF Streams, Extras
  <1> HIDE DEF NewCall
  <1>4. TypeOK
    BY <1>1, <1>2 DEF Init, TypeOK
  <1>5. ASSUME NEW p \in Peers
        PROVE  /\ nextSeq[p]["signaling"] = 1 + Signaled(call[p])
               /\ Handled(call[p], Seen(p), processed[p])
               /\ Answering(call[p], call[Other(p)], currentExtras[p], nextSeq[p]["signaling"],
                            acked[p]["signaling"], Seen(Other(p)), Answers(p))
               /\ reliable[p] = {}
    <2>1. call[p] = NewCall /\ processed[p] = {} /\ reliable[p] = {}
      BY <1>1 DEF Init
    <2>2. nextSeq[p]["signaling"] = 1 /\ Answers(p) = {} /\ Seen(Other(p)) = {}
      BY <1>3, OtherPeer DEF Init, Answers, Seen
    <2> QED
      BY <1>1, <2>1, <2>2 DEF Signaled, Handled, Answering
  <1>6. network = {}
    BY DEF Init
  <1> QED
    BY <1>4, <1>5, <1>6 DEF Dialogue

\* Every step keeps the second invariant.
LEMMA NextDialogue ==
  ASSUME Inv, Dialogue, Inv', [Next]_vars
  PROVE  Dialogue'
  <1>1. CASE UNCHANGED vars
    BY <1>1 DEF vars, exchange, Dialogue, TypeOK, Said, Seen, Answers
  <1>2. ASSUME NEW p \in Peers, NetworkPacketReceived(p)
        PROVE  Dialogue'
    BY <1>2, ReceiveDialogue, AgainDialogue DEF NetworkPacketReceived
  <1>3. CASE Next
    BY <1>2, <1>3, InsideDialogue, RepeatDialogue, SendInitDialogue, SendFrameDialogue DEF Next
  <1> QED
    BY <1>1, <1>3

\* The second inductive invariant, relative to the first: what the numbers and the
\* acknowledgements of both ends say about the answer.
THEOREM DialogueInvariance == Spec => []Dialogue
  <1>1. Inv /\ Dialogue /\ Inv' /\ [Next]_vars => Dialogue'
    BY NextDialogue
  <1>2. QED
    BY <1>1, InitDialogue, Invariance, PTL DEF Spec

\* Every variable keeps its type; above all no more than two signaling packets are sent.
THEOREM TypeCorrect == Spec => []TypeOK
  <1>1. Dialogue => TypeOK
    BY DEF Dialogue
  <1>2. QED
    BY <1>1, DialogueInvariance, PTL

\* The first audio finds its stream, whichever packets were lost or came late: what carries
\* audio carries the answer that announces the stream, until the peer has it.
THEOREM AudioFindsStream == Spec => []AudioFindsItsStream
  <1>1. Dialogue => AudioFindsItsStream
    BY DEF Dialogue, Handled, AudioFindsItsStream
  <1>2. QED
    BY <1>1, DialogueInvariance, PTL
=============================================================================
