-------------------------- MODULE ConnectivityProofs --------------------------
(***************************************************************************)
(* The endpoint in use exists whatever was switched to, and the UDP pings  *)
(* are one chain of messages, for any relays and any bounds.               *)
(***************************************************************************)
EXTENDS Connectivity, TLAPS

\* What is selected is stored, and the records stored under relays' ids are relays'.
Fit(eps, current, preferred) ==
  /\ DOMAIN eps \subseteq Ids /\ eps \in [DOMAIN eps -> DOMAIN eps]
  /\ \A k \in DOMAIN eps : IsReflector(k) => IsReflector(eps[k])
  /\ current \in DOMAIN eps /\ preferred \in DOMAIN eps /\ IsReflector(preferred)

\* How many messages of the pings there are that were not called yet.
InBatch == IF batch = "none" THEN 0 ELSE 1
Messages == queued["pings"] + queued["evaluation"] + InBatch

\* One of these messages is tracked, or else each of them outlived its cancelling; and so
\* did one that is left in a batch.
Chain ==
  /\ Messages <= 1 + missed
  /\ tracked = "none" => Messages <= missed
  /\ batch # "none" => missed > 0

\* While nothing outlived its cancelling, an evaluation is queued when it is its turn.
EvaluationInTime ==
  missed = 0 /\ queued["evaluation"] > 0 => udpPingCount \in EvaluatedCounts

Inv ==
  /\ SelectionOK /\ ProtocolsOK /\ TimersOK
  /\ Fit(endpoints, currentEndpoint, preferredRelay)
  /\ Chain /\ EvaluationInTime

-------------------------------------------------------------------------------
(* The chain of pings                                                          *)

Total(q) == q["pings"] + q["evaluation"]

TimerInv == TimersOK /\ Chain /\ EvaluationInTime

\* Posting adds one message, of the kind that is posted.
LEMMA PostedCounts ==
  ASSUME NEW q \in [Kinds -> Nat], NEW kind \in Kinds
  PROVE  /\ Posted(q, kind) \in [Kinds -> Nat]
         /\ Posted(q, kind)[kind] = q[kind] + 1
         /\ \A k \in Kinds \ {kind} : Posted(q, kind)[k] = q[k]
         /\ Total(Posted(q, kind)) = Total(q) + 1
  BY DEF Posted, Total, Kinds

\* What is called, from wherever, is one message less, and what is tracked stays in the
\* queue unless it is the one that is called.
LEMMA CalledIsOneLess ==
  ASSUME TimersOK, NEW kind \in Kinds, NEW source \in Sources, Called(kind, source),
         NEW rest, rest = Removed(kind, source)
  PROVE  /\ rest \in [Kinds -> Nat]
         /\ Messages \in Nat /\ Total(rest) = Messages - 1
         /\ \A k \in Kinds : rest[k] <= queued[k]
         /\ tracked \in Kinds /\ source # "tracked" => rest[tracked] > 0
         /\ source = "tracked" => tracked = kind
         /\ batch # "none" => source = "batch"
  <1>1. CASE source = "batch"
    BY <1>1 DEF TimersOK, Removed, Called, Total, Messages, InBatch, Kinds
  <1>2. CASE source # "batch"
    <2>1. batch = "none" /\ queued[kind] > 0 /\ queued \in [Kinds -> Nat]
      BY <1>2 DEF TimersOK, Called, Sources, Kinds
    <2>2. rest = [queued EXCEPT ![kind] = @ - 1]
      BY <1>2 DEF Removed
    <2>3. Total(rest) = Total(queued) - 1 /\ Total(queued) \in Nat
      BY <2>1, <2>2 DEF Total, Kinds
    <2>4. ASSUME tracked \in Kinds, source # "tracked"
          PROVE  rest[tracked] > 0
      <3>1. queued[tracked] > 0 /\ source = "other"
        BY <1>2, <2>4 DEF TimersOK, Sources
      <3>2. CASE tracked = kind
        BY <2>1, <2>2, <3>1, <3>2 DEF Called, Kinds
      <3>3. CASE tracked # kind
        BY <2>1, <2>2, <2>4, <3>1, <3>3
      <3> QED
        BY <3>2, <3>3
    <2>5. rest \in [Kinds -> Nat] /\ \A k \in Kinds : rest[k] <= queued[k]
      BY <2>1, <2>2
    <2>6. source = "tracked" => tracked = kind
      BY DEF Called
    <2> QED
      BY <2>1, <2>3, <2>4, <2>5, <2>6 DEF Messages, InBatch, Total
  <1> QED
    BY <1>1, <1>2

\* Cancelling what is tracked takes one message, if there is one; and the pings posted
\* then are the only message that nothing has outlived.
LEMMA ResetKeepsChain ==
  ASSUME TimersOK, Chain, ResetUdpAvailability,
         changes' \in 0 .. MaxChanges, started' \in BOOLEAN
  PROVE  TimersOK' /\ Chain' /\ EvaluationInTime'
  <1> DEFINE rest == WithoutTracked
  <1>1. /\ rest \in [Kinds -> Nat] /\ Total(queued) \in Nat
        /\ Total(rest) = IF tracked = "none" THEN Total(queued) ELSE Total(queued) - 1
    BY DEF TimersOK, WithoutTracked, Total, Kinds
  <1>2. /\ queued' \in [Kinds -> Nat] /\ queued'["pings"] > 0
        /\ Total(queued') = Total(rest) + 1
    <2>1. "pings" \in Kinds
      BY DEF Kinds
    <2>2. queued' = Posted(rest, "pings")
      BY DEF ResetUdpAvailability
    <2> HIDE DEF rest
    <2> QED
      BY <1>1, <2>1, <2>2, PostedCounts
  <1>3. missed' \in 0 .. MaxMissed /\ batch' \in Kinds \cup {"none"} /\ missed \in Nat
    BY ConnectivityAssumption DEF TimersOK, ResetUdpAvailability
  <1>4. /\ tracked' = "pings" /\ udpPingCount' = 0
        /\ udpConnectivityState' = "UDP_PING_PENDING"
    BY DEF ResetUdpAvailability, Restarted
  <1>5. TimersOK'
    BY <1>2, <1>3, <1>4 DEF TimersOK, Kinds, Pending, MaxPings
  <1>6. Chain'
    <2>1. CASE UNCHANGED <<batch, missed>>
      BY <1>1, <1>2, <1>3, <1>4, <2>1 DEF Chain, Messages, Total, InBatch
    <2>2. CASE tracked # "none" /\ batch = "none" /\ batch' = tracked /\ missed' = missed + 1
      BY <1>1, <1>2, <1>3, <1>4, <2>2 DEF Chain, Messages, Total, InBatch
    <2> QED
      BY <2>1, <2>2 DEF ResetUdpAvailability
  <1>7. EvaluationInTime'
    BY <1>2, <1>3, <1>6 DEF Chain, EvaluationInTime, Messages, InBatch, Kinds
  <1> QED
    BY <1>5, <1>6, <1>7

\* A ping posts its successor, the next ping or the evaluation.
LEMMA SendUdpPingsTimers ==
  ASSUME TimerInv, NEW source \in Sources, SendUdpPings(source)
  PROVE  TimerInv'
  <1> DEFINE rest == Removed("pings", source)
             evaluates == udpPingCount + 1 \in EvaluatedCounts
             next == IF evaluates THEN "evaluation" ELSE "pings"
  <1>1. /\ rest \in [Kinds -> Nat] /\ Messages \in Nat /\ Total(rest) = Messages - 1
        /\ \A k \in Kinds : rest[k] <= queued[k]
        /\ tracked \in Kinds /\ source # "tracked" => rest[tracked] > 0
        /\ source = "tracked" => tracked = "pings"
        /\ batch # "none" => source = "batch"
    BY CalledIsOneLess DEF TimerInv, Kinds, SendUdpPings
  <1>2. next \in Kinds
    BY DEF Kinds
  <1>3. queued' = Posted(rest, next)
    BY DEF SendUdpPings, QueuedNext
  <1>4. /\ queued' \in [Kinds -> Nat] /\ queued'[next] = rest[next] + 1
        /\ \A k \in Kinds \ {next} : queued'[k] = rest[k]
        /\ Total(queued') = Messages
    <2> HIDE DEF rest, next
    <2>1. Total(Posted(rest, next)) = Total(rest) + 1
      BY <1>1, <1>2, PostedCounts
    <2> QED
      BY <1>1, <1>2, <1>3, <2>1, PostedCounts
  <1>5. tracked' = (IF evaluates THEN "evaluation" ELSE tracked) /\ batch' = "none"
    BY DEF SendUdpPings
  <1>6. missed' = missed /\ missed \in Nat /\ changes' = changes /\ started' = started
    BY ConnectivityAssumption DEF SendUdpPings, timers, TimerInv, TimersOK
  <1>7. udpPingCount' \in 0 .. MaxPings /\ (evaluates => udpPingCount' \in EvaluatedCounts)
    BY DEF SendUdpPings, TimerInv, TimersOK, MaxPings, EvaluatedCounts
  <1>8. udpConnectivityState' \in Verdicts \cup Pending \cup {"UDP_UNKNOWN"}
    BY DEF SendUdpPings, TimerInv, TimersOK, Pending
  <1>9. tracked' \in Kinds => queued'[tracked'] > 0
    <2>1. CASE evaluates
      BY <1>1, <1>4, <1>5, <2>1 DEF Kinds
    <2>2. CASE ~evaluates
      <3>1. queued'["pings"] = rest["pings"] + 1 /\ queued'["evaluation"] = rest["evaluation"]
        BY <1>4, <2>2 DEF Kinds
      <3>2. tracked' = tracked /\ tracked \in Kinds \cup {"none"}
        BY <1>5, <2>2 DEF TimerInv, TimersOK
      <3> HIDE DEF rest
      <3> QED
        BY <1>1, <3>1, <3>2 DEF Kinds
    <2> QED
      BY <2>1, <2>2
  <1>10. TimersOK'
    <2>1. tracked' \in Kinds \cup {"none"}
      BY <1>5 DEF TimerInv, TimersOK, Kinds
    <2> QED
      BY <1>4, <1>5, <1>6, <1>7, <1>8, <1>9, <2>1 DEF TimerInv, TimersOK
  <1>11. Messages' = Messages
    BY <1>1, <1>4, <1>5 DEF Messages, InBatch, Total
  <1>12. Chain'
    BY <1>5, <1>6, <1>11 DEF TimerInv, Chain
  <1>13. EvaluationInTime'
    <2> SUFFICES ASSUME missed = 0, queued'["evaluation"] > 0, ~evaluates
                 PROVE  FALSE
      BY <1>6, <1>7 DEF EvaluationInTime
    <2>1. queued'["pings"] = rest["pings"] + 1 /\ queued'["evaluation"] = rest["evaluation"]
      BY <1>4 DEF Kinds
    <2>2. Messages <= 1
      BY DEF TimerInv, Chain
    <2>3. rest["pings"] \in Nat /\ rest["evaluation"] \in Nat
      BY <1>1 DEF Kinds
    <2> HIDE DEF rest
    <2> QED
      BY <1>1, <2>1, <2>2, <2>3 DEF Total
  <1> QED
    BY <1>10, <1>12, <1>13 DEF TimerInv

\* An evaluation posts the next ping, or ends the chain.
LEMMA EvaluateTimers ==
  ASSUME TimerInv, NEW source \in Sources, EvaluateUdpPingResults(source)
  PROVE  TimerInv'
  <1> DEFINE rest == Removed("evaluation", source)
  <1>1. /\ rest \in [Kinds -> Nat] /\ Messages \in Nat /\ Total(rest) = Messages - 1
        /\ \A k \in Kinds : rest[k] <= queued[k]
        /\ tracked \in Kinds /\ source # "tracked" => rest[tracked] > 0
        /\ source = "tracked" => tracked = "evaluation"
        /\ batch # "none" => source = "batch"
    BY CalledIsOneLess DEF TimerInv, Kinds, EvaluateUdpPingResults
  <1>2. rest["pings"] \in Nat /\ rest["evaluation"] \in Nat
    BY <1>1 DEF Kinds
  <1>3. /\ batch' = "none" /\ missed' = missed /\ missed \in Nat /\ changes' = changes
        /\ started' = started /\ udpPingCount' = udpPingCount
    BY ConnectivityAssumption DEF EvaluateUdpPingResults, TimerInv, TimersOK
  <1>4. \/ queued' = rest /\ tracked' = "none"
        \/ queued' = rest /\ tracked' = tracked /\ source # "tracked"
        \/ queued' = Posted(rest, "pings") /\ tracked' = "pings"
    BY DEF EvaluateUdpPingResults, NoMorePings, UdpNotAvailable, UdpBad
  <1>5. udpConnectivityState' \in Verdicts
    BY DEF EvaluateUdpPingResults, NoMorePings, UdpNotAvailable, UdpBad, Verdicts
  <1>6. /\ queued' \in [Kinds -> Nat] /\ tracked' \in Kinds \cup {"none"}
        /\ tracked' \in Kinds => queued'[tracked'] > 0
        /\ queued'["evaluation"] = rest["evaluation"]
        /\ \/ Total(queued') = Messages - 1 /\ (tracked' = "none" => TRUE)
           \/ Total(queued') = Messages /\ tracked' = "pings"
    <2> HIDE DEF rest
    <2>1. CASE queued' = rest /\ tracked' = "none"
      BY <1>1, <2>1 DEF Kinds
    <2>2. CASE queued' = rest /\ tracked' = tracked /\ source # "tracked"
      BY <1>1, <2>2 DEF TimerInv, TimersOK
    <2>3. CASE queued' = Posted(rest, "pings") /\ tracked' = "pings"
      <3>1. "pings" \in Kinds /\ "evaluation" \in Kinds \ {"pings"}
        BY DEF Kinds
      <3>2. /\ Posted(rest, "pings") \in [Kinds -> Nat]
            /\ Posted(rest, "pings")["pings"] = rest["pings"] + 1
            /\ Posted(rest, "pings")["evaluation"] = rest["evaluation"]
            /\ Total(Posted(rest, "pings")) = Total(rest) + 1
        BY <1>1, <3>1, PostedCounts
      <3> QED
        BY <1>1, <1>2, <2>3, <3>1, <3>2
    <2> QED
      BY <1>4, <2>1, <2>2, <2>3
  <1>7. TimersOK'
    BY <1>3, <1>5, <1>6 DEF TimerInv, TimersOK, Kinds
  <1>8. Chain'
    <2>1. Messages' = Total(queued')
      BY <1>3, <1>6 DEF Messages, InBatch, Total, Kinds
    <2> QED
      BY <1>1, <1>3, <1>6, <2>1 DEF TimerInv, Chain
  <1>9. EvaluationInTime'
    <2> HIDE DEF rest
    <2> QED
      BY <1>1, <1>2, <1>3, <1>6 DEF TimerInv, Chain, EvaluationInTime, Total
  <1> QED
    BY <1>7, <1>8, <1>9 DEF TimerInv

\* The receive thread posts a ping; a message tracked until then counts as missed.
LEMMA StartPingsTimers ==
  ASSUME TimerInv, StartPings
  PROVE  TimerInv'
  <1>1. "pings" \in Kinds /\ queued \in [Kinds -> Nat] /\ queued' = Posted(queued, "pings")
    BY DEF TimerInv, TimersOK, StartPings, Kinds
  <1>2. /\ queued' \in [Kinds -> Nat] /\ queued'["pings"] > 0
        /\ Total(queued') = Total(queued) + 1 /\ Total(queued) \in Nat
    <2>1. queued["pings"] \in Nat /\ queued["evaluation"] \in Nat
      BY <1>1 DEF Kinds
    <2> QED
      BY <1>1, <2>1, PostedCounts DEF Total
  <1>3. tracked' = "pings" /\ batch' = batch /\ udpPingCount' = udpPingCount
    BY DEF StartPings
  <1>4. /\ missed \in Nat /\ missed' \in 0 .. MaxMissed
        /\ IF tracked = "none" THEN missed' = missed ELSE missed' = missed + 1
    BY ConnectivityAssumption DEF TimerInv, TimersOK, StartPings
  <1>5. TimersOK'
    BY <1>2, <1>3, <1>4 DEF TimerInv, TimersOK, StartPings, Pending, Kinds
  <1>6. Messages' = Messages + 1 /\ Messages \in Nat
    BY <1>2, <1>3 DEF Messages, InBatch, Total
  <1>7. Chain'
    <2>1. CASE tracked = "none"
      <3>1. Messages <= missed /\ missed' = missed
        BY <1>4, <2>1 DEF TimerInv, Chain
      <3> QED
        BY <1>3, <1>4, <1>6, <3>1 DEF TimerInv, Chain
    <2>2. CASE tracked # "none"
      <3>1. Messages <= 1 + missed /\ missed' = missed + 1
        BY <1>4, <2>2 DEF TimerInv, Chain
      <3>2. Messages' <= 1 + missed'
        BY <1>4, <1>6, <3>1
      <3> QED
        BY <1>3, <1>4, <3>1, <3>2 DEF Chain
    <2> QED
      BY <2>1, <2>2
  <1>8. EvaluationInTime'
    <2>1. /\ queued'["pings"] \in Nat /\ queued'["evaluation"] \in Nat
      BY <1>2 DEF Kinds
    <2>2. Messages' = queued'["pings"] + queued'["evaluation"] + InBatch' /\ InBatch' \in Nat
      BY DEF Messages, InBatch
    <2> QED
      BY <1>2, <1>4, <1>7, <2>1, <2>2 DEF Chain, EvaluationInTime
  <1> QED
    BY <1>5, <1>7, <1>8 DEF TimerInv

\* A reset cancels the message tracked, or misses it, and posts a ping.
LEMMA ResetsTimers ==
  ASSUME TimerInv, NetworkChanged \/ ConnectionLost
  PROVE  TimerInv'
  <1>1. ResetUdpAvailability /\ changes' \in 0 .. MaxChanges /\ started' \in BOOLEAN
    BY ConnectivityAssumption DEF TimerInv, TimersOK, NetworkChanged, ConnectionLost
  <1> QED
    BY <1>1, ResetKeepsChain DEF TimerInv

\* A packet leaves the timers and the state of the pings alone.
LEMMA PacketsLeaveTimers ==
  ReceivePacket => UNCHANGED <<timers, udp, changes>>
  BY DEF ReceivePacket

\* The other messages leave the timers alone.
LEMMA OthersTimers ==
  ASSUME TimerInv, ReceiveTimeout \/ SendRelayPings \/ ReceivePacket
  PROVE  TimerInv'
  <1>1. UNCHANGED <<timers, udp, changes>>
    <2>1. CASE ReceiveTimeout
      BY <2>1 DEF ReceiveTimeout
    <2>2. CASE SendRelayPings
      BY <2>2 DEF SendRelayPings
    <2>3. CASE ReceivePacket
      BY <2>3, PacketsLeaveTimers
    <2> QED
      BY <2>1, <2>2, <2>3
  <1>2. /\ UNCHANGED <<started, queued, tracked, batch, missed>>
        /\ UNCHANGED <<udpConnectivityState, udpPingCount, changes>>
    BY <1>1 DEF timers, udp
  <1>3. TimersOK'
    BY <1>2 DEF TimerInv, TimersOK
  <1>4. Chain' /\ EvaluationInTime'
    BY <1>2 DEF TimerInv, Chain, Messages, InBatch, EvaluationInTime
  <1> QED
    BY <1>3, <1>4 DEF TimerInv

-------------------------------------------------------------------------------
(* The selection                                                               *)

SelectionInv ==
  SelectionOK /\ ProtocolsOK /\ Fit(endpoints, currentEndpoint, preferredRelay)

\* A relay is told from the other endpoint by its type.
LEMMA IdFacts ==
  /\ Reflectors \subseteq Ids /\ P2Pv6 \in Ids
  /\ \A e \in Ids : IsReflector(e) <=> e \in Reflectors
  /\ \A r \in Relays : UDPRelay(r) \in Reflectors /\ TCPRelay(r) \in Reflectors
  /\ \A e \in Reflectors : e.relay \in Relays
  <1>1. \A e \in Reflectors : IsReflector(e) /\ e.relay \in Relays
    BY DEF Reflectors, IsReflector
  <1>2. ~IsReflector(P2Pv6)
    BY DEF P2Pv6, IsReflector
  <1>3. \A r \in Relays : UDPRelay(r) \in Reflectors /\ TCPRelay(r) \in Reflectors
    BY DEF Reflectors, UDPRelay, TCPRelay
  <1> QED
    BY <1>1, <1>2, <1>3 DEF Ids

\* What is stored is found under its own id, too.
LEMMA StoredAreIds ==
  ASSUME SelectionInv, NEW type
  PROVE  \A e \in Stored(type) : e \in DOMAIN endpoints /\ e \in Ids /\ e.type = type
  BY DEF SelectionInv, Fit, Stored

\* What is stored as a relay reached by UDP is a relay.
LEMMA StoredRelays ==
  ASSUME SelectionInv, NEW e \in Stored("UDP_RELAY")
  PROVE  e \in DOMAIN endpoints /\ e \in Reflectors
  BY StoredAreIds, IdFacts DEF IsReflector

\* Adding the TCP relays removes no record, and what it selects was added.
LEMMA AddTCPRelaysSelection ==
  ASSUME SelectionInv, NEW wanted \in BOOLEAN, AddTCPRelays(wanted), answered' = answered
  PROVE  /\ SelectionOK' /\ Fit(endpoints, currentEndpoint, preferredRelay)'
         /\ receivedInit' \in BOOLEAN /\ didAddTcpRelays' \in BOOLEAN
         /\ setCurrentEndpointToTCP' \in BOOLEAN
  <1> DEFINE twins == {TCPRelay(e.relay) : e \in Stored("UDP_RELAY")}
             switches == wanted /\ twins # {} /\ endpoints[currentEndpoint].type # "TCP_RELAY"
  <1>1. CASE didAddTcpRelays
    BY <1>1 DEF SelectionInv, SelectionOK, ProtocolsOK, AddTCPRelays, selection
  <1>2. CASE ~didAddTcpRelays
    <2>1. /\ endpoints' = [k \in DOMAIN endpoints \cup twins |->
                              IF k \in twins THEN k ELSE endpoints[k]]
          /\ measured' \subseteq measured
          /\ IF switches THEN currentEndpoint' \in twins /\ preferredRelay' = currentEndpoint'
             ELSE currentEndpoint' = currentEndpoint /\ preferredRelay' = preferredRelay
          /\ setCurrentEndpointToTCP' = (wanted /\ ~switches)
          /\ didAddTcpRelays' = TRUE /\ receivedInit' = receivedInit
      BY <1>2 DEF AddTCPRelays
    <2>2. twins \subseteq Reflectors /\ \A k \in twins : k \in Ids /\ IsReflector(k)
      BY StoredRelays, IdFacts
    <2>3. setCurrentEndpointToTCP' \in BOOLEAN
      BY <2>1
    <2> HIDE DEF twins, switches
    <2>4. Fit(endpoints', currentEndpoint', preferredRelay')
      BY <2>1, <2>2 DEF SelectionInv, Fit
    <2>5. SelectionOK'
      BY <2>1, <2>4 DEF SelectionInv, SelectionOK, Fit
    <2> QED
      BY <2>1, <2>3, <2>4, <2>5 DEF SelectionInv, ProtocolsOK
  <1> QED
    BY <1>1, <1>2

\* A switch at an evaluation selects what is stored.
LEMMA EvaluateSelection ==
  ASSUME SelectionInv, NEW source \in Sources, EvaluateUdpPingResults(source)
  PROVE  SelectionInv'
  <1>1. answered' = answered /\ connected' = (connected \/ useTCP')
    BY DEF EvaluateUdpPingResults
  <1>2. \/ UNCHANGED <<selection, protocols>>
        \/ /\ useTCP' = TRUE /\ useUDP' \in BOOLEAN
           /\ \E wanted \in BOOLEAN : AddTCPRelays(wanted)
    <2>1. ASSUME NEW avgPongs \in Averages, NEW rest, UdpNotAvailable(avgPongs, source, rest)
          PROVE  /\ useTCP' = TRUE /\ useUDP' \in BOOLEAN
                 /\ \E wanted \in BOOLEAN : AddTCPRelays(wanted)
      <3> DEFINE wanted ==
            setCurrentEndpointToTCP \/ endpoints[currentEndpoint].type # "TCP_RELAY"
      <3>1. wanted \in BOOLEAN
        OBVIOUS
      <3>2. useTCP' = TRUE /\ useUDP' = (avgPongs > 1) /\ AddTCPRelays(wanted)
        BY <2>1 DEF UdpNotAvailable
      <3>3. useUDP' \in BOOLEAN
        BY <3>2
      <3> HIDE DEF wanted
      <3> QED
        BY <3>1, <3>2, <3>3
    <2>2. ASSUME NEW rest, UdpBad(rest)
          PROVE  /\ useTCP' = TRUE /\ useUDP' \in BOOLEAN
                 /\ \E wanted \in BOOLEAN : AddTCPRelays(wanted)
      BY <2>2 DEF UdpBad, SelectionInv, ProtocolsOK
    <2>3. {0} \subseteq Averages
      BY DEF Averages
    <2> QED
      BY <2>1, <2>2, <2>3 DEF EvaluateUdpPingResults, NoMorePings
  <1>3. CASE UNCHANGED <<selection, protocols>>
    BY <1>1, <1>3 DEF SelectionInv, SelectionOK, ProtocolsOK, selection, protocols
  <1>4. ASSUME useTCP' = TRUE, useUDP' \in BOOLEAN, NEW wanted \in BOOLEAN, AddTCPRelays(wanted)
        PROVE  SelectionInv'
    <2>1. /\ SelectionOK' /\ Fit(endpoints, currentEndpoint, preferredRelay)'
          /\ receivedInit' \in BOOLEAN /\ didAddTcpRelays' \in BOOLEAN
          /\ setCurrentEndpointToTCP' \in BOOLEAN
      BY <1>1, <1>4, AddTCPRelaysSelection
    <2>2. connected' \in BOOLEAN /\ useTCP' \in BOOLEAN
      BY <1>1, <1>4
    <2> QED
      BY <1>4, <2>1, <2>2 DEF SelectionInv, ProtocolsOK
  <1> QED
    BY <1>2, <1>3, <1>4

\* A change of network selects what is stored.
LEMMA NetworkChangedSelection ==
  ASSUME SelectionInv, NetworkChanged
  PROVE  SelectionInv'
  <1>1. /\ endpoints' = endpoints /\ measured' = {} /\ answered' = {}
        /\ receivedInit' = receivedInit /\ useUDP' = useUDP /\ connected' = connected
        /\ didAddTcpRelays' = didAddTcpRelays
        /\ setCurrentEndpointToTCP' = setCurrentEndpointToTCP
        /\ useTCP' \in BOOLEAN
    BY DEF NetworkChanged, ResetUdpAvailability, SelectionInv, ProtocolsOK
  <1>2. \/ /\ currentEndpoint' \in {currentEndpoint, preferredRelay}
           /\ preferredRelay' = preferredRelay
        \/ /\ currentEndpoint' \in Stored("UDP_RELAY")
           /\ preferredRelay' = currentEndpoint'
    BY DEF NetworkChanged
  <1>3. Fit(endpoints', currentEndpoint', preferredRelay')
    BY <1>1, <1>2, StoredRelays, IdFacts DEF SelectionInv, Fit
  <1> QED
    BY <1>1, <1>3 DEF SelectionInv, SelectionOK, ProtocolsOK, Fit

\* A timeout on receiving selects what is stored.
LEMMA ReceiveTimeoutSelection ==
  ASSUME SelectionInv, ReceiveTimeout
  PROVE  SelectionInv'
  BY DEF ReceiveTimeout, SelectionInv, SelectionOK, ProtocolsOK, Fit, protocols

\* The relay preferred, and the one switched to, are stored.
LEMMA SendRelayPingsSelection ==
  ASSUME SelectionInv, SendRelayPings
  PROVE  SelectionInv'
  <1>1. PICK relay \in Ids :
          /\ relay \in DOMAIN endpoints /\ IsReflector(relay)
          /\ preferredRelay' = relay /\ currentEndpoint' \in {relay, currentEndpoint}
    BY DEF SendRelayPings, SelectionInv, SelectionOK, Fit
  <1>2. Fit(endpoints', currentEndpoint', preferredRelay')
    BY <1>1 DEF SendRelayPings, SelectionInv, Fit
  <1> QED
    BY <1>2 DEF SendRelayPings, SelectionInv, SelectionOK, ProtocolsOK, Fit, protocols

\* What is selected after an extra is stored, if it was before.
LEMMA AfterExtraFits ==
  ASSUME SelectionInv, NEW src \in DOMAIN endpoints,
         NEW extra, NEW seq, NEW sel, sel = AfterExtra(extra, seq, src)
  PROVE  /\ Fit(sel.endpoints, sel.current, sel.preferred)
         /\ DOMAIN endpoints \subseteq DOMAIN sel.endpoints
         /\ sel.measured \subseteq Ids
  <1>1. \A eps, current, preferred, rtt :
          LET s == Selected(eps, current, preferred, rtt)
          IN  /\ s.endpoints = eps /\ s.current = current
              /\ s.preferred = preferred /\ s.measured = rtt
    BY DEF Selected
  <1>2. Fit(endpoints, currentEndpoint, preferredRelay) /\ measured \subseteq Ids /\ src \in Ids
    BY DEF SelectionInv, SelectionOK, Fit
  <1>3. ASSUME NEW current \in DOMAIN endpoints, NEW preferred \in DOMAIN endpoints,
               IsReflector(preferred), NEW rtt, rtt \subseteq Ids,
               sel = Selected(endpoints, current, preferred, rtt)
        PROVE  /\ Fit(sel.endpoints, sel.current, sel.preferred)
               /\ DOMAIN endpoints \subseteq DOMAIN sel.endpoints
               /\ sel.measured \subseteq Ids
    BY <1>1, <1>2, <1>3 DEF Fit
  <1> DEFINE eps6 == [k \in DOMAIN endpoints \cup {P2Pv6} |-> IF k = P2Pv6 THEN k ELSE endpoints[k]]
  <1>4. ASSUME sel = Selected(eps6, P2Pv6, preferredRelay, measured \ {P2Pv6})
        PROVE  /\ Fit(sel.endpoints, sel.current, sel.preferred)
               /\ DOMAIN endpoints \subseteq DOMAIN sel.endpoints
               /\ sel.measured \subseteq Ids
    <2>1. /\ sel.endpoints = eps6 /\ sel.current = P2Pv6
          /\ sel.preferred = preferredRelay /\ sel.measured = measured \ {P2Pv6}
      BY <1>1, <1>4
    <2>2. Fit(eps6, P2Pv6, preferredRelay)
      BY <1>2, IdFacts DEF Fit
    <2> QED
      BY <1>2, <2>1, <2>2
  <1>10. /\ currentEndpoint \in DOMAIN endpoints /\ preferredRelay \in DOMAIN endpoints
         /\ IsReflector(preferredRelay)
         /\ measured \cup {src} \subseteq Ids /\ {} \subseteq Ids
    BY <1>2 DEF Fit
  <1>5. CASE sel = Selected(endpoints, currentEndpoint, preferredRelay, measured)
    BY <1>2, <1>3, <1>5, <1>10
  <1>6. CASE sel = Selected(endpoints, currentEndpoint, preferredRelay, measured \cup {src})
    BY <1>3, <1>6, <1>10
  <1>7. CASE sel = Selected(endpoints, IF IsReflector(endpoints[currentEndpoint])
                                       THEN currentEndpoint ELSE preferredRelay,
                            preferredRelay, {})
    <2> DEFINE current == IF IsReflector(endpoints[currentEndpoint])
                          THEN currentEndpoint ELSE preferredRelay
    <2>1. current \in DOMAIN endpoints /\ {} \subseteq Ids
      BY <1>10
    <2>2. sel = Selected(endpoints, current, preferredRelay, {})
      BY <1>7
    <2> HIDE DEF current
    <2> QED
      BY <1>3, <1>10, <2>1, <2>2
  <1> DEFINE preferred == IF src.type = "UDP_RELAY" \/ useTCP THEN src ELSE preferredRelay
  <1>8. CASE IsReflector(src) /\ sel = Selected(endpoints, src, preferred, measured)
    <2>1. preferred \in DOMAIN endpoints /\ IsReflector(preferred)
      BY <1>2, <1>8 DEF Fit
    <2> HIDE DEF preferred
    <2> QED
      BY <1>2, <1>3, <1>8, <2>1
  <1> HIDE DEF eps6, preferred
  <1>9. \/ sel = Selected(endpoints, currentEndpoint, preferredRelay, measured)
        \/ sel = Selected(endpoints, currentEndpoint, preferredRelay, measured \cup {src})
        \/ sel = Selected(endpoints, IF IsReflector(endpoints[currentEndpoint])
                                     THEN currentEndpoint ELSE preferredRelay,
                          preferredRelay, {})
        \/ sel = Selected(eps6, P2Pv6, preferredRelay, measured \ {P2Pv6})
        \/ IsReflector(src) /\ sel = Selected(endpoints, src, preferred, measured)
    BY DEF AfterExtra, eps6, preferred
  <1> QED
    BY <1>4, <1>5, <1>6, <1>7, <1>8, <1>9

\* Storing a relay's record under the id that is left keeps what is selected.
LEMMA SwitchedToRelayFits ==
  ASSUME NEW sel, Fit(sel.endpoints, sel.current, sel.preferred), sel.measured \subseteq Ids,
         NEW src \in DOMAIN sel.endpoints, IsReflector(src),
         NEW last, last = SwitchedToRelay(sel, src)
  PROVE  Fit(last.endpoints, last.current, last.preferred) /\ last.measured \subseteq Ids
  <1>1. /\ last.endpoints = [sel.endpoints EXCEPT ![sel.current] = src]
        /\ last.current = src /\ last.preferred = sel.preferred
        /\ last.measured \subseteq sel.measured \cup {sel.current}
    BY DEF SwitchedToRelay, Selected
  <1> QED
    BY <1>1 DEF Fit

\* A packet's source is stored; a switch to it may overwrite a record with its own.
LEMMA ReceivePacketSelection ==
  ASSUME SelectionInv, ReceivePacket
  PROVE  SelectionInv'
  <1>1. PICK k \in DOMAIN endpoints, extra \in Extras \cup {"none"},
             seq \in PongSeqs, unanswered \in BOOLEAN :
          LET src   == endpoints[endpoints[k]]
              sel   == AfterExtra(extra, seq, src)
              moves == /\ unanswered
                       /\ src # sel.current /\ IsReflector(src)
                       /\ \/ ~IsReflector(sel.endpoints[sel.current])
                          \/ sel.current \notin sel.measured
              last  == IF moves THEN SwitchedToRelay(sel, src) ELSE sel
          IN  /\ endpoints[k].type = "TCP_RELAY" => connected
              /\ extra = "pong" => ~IsReflector(src) \/ MaySendTo(src)
              /\ endpoints' = last.endpoints /\ measured' = last.measured
              /\ currentEndpoint' = last.current /\ preferredRelay' = last.preferred
              /\ receivedInit' = (receivedInit \/ extra = "init")
              /\ answered' = IF extra = "pong" /\ IsReflector(src) THEN answered \cup {src}
                             ELSE answered
              /\ UNCHANGED <<protocols, timers, udp, changes, connected>>
    BY Zenon DEF ReceivePacket
  <1> DEFINE src   == endpoints[endpoints[k]]
             sel   == AfterExtra(extra, seq, src)
             moves == /\ unanswered
                      /\ src # sel.current /\ IsReflector(src)
                      /\ \/ ~IsReflector(sel.endpoints[sel.current])
                         \/ sel.current \notin sel.measured
             last  == IF moves THEN SwitchedToRelay(sel, src) ELSE sel
  <1>2. /\ endpoints' = last.endpoints /\ measured' = last.measured
        /\ currentEndpoint' = last.current /\ preferredRelay' = last.preferred
        /\ receivedInit' = (receivedInit \/ extra = "init")
        /\ answered' = IF extra = "pong" /\ IsReflector(src) THEN answered \cup {src}
                       ELSE answered
        /\ UNCHANGED <<protocols, connected>>
    BY <1>1
  <1>3. moves => IsReflector(src)
    OBVIOUS
  <1>4. last = IF moves THEN SwitchedToRelay(sel, src) ELSE sel
    OBVIOUS
  <1>5. src \in DOMAIN endpoints /\ src \in Ids
    BY DEF SelectionInv, Fit
  <1>6. sel = AfterExtra(extra, seq, src)
    OBVIOUS
  <1> HIDE DEF src, sel, moves, last
  <1>7. /\ Fit(sel.endpoints, sel.current, sel.preferred)
        /\ src \in DOMAIN sel.endpoints /\ sel.measured \subseteq Ids
    BY <1>5, <1>6, AfterExtraFits
  <1>8. Fit(last.endpoints, last.current, last.preferred) /\ last.measured \subseteq Ids
    BY <1>3, <1>4, <1>7, SwitchedToRelayFits
  <1>9. answered' \subseteq Reflectors /\ receivedInit' \in BOOLEAN
    BY <1>2, <1>5, IdFacts DEF SelectionInv, SelectionOK, ProtocolsOK
  <1>10. Fit(endpoints', currentEndpoint', preferredRelay') /\ measured' \subseteq Ids
    BY <1>2, <1>8
  <1> QED
    BY <1>2, <1>9, <1>10 DEF SelectionInv, SelectionOK, ProtocolsOK, Fit, protocols

\* The other messages leave the endpoints alone.
LEMMA OthersSelection ==
  ASSUME SelectionInv,
         (\E source \in Sources : SendUdpPings(source)) \/ StartPings \/ ConnectionLost
  PROVE  SelectionInv'
  BY DEF SelectionInv, SelectionOK, ProtocolsOK, SendUdpPings, StartPings, ConnectionLost,
     ResetUdpAvailability, selection, protocols

-------------------------------------------------------------------------------
(* The theorems                                                                *)

\* Of the endpoints given, one is in use; no message is queued.
LEMMA InitInv ==
  ASSUME Init
  PROVE  Inv
  <1>1. PICK given \in SUBSET Relays :
          /\ endpoints = [k \in {UDPRelay(r) : r \in Relays} \cup {TCPRelay(r) : r \in given} |-> k]
          /\ didAddTcpRelays = (given # {})
    BY DEF Init
  <1>2. currentEndpoint \in DOMAIN endpoints /\ preferredRelay = currentEndpoint
    BY DEF Init
  <1> DEFINE ids == {UDPRelay(r) : r \in Relays} \cup {TCPRelay(r) : r \in given}
  <1>3. ids \subseteq Reflectors /\ \A k \in ids : k \in Ids /\ IsReflector(k)
    BY IdFacts
  <1>4. endpoints = [k \in ids |-> k]
    BY <1>1
  <1> HIDE DEF ids
  <1>5. Fit(endpoints, currentEndpoint, preferredRelay)
    BY <1>2, <1>3, <1>4 DEF Fit
  <1>6. SelectionOK
    BY <1>5 DEF Init, SelectionOK, Fit
  <1>7. didAddTcpRelays \in BOOLEAN
    BY <1>1
  <1>8. ProtocolsOK
    BY <1>7 DEF Init, ProtocolsOK
  <1>9. TimersOK
    <2>1. queued = [k \in Kinds |-> 0] /\ tracked = "none" /\ batch = "none" /\ ~started
      BY DEF Init
    <2>2. udpPingCount \in 0 .. MaxPings /\ changes \in 0 .. MaxChanges /\ missed \in 0 .. MaxMissed
      BY ConnectivityAssumption DEF Init, MaxPings
    <2>3. udpConnectivityState = "UDP_UNKNOWN" /\ started \in BOOLEAN /\ "none" \notin Kinds
      BY DEF Init, Kinds
    <2> QED
      BY <2>1, <2>2, <2>3 DEF TimersOK
  <1>10. Chain /\ EvaluationInTime
    BY DEF Init, Chain, EvaluationInTime, Messages, InBatch, Kinds
  <1> QED
    BY <1>5, <1>6, <1>8, <1>9, <1>10 DEF Inv

\* Every step keeps the invariant.
LEMMA NextInv ==
  ASSUME Inv, [Next]_vars
  PROVE  Inv'
  <1>1. TimerInv /\ SelectionInv
    BY DEF Inv, TimerInv, SelectionInv
  <1>2. TimerInv'
    <2>1. ASSUME NEW source \in Sources, SendUdpPings(source)
          PROVE  TimerInv'
      BY <1>1, <2>1, SendUdpPingsTimers
    <2>2. ASSUME NEW source \in Sources, EvaluateUdpPingResults(source)
          PROVE  TimerInv'
      BY <1>1, <2>2, EvaluateTimers
    <2>3. CASE UNCHANGED vars
      BY <1>1, <2>3 DEF vars, timers, udp, TimerInv, TimersOK, Chain, Messages, InBatch,
         EvaluationInTime
    <2> QED
      BY <1>1, <2>1, <2>2, <2>3, StartPingsTimers, ResetsTimers, OthersTimers DEF Next
  <1>3. SelectionInv'
    <2>1. ASSUME NEW source \in Sources, EvaluateUdpPingResults(source)
          PROVE  SelectionInv'
      BY <1>1, <2>1, EvaluateSelection
    <2>2. CASE UNCHANGED vars
      BY <1>1, <2>2 DEF vars, selection, protocols, SelectionInv, SelectionOK, ProtocolsOK
    <2> QED
      BY <1>1, <2>1, <2>2, NetworkChangedSelection, ReceiveTimeoutSelection,
         SendRelayPingsSelection, ReceivePacketSelection, OthersSelection DEF Next
  <1> QED
    BY <1>2, <1>3 DEF Inv, TimerInv, SelectionInv

\* The inductive invariant of the selection and of the ping messages.
THEOREM Invariance == Spec => []Inv
  <1>1. Init => Inv
    BY InitInv
  <1>2. Inv /\ [Next]_vars => Inv'
    BY NextInv
  <1> QED
    BY <1>1, <1>2, PTL DEF Spec

\* Type correctness, for any relays, extras and bounds.
THEOREM TypeCorrect == Spec => []TypeOK
  <1>1. Inv => TypeOK
    BY DEF Inv, TypeOK
  <1> QED
    BY <1>1, Invariance, PTL

\* endpoints.at() finds the endpoint in use and the preferred relay after any sequence of
\* switches, TCP relays added, addresses learnt and records stored under a foreign id; what
\* is found for the preferred relay is a relay's record.
THEOREM SelectionIsStored == Spec => []SelectedEndpointsExist
  <1>1. Inv => SelectedEndpointsExist
    BY DEF Inv, Fit, SelectedEndpointsExist
  <1> QED
    BY <1>1, Invariance, PTL

\* However resets, verdicts and late starts of the pings interleave, only a message that
\* was not cancelled makes the chain of pings a second one.
THEOREM PingsAreOneChain == Spec => []OneChainOfPings
  <1>1. Inv => OneChainOfPings
    BY DEF Inv, Chain, Messages, InBatch, OneChainOfPings
  <1> QED
    BY <1>1, Invariance, PTL

\* As long as nothing outlives its cancelling, EvaluateUdpPingResults() is called only when
\* four or ten pings were sent since the last reset.
THEOREM JudgedAfterPings == Spec => VerdictAfterPings
  <1> DEFINE Judged ==
        missed = 0 /\ udpConnectivityState' # udpConnectivityState
          /\ udpConnectivityState' \in Verdicts => udpPingCount \in EvaluatedCounts
  <1>1. Inv /\ [Next]_vars => [Judged]_vars
    <2> SUFFICES ASSUME Inv, Next, missed = 0,
                        udpConnectivityState' # udpConnectivityState,
                        udpConnectivityState' \in Verdicts
                 PROVE  udpPingCount \in EvaluatedCounts
      BY DEF Judged
    <2>1. PICK source \in Sources : EvaluateUdpPingResults(source)
      <3>1. udpConnectivityState' \notin Pending
        BY DEF Verdicts, Pending
      <3>2. (\A source \in Sources : ~SendUdpPings(source)) /\ ~StartPings
        BY <3>1 DEF SendUdpPings, StartPings, Pending
      <3>3. ~NetworkChanged /\ ~ConnectionLost
        BY <3>1 DEF NetworkChanged, ConnectionLost, ResetUdpAvailability, Restarted, Pending
      <3>4. ~ReceiveTimeout /\ ~SendRelayPings
        BY DEF ReceiveTimeout, SendRelayPings, udp
      <3>5. ~ReceivePacket
        BY PacketsLeaveTimers DEF udp
      <3> QED
        BY <3>2, <3>3, <3>4, <3>5 DEF Next
    <2>2. batch = "none" /\ Called("evaluation", source)
      BY <2>1 DEF EvaluateUdpPingResults, Inv, Chain
    <2>3. queued["evaluation"] > 0
      <3>1. queued["evaluation"] \in Nat
        BY DEF Inv, TimersOK, Kinds
      <3> QED
        BY <2>2, <3>1 DEF Called, Sources, Inv, TimersOK, Kinds
    <2> QED
      BY <2>3 DEF Inv, EvaluationInTime
  <1> QED
    BY <1>1, Invariance, PTL DEF Spec, VerdictAfterPings
===============================================================================
