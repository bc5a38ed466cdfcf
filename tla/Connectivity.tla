---------------------------- MODULE Connectivity ----------------------------
(***************************************************************************)
(* Which endpoint a client sends to, and over which protocol: UDP pings to *)
(* the relays are counted and judged, TCP relays are added when UDP is bad *)
(* and everything starts over when the network changes.  The pings and the *)
(* judgement are messages of the message thread; udpPingTimeoutID is to    *)
(* name the one that is queued, for ResetUdpAvailability() to cancel.      *)
(* Cancelling does not reach a message of the batch being delivered.       *)
(*                                                                         *)
(* No proxy and no IPv6 relays.  P2Pv4 and LANv4 are left out: to be used  *)
(* they need a measured round trip time, and none is ever measured (see    *)
(* LastPingSeq).                                                           *)
(***************************************************************************)
EXTENDS Naturals, FiniteSets

CONSTANTS
  Relays,         \* the relays the client is given over UDP
  ConfigUseTCP,   \* use_tcp of the server configuration
  Extras,         \* the extras modelled that packets carry
  PongSeqs,       \* numbers a peer's pong may carry (0 in this version)
  MaxChanges,     \* bound: network changes and losses of the connection
  MaxMissed       \* bound: ping messages that could not be cancelled

ASSUME ConnectivityAssumption ==
  /\ Relays # {} /\ IsFiniteSet(Relays)
  /\ ConfigUseTCP \in BOOLEAN
  /\ Extras \subseteq {"init", "pong", "ipv6Endpoint", "networkChanged"}
  /\ PongSeqs \subseteq Nat
  /\ MaxChanges \in Nat /\ MaxMissed \in Nat

VARIABLES
  endpoints,        \* by id: the endpoint whose record is stored there
  currentEndpoint, preferredRelay,
  measured,         \* ids whose averageRTT is not 0
  useTCP, useUDP, didAddTcpRelays, setCurrentEndpointToTCP,
  receivedInit,
  udpConnectivityState, udpPingCount,
  started,          \* the receive thread has started the pings
  queued,           \* by kind: messages in the queue
  tracked,          \* the kind of the one udpPingTimeoutID names
  batch,            \* a message of this batch that was to be cancelled
  changes,
  connected,        \* TCP was used: TCP relays may have been connected to
  \* history
  answered,         \* relays that answered a ping since the last reset
  missed            \* messages that were not cancelled when they should be

selection == <<endpoints, currentEndpoint, preferredRelay, measured, receivedInit>>
protocols == <<useTCP, useUDP, didAddTcpRelays, setCurrentEndpointToTCP>>
timers    == <<started, queued, tracked, batch, missed>>
udp       == <<udpConnectivityState, udpPingCount>>
vars      == <<selection, protocols, timers, udp, changes, connected, answered>>

UDPRelay(r) == [type |-> "UDP_RELAY", relay |-> r]
TCPRelay(r) == [type |-> "TCP_RELAY", relay |-> r]
Reflectors  == [type : {"UDP_RELAY", "TCP_RELAY"}, relay : Relays]
P2Pv6 == [type |-> "UDP_P2P_INET"]
Ids   == Reflectors \cup {P2Pv6}

\* The endpoints stored anywhere whose type is this.
Stored(type) == {e \in {endpoints[k] : k \in DOMAIN endpoints} : e.type = type}
IsReflector(e) == e.type \in {"UDP_RELAY", "TCP_RELAY"}

\* The gate of SendOrEnqueuePacket(), and of the pings.
MaySendTo(e) == IF e.type = "TCP_RELAY" THEN useTCP ELSE useUDP

Kinds    == {"pings", "evaluation"}
Verdicts == {"UDP_AVAILABLE", "UDP_NOT_AVAILABLE", "UDP_BAD"}
Pending  == {"UDP_PING_PENDING", "UDP_PING_SENT"}

\* The counts at which the pings stop to be evaluated; past them all counts are alike.
EvaluatedCounts == {4, 10}
MaxPings == 11

\* Answers per relay that answered: none, at most 1, under 3, under 7, 7 or more.
Averages == {0, 1, 2, 6, 7}

\* Endpoint.lastPingSeq is 0 in a new record, and nothing else is assigned to it.
LastPingSeq == 0

SelectionOK ==
  /\ DOMAIN endpoints \subseteq Ids /\ endpoints \in [DOMAIN endpoints -> Ids]
  /\ currentEndpoint \in Ids /\ preferredRelay \in Ids
  /\ measured \subseteq Ids /\ answered \subseteq Reflectors

ProtocolsOK ==
  /\ useTCP \in BOOLEAN /\ useUDP \in BOOLEAN
  /\ didAddTcpRelays \in BOOLEAN /\ setCurrentEndpointToTCP \in BOOLEAN
  /\ receivedInit \in BOOLEAN /\ connected \in BOOLEAN

TimersOK ==
  /\ udpConnectivityState \in Verdicts \cup Pending \cup {"UDP_UNKNOWN"}
  /\ udpPingCount \in 0 .. MaxPings
  /\ started \in BOOLEAN
  /\ queued \in [Kinds -> Nat]
  /\ tracked \in Kinds \cup {"none"} /\ batch \in Kinds \cup {"none"}
  /\ tracked \in Kinds => queued[tracked] > 0
  /\ changes \in 0 .. MaxChanges /\ missed \in 0 .. MaxMissed

TypeOK == SelectionOK /\ ProtocolsOK /\ TimersOK

\* The constructor and SetRemoteEndpoints(): some relays may be given over TCP too.
Init ==
  /\ \E given \in SUBSET Relays :
       /\ endpoints = [k \in {UDPRelay(r) : r \in Relays} \cup {TCPRelay(r) : r \in given} |-> k]
       /\ didAddTcpRelays = (given # {})
  /\ currentEndpoint \in DOMAIN endpoints /\ preferredRelay = currentEndpoint
  /\ measured = {}
  /\ useTCP = FALSE /\ useUDP = TRUE
  /\ setCurrentEndpointToTCP = FALSE
  /\ receivedInit = FALSE
  /\ udpConnectivityState = "UDP_UNKNOWN" /\ udpPingCount = 0
  /\ started = FALSE /\ queued = [k \in Kinds |-> 0] /\ tracked = "none" /\ batch = "none"
  /\ changes = 0 /\ missed = 0 /\ answered = {} /\ connected = FALSE

-----------------------------------------------------------------------------
(* The UDP pings and their evaluation                                      *)

\* A message of this kind is called: the one udpPingTimeoutID names, another one, or
\* the one left in the batch, which comes before what is queued.
Called(kind, source) ==
  CASE source = "tracked" -> batch = "none" /\ tracked = kind
    [] source = "other"   -> batch = "none" /\ queued[kind] > IF tracked = kind THEN 1 ELSE 0
    [] source = "batch"   -> batch = kind

Sources == {"tracked", "other", "batch"}

\* The queue without the message that was called, and with another one.
Removed(kind, source) ==
  IF source = "batch" THEN queued ELSE [queued EXCEPT ![kind] = @ - 1]
Posted(q, kind) == [q EXCEPT ![kind] = @ + 1]

\* Faulty variant: the pings go on while they are evaluated.
QueuedAfterPings(rest) ==
  IF udpPingCount + 1 \in EvaluatedCounts THEN Posted(Posted(rest, "pings"), "evaluation")
  ELSE Posted(rest, "pings")

\* The pings are queued again unless they cancel themselves for their evaluation.
QueuedNext(rest) ==
  Posted(rest, IF udpPingCount + 1 \in EvaluatedCounts THEN "evaluation" ELSE "pings")

\* SendUdpPings() is called every half second until it cancels itself.
SendUdpPings(source) ==
  /\ Called("pings", source)
  /\ udpConnectivityState' = IF udpConnectivityState \in {"UDP_UNKNOWN", "UDP_PING_PENDING"}
                             THEN "UDP_PING_SENT" ELSE udpConnectivityState
  /\ udpPingCount' = IF udpPingCount < MaxPings THEN udpPingCount + 1 ELSE MaxPings
  /\ queued' = QueuedNext(Removed("pings", source))
  /\ tracked' = IF udpPingCount + 1 \in EvaluatedCounts THEN "evaluation" ELSE tracked
  /\ batch' = "none"
  /\ UNCHANGED <<selection, protocols, started, missed, changes, connected, answered>>

\* AddTCPRelays(): a TCP relay for every UDP relay; the first one met becomes the
\* current one if that is wanted.
AddTCPRelays(wanted) ==
  LET twins    == {TCPRelay(e.relay) : e \in Stored("UDP_RELAY")}
      switches == wanted /\ twins # {} /\ endpoints[currentEndpoint].type # "TCP_RELAY"
  IN  IF didAddTcpRelays
      THEN /\ setCurrentEndpointToTCP' = wanted
           /\ UNCHANGED <<selection, didAddTcpRelays>>
      ELSE /\ endpoints' = [k \in DOMAIN endpoints \cup twins |->
                               IF k \in twins THEN k ELSE endpoints[k]]
           /\ measured' = {k \in measured \ twins :
                             ~wanted \/ useUDP' \/ endpoints[k].type # "UDP_RELAY"}
           /\ IF switches
              THEN currentEndpoint' \in twins /\ preferredRelay' = currentEndpoint'
              ELSE UNCHANGED <<currentEndpoint, preferredRelay>>
           /\ setCurrentEndpointToTCP' = (wanted /\ ~switches)
           /\ didAddTcpRelays' = TRUE
           /\ UNCHANGED receivedInit

\* The three verdicts; rest: the queue without the evaluation.
UdpNotAvailable(avgPongs, source, rest) ==
  /\ udpConnectivityState' = "UDP_NOT_AVAILABLE"
  /\ useTCP' = TRUE /\ useUDP' = (avgPongs > 1)
  /\ AddTCPRelays(setCurrentEndpointToTCP \/ endpoints[currentEndpoint].type # "TCP_RELAY")
  /\ queued' = rest
  /\ tracked' = IF source = "tracked" THEN "none" ELSE tracked

UdpBad(rest) ==
  /\ udpConnectivityState' = "UDP_BAD"
  /\ useTCP' = TRUE /\ UNCHANGED useUDP
  /\ AddTCPRelays(TRUE)
  /\ queued' = Posted(rest, "pings") /\ tracked' = "pings"

NoMorePings(verdict, rest) ==
  /\ udpConnectivityState' = verdict
  /\ queued' = rest /\ tracked' = "none"
  /\ UNCHANGED <<selection, protocols>>

EvaluateUdpPingResults(source) ==
  /\ Called("evaluation", source)
  /\ \E avgPongs \in IF Stored("UDP_RELAY") = {} THEN {0} ELSE Averages :
       LET rest == Removed("evaluation", source)
       IN  IF ~ConfigUseTCP THEN NoMorePings("UDP_NOT_AVAILABLE", rest)
           ELSE IF avgPongs = 0 \/ (udpConnectivityState = "UDP_BAD" /\ avgPongs < 7)
           THEN UdpNotAvailable(avgPongs, source, rest)
           ELSE IF avgPongs < 3 THEN UdpBad(rest)
           ELSE NoMorePings("UDP_AVAILABLE", rest)
  /\ batch' = "none"
  /\ connected' = (connected \/ useTCP')
  /\ UNCHANGED <<started, missed, udpPingCount, changes, answered>>

\* RunRecvThread(): the first pings are posted by another thread, which does not look
\* whether a change of the network has had them posted already.
StartPings ==
  /\ ~started /\ started' = TRUE
  /\ udpPingCount < 4   \* the thread starts before the pings have taken 1.5 seconds
  /\ IF tracked = "none" THEN UNCHANGED missed
     ELSE missed < MaxMissed /\ missed' = missed + 1
  /\ udpConnectivityState' = "UDP_PING_PENDING"
  /\ queued' = Posted(queued, "pings") /\ tracked' = "pings"
  /\ UNCHANGED <<selection, protocols, batch, udpPingCount, changes, connected, answered>>

\* Faulty variant: nothing is cancelled.
WithoutNone == queued

\* Faulty variant: the pings are cancelled, also when it is their turn to be evaluated.
WithoutPings == IF tracked = "none" THEN queued ELSE [queued EXCEPT !["pings"] = @ - 1]

\* Cancel(udpPingTimeoutID).
WithoutTracked == IF tracked = "none" THEN queued ELSE [queued EXCEPT ![tracked] = @ - 1]

\* Faulty variant: the count goes on.
RestartedCounting == udpConnectivityState' = "UDP_PING_PENDING" /\ UNCHANGED udpPingCount

Restarted == udpPingCount' = 0 /\ udpConnectivityState' = "UDP_PING_PENDING"

\* ResetUdpAvailability(): what udpPingTimeoutID names is taken out of the queue, or
\* is in the batch already and is called all the same.
ResetUdpAvailability ==
  /\ queued' = Posted(WithoutTracked, "pings") /\ tracked' = "pings"
  /\ \/ UNCHANGED <<batch, missed>>
     \/ /\ tracked # "none" /\ batch = "none" /\ batch' = tracked
        /\ missed < MaxMissed /\ missed' = missed + 1
  /\ Restarted
  /\ answered' = {}

-----------------------------------------------------------------------------
(* Changes of the network                                                  *)

\* The message SetNetworkType() posts for another interface.  A client on anything but
\* a UDP relay goes back to its preferred one, and to UDP.
NetworkChanged ==
  /\ changes < MaxChanges /\ changes' = changes + 1
  /\ LET back   == endpoints[currentEndpoint].type # "UDP_RELAY"
         onTCP  == endpoints[preferredRelay].type = "TCP_RELAY"
         direct == IF endpoints[preferredRelay].type = "UDP_RELAY" THEN preferredRelay
                   ELSE currentEndpoint
     IN  \/ /\ back /\ useTCP /\ Stored("UDP_RELAY") # {}
            /\ useTCP' = FALSE
            /\ IF onTCP
               THEN /\ currentEndpoint' \in Stored("UDP_RELAY")
                    /\ preferredRelay' = currentEndpoint'
               ELSE currentEndpoint' = direct /\ UNCHANGED preferredRelay
         \/ /\ ~(back /\ useTCP /\ Stored("UDP_RELAY") # {})
            /\ currentEndpoint' = IF back THEN direct ELSE currentEndpoint
            /\ UNCHANGED <<preferredRelay, useTCP>>
  /\ measured' = {}
  /\ ResetUdpAvailability
  /\ UNCHANGED <<endpoints, receivedInit, useUDP, didAddTcpRelays, setCurrentEndpointToTCP,
                 started, connected>>

\* UpdateAudioBitrate(): nothing was received for a while, ...
ConnectionLost ==
  /\ changes < MaxChanges /\ changes' = changes + 1
  /\ ResetUdpAvailability
  /\ UNCHANGED <<selection, protocols, started, connected>>

\* ... or for long.  (On a relay the call then fails.)
ReceiveTimeout ==
  /\ ~IsReflector(endpoints[currentEndpoint])
  /\ currentEndpoint' = preferredRelay
  /\ measured' = {k \in measured : IsReflector(endpoints[k])}
  /\ UNCHANGED <<endpoints, preferredRelay, receivedInit, protocols, timers, udp, changes, connected, answered>>

-----------------------------------------------------------------------------
(* Packets                                                                 *)

\* SendRelayPings(): pings everything that may be sent to.  The record of the preferred
\* relay, or one that was measured to be faster, says which relay to prefer; both are
\* measured before anything but a reflector is left for a relay.
SendRelayPings ==
  /\ Cardinality(DOMAIN endpoints) > 1
  /\ LET usable == {k \in DOMAIN endpoints : IsReflector(endpoints[k]) => MaySendTo(endpoints[k])}
         fast   == {endpoints[k] : k \in {j \in usable \cap measured : IsReflector(endpoints[j])}}
         stays  == fast = {} \/ preferredRelay \in measured
     IN  \E relay \in fast \cup (IF stays THEN {endpoints[preferredRelay]} ELSE {}),
            slow \in BOOLEAN :
           LET current == IF relay # preferredRelay /\ IsReflector(endpoints[currentEndpoint])
                          THEN relay ELSE currentEndpoint
               leaves  == /\ slow /\ current \in measured
                          /\ fast # {} \/ preferredRelay \in measured
                          /\ endpoints[current].type # "UDP_RELAY" \/ ~useUDP
           IN  /\ preferredRelay' = relay
               /\ currentEndpoint' = IF leaves THEN relay ELSE current
  /\ UNCHANGED <<endpoints, measured, receivedInit, protocols, timers, udp, changes, connected, answered>>

Selected(eps, current, preferred, rtt) ==
  [endpoints |-> eps, current |-> current, preferred |-> preferred, measured |-> rtt]

\* ProcessExtraData(), for the kinds of extra that bear on the selection: what is
\* selected after one that came from src.
AfterExtra(extra, seq, src) ==
  CASE extra = "init" /\ ~receivedInit /\ (src.type = "UDP_RELAY" =>
                           udpConnectivityState \notin {"UDP_BAD", "UDP_NOT_AVAILABLE"})
                      /\ IsReflector(src) ->
         Selected(endpoints, src, IF src.type = "UDP_RELAY" \/ useTCP THEN src
                                  ELSE preferredRelay, measured)
    [] extra = "pong" /\ seq # 0 /\ seq = LastPingSeq ->
         Selected(endpoints, currentEndpoint, preferredRelay, measured \cup {src})
    [] extra = "ipv6Endpoint" ->
         Selected([k \in DOMAIN endpoints \cup {P2Pv6} |-> IF k = P2Pv6 THEN k ELSE endpoints[k]],
                  P2Pv6, preferredRelay, measured \ {P2Pv6})
    [] extra = "networkChanged" ->
         Selected(endpoints, IF IsReflector(endpoints[currentEndpoint]) THEN currentEndpoint
                             ELSE preferredRelay, preferredRelay, {})
    [] OTHER -> Selected(endpoints, currentEndpoint, preferredRelay, measured)

\* Faulty variant: the endpoint left is forgotten.
SwitchedForgetting(sel, src) ==
  Selected([k \in DOMAIN sel.endpoints \ {sel.current} |-> sel.endpoints[k]],
           src, sel.preferred, sel.measured \ {sel.current})

\* The end of ProcessIncomingPacket(): a packet from another relay while 32 packets are
\* unanswered makes that relay the current one; its record is stored under the old id too.
SwitchedToRelay(sel, src) ==
  Selected([sel.endpoints EXCEPT ![sel.current] = src],
           src, sel.preferred,
           IF src \in sel.measured THEN sel.measured \cup {sel.current}
           ELSE sel.measured \ {sel.current})

\* NetworkPacketReceived(): the source is found by its address, and looked up again by
\* the id that is found.  Everything that may be sent to is pinged every ten seconds.
ReceivePacket ==
  \E k \in DOMAIN endpoints, extra \in Extras \cup {"none"},
     seq \in PongSeqs, unanswered \in BOOLEAN :
    LET src   == endpoints[endpoints[k]]
        sel   == AfterExtra(extra, seq, src)
        moves == /\ unanswered
                 /\ src # sel.current /\ IsReflector(src)
                 /\ ~IsReflector(sel.endpoints[sel.current]) \/ sel.current \notin sel.measured
        last  == IF moves THEN SwitchedToRelay(sel, src) ELSE sel
    IN  /\ endpoints[k].type = "TCP_RELAY" => connected
        /\ extra = "pong" => ~IsReflector(src) \/ MaySendTo(src)
        /\ endpoints' = last.endpoints /\ measured' = last.measured
        /\ currentEndpoint' = last.current /\ preferredRelay' = last.preferred
        /\ receivedInit' = (receivedInit \/ extra = "init")
        /\ answered' = IF extra = "pong" /\ IsReflector(src) THEN answered \cup {src}
                       ELSE answered
        /\ UNCHANGED <<protocols, timers, udp, changes, connected>>

-----------------------------------------------------------------------------

Next ==
  \/ \E source \in Sources : SendUdpPings(source)
  \/ \E source \in Sources : EvaluateUdpPingResults(source)
  \/ StartPings
  \/ NetworkChanged
  \/ ConnectionLost
  \/ ReceiveTimeout
  \/ SendRelayPings
  \/ ReceivePacket

\* The message thread calls what is due (MessageThread); the pings due are periodic.
Fairness ==
  \A source \in Sources : /\ WF_vars(SendUdpPings(source))
                          /\ WF_vars(EvaluateUdpPingResults(source))

Spec == Init /\ [][Next]_vars /\ Fairness

-----------------------------------------------------------------------------
(* Properties                                                              *)

\* endpoints.at() finds the endpoint in use and the relay to fall back to, and the
\* record found for the latter is a relay's.
SelectedEndpointsExist ==
  /\ {currentEndpoint, preferredRelay} \subseteq DOMAIN endpoints
  /\ \A k \in DOMAIN endpoints : endpoints[k] \in DOMAIN endpoints
  /\ IsReflector(endpoints[preferredRelay])

\* The UDP pings and their evaluation are one chain of messages, each of which posts the
\* next: another one runs beside it only for a message that was not cancelled.
OneChainOfPings ==
  queued["pings"] + queued["evaluation"] + (IF batch = "none" THEN 0 ELSE 1) <= 1 + missed

\* Unless a message outlived its cancelling, UDP is judged only after four pings, or
\* ten, were sent since the last reset.
VerdictAfterPings ==
  [][missed = 0 /\ udpConnectivityState' # udpConnectivityState
       /\ udpConnectivityState' \in Verdicts => udpPingCount \in EvaluatedCounts]_vars

\* After every reset UDP is judged, and a bad verdict is revised, however the messages
\* of several resets interleave.
UdpIsJudged ==
  /\ udpConnectivityState \in Pending ~> udpConnectivityState \in Verdicts
  /\ udpConnectivityState = "UDP_BAD" ~> udpConnectivityState # "UDP_BAD" \/ missed > 0

\* "force the switch to an available relay, if any": while the preferred relay has no
\* round trip time, SendRelayPings() turns to a relay that answered.
AvailableRelayIsSwitchedTo ==
  [][SendRelayPings /\ preferredRelay \notin measured
       /\ (\E e \in answered : MaySendTo(e)) => MaySendTo(endpoints[currentEndpoint'])]_vars
=============================================================================
