# libtgvoip in TLA+

A verification development of libtgvoip, the library that carries Telegram's
calls: models of its core logic, translated from the C++ source, properties
that TLC checks on small instances, and theorems that TLAPS proves for every
value of the constants. Paths below are relative to `src/`.

    PacketManager   <-- AckExchange        <-- AckExchangeProofs
                    <-- LossAccounting     <-- LossAccountingProofs
    JitterArray     <-- JitterBuffer       <-- JitterBufferProofs
    MessageQueue    <== MessageThread      <-- MessageThreadProofs
                        CallSetup          <-- CallSetupProofs
    LatestValue     <== ReliableSignaling  <-- ReliableSignalingProofs
                        Connectivity       <-- ConnectivityProofs
                        AudioThreads       <-- AudioThreadsProofs

`<--` is EXTENDS, `<==` is implemented by (INSTANCE with a refinement mapping).

Every `MC*` module gives a model its small instance; a `.cfg` is one question
asked of it. `PROJECT.json` maps each definition to the lines it translates,
and lists the hazards in the code that the properties are aimed at. Operators
commented "Faulty variant" are not part of the models: each is a plausible bug
which, put in place of the operator after it, a property is known to notice.

## 1. The system

One `VoIPController` is one end of a call. It owns these threads:

| thread | runs | does |
|---|---|---|
| application | `PublicAPI.cpp` | `Start()`, `Connect()`, `Stop()` and settings |
| message thread | `MessageThread::Run` | every packet handler, timer and delayed call; owns nearly all protocol state without a lock |
| receive thread | `RunRecvThread` | selects on the sockets, posts each packet to the message thread; fails the call when the UDP socket fails |
| send thread | `RunSendThread` | makes encoder and timers, posts `SendInit()`, then sends what `rawSendQueue` holds |
| encoder, decoder, echo canceller | `OpusEncoder`, `OpusDecoder`, `EchoCanceller` | pass audio buffers through blocking queues |
| audio callbacks | `audio/`, `os/` | hand in recorded and take out played samples |

They interact by posting functions to the message thread, by `BlockingQueue`s
(packets to send, audio buffers), by calls under a mutex (`JitterBuffer`, the
end points, the socket list) and by plain shared fields such as `state`. The
two ends interact by datagrams, directly or through relays.

### Components

State, operations, what is hard, and what correctness means, per component.

1. **Packet history and acknowledgement** (`PacketManager`). Per stream: next
   local number, newest number received and a 32-bit mask of those before it,
   newest number acknowledged with its mask, the last 128 transmissions.
   `nextLocalSeq`, `ackRemoteSeq`, `ackLocal`, `wasLocalAcked`. Hard: loss,
   repetition and reordering, shifts past the mask's width, a member without
   initial value. Correct: each packet handled once, the mask exact, what is
   counted as acknowledged received. *AckExchange.*
2. **Jitter buffer** (`net/JitterBuffer.cpp`). Two rings of frames (main and
   error correction), the time stamp fetched next, counters. `HandleInput`,
   `HandleOutput`, `Tick`, `Reset`. Hard: message thread, decoder and timer take
   turns; late, early and missing frames; signed and unsigned time stamps.
   Correct: what is fetched is what was asked for, playback does not jump back
   but to restart, a reset starts afresh. *JitterBuffer.*
3. **Message thread** (`tools/MessageThread.cpp`). A sorted queue, a batch being
   delivered, a condition variable. `Post`, `Cancel`, `Stop`, `Run`. Hard: the
   loop's mutex is taken by nobody else; messages posted and cancelled from
   within a delivery. Correct: order, no message lost or doubled, `Stop()`
   returns. *MessageQueue, MessageThread.*
4. **Call setup and call state** (`Protocol.cpp`, `Init.cpp`, `Tick.cpp`,
   `Loop.cpp`). `state`, `receivedInit`, `receivedInitAck`, timers. Hard: init
   and init ack cross, get lost, come twice; a timeout races the answer;
   device, socket or version failures at any moment. Correct: an established
   call has an answer, audio starts after its prerequisites, nobody waits for
   ever. *CallSetup.*
5. **Reliable signaling** (`Reliable.cpp`, `NetworkAPI.cpp`). Reliable packets
   retransmitted until acknowledged; extras in every new packet until one that
   carried them is acknowledged. Hard: acknowledgements matched by bare
   numbers across streams; retries counted down on every pass; an extra
   replaced while under way. Correct: an extra is dropped only when received,
   the latest value wins. *ReliableSignaling; CallSetup for init and init ack.*
6. **Congestion control and bandwidth** (`CongestionControl.cpp`,
   `Bandwidth.cpp`). 100 slots for packets in flight, loss counters, a
   hysteresis that moves the bitrate. Hard: a packet sent many times, given up
   and then acknowledged; counters that are taken back. Correct: the books
   agree, each loss counts once. *LossAccounting, for the books.*
7. **End points, relays and UDP connectivity** (`Endpoints.cpp`,
   `Reflector.cpp`, `Tick.cpp`, `NetworkAPI.cpp`). Preferred relay, current end
   point, UDP state and its ping timers. Hard: evaluations that outlive a
   network change, timers cancelled by a stale id, records overwritten by a
   switch. Correct: one chain of pings, a verdict rests on pings sent since the
   last reset, what is selected exists. *Connectivity.*
8. **Send and receive threads** (`Loop.cpp`, `BlockingQueue.h`). A bounded queue
   that aborts the program when full, the sockets, the stop flags. Hard: a full
   queue, `Stop()` in any state. *Not modelled as such: the queue is the one of
   AudioThreads, the end of the receive thread is SocketFails of CallSetup, the
   rest is sockets that block.*
9. **Video reassembly** (`PacketReassembler.cpp`). *Not modelled: nothing calls
   it, its `AddFragment()` is commented out at `Protocol.cpp:300`.*
10. **Audio pipeline** (`audio/`, `media/Audio.cpp`). Four threads and two
    callbacks hand buffers to each other through pools, bounded queues and a
    semaphore. Hard: shutting down while one waits for the other; pools that
    look at one place. Correct: no permit is lost, no queue overflows, everybody
    returns. *AudioThreads; the signal processing is not.*
11. **Sockets and SOCKS5** (`NetworkSocket.cpp`). The negotiation and TCP
    framing. Hard: partial reads. *Not modelled: blocking reads of one thread.*
12. **Packet formats and encryption**. Byte layouts and cryptography, without
    state of their own. *Not modelled.*
13. **Platform I/O** (`os/`, `audio/AudioIO`, `video/VideoSource`). *Not
    modelled: calls of operating system interfaces.*
14. **Video sending** (`video/`). Unfinished and not called by the protocol;
    cm256 is vendored. *Not modelled.*
15. **Group calls** (`VoIPGroupController.cpp`). Written against an older
    protocol. *Not modelled.*
16. **Public wrapper, configuration, logging**. *Not modelled: no behaviour.*
17. **webrtc_dsp**. *Vendored.*

## 2. Plan

Written, in this order, each with its model-checking module:

1. `PacketManager` and `AckExchange`, because everything else is decided by
   which packets count as received; then its proofs.
2. `JitterArray` and `JitterBuffer`; `MessageThread`, whose guarantees the other
   models rely on, and `MessageQueue`, which states them for those who post.
3. `LossAccounting` on top of `PacketManager`; then its proofs.
4. `CallSetup`, which composes connecting, timers, extras, acknowledgement and
   the call state of two ends; then its proofs.
5. `LatestValue`, what signaling owes for one setting, and `ReliableSignaling`,
   which implements it but where the two faults of the code disturb it.
6. `Connectivity`, which needs of the message thread that a message outlives a
   `Cancel()` that comes after it was collected.
7. `AudioThreads`, in place of the send path: the same `BlockingQueue`, with the
   hazards of it that can be reached.
8. The proofs, a module for each of the eight models: type correctness, every
   safety invariant and every action property that a passing run checks, and the
   refinements of `MessageQueue` and `LatestValue`.

To come:

9. The bitrate hysteresis; `Stop()` of a call; SOCKS5.

## 3. The models

### PacketManager, AckExchange

`PacketManager` holds the arithmetic of `PacketManager.{h,cpp}`: the wrapping
comparison `SeqGt` (`seqgt`), the age test, and the masks as sets of bits. A
shift by the mask's width or more is undefined in C++; `ShiftCounts` gives both
results processors produce, and everything that uses a shift is a set of
possible results. `AckExchange` is two peers and one stream. `Send` is
`Packet::prepare()`; `ReceiveNewer`, `ReceiveOlder` and `Discard` are the three
ways through `ackRemoteSeq()`, each with the acknowledgement part of
`ProcessIncomingPacket()` behind it, as in the code. `network` only grows: any
packet sent may arrive now, later, again or never. `lastRemoteSeqsMask` starts
with any value, as the constructor leaves it. `accepted`, `acceptedTwice` and
`nearby` are history.

`nearby` is the precondition under which the window can be exact: no packet
came further from the newest one than the mask is wide. The instance lets the
precondition fail as well as hold; section 5 says what then happens. Numbers that wrap are excluded by `PeersAssumption` (a call of 2^31
packets per stream).

### JitterArray, JitterBuffer

`JitterArray` is the ring: a frame is the time stamp it was encoded at, so that
a slot can be compared with what it is read as. `put`, `advance`, `get`,
`count` are `Stored`, `Advanced`, `FrameAt`, `Count`, with the code's arithmetic
in it. `JitterBuffer` has one action per critical section: `Arrive` puts in a
packet's frame, `InputCopy` its error-correction copies one by one (the mutex
is released between them and the decoder may come in), `TakeOut`,
`MissWhileBuffering`, `Miss` and `MissAndReset` are the ways through
`HandleOutput()`, `Tick` and `SetMinPacketCount` the other two. The averages
that decide a resync and a new delay are abstracted to which outcomes they can
have: a resync only after a late frame, a delay that moves by at most one.
`nextFetchTimestamp` is signed and its comparisons are made unsigned, as in the
code.

### MessageThread

The POSIX branch. `PostNumber`, `PostInsert`, `PostSignal` are three steps
because no lock covers all three: the id is read and stored unprotected (two
messages may share one), the queue has its mutex, the signal is sent without
the loop's mutex. `Along(q, walk)` is what the loops over the queue leave or
collect: the elements at some places, in their order. `Check`, `Sleep`, `TimeOut`, `Collect`, `Call`, `Return` and
`AllDelivered` are the steps of `Run()`; between `Check` and `Sleep` a signal is
lost, since only a waiting loop is woken. Handlers run as the thread `Loop`,
which may post and cancel while `pc = "calling"`. Deadlines are kept relative to
the clock; `Tick` counts them down.

`MessageQueue` is what those who post are promised: a message is pending, called,
and pending again only if it is periodic; only `Cancel()` takes a pending one
away, and those posted without a delay are called in the order of posting. It
knows of no batch, no times and no threads. Under the mapping, what is pending is
the batch and the queue together, and of a message only its number, whether it is
periodic and whether it is without a delay (`Promise`). So `Collect`, the clock
and the sleep are steps that change nothing, and a message that was dropped by
the partition, doubled by a handler, or put back after it was cancelled would be
a step the abstract queue does not have.

### LossAccounting

`inflightPackets`, `inflightDataSize`, `lastSentSeq` and `lossCount` of
`CongestionControl`, and per stream the list `recentOutgoingPackets` with
`sendLosses`. `Number` is the numbering in `Packet::prepare()`, `Transmit` is
`SendOrEnqueuePacket()` for a first transmission or a repetition, `TakeAck` the
reading of an acknowledgement, `TickCongestionControl` the timer's handler: the
controller's own `Tick()` and then `PacketLost()` for what looks lost. That
`TakeAck` also releases the slot of the packet that has the number of the
peer's packet is the code's (`Protocol.cpp:149`). Times are ages; `RttKnown` is
the condition under which `GetAverageRTT()` returns something other than 999.
`transmitted`, `tracked`, `givenUp` and `released` are history.

### CallSetup

Two controllers over a network that loses, repeats and reorders. `call[p]` is a
controller's record: how far the starting thread is, state, flags, pending
delayed messages. `Connect`, `InitializeAudio`, `InitializeTimers`, `PostInit`
are the thread that starts the call up to the post of `SendInit()`; `SendInit`
its handler. `Retransmit` is `UpdateReliablePackets()`, which sends the bytes of
the first time; `GiveUp` its timeout. `ReceiveAgain` and `Receive` are
`NetworkPacketReceived` for a repeated and a new packet: state, extras, the
answering nop, acknowledgement, first audio, in the code's order. The delayed
messages are `CollectInitTimeout`/`InitTimeout` (two steps: once collected,
`Cancel()` no longer reaches it), `EstablishIfNoData` and
`EstablishOnFirstData`. `CheckReceiving` is the state part of
`UpdateAudioBitrate()`, `SocketFails` the end of the receive thread. `fault`
chooses what is wrong at each peer: playback, capture, socket or an init that
the peer cannot accept.

Abstractions, all named in the module: a handler is one step, so the look at
`state` and the `SetState()` after it are not interleaved with the receive
thread; one end point per peer; both speak the current protocol; calls of few
packets, so that no nop is sent for acknowledgement alone and no packet is
refused as too old; `wasLocalAcked()` is true of the number acknowledged and
nothing else, because the end of the mask it reads is still empty in the first
packets of a call (see `ack_mask_order`). A refused init ack is left out: with
two honest versions, whoever would refuse it has had its init refused first.
How long anything takes is left open. `Stop()` is not modelled.

### LatestValue, ReliableSignaling

`LatestValue` is the promise: a register of which the other end knows a value
that was set, never goes back to an older one, and is not told any more (`open`
becomes false) only when it knows the latest. `Disturbed` is what is left of the
promise afterwards.

`ReliableSignaling` is one end that sets an extra and one that receives it.
`SendExtra`, `SendPacket`, `UpdateReliablePackets` are the functions of those
names (`NetworkAPI.cpp`, `Reliable.cpp`); `HandleAck` is `HandleReliablePackets()` and the loop over
`currentExtras`, for each acknowledgement that moves forward; `ReceivePacket`
ends in `ProcessExtraData()` with its comparison of hashes. One pass over
`reliablePackets` counts down the tries of all, gives up some for their timeout
and transmits the new ones. Each packet is its stream and number; `network` and
`acks` only grow, so anything may be lost, late or repeated, and transmitting a
packet again changes nothing. The code posts a pass with every packet and every
transmission; in the model one may come whenever the list has a packet.

Abstractions: one kind of extra, whose values alternate (an on/off setting, the
case in which a hash can recur); no extra bound to an end point;
`wasLocalAcked()` is true of the number acknowledged and nothing else, as in
CallSetup. The mapping is `set` = values set, `known` = the number of the value
handled last, `open` = the extra is still in `currentExtras`, `disturbed` = a
packet was overtaken by one made later, or an acknowledged number was matched in
the other stream. Both are history of the model; the first is the network's
doing, which the code has no check against, the second the code's.

### Connectivity

One client. `SendUdpPings` and `EvaluateUdpPingResults` are the messages named
so (`Tick.cpp`), `StartPings` what the receive thread posts when it starts,
`ResetUdpAvailability` the function, which `NetworkChanged` (the message posted
by `SetNetworkType()`) and `ConnectionLost` (`UpdateAudioBitrate()`) call;
`ReceiveTimeout`, `SendRelayPings` and `ReceivePacket` are the other places that
assign `currentEndpoint` or `preferredRelay`. Endpoints are a function from ids
to records, because the code stores under one id the record of another
(`Protocol.cpp:181`).

The queue of messages is kept as far as the pings need it: how many of each kind
are queued, which one `udpPingTimeoutID` names, and the one of the batch being
delivered that a `Cancel()` missed. That is what MessageThread allows: `Cancel()`
looks at the queue only, and a batch comes before what is queued. The average
number of pongs is one of five classes, those the comparisons tell apart, and
may be any of them. Left out: the proxy, relays with IPv6, `P2Pv4` and `LANv4`
(they are chosen only by a measured round trip, and none is ever measured,
`LastPingSeq`), the endpoints the peer requests.

### AudioThreads

Per thread a record with its program counter `at` and the buffer it holds; one
action from one blocking or shared step to the next. `DecodeFrame` to
`PutDecoded` are `OpusDecoder::RunThread()`, `CallbackStart` to `CallbackReturn`
`HandleCallback()` called by a device that holds `callbackMutex`, `SpeakerOut`
the copy it gives the echo canceller, `FarendTake`/`FarendDone` the canceller's
thread, `CaptureCallback` the recording side, `EncoderTake`/`EncoderDone` the
encoder's thread. The owner's actions are `StartAudio()`, `Stop()` and the
destructors in their order. `BufferPool::Get()` looks at one place whatever its
loop says (`i` is counted, `offset` does not move), and is modelled so.

Left out: the sound, so no resampling, gain, or packet loss concealment; the
path `silentPacketCount` takes, since nothing in this controller calls
`SetDTX()`; the frames an encoder gathers into one. A frame fills one or two
buffers (`PacketsPerFrame`). After `Stop()` of a device there may still be the
call that had begun.

## 4. What TLC checks

| run | expects | states | question |
|---|---|---|---|
| `ack_exchange` | pass | 492,922 | are window, suppression of duplicates and acknowledgements right? |
| `ack_mask_order` | violation | 600 | is a packet counted as acknowledged received? |
| `jitter_buffer` | pass | 1,371,083 | do ring, playback position and counters stay consistent? |
| `message_thread` | pass | 78,039 | order, the promises of the abstract queue, and delivery in spite of lost signals, with a periodic timer |
| `loss_accounting` | pass | 326,183 | do both books agree and count each loss once? |
| `call_setup` | pass | 2,881,257 | do the two ends' conclusions about each other hold, under every fault? |
| `call_setup_waiting` | pass | 497,652 | does whoever connects stop waiting? |
| `call_setup_answer` | violation | 30,706 | of two peers that have each other's init, does one get an answer? |
| `signaling` | pass | 2,190,918 | does signaling implement the register, and does each reliable packet leave its list for a reason? |
| `connectivity` | pass | 145,794 | does what is selected exist, is there one chain of pings, is UDP judged, and on enough pings? |
| `connectivity_switch` | violation | 1,853 | is a relay that answers switched to, once the preferred one is not measured? |
| `audio` | pass | 134,419 | are permits and pools conserved, do queues stay within bounds, does everybody return? |

The states of a violation are those found before the counterexample.

### Bounds

- **AckExchange**: mask of 2 bits, window of 4, one peer sends 5 packets and the
  other 2. The order 2 < 4 < 5 is that of 32 < 128 < a call: packets fall inside
  the mask, between mask and window, and outside of the window. Two packets the
  other way carry acknowledgements that can be reordered.
- **JitterBuffer**: 3 slots and 5 time stamps, so frames wrap around the ring
  and push others out; a time stamp overtaken by 1; copies reach back 1; 2
  losses reset; delays 1 and 2. `UIntMod` is a multiple of the slots and larger
  than any distance, as 2^32 is.
- **MessageThread**: two posting threads (one of them the handlers), two posts
  of every delay in {0, 1} and interval in {0, 1}, a timer of period 2. `Longest`
  bounds delays and periods. Two posts are enough for a shared id and for both
  orders of insertion; `MaxLate` 1 makes all late messages alike.
- **LossAccounting**: 2 slots, two streams of two packets each, 4
  transmissions, lists of two: the slots overflow, a packet is sent again after
  it was pushed out, found lost, or acknowledged, and the lists are trimmed.
- **CallSetup**: one audio packet per peer beside init, its retransmissions and
  the nop; every pair of faults, with the symmetry of the peers (no property
  there is a liveness property; the liveness runs use no symmetry). The waiting
  run takes the faults `none` and `incompatible`: the others only set `FAILED`,
  which ends the waiting.
- **ReliableSignaling**: two streams of two packets, three values set (on,
  off, on again: a value recurs), packets that are sent once or with two tries, a
  history of 2 carriers where the code has 16, so that carriers fall off its end.
- **Connectivity**: one relay, given over TCP too or not, which with the direct
  endpoint makes three to choose from; two changes of the network or losses of
  the connection, two cancels that come too late. Counts of pings are alike past
  11. Pongs are left to the violation's instance, since they change nothing a
  property here reads (`LastPingSeq`). Three changes, and two relays with one
  change and one kind of extra, were explored by hand and pass too.
- **AudioThreads**: pools of 3 decoded, 2 captured and 2 far-end buffers behind
  queues of 4, 2 and 3. The orders are those of the code (32 < 33, 10 = 10,
  10 < 11). Capture and far-end pools run out; the pool of decoded buffers does
  not, because only two permits are ever about (`PermitsConserved`).

`CHECK_DEADLOCK FALSE` stands where the system may stop: a call or a stream at
its bounds, a message thread that has ended.

### Fairness

- **MessageThread**: weak fairness of the loop's steps, of a thread inside
  `Post()` or `Stop()`, and of the clock. These are running threads that block
  nowhere but where a guard says so. Nobody has to post, cancel or stop, and
  spurious wake-ups are not counted on. Periodic timers exist in every connected
  call (`InitializeTimers()`); before them the queue may be empty, see
  section 5.
- **CallSetup, `FairSpec`**: weak fairness of the starting thread, of the init
  timeout and of `EstablishIfNoData`. The last two are delayed messages, and
  that the message thread comes to them is `EveryMessageIsDelivered`. Nothing is
  assumed of the network.
- **CallSetup, `DeliverySpec`**, used for the violation only: also that
  retransmissions get through infinitely often (strong fairness) and that what
  is under way is received. The counterexample thus blames the protocol, not
  the network.
- **Connectivity**: weak fairness of the pings and of their evaluation, each as
  the message the id names, as another one, and as the one left in a batch. They
  are messages that are due, which is again `EveryMessageIsDelivered`. Nothing
  is assumed of changes, packets or answers.
- **AudioThreads**: weak fairness of each thread, of a callback that has begun,
  and of a shutdown that has begun. Devices need not call, and nobody needs to
  start or stop a call.

## 5. What does not hold

Statements of the repository that the code contradicts. Three are kept as runs.

- **Acknowledgement masks are read back to front** (`ack_mask_order`,
  `PacketManager.cpp:29`). The peer puts the packet at distance d in bit d - 1,
  `wasLocalAcked()` looks in bit 32 - d. After a gap, packets count as
  acknowledged that never arrived. The masks themselves are right
  (`AckTruthful`).
- **The init ack may never come** (`call_setup_answer`, `Protocol.cpp:385`). It
  travels in one unreliable nop. When the inits cross and both nops are lost,
  the inits are retransmitted and dropped as duplicates, and no new packet is
  made that would carry the init ack; in the program the init timeout then
  fails the call.
- **A relay that answers is not switched to** (`connectivity_switch`,
  `NetworkAPI.cpp:323`). The comment promises to force the switch to an
  available relay when the preferred one has no round trip time. A round trip is
  measured only by a pong that names the number of the last ping, and nothing
  assigns that number; so no relay is ever measured, none is preferred, and the
  client stays where it is.

Three more are stated by definitions of the modules and were found with other
instances of them; they are not kept as runs.

- **The window is wider than its mask** (`PacketManager.cpp:64`). Packets up to
  127 behind are looked up in 32 bits: with a count taken modulo 32, a packet
  that is new is refused. `RefusedIsOldOrDupe`, constants of `MCAckExchange.cfg`.
- **Frames in the wrong slot** (`JitterBuffer.cpp:44`). `put()` moves the front
  by the distance from the back. Once front and back differ, as they do when a
  second frame waits, a frame is found under another time stamp.
  `ExactWhileAligned` states the condition under which the ring works: frames
  that come in order and are taken out as fast as they come.
  `FetchesWhatItAsks`, with 8 slots, `UIntMod` 32, 5 time stamps and reordering
  by 2, so neither a full ring nor a wrap is needed for it.
- **Stop() may wait for ever** (`MessageThread.cpp:54`). Its signal can come
  between the loop's look at the queue and its wait. `StopReturns`, with
  `Heartbeat` 0, that is, without a periodic message.

Things the models show that no text of the repository denies, and that are
therefore not findings: `useUDP` is assigned in one place (`Tick.cpp:95`) and
never becomes true again, so that after UDP was judged not available with at
most one pong per relay, and the network then changed (`useTCP` false), neither
protocol may send, whatever later verdicts say; a switch to a relay loses the
record of the endpoint left (`Protocol.cpp:181`); a packet from a TCP relay that
comes after the change back to UDP makes that relay the current endpoint again;
when a cancel came too late, a bad verdict may never be revised
(`UdpIsJudged` has `missed > 0` for it); and `OpusEncoder::Stop()` aborts the
process if all ten capture buffers wait at that moment (`OpusEncoder.cpp:102`,
the exception in `OverfullOnlyAtStop` and `EverybodyReturns`).

## 6. What is proved

Every safety invariant and every action property of the passing runs is a
theorem of its model, for all values of the constants that the named assumptions
allow, and so are the refinements of `MessageQueue` and `LatestValue`. TLAPS checks 9,915
obligations in eight modules. The arguments, with the invariant each rests on:

**AckExchangeProofs** (498 obligations), from `SizesAssumption`
and `PeersAssumption`: for every number of packets, width of the mask and window.
The properties of the run are nearly inductive. What they lack is about the
network: a packet under way names in its acknowledgement only numbers its sender
had accepted (`NetworkTruthful`), and stays true because `accepted` only grows.
`Inv` is that together with the properties and the range of numbers in use. The
steps that count are `ReceiveNewer` (a shift of the mask keeps each bit's
meaning, by `AdvancedBits`) and `ReceiveOlder` (the bit set is the packet's own,
by `PositionIsBit`, which is where `nearby` is needed). Theorems: `TypeCorrect`,
`HandledOnce`, `WindowIsExact`, `AcksAreTrue`, `AcksMoveForward`.

**JitterBufferProofs** (779), from `ArrayAssumption` and
`BufferAssumption`: for a ring of any size and unsigned numbers of any width
that is a multiple of it. The strengthening, `Lined`, says how an aligned ring
lies in memory: front and back are less than a ring apart, the front is at the
place its time stamp belongs to, and each frame between them at its own. The
lemmas about the ring's arithmetic (`Remainders` and what follows) are where a
wrap around the end is dealt with, and where the sizes' ratio is needed.
Theorems: `TypeCorrect`, `NothingMisplaced`, `LossesStartAfresh` and, for each
step, `PlaysForward`.

**MessageThreadProofs** (2,280), from `ThreadAssumption`: for any
threads, delays, intervals and number of posts, with or without a timer.
`DueInOrder` and `NeverTwice` are strengthened by what relates the queue to the
batch: each is sorted, and of the messages without a delay those in the batch
were posted before those in the queue (`BatchFirst`); no message is in two of
queue, batch and call (`Apart`); and whatever is in one was posted, is due if it
is in the batch, and was not cancelled (`AllPosted`, `Batch`). `Apart` has to be
about the messages' places in the order of posting and not their ids: two
messages may share an id, and one `Cancel()` then removes both. Theorems:
`TypeCorrect`, `InOrderAlways`, `NeverCalledTwice`, and `ThreadImplementsQueue`:
each step of MessageThread is, under the mapping, a step of `MessageQueue` or
none. For that, `WalkIsComplete` shows that what is collected and what stays are
together the whole queue (an increasing walk through as many places as there are
passes by each of them), `InsertedIsAdded` that an insertion drops nothing, and
`PromisesApart` that taking a message away leaves every other one. `NeverTwice`,
about the places inside the thread, is proved only; what a caller can see of it
is part of `KeepsItsPromises`, which TLC checks too.

**LossAccountingProofs** (1,877), from `AccountingAssumption`
and `SizesAssumption`: for any number of slots, streams, packets and
transmissions. There are two invariants.

- `Inv`: nothing in a slot, in a list or in the history is numbered above
  `lastSentSeq` (`NewestBounds`). A packet that `PacketSent()` lets into a slot
  is newer than that, so it is in no other slot, none of its transmissions is
  settled and it was never given up. Without it, `OneSlotPerPacket` is not
  inductive: a state with a settled newer packet would allow a second slot.
  Theorems: `EachInOneSlot`, `EachLossOnce`, `BooksAgree`.
- `Books`, relative to `Inv`: the two sums. `inflightDataSize` is what the slots
  hold (a slot overwritten, released or given up takes its size with it), and
  `sendLosses` has one loss for each transmission that was found lost and may
  still be acknowledged. It is inductive because a list is trimmed, aged or
  acknowledged only in ways that leave no such transmission uncounted
  (`RisksShrink`, `RisksTakenBack`, `RisksFound`). As a consequence none of the
  three unsigned counters, all of which are decremented, ever wraps. Theorems:
  `TypeCorrect`, `DataInFlightIsExact`, `LossesAreCovered`.

The community modules' `MapThenSumSet` is a fold, which the provers do not know
anything of. The module shows first that its sum exists and is the only one (by
the smallest subset for which it would fail), and then that it grows by an
element's value with the element (`TotalOfOthers`, `TotalSplits`), is monotone
(`TotalCompares`) and additive (`TotalAdds`).

**CallSetupProofs** (1,644), from `SetupAssumption`: for all faults and any
number of audio packets the assumption allows. There are two invariants.

- `Inv`: knowledge follows packets. An extra that is queued, carried by a packet
  under way or kept for retransmission is there because its sender did what it
  says (`Truthful`); what a controller has concluded from extras is true of its
  peer (`Backed`); and an established call, or a delayed message that would
  establish it, rests on the init ack (`Coherent`). No peer takes back what it
  said (`Grows`), so a step of one peer needs to be looked at for that peer only
  (`StepOfOne`). Theorems: `EstablishedIsAnswered`, `AudioFindsEncoder` (the
  answer shows that our init was sent, and it is sent after the encoder was
  made), and the action property `NoOtherRevival`.
- `Dialogue`, relative to `Inv`: knowledge follows numbers. A controller has sent
  as many signaling packets as it has things to say, its init and its answer
  (`Signaled`); it keeps the answer in its extras until the peer has it
  (`Answering`), since the acknowledgement that would drop it comes from a peer
  that received one of its carriers; and so an audio packet carries the answer,
  or its receiver has it (`Honest`). That is what audio needs to find the stream
  it belongs to, however packets overtake each other. Theorems: `TypeCorrect`,
  `AudioFindsStream`.

**ReliableSignalingProofs** (629), from
`SignalingAssumption`: for any streams, packets, values, tries and length of the
history. Three facts about packets are added to the state: the values they carry
are in the order they were made (`InOrder`), those noted with the extra carry
the value it has now (`CarriersCarry`, which is why `SendExtra()` must forget the
carriers of the old value), and, unless packets overtook each other, no packet
to come brings back an earlier value (`Undisturbed`). Theorems: `TypeCorrect`,
`LastIsInForceAlways`, the action property `ReliableLeavesForAReason`, and
`SignalingImplementsRegister`: each step of ReliableSignaling is, under the
mapping, a step of `LatestValue` or none.

**ConnectivityProofs** (568), from `ConnectivityAssumption`: for any
relays and any bounds. Two independent parts. Of the records (`Fit`): what is
stored under a relay's id is a relay's record, and what is stored or selected is
the id of something stored; a switch that overwrites one record with another
keeps that, which `SelectedEndpointsExist` alone does not show. Of the timers
(`Chain`): there is at most one message of the pings for each cancel that came
too late and one beside, and one that is not tracked was missed by a cancel.
`EvaluationInTime` adds that an evaluation is queued at its count of pings.
Theorems: `TypeCorrect`, `SelectionIsStored`, `PingsAreOneChain`,
`JudgedAfterPings`.

**AudioThreadsProofs** (1,640), from `AudioAssumption`: for any sizes of
pools and queues in the order the code has them. The strengthening says where
each buffer of a pool is. A pool hands its places out in turn (`InTurn`), and
they are given back in turn: whoever works on a buffer has the oldest, the queue
has the next ones in their order, and the decoder the newest (`InLine`). So the
one place `BufferPool::Get()` looks at is in use only when all are. `Phases`
says where threads can be while the owner is where it is, and `Kept` is
`PermitsConserved`. Theorems: `TypeCorrect`, `PermitsNeverLost`,
`OnePlaceIsEnough`, `NoAbortWhileSoundFlows`.

The assumptions are those of the code: sizes that are not zero, capacities in the
order of the code's constants, finitely many streams and threads, numbers that
do not wrap within a call. Every one is evaluated by TLC for the instances of
section 4.

**Only model-checked**: the liveness properties `EveryMessageIsDelivered`,
`StopReturns`, `StopsWaiting`, `UdpIsJudged` and `EverybodyReturns`, since
fairness and ENABLED are not something these provers reason about; and the
counterexamples of section 5.

Induction over data needs a theorem with an operator for a parameter, which the
provers cannot instantiate. Where a proof needs one, here for the largest of
some numbers, for the sums and for the walks through a queue, it goes by the
smallest counterexample: `WFMin` of the library, whose parameters are sets,
says that there is one.

## 7. What is not modelled

Components 8, 9 and 11 to 17 are not modelled, for the reasons given in section
1. Most of the repository's lines are webrtc_dsp and other vendored code.
Within the modelled components: wrapping sequence numbers, the Windows branch of
the message thread, the numbers behind the jitter statistics and behind the
average of pongs, the playback speed, the old protocol versions, `Stop()` of a
call on the protocol's side, the interleaving of the receive thread's
`SetState()` with a handler, extras bound to an endpoint, the proxy, direct IPv4
endpoints, relays with IPv6, the choice of bitrate, and what is done to sound.
The models meet at their edges only: Connectivity and CallSetup assume of the
message queue what MessageThread shows, and no composition of all of them is
checked.
