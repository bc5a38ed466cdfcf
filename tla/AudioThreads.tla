---------------------------- MODULE AudioThreads ----------------------------
(***************************************************************************)
(* The threads sound passes through.  The decoder thread puts decoded      *)
(* buffers on a queue from which the device's playback callback takes      *)
(* them; the callback hands a copy to the echo canceller's far-end thread. *)
(* The capture callback puts buffers on the queue of the encoder thread.   *)
(* Each queue is fed from a pool of its own.  The owner starts the threads *)
(* and ends them: callbacks first, then decoder, encoder, echo canceller.  *)
(*                                                                         *)
(* What is in the buffers is left out, with what is done to it between     *)
(* taking one and giving it back.  The devices call back when they like.   *)
(***************************************************************************)
EXTENDS Integers, Sequences

CONSTANTS
  Buffers,           \* the size of each queue's pool, and
  Capacity,          \* the capacity of each queue
  PacketsPerFrame    \* how many buffers a decoded frame may fill

Queues == {"decoded", "captured", "farend"}

\* packetsNeeded of a callback of one packet: with the buffer the callback still copies
\* there are three of the pool in use.
Ahead == 2

ASSUME AudioAssumption ==
  /\ Buffers \in [Queues -> Nat \ {0}] /\ Capacity \in [Queues -> Nat]
  /\ \A q \in Queues : Buffers[q] <= Capacity[q]
  /\ Buffers["decoded"] > Ahead /\ Buffers["farend"] < Capacity["farend"]
  /\ PacketsPerFrame \subseteq Nat \ {0}

VARIABLES
  pools,         \* per queue: the buffers in use and the next one to hand out
  queues,
  aborted,       \* a queue was over capacity and the process is gone
  permits,       \* the semaphore the decoder waits for
  sized,         \* outputBufferSize is known: the first callback has asked for buffers
  decoder,       \* where the decoder thread is, what it fills, how much of a frame is left
  running,       \* the decoder's
  playback,      \* where the playback callback is and the buffer it has
  farend,        \* where the far-end thread is and the buffer it has
  encoder,       \* where the encoder thread is and the buffer it has
  encRunning,    \* the encoder's running
  owner          \* what the owner does next

sound  == <<pools, queues, aborted>>
player == <<permits, sized, decoder, running, playback>>
vars   == <<sound, player, farend, encoder, encRunning, owner>>

None  == -1      \* no buffer
Empty == -2      \* the empty one a thread ends at

Slots(q) == 0 .. Buffers[q] - 1

TypeOK ==
  /\ pools \in [Queues -> [used : SUBSET Nat, offset : Nat]]
  /\ queues \in [Queues -> Seq(Nat \cup {Empty})]
  /\ \A q \in Queues : /\ pools[q].used \subseteq Slots(q) /\ pools[q].offset \in Slots(q)
                       /\ queues[q] \in Seq(Slots(q) \cup {Empty})
  /\ {aborted, sized, running, encRunning} \subseteq BOOLEAN
  /\ permits \in Nat
  /\ decoder \in [at : {"off", "decode", "acquire", "fill", "put", "exited"},
                  buf : Slots("decoded") \cup {None}, left : Nat]
  /\ playback \in [at : {"idle", "called", "get", "release", "copy", "return"},
                   buf : Slots("decoded") \cup {None}]
  /\ farend \in [at : {"take", "busy", "exited"}, buf : Slots("farend") \cup {None}]
  /\ encoder \in [at : {"off", "take", "busy", "exited"}, buf : Slots("captured") \cup {None}]
  /\ owner \in {"created", "startEncoder", "playing", "clearInput", "clearOutput", "stopDecoder",
                "joinDecoder", "stopEncoder", "joinEncoder", "stopFarend", "joinFarend", "done"}

Init ==
  /\ pools = [q \in Queues |-> [used |-> {}, offset |-> 0]]
  /\ queues = [q \in Queues |-> <<>>]
  /\ aborted = FALSE
  /\ permits = 0 /\ sized = FALSE
  /\ decoder = [at |-> "off", buf |-> None, left |-> 0] /\ running = FALSE
  /\ playback = [at |-> "idle", buf |-> None]
  /\ farend = [at |-> "take", buf |-> None]
  /\ encoder = [at |-> "off", buf |-> None] /\ encRunning = FALSE
  /\ owner = "created"

-----------------------------------------------------------------------------
(* Pools and queues                                                        *)

\* Faulty variant: never out of buffers.
AlwaysHasBuffer(q) == TRUE

\* BufferPool::Get() looks at one place only, however often its loop goes round.
HasBuffer(q) == pools[q].offset \notin pools[q].used

\* Faulty variant: passes over every other buffer.
TakenSkipping(pool, q) ==
  [used |-> pool.used \cup {pool.offset}, offset |-> (pool.offset + 2) % Buffers[q]]

\* Faulty variant: goes on past the last buffer.
TakenPastTheEnd(pool, q) ==
  [used |-> pool.used \cup {pool.offset}, offset |-> pool.offset + 1]

Taken(pool, q) ==
  [used |-> pool.used \cup {pool.offset}, offset |-> (pool.offset + 1) % Buffers[q]]

GetBuffer(q)  == pools' = [pools EXCEPT ![q] = Taken(@, q)]
Free(q, buf)  == pools' = [pools EXCEPT ![q].used = @ \ {buf}]

\* BlockingQueue::Put(): over capacity it aborts.
Put(q, buf) ==
  /\ queues' = [queues EXCEPT ![q] = Append(@, buf)]
  /\ aborted' = (Len(queues[q]) + 1 > Capacity[q])

\* GetBlocking()
Take(q) ==
  /\ queues[q] # <<>>
  /\ queues' = [queues EXCEPT ![q] = Tail(@)]
  /\ UNCHANGED aborted

-----------------------------------------------------------------------------
(* The decoder thread                                                      *)

\* What the thread does next with a frame of which left buffers remain.
Continue(left) == [at |-> IF left > 0 THEN "acquire" ELSE "decode", buf |-> None, left |-> left]

Exited == [at |-> "exited", buf |-> None, left |-> 0]

DecodeFrame ==
  /\ ~aborted /\ decoder.at = "decode"
  /\ \/ running /\ \E n \in PacketsPerFrame : decoder' = Continue(n)
     \/ ~running /\ decoder' = Exited
  /\ UNCHANGED <<sound, permits, sized, running, playback, farend, encoder, encRunning, owner>>

Acquire ==
  /\ ~aborted /\ decoder.at = "acquire" /\ permits > 0
  /\ permits' = permits - 1
  /\ decoder' = [decoder EXCEPT !.at = "fill"]
  /\ UNCHANGED <<sound, sized, running, playback, farend, encoder, encRunning, owner>>

\* With no buffer left what was decoded is dropped, and the permit with it.
FillBuffer ==
  /\ ~aborted /\ decoder.at = "fill"
  /\ \/ ~running /\ decoder' = Exited /\ UNCHANGED pools
     \/ /\ running /\ HasBuffer("decoded")
        /\ GetBuffer("decoded")
        /\ decoder' = [decoder EXCEPT !.at = "put", !.buf = pools["decoded"].offset]
     \/ /\ running /\ ~HasBuffer("decoded")
        /\ decoder' = Continue(decoder.left - 1) /\ UNCHANGED pools
  /\ UNCHANGED <<queues, aborted, permits, sized, running, playback, farend, encoder,
                 encRunning, owner>>

PutDecoded ==
  /\ ~aborted /\ decoder.at = "put"
  /\ Put("decoded", decoder.buf)
  /\ decoder' = Continue(decoder.left - 1)
  /\ UNCHANGED <<pools, permits, sized, running, playback, farend, encoder, encRunning, owner>>

-----------------------------------------------------------------------------
(* The playback callback: it holds callbackMutex from CallbackStart on     *)

DevicesRun        == owner \in {"startEncoder", "playing"}
OutputCallbackSet == owner \in {"startEncoder", "playing", "clearInput", "clearOutput"}
InputCallbackSet  == owner \in {"created", "startEncoder", "playing", "clearInput"}

\* The device's thread decides to call, while it plays.
DeviceCalls ==
  /\ ~aborted /\ DevicesRun /\ playback.at = "idle"
  /\ playback' = [playback EXCEPT !.at = "called"]
  /\ UNCHANGED <<sound, permits, sized, decoder, running, farend, encoder, encRunning, owner>>

\* InvokeCallback() and the start of HandleCallback(); with no callback set, or the
\* decoder not running, there is silence.
CallbackStart ==
  /\ ~aborted /\ playback.at = "called"
  /\ \/ /\ OutputCallbackSet /\ running
        /\ permits' = IF sized THEN permits ELSE permits + Ahead
        /\ sized' = TRUE
        /\ playback' = [playback EXCEPT !.at = "get"]
     \/ /\ ~(OutputCallbackSet /\ running)
        /\ playback' = [playback EXCEPT !.at = "idle"]
        /\ UNCHANGED <<permits, sized>>
  /\ UNCHANGED <<sound, decoder, running, farend, encoder, encRunning, owner>>

CallbackGet ==
  /\ ~aborted /\ playback.at = "get"
  /\ Take("decoded")
  /\ playback' = [at |-> "release", buf |-> Head(queues["decoded"])]
  /\ UNCHANGED <<pools, permits, sized, decoder, running, farend, encoder, encRunning, owner>>

\* Faulty variant: a frame of silence is not replaced.
CallbackReleaseUnlessSilent ==
  /\ ~aborted /\ playback.at = "release"
  /\ permits' \in {permits, permits + 1}
  /\ playback' = [playback EXCEPT !.at = "copy"]
  /\ UNCHANGED <<sound, sized, decoder, running, farend, encoder, encRunning, owner>>

CallbackRelease ==
  /\ ~aborted /\ playback.at = "release"
  /\ permits' = permits + 1
  /\ playback' = [playback EXCEPT !.at = "copy"]
  /\ UNCHANGED <<sound, sized, decoder, running, farend, encoder, encRunning, owner>>

\* SpeakerOutCallback(), if there is an echo canceller and it is on.
SpeakerOut ==
  /\ ~aborted /\ playback.at = "copy"
  /\ \/ /\ HasBuffer("farend")
        /\ GetBuffer("farend")
        /\ Put("farend", pools["farend"].offset)
     \/ ~HasBuffer("farend") /\ UNCHANGED sound
  /\ playback' = [playback EXCEPT !.at = "return"]
  /\ UNCHANGED <<permits, sized, decoder, running, farend, encoder, encRunning, owner>>

CallbackReturn ==
  /\ ~aborted /\ playback.at \in {"copy", "return"}
  /\ Free("decoded", playback.buf)
  /\ playback' = [at |-> "idle", buf |-> None]
  /\ UNCHANGED <<queues, aborted, permits, sized, decoder, running, farend, encoder, encRunning,
                 owner>>

-----------------------------------------------------------------------------
(* The echo canceller's far-end thread                                     *)

FarendTake ==
  /\ ~aborted /\ farend.at = "take"
  /\ Take("farend")
  /\ LET buf == Head(queues["farend"])
     IN  farend' = IF buf = Empty THEN [at |-> "exited", buf |-> None]
                   ELSE [at |-> "busy", buf |-> buf]
  /\ UNCHANGED <<pools, player, encoder, encRunning, owner>>

FarendDone ==
  /\ ~aborted /\ farend.at = "busy"
  /\ Free("farend", farend.buf)
  /\ farend' = [at |-> "take", buf |-> None]
  /\ UNCHANGED <<queues, aborted, player, encoder, encRunning, owner>>

-----------------------------------------------------------------------------
(* Capture                                                                 *)

\* Without a buffer left what was captured is dropped.
CaptureCallback ==
  /\ ~aborted /\ InputCallbackSet /\ HasBuffer("captured")
  /\ GetBuffer("captured")
  /\ Put("captured", pools["captured"].offset)
  /\ UNCHANGED <<player, farend, encoder, encRunning, owner>>

EncoderTake ==
  /\ ~aborted /\ encoder.at = "take"
  /\ Take("captured")
  /\ LET buf == Head(queues["captured"])
     IN  encoder' = IF buf = Empty THEN [at |-> "exited", buf |-> None]
                    ELSE [at |-> "busy", buf |-> buf]
  /\ UNCHANGED <<pools, player, farend, encRunning, owner>>

\* ProcessInput() and Encode(), and the loop's look at running.
EncoderDone ==
  /\ ~aborted /\ encoder.at = "busy"
  /\ Free("captured", encoder.buf)
  /\ encoder' = [at |-> IF encRunning THEN "take" ELSE "exited", buf |-> None]
  /\ UNCHANGED <<queues, aborted, player, farend, encRunning, owner>>

-----------------------------------------------------------------------------
(* The owner                                                               *)

\* StartAudio(): the decoder is made, sets itself as the callback and starts.
StartDecoder ==
  /\ ~aborted /\ owner = "created"
  /\ running' = TRUE
  /\ decoder' = [decoder EXCEPT !.at = "decode"]
  /\ owner' = "startEncoder"
  /\ UNCHANGED <<sound, permits, sized, playback, farend, encoder, encRunning>>

StartEncoder ==
  /\ ~aborted /\ owner = "startEncoder"
  /\ encRunning' = TRUE
  /\ encoder' = [encoder EXCEPT !.at = "take"]
  /\ owner' = "playing"
  /\ UNCHANGED <<sound, player, farend>>

\* Stop(): also of a call that never got to its sound.
Stop ==
  /\ ~aborted /\ owner \in {"created", "playing"}
  /\ owner' = "clearInput"
  /\ UNCHANGED <<sound, player, farend, encoder, encRunning>>

ClearInput ==
  /\ ~aborted /\ owner = "clearInput"
  /\ owner' = "clearOutput"
  /\ UNCHANGED <<sound, player, farend, encoder, encRunning>>

\* SetCallback(NULL) waits for the callback to return.
ClearOutput ==
  /\ ~aborted /\ owner = "clearOutput" /\ playback.at \in {"idle", "called"}
  /\ owner' = "stopDecoder"
  /\ UNCHANGED <<sound, player, farend, encoder, encRunning>>

\* Faulty variant: nothing wakes the decoder.
StopDecoderAsleep ==
  /\ ~aborted /\ owner = "stopDecoder"
  /\ running' = FALSE
  /\ owner' = IF running THEN "joinDecoder" ELSE "stopEncoder"
  /\ UNCHANGED <<sound, permits, sized, decoder, playback, farend, encoder, encRunning>>

\* ~VoIPController(), from here on.
StopDecoder ==
  /\ ~aborted /\ owner = "stopDecoder"
  /\ running' = FALSE
  /\ permits' = IF running THEN permits + 1 ELSE permits
  /\ owner' = IF running THEN "joinDecoder" ELSE "stopEncoder"
  /\ UNCHANGED <<sound, sized, decoder, playback, farend, encoder, encRunning>>

JoinDecoder ==
  /\ ~aborted /\ owner = "joinDecoder" /\ decoder.at = "exited"
  /\ owner' = "stopEncoder"
  /\ UNCHANGED <<sound, player, farend, encoder, encRunning>>

StopEncoder ==
  /\ ~aborted /\ owner = "stopEncoder"
  /\ encRunning' = FALSE
  /\ \/ encRunning /\ Put("captured", Empty) /\ owner' = "joinEncoder"
     \/ ~encRunning /\ UNCHANGED <<queues, aborted>> /\ owner' = "stopFarend"
  /\ UNCHANGED <<pools, player, farend, encoder>>

JoinEncoder ==
  /\ ~aborted /\ owner = "joinEncoder" /\ encoder.at = "exited"
  /\ owner' = "stopFarend"
  /\ UNCHANGED <<sound, player, farend, encoder, encRunning>>

\* ~EchoCanceller()
StopFarend ==
  /\ ~aborted /\ owner = "stopFarend"
  /\ Put("farend", Empty)
  /\ owner' = "joinFarend"
  /\ UNCHANGED <<pools, player, farend, encoder, encRunning>>

JoinFarend ==
  /\ ~aborted /\ owner = "joinFarend" /\ farend.at = "exited"
  /\ owner' = "done"
  /\ UNCHANGED <<sound, player, farend, encoder, encRunning>>

-----------------------------------------------------------------------------

DecoderThread  == DecodeFrame \/ Acquire \/ FillBuffer \/ PutDecoded
PlaybackThread == CallbackStart \/ CallbackGet \/ CallbackRelease \/ SpeakerOut \/ CallbackReturn
FarendThread   == FarendTake \/ FarendDone
EncoderThread  == EncoderTake \/ EncoderDone
Start          == StartDecoder \/ StartEncoder
Shutdown       == \/ ClearInput \/ ClearOutput \/ StopDecoder \/ JoinDecoder
                  \/ StopEncoder \/ JoinEncoder \/ StopFarend \/ JoinFarend

Next ==
  \/ DecoderThread \/ PlaybackThread \/ FarendThread \/ EncoderThread
  \/ DeviceCalls \/ CaptureCallback
  \/ Start \/ Stop \/ Shutdown

\* Every thread runs on; devices need not call, and nobody need start or stop a call.
Fairness ==
  /\ WF_vars(DecoderThread) /\ WF_vars(PlaybackThread)
  /\ WF_vars(FarendThread) /\ WF_vars(EncoderThread)
  /\ WF_vars(Shutdown)

Spec == Init /\ [][Next]_vars /\ Fairness

-----------------------------------------------------------------------------
(* Properties                                                              *)

\* Once the device has called, two buffers are on their way to it as long as the decoder
\* runs: as permits, with the decoder, in the queue or with the callback that has not yet
\* asked for another.  A permit lost with a full pool would bring playback closer to
\* GetBlocking() waiting for ever.
PermitsConserved ==
  running /\ ~aborted =>
    permits + Len(queues["decoded"])
      + (IF decoder.at \in {"fill", "put"} THEN 1 ELSE 0)
      + (IF playback.at = "release" THEN 1 ELSE 0) = (IF sized THEN Ahead ELSE 0)

\* A pool that looks at one place only is as good as one that searches: the buffers come
\* back in the order they were handed out, so when that place is in use all are.
PoolsFailOnlyWhenExhausted ==
  \A q \in Queues : ~HasBuffer(q) => pools[q].used = Slots(q)

\* No queue is ever over capacity while sound is flowing.  The empty buffer that ends the
\* encoder may be one too many: that pool is as large as the queue.
OverfullOnlyAtStop ==
  aborted => owner = "joinEncoder" /\ Len(queues["captured"]) = Capacity["captured"] + 1

\* The callback never stays in GetBlocking(), and who shuts down comes to an end, or to
\* that abort(), wherever the threads are when the shutdown starts.
EverybodyReturns ==
  /\ playback.at # "idle" ~> playback.at = "idle" \/ aborted
  /\ owner = "clearInput" ~> owner = "done" \/ aborted
=============================================================================
