---------------------------- MODULE JitterBuffer ----------------------------
(***************************************************************************)
(* The jitter buffer of an incoming audio stream.  The message thread puts *)
(* in the frame of every packet and the error-correction copies it carries *)
(* (each in its own critical section); the decoder thread takes one frame  *)
(* out per playback period, whether or not it has arrived; a timer adjusts *)
(* how many frames the buffer tries to keep.                               *)
(***************************************************************************)
EXTENDS JitterArray

CONSTANTS
  LastTime,       \* bound: time stamps 0 .. LastTime are sent
  LastFetch,      \* bound: playback stops after this time stamp
  Reordering,     \* bound: a packet is overtaken by packets at most so much newer
  EcSpan,         \* how far back the copies in a packet go (8)
  MinDelays,      \* the values of minDelay, minMinDelay .. maxMinDelay
  DelayLimit,     \* the delay from which frames are dropped (5)
  LossesToReset,  \* jitter_losses_to_reset (20)
  GotPerDelay     \* frames per unit of delay before a loss rate counts (25)

ASSUME BufferAssumption ==
  /\ {LastTime, LastFetch, Reordering, EcSpan, DelayLimit, LossesToReset, GotPerDelay} \subseteq Nat
  /\ MinDelays \subseteq Nat /\ MinDelays # {}
  /\ LastTime < InvalidSeq /\ LossesToReset > 0

VARIABLES
  main, ec,           \* slotsMain and slotsEc
  nextFetch,          \* nextFetchTimestamp, signed
  minDelay,
  wasReset,           \* the next frame put in decides nextFetch
  needBuffering,      \* nothing was taken out since the last reset
  first,              \* nothing was asked for since nextFetch was decided
  lostCount,          \* frames missing in a row
  lostSinceReset, gotSinceReset,
  late,               \* a late main frame is in lateHistory
  \* The message thread and the sender.
  arrived,            \* main frames received; the packet history drops repetitions
  copies,             \* copies of the packet being processed, still to be put in
  \* A history variable.
  aligned             \* every frame so far was put in where front = back, with room

counters == <<lostCount, lostSinceReset, gotSinceReset>>
flags    == <<wasReset, needBuffering, first, late>>
vars     == <<main, ec, nextFetch, minDelay, flags, counters, arrived, copies,
              aligned>>

TypeOK ==
  /\ main \in Arrays /\ ec \in Arrays
  /\ nextFetch \in Int
  /\ minDelay \in MinDelays
  /\ wasReset \in BOOLEAN /\ needBuffering \in BOOLEAN /\ first \in BOOLEAN
  /\ late \in BOOLEAN /\ aligned \in BOOLEAN
  /\ lostCount \in 0 .. LossesToReset - 1
  /\ lostSinceReset \in Nat /\ gotSinceReset \in Nat
  /\ arrived \subseteq 0 .. LastTime
  /\ copies \subseteq 0 .. LastTime

Init ==
  /\ main = Cleared /\ ec = Cleared
  /\ nextFetch = 0
  /\ minDelay \in MinDelays
  /\ wasReset = TRUE /\ needBuffering = TRUE /\ first = TRUE
  /\ late = FALSE
  /\ lostCount = 0 /\ lostSinceReset = 0 /\ gotSinceReset = 0
  /\ arrived = {} /\ copies = {}
  /\ aligned = TRUE

\* A signed time stamp where the code needs an unsigned one.
Unsigned(t) == t % UIntMod

MaxOf(m, n) == IF m >= n THEN m ELSE n

\* GetCurrentDelay()
Delay(m, e) == MaxOf(Count(m), Count(e))

-----------------------------------------------------------------------------
(* HandleInput(), for the frame or the copy of time stamp t.               *)

\* Where the frame of time stamp t goes: the code's slots and the other array.
Own(isEc, m, e) == IF isEc THEN e ELSE m

\* t can be put in without losing track of which slot is whose.
InPlace(a, t) ==
  Empty(a) \/ t < a.backSeq \/ (a.front = a.back /\ t - a.backSeq < SlotCount)

\* Faulty variant: every frame decides it.
ResyncedByEvery(t) == t - minDelay

\* The time stamp fetched next, decided by the first frame after a reset.
Resynced(t) == IF wasReset THEN t - minDelay ELSE nextFetch

\* The comparison of t with a signed time stamp is made on unsigned numbers.
Late(t, next)    == t < Unsigned(next)
TooLate(t, next) == ~Late(t, next) /\ t < Unsigned(next - 1)

PutIn(isEc, t) ==
  LET next == Resynced(t)
      m1   == Advanced(main, Unsigned(next - 1))
      e1   == Advanced(ec, Unsigned(next - 1))
      skip == IF Delay(m1, e1) > DelayLimit THEN 1 ELSE 0
      m2   == IF skip = 1 THEN Advanced(m1, Unsigned(next + 1)) ELSE m1
      e2   == IF skip = 1 THEN Advanced(e1, Unsigned(next + 1)) ELSE e1
      own  == Own(isEc, m2, e2)
  IN  /\ ~Has(Own(isEc, main, ec), t)
      /\ gotSinceReset' = gotSinceReset + 1
      /\ wasReset' = FALSE
      /\ first' = (first \/ wasReset)
      /\ late' = (late \/ (~isEc /\ (Late(t, next) \/ TooLate(t, next))))
      /\ \/ /\ TooLate(t, next)
            /\ nextFetch' = next
            /\ main' = m1 /\ ec' = e1
            /\ UNCHANGED aligned
         \/ /\ ~TooLate(t, next)
            /\ nextFetch' = next + skip + Surplus(own, t)
            /\ main' = IF isEc THEN m2 ELSE Stored(m2, t)
            /\ ec' = IF isEc THEN Stored(e2, t) ELSE e2
            /\ aligned' = (aligned /\ InPlace(own, t))
      /\ UNCHANGED <<minDelay, needBuffering, lostCount, lostSinceReset>>

AlreadyIn(isEc, t) ==
  /\ Has(Own(isEc, main, ec), t)
  /\ UNCHANGED <<main, ec, nextFetch, minDelay, flags, counters, aligned>>

HandleInput(isEc, t) == PutIn(isEc, t) \/ AlreadyIn(isEc, t)

\* ProcessIncomingPacket() puts in the frame of a packet, and then its copies.
Arrive(t) ==
  /\ copies = {}
  /\ t \notin arrived
  /\ \A u \in arrived : u - t <= Reordering
  /\ arrived' = arrived \cup {t}
  /\ copies' \in SUBSET ((t - EcSpan .. t - 1) \cap (0 .. LastTime))
  /\ HandleInput(FALSE, t)

InputCopy ==
  \E t \in copies :
    /\ \A u \in copies : t <= u
    /\ copies' = copies \ {t}
    /\ HandleInput(TRUE, t)
    /\ UNCHANGED arrived

-----------------------------------------------------------------------------
(* HandleOutput()                                                          *)

\* The first time a frame is asked for after nextFetch was decided, too many may wait.
TooDeep == first /\ Delay(main, ec) > DelayLimit

FetchFrom  == IF TooDeep THEN nextFetch + Delay(main, ec) - minDelay ELSE nextFetch
Skipped(a) == IF TooDeep THEN Advanced(a, Unsigned(FetchFrom)) ELSE a

TakeOut ==
  LET t == Unsigned(FetchFrom)
  IN  /\ FetchFrom <= LastFetch
      /\ Has(Skipped(main), t) \/ Has(Skipped(ec), t)
      /\ main' = Without(Skipped(main), t)
      /\ ec' = Without(Skipped(ec), t)
      /\ nextFetch' = FetchFrom + 1
      /\ lostCount' = 0
      /\ needBuffering' = FALSE
      /\ first' = FALSE
      /\ UNCHANGED <<minDelay, wasReset, late, lostSinceReset, gotSinceReset,
                     arrived, copies, aligned>>

NothingThere ==
  LET t == Unsigned(FetchFrom)
  IN  /\ FetchFrom <= LastFetch
      /\ ~Has(Skipped(main), t)
      /\ ~Has(Skipped(ec), t)

MissWhileBuffering ==
  /\ NothingThere
  /\ needBuffering
  /\ main' = Skipped(main) /\ ec' = Skipped(ec)
  /\ nextFetch' = FetchFrom + 1
  /\ first' = FALSE
  /\ UNCHANGED <<minDelay, wasReset, needBuffering, late, counters, arrived, copies, aligned>>

\* Faulty variant: one loss more is allowed for.
GivesUpOneLater ==
  \/ lostCount + 1 > LossesToReset
  \/ /\ gotSinceReset > minDelay * GotPerDelay
     /\ lostSinceReset + 1 > gotSinceReset \div 2

GivesUp ==
  \/ lostCount + 1 >= LossesToReset
  \/ /\ gotSinceReset > minDelay * GotPerDelay
     /\ lostSinceReset + 1 > gotSinceReset \div 2

Miss ==
  /\ NothingThere
  /\ ~needBuffering
  /\ ~GivesUp
  /\ main' = Skipped(main) /\ ec' = Skipped(ec)
  /\ nextFetch' = FetchFrom + 1
  /\ first' = FALSE
  /\ lostCount' = lostCount + 1
  /\ lostSinceReset' = lostSinceReset + 1
  /\ UNCHANGED <<minDelay, wasReset, needBuffering, late, gotSinceReset,
                 arrived, copies, aligned>>

\* Faulty variant: Reset() alone, which leaves lostCount as it is.
MissAndResetOnly ==
  /\ NothingThere
  /\ ~needBuffering
  /\ GivesUp
  /\ nextFetch' = FetchFrom + 1
                    - MaxOf(0, minDelay - Delay(Skipped(main), Skipped(ec)))
  /\ main' = Cleared /\ ec' = Cleared
  /\ wasReset' = TRUE /\ needBuffering' = TRUE
  /\ first' = FALSE
  /\ lostCount' = lostCount + 1 /\ lostSinceReset' = 0 /\ gotSinceReset' = 0
  /\ UNCHANGED <<minDelay, late, arrived, copies, aligned>>

\* Reset() is the end of this step.
MissAndReset ==
  /\ NothingThere
  /\ ~needBuffering
  /\ GivesUp
  /\ nextFetch' = FetchFrom + 1
                    - MaxOf(0, minDelay - Delay(Skipped(main), Skipped(ec)))
  /\ main' = Cleared /\ ec' = Cleared
  /\ wasReset' = TRUE /\ needBuffering' = TRUE
  /\ first' = FALSE
  /\ lostCount' = 0 /\ lostSinceReset' = 0 /\ gotSinceReset' = 0
  /\ UNCHANGED <<minDelay, late, arrived, copies, aligned>>

HandleOutput == TakeOut \/ MissWhileBuffering \/ Miss \/ MissAndReset

-----------------------------------------------------------------------------

(***************************************************************************)
(* Tick(): the average of lateHistory may reach the threshold for a resync *)
(* only if a frame was late; minDelay moves by at most one towards the     *)
(* measured jitter.  The numbers are not modelled.                         *)
(***************************************************************************)
Tick ==
  /\ copies = {}
  /\ minDelay' \in {d \in MinDelays : d - minDelay \in -1 .. 1}
  /\ wasReset' \in {wasReset, wasReset \/ late}
  /\ late' \in {late, FALSE}
  /\ UNCHANGED <<main, ec, nextFetch, needBuffering, first, counters, arrived, copies, aligned>>

\* SetMinPacketCount(), when the peer's network type changes.
SetMinPacketCount ==
  /\ copies = {}
  /\ minDelay' \in MinDelays
  /\ UNCHANGED <<main, ec, nextFetch, flags, counters, arrived, copies, aligned>>

Next ==
  \/ \E t \in 0 .. LastTime : Arrive(t)
  \/ InputCopy
  \/ HandleOutput
  \/ Tick
  \/ SetMinPacketCount

Spec == Init /\ [][Next]_vars

-----------------------------------------------------------------------------

\* The frame of time stamp t is found under t and nothing else is.
Exact(a) ==
  /\ \A t \in TimeStamps : FrameAt(a, t) \in {t, NoFrame}
  /\ \A i \in SlotNos : a.slots[i] # NoFrame => FrameAt(a, a.slots[i]) = a.slots[i]

(***************************************************************************)
(* While frames come in order and are taken out as fast as they come (each *)
(* is put in when the array holds at most one slot's worth), every frame   *)
(* in the buffer is found under its own time stamp, and only there:        *)
(* nothing is lost in the ring or played in another frame's place.         *)
(***************************************************************************)
ExactWhileAligned == aligned => Exact(main) /\ Exact(ec)

(***************************************************************************)
(* "What frame to read next" (JitterBuffer.h, of nextFetchTimestamp): the  *)
(* frame HandleOutput() gets is the one of that time stamp.                *)
(***************************************************************************)
FetchesWhatItAsks ==
  FrameAt(main, Unsigned(nextFetch)) \in {Unsigned(nextFetch), NoFrame}

(***************************************************************************)
(* Playback goes back in time only to start again: after a reset or a      *)
(* resync, before anything was asked for.                                  *)
(***************************************************************************)
BackOnlyToRestart ==
  [][nextFetch' < nextFetch => wasReset \/ wasReset' \/ first]_vars

(***************************************************************************)
(* A reset starts from a clean slate, and the losses in a row are among    *)
(* the losses since the reset: no loss of before makes the next reset come *)
(* early.                                                                  *)
(***************************************************************************)
LossesSinceReset ==
  /\ needBuffering => lostCount = 0 /\ lostSinceReset = 0
  /\ lostCount <= lostSinceReset
=============================================================================
