--------------------------- MODULE MessageThread ---------------------------
(***************************************************************************)
(* The message thread (POSIX): other threads and its own handlers post     *)
(* functions to be called now, later or periodically; its loop sleeps on a *)
(* condition variable until the first of them is due.  Nobody but the loop *)
(* takes the loop's mutex, so a signal given between the moment the loop   *)
(* looks at the queue and the moment it sleeps is lost.                    *)
(*                                                                         *)
(* deliverAt is kept relative to the clock, as the time left: Tick counts  *)
(* every one down, and a late message has a negative one.                  *)
(***************************************************************************)
EXTENDS Integers, Sequences, FiniteSets, SequencesExt

CONSTANTS
  Threads,     \* the threads that post and cancel, Loop among them
  Loop,        \* the message thread
  Delays,      \* the delays, and
  Intervals,   \* the intervals, that are posted; an interval of 0 is none
  Heartbeat,   \* the interval of a timer nobody cancels; 0 if there is none
  Longest,     \* the longest of them
  MaxPosts,    \* bound: messages posted
  MaxLate      \* bound: how far lateness is counted

ASSUME ThreadAssumption ==
  /\ Loop \in Threads /\ IsFiniteSet(Threads)
  /\ Longest \in Nat /\ Heartbeat \in 0 .. Longest
  /\ Delays \subseteq 0 .. Longest /\ Intervals \subseteq 0 .. Longest
  /\ MaxPosts \in Nat /\ MaxLate \in Nat \ {0}

VARIABLES
  queue,          \* messages, the first due first
  lastMessageID,
  running,
  cancelCurrent,
  pc,                \* where the loop is
  waitTimeout,       \* how long it will sleep, or still sleeps
  msgsToDeliverNow,
  current,           \* the message whose function is being called
  posting, number,   \* per thread: how far it is in Post(), the id it read
  stopper,           \* how far the owner is in Stop()
  \* History variables: messages posted, messages cancelled.
  posted, cancelled

loop  == <<pc, waitTimeout, msgsToDeliverNow, current, cancelCurrent>>
posts == <<lastMessageID, posting, number, posted>>
vars  == <<queue, running, loop, posts, stopper, cancelled>>

Immediate == -(MaxLate + 1)     \* deliverAt = 0, before any clock time
Forever   == -1                 \* DBL_MAX

Periods  == Intervals \cup {Heartbeat}
DueTimes == {Immediate} \cup -MaxLate .. Longest

\* A message; no tells apart messages that were given the same id.
Messages == [no : 0 .. MaxPosts, id : 1 .. MaxPosts + 1, due : DueTimes, every : Periods]
Nothing  == [no |-> -1, id |-> 0, due |-> 0, every |-> 0]

TypeOK ==
  /\ queue \in Seq(Messages) /\ msgsToDeliverNow \in Seq(Messages)
  /\ current \in Messages \cup {Nothing}
  /\ pc = "calling" <=> current # Nothing
  /\ pc \in {"check", "sleep", "waiting", "collect", "deliver", "calling", "exited"}
  /\ waitTimeout \in {Forever} \cup 0 .. Longest
  /\ running \in BOOLEAN /\ cancelCurrent \in BOOLEAN
  /\ lastMessageID \in 1 .. MaxPosts + 2
  /\ posting \in [Threads -> {"no", "insert", "signal"}]
  /\ number \in [Threads -> 0 .. MaxPosts + 1]
  /\ stopper \in {"no", "signal", "join", "done"}
  /\ posted \in 0 .. MaxPosts
  /\ cancelled \subseteq 1 .. MaxPosts

Timer == [no |-> 0, id |-> 1, due |-> Heartbeat, every |-> Heartbeat]

Init ==
  /\ queue = IF Heartbeat > 0 THEN <<Timer>> ELSE <<>>
  /\ lastMessageID = IF Heartbeat > 0 THEN 2 ELSE 1
  /\ running = TRUE
  /\ pc = "check" /\ waitTimeout = 0
  /\ msgsToDeliverNow = <<>> /\ current = Nothing /\ cancelCurrent = FALSE
  /\ posting = [t \in Threads |-> "no"] /\ number = [t \in Threads |-> 0]
  /\ stopper = "no"
  /\ posted = 0 /\ cancelled = {}

-----------------------------------------------------------------------------
(* Posting and cancelling                                                  *)

\* Faulty variant: before the messages that are due at the same time.
InsertedBeforeEquals(q, m) ==
  InsertAt(q, Cardinality({i \in 1 .. Len(q) : q[i].due < m.due}) + 1, m)

\* InsertMessageInternal(): after the last message that is due no later.
Inserted(q, m) ==
  LET places == {i \in 1 .. Len(q) : \/ i = Len(q)
                                     \/ q[i].due <= m.due /\ q[i + 1].due > m.due}
  IN  IF q = <<>> \/ q[1].due > m.due THEN <<m>> \o q
      ELSE InsertAt(q, Min(places) + 1, m)

\* Faulty variant: a signal is taken up wherever the loop is.
SignalAnywhere == pc' = "collect"

\* A signal wakes the loop only if it is waiting.
Signal == pc' = IF pc = "waiting" THEN "collect" ELSE pc

\* A thread that can post or cancel: the loop does when it calls a handler.
Free(t) == posting[t] = "no" /\ (t = Loop => pc = "calling")

\* Post() reads lastMessageID and stores the next one without a mutex.
PostNumber(t) ==
  /\ Free(t)
  /\ posted + Cardinality({u \in Threads : posting[u] = "insert"}) < MaxPosts
  /\ posting' = [posting EXCEPT ![t] = "insert"]
  /\ number' = [number EXCEPT ![t] = lastMessageID]
  /\ UNCHANGED <<queue, running, loop, lastMessageID, posted, stopper, cancelled>>

PostInsert(t) ==
  /\ posting[t] = "insert"
  /\ lastMessageID' = number[t] + 1
  /\ \E delay \in Delays, interval \in Intervals :
       queue' = Inserted(queue, [no |-> posted + 1, id |-> number[t], every |-> interval,
                                 due |-> IF delay = 0 THEN Immediate ELSE delay])
  /\ posted' = posted + 1
  /\ posting' = [posting EXCEPT ![t] = IF t = Loop THEN "no" ELSE "signal"]
  /\ number' = [number EXCEPT ![t] = 0]
  /\ UNCHANGED <<running, loop, stopper, cancelled>>

PostSignal(t) ==
  /\ posting[t] = "signal"
  /\ Signal
  /\ posting' = [posting EXCEPT ![t] = "no"]
  /\ UNCHANGED <<queue, running, waitTimeout, msgsToDeliverNow, current, cancelCurrent,
                 lastMessageID, number, posted, stopper, cancelled>>

\* The walks through places of a sequence in their order (there is one), and what is there.
Walks(places) ==
  {f \in [1 .. Cardinality(places) -> places] : \A i, j \in DOMAIN f : i < j => f[i] < f[j]}
Along(q, walk) == [i \in DOMAIN walk |-> q[walk[i]]]

\* Cancel() removes what is queued; what was collected is still delivered.
Cancel(t) ==
  /\ Free(t)
  /\ \E id \in {m.id : m \in {n \in Range(queue) : n.no # 0}} :
       \E kept \in Walks({i \in DOMAIN queue : queue[i].id # id}) :
         /\ queue' = Along(queue, kept)
         /\ cancelled' = cancelled \cup {m.no : m \in {n \in Range(queue) : n.id = id}}
  /\ UNCHANGED <<running, loop, posts, stopper>>

CancelSelf ==
  /\ pc = "calling" /\ posting[Loop] = "no"
  /\ current.no # 0
  /\ cancelCurrent' = TRUE
  /\ UNCHANGED <<queue, running, pc, waitTimeout, msgsToDeliverNow, current, posts,
                 stopper, cancelled>>

-----------------------------------------------------------------------------
(* Run()                                                                   *)

Check ==
  /\ pc = "check"
  /\ \/ /\ ~running
        /\ pc' = "exited"
        /\ UNCHANGED waitTimeout
     \/ /\ running /\ queue = <<>>
        /\ pc' = "sleep" /\ waitTimeout' = Forever
     \/ /\ running /\ queue # <<>> /\ Head(queue).due > 0
        /\ pc' = "sleep" /\ waitTimeout' = Head(queue).due
     \/ /\ running /\ queue # <<>> /\ Head(queue).due <= 0
        /\ pc' = "collect"
        /\ UNCHANGED waitTimeout
  /\ UNCHANGED <<queue, running, msgsToDeliverNow, current, cancelCurrent, posts,
                 stopper, cancelled>>

Sleep ==
  /\ pc = "sleep"
  /\ pc' = "waiting"
  /\ UNCHANGED <<queue, running, waitTimeout, msgsToDeliverNow, current, cancelCurrent,
                 posts, stopper, cancelled>>

TimeOut ==
  /\ pc = "waiting" /\ waitTimeout = 0
  /\ pc' = "collect"
  /\ UNCHANGED <<queue, running, waitTimeout, msgsToDeliverNow, current, cancelCurrent,
                 posts, stopper, cancelled>>

\* A condition variable may wake up for no reason.
WakeSpuriously ==
  /\ pc = "waiting"
  /\ pc' = "collect"
  /\ UNCHANGED <<queue, running, waitTimeout, msgsToDeliverNow, current, cancelCurrent,
                 posts, stopper, cancelled>>

\* Faulty variant: what is collected stays queued.
CollectCopies ==
  /\ pc = "collect"
  /\ running
  /\ pc' = "deliver"
  /\ \E now \in Walks({i \in DOMAIN queue : queue[i].due <= 0}) :
       msgsToDeliverNow' = Along(queue, now)
  /\ waitTimeout' = 0
  /\ UNCHANGED <<queue, running, current, cancelCurrent, posts, stopper, cancelled>>

\* The running test after the wait, and the partition of the queue.
Collect ==
  /\ pc = "collect"
  /\ \/ /\ ~running
        /\ pc' = "exited"
        /\ UNCHANGED <<queue, msgsToDeliverNow>>
     \/ /\ running
        /\ pc' = "deliver"
        /\ \E now   \in Walks({i \in DOMAIN queue : queue[i].due <= 0}),
              later \in Walks({i \in DOMAIN queue : queue[i].due > 0}) :
             msgsToDeliverNow' = Along(queue, now) /\ queue' = Along(queue, later)
  /\ waitTimeout' = 0
  /\ UNCHANGED <<running, current, cancelCurrent, posts, stopper, cancelled>>

Call ==
  /\ pc = "deliver" /\ msgsToDeliverNow # <<>>
  /\ pc' = "calling"
  /\ current' = LET m == Head(msgsToDeliverNow)
                IN  [m EXCEPT !.due = IF @ = Immediate THEN 0 ELSE @]
  /\ msgsToDeliverNow' = Tail(msgsToDeliverNow)
  /\ cancelCurrent' = FALSE
  /\ UNCHANGED <<queue, running, waitTimeout, posts, stopper, cancelled>>

\* Faulty variant: a periodic message is called once.
ReturnOnce ==
  /\ pc = "calling" /\ posting[Loop] = "no"
  /\ current' = Nothing
  /\ pc' = "deliver"
  /\ UNCHANGED <<queue, running, waitTimeout, msgsToDeliverNow, cancelCurrent, posts,
                 stopper, cancelled>>

\* The handler returns; a periodic message goes back into the queue.
Return ==
  /\ pc = "calling" /\ posting[Loop] = "no"
  /\ queue' = IF ~cancelCurrent /\ current.every > 0
              THEN Inserted(queue, [current EXCEPT !.due = @ + current.every])
              ELSE queue
  /\ current' = Nothing
  /\ pc' = "deliver"
  /\ UNCHANGED <<running, waitTimeout, msgsToDeliverNow, cancelCurrent, posts, stopper,
                 cancelled>>

AllDelivered ==
  /\ pc = "deliver" /\ msgsToDeliverNow = <<>>
  /\ pc' = "check"
  /\ UNCHANGED <<queue, running, waitTimeout, msgsToDeliverNow, current, cancelCurrent,
                 posts, stopper, cancelled>>

Run == Check \/ Sleep \/ TimeOut \/ Collect \/ Call \/ Return \/ AllDelivered

-----------------------------------------------------------------------------
(* Stop(), by the owner of the thread                                      *)

Stop ==
  /\ stopper = "no" /\ running
  /\ running' = FALSE
  /\ stopper' = "signal"
  /\ UNCHANGED <<queue, loop, posts, cancelled>>

StopSignal ==
  /\ stopper = "signal"
  /\ Signal
  /\ stopper' = "join"
  /\ UNCHANGED <<queue, running, waitTimeout, msgsToDeliverNow, current, cancelCurrent,
                 posts, cancelled>>

Join ==
  /\ stopper = "join" /\ pc = "exited"
  /\ stopper' = "done"
  /\ UNCHANGED <<queue, running, loop, posts, cancelled>>

-----------------------------------------------------------------------------

Aged(m) == [m EXCEPT !.due = IF @ <= -MaxLate THEN @ ELSE @ - 1]

\* The clock; waitTimeout runs only while the loop waits.
Tick ==
  /\ queue' = [i \in DOMAIN queue |-> Aged(queue[i])]
  /\ msgsToDeliverNow' = [i \in DOMAIN msgsToDeliverNow |-> Aged(msgsToDeliverNow[i])]
  /\ current' = IF current = Nothing THEN current ELSE Aged(current)
  /\ waitTimeout' = IF pc = "waiting" /\ waitTimeout > 0 THEN waitTimeout - 1
                    ELSE waitTimeout
  /\ UNCHANGED <<running, pc, cancelCurrent, posts, stopper, cancelled>>

Next ==
  \/ \E t \in Threads : PostNumber(t) \/ PostInsert(t) \/ PostSignal(t) \/ Cancel(t)
  \/ CancelSelf
  \/ Run \/ WakeSpuriously
  \/ Stop \/ StopSignal \/ Join
  \/ Tick

(***************************************************************************)
(* The loop, a thread inside Post() or Stop() and the clock go on; nobody  *)
(* has to post, to cancel, to stop, and nothing wakes the loop by chance.  *)
(***************************************************************************)
Fairness ==
  /\ WF_vars(Run) /\ WF_vars(Tick)
  /\ \A t \in Threads : WF_vars(PostInsert(t)) /\ WF_vars(PostSignal(t))
  /\ WF_vars(StopSignal) /\ WF_vars(Join)

Spec == Init /\ [][Next]_vars /\ Fairness

-----------------------------------------------------------------------------

(***************************************************************************)
(* The loop sleeps until the first message of the queue is due: so the     *)
(* queue is in the order the messages are due in, whoever put them in; and *)
(* functions posted without a delay are called in the order they were      *)
(* posted: those still to be called of the batch, and then the queue's.    *)
(***************************************************************************)
DueInOrder ==
  LET all == msgsToDeliverNow \o queue
  IN  /\ \A i, j \in DOMAIN queue : i < j => queue[i].due <= queue[j].due
      /\ \A i, j \in DOMAIN all :
           i < j /\ all[i].due = Immediate /\ all[j].due = Immediate => all[i].no < all[j].no

\* A message as those who posted it know it.
Promise(m) == [no |-> m.no, periodic |-> m.every > 0, prompt |-> m.due = Immediate]

Pending == {Promise(m) : m \in Range(msgsToDeliverNow) \cup Range(queue)}
Calling == IF current = Nothing THEN {} ELSE {Promise(current)}

Promised == INSTANCE MessageQueue WITH pending <- Pending, calling <- Calling

(***************************************************************************)
(* The thread implements the message queue: between the batch, the queue   *)
(* and the handler that runs, whatever else is posted and cancelled by     *)
(* then (MessageThread.cpp:55-125), no message is lost or called again,    *)
(* and those posted without a delay are called in the order of posting.    *)
(***************************************************************************)
KeepsItsPromises == Promised!Spec

(***************************************************************************)
(* While a timer keeps the loop awake, every message that stays queued is  *)
(* delivered, also when the signal of its Post() is lost.                  *)
(***************************************************************************)
EveryMessageIsDelivered ==
  \A n \in 1 .. MaxPosts :
    (\E m \in Range(queue) : m.no = n) ~> (current.no = n \/ n \in cancelled \/ ~running)

(***************************************************************************)
(* "Stop any internal threads" (VoIPController.h, of Stop()): Stop()       *)
(* returns.                                                                *)
(***************************************************************************)
StopReturns == (stopper = "signal") ~> (stopper = "done")
=============================================================================
