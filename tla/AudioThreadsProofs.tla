-------------------------- MODULE AudioThreadsProofs --------------------------
(***************************************************************************)
(* The sound's buffers are never lost and never short, for any sizes of    *)
(* the pools and queues.  A pool hands its buffers out in turn; the        *)
(* inductive invariant says where each of them is: whoever works on one    *)
(* has the oldest, the queue has those after it in their order, and the    *)
(* decoder the newest.                                                     *)
(***************************************************************************)
EXTENDS AudioThreads, SequenceTheorems, TLAPS

\* The place j places back from where a pool of N places will hand out next.
Back(offset, j, N) == IF offset >= j THEN offset - j ELSE offset - j + N

\* Of a pool of N places the n before offset are in use.
InTurn(N, pool, n) ==
  /\ n \in 0 .. N
  /\ pool.offset \in 0 .. N - 1
  /\ pool.used = {Back(pool.offset, j, N) : j \in 1 .. n}

\* In use are made buffers not yet queued, the first real ones of the queue before them,
\* and before these the buffer buf of who works on one, if held is 1.
InLine(N, pool, queue, real, held, buf, made) ==
  /\ InTurn(N, pool, real + held + made)
  /\ \A i \in 1 .. real : queue[i] = Back(pool.offset, real - i + 1 + made, N)
  /\ held = 1 => buf = Back(pool.offset, real + held + made, N)

Bit(b) == IF b THEN 1 ELSE 0

\* The queue holds the empty buffer: the last it will get.
Ended(queue) == queue # <<>> /\ queue[Len(queue)] = Empty

\* How many buffers are in the queue.
Real(queue) == Len(queue) - Bit(Ended(queue))

DecodedInLine ==
  /\ InLine(Buffers["decoded"], pools["decoded"], queues["decoded"], Len(queues["decoded"]),
            Bit(playback.at \in {"release", "copy", "return"}), playback.buf,
            Bit(decoder.at = "put"))
  /\ decoder.at = "put" =>
       decoder.buf = Back(pools["decoded"].offset, 1, Buffers["decoded"])

\* The other queues are used alike: a thread takes from the queue, with a buffer if it holds
\* one, until it gets the empty one.
ThreadLine(q, held, buf) ==
  InLine(Buffers[q], pools[q], queues[q], Real(queues[q]), Bit(held), buf, 0)

CapturedInLine == ThreadLine("captured", encoder.at = "busy", encoder.buf)
FarendInLine   == ThreadLine("farend", farend.at = "busy", farend.buf)

\* Where the threads can be while the owner is where it is: nothing has happened before the
\* start, the callback runs only while it is set, and queues are ended at the end.
Phases ==
  /\ owner = "created" =>
       /\ permits = 0 /\ ~sized /\ ~running /\ queues["decoded"] = <<>>
       /\ decoder.at = "off" /\ playback.at = "idle"
  /\ owner \in {"created", "startEncoder"} => encoder.at = "off"
  /\ playback.at \in {"get", "release", "copy", "return"} => OutputCallbackSet
  /\ decoder.at \in {"acquire", "fill", "put"} => decoder.left > 0
  /\ Ended(queues["captured"]) => owner \in {"joinEncoder", "stopFarend", "joinFarend", "done"}
  /\ Ended(queues["farend"]) => owner \in {"joinFarend", "done"}

\* TypeOK in three parts.
PoolsOK ==
  /\ pools \in [Queues -> [used : SUBSET Nat, offset : Nat]]
  /\ \A q \in Queues : pools[q].used \subseteq Slots(q) /\ pools[q].offset \in Slots(q)

QueuesOK ==
  /\ queues \in [Queues -> Seq(Nat \cup {Empty})]
  /\ \A q \in Queues : queues[q] \in Seq(Slots(q) \cup {Empty})

ControlOK ==
  /\ aborted \in BOOLEAN /\ sized \in BOOLEAN /\ running \in BOOLEAN /\ encRunning \in BOOLEAN
  /\ permits \in Nat
  /\ decoder \in [at : {"off", "decode", "acquire", "fill", "put", "exited"},
                  buf : Slots("decoded") \cup {None}, left : Nat]
  /\ playback \in [at : {"idle", "called", "get", "release", "copy", "return"},
                   buf : Slots("decoded") \cup {None}]
  /\ farend \in [at : {"take", "busy", "exited"}, buf : Slots("farend") \cup {None}]
  /\ encoder \in [at : {"off", "take", "busy", "exited"}, buf : Slots("captured") \cup {None}]
  /\ owner \in {"created", "startEncoder", "playing", "clearInput", "clearOutput", "stopDecoder",
                "joinDecoder", "stopEncoder", "joinEncoder", "stopFarend", "joinFarend", "done"}

\* PermitsConserved, its terms named.
InQueue      == Len(queues["decoded"])
WithDecoder  == IF decoder.at \in {"fill", "put"} THEN 1 ELSE 0
WithCallback == IF playback.at = "release" THEN 1 ELSE 0
Owed         == IF sized THEN Ahead ELSE 0

Kept == running /\ ~aborted => permits + InQueue + WithDecoder + WithCallback = Owed

Inv ==
  /\ PoolsOK /\ QueuesOK /\ ControlOK /\ Phases
  /\ DecodedInLine /\ CapturedInLine /\ FarendInLine
  /\ Kept /\ OverfullOnlyAtStop

-----------------------------------------------------------------------------
(* Places of a pool                                                        *)

\* The remainder in BufferPool::Get() is a step to the next place, or back to the first.
LEMMA NextPlace ==
  ASSUME NEW N \in Nat \ {0}, NEW k \in 0 .. N - 1
  PROVE  (k + 1) % N = IF k + 1 = N THEN 0 ELSE k + 1
  OBVIOUS

\* Different numbers of places back are different places.
LEMMA BackInjective ==
  ASSUME NEW N \in Nat \ {0}, NEW k \in 0 .. N - 1, NEW i \in 1 .. N, NEW j \in 1 .. N,
         Back(k, i, N) = Back(k, j, N)
  PROVE  i = j
  BY DEF Back

\* When the next place is in use, everything is.
LEMMA FullWhenNextInUse ==
  ASSUME NEW N \in Nat \ {0}, NEW pool, NEW n, InTurn(N, pool, n), pool.offset \in pool.used
  PROVE  n = N /\ pool.used = 0 .. N - 1
  <1> PICK j \in 1 .. n : pool.offset = Back(pool.offset, j, N)
    BY DEF InTurn
  <1>1. n = N
    BY DEF InTurn, Back
  <1>2. \A v \in 0 .. N - 1 : v \in pool.used
    <2> TAKE v \in 0 .. N - 1
    <2> DEFINE i == IF v >= pool.offset THEN pool.offset - v + N ELSE pool.offset - v
    <2>1. i \in 1 .. N /\ v = Back(pool.offset, i, N)
      BY DEF InTurn, Back
    <2> QED
      BY <1>1, <2>1 DEF InTurn
  <1>3. \A v \in pool.used : v \in 0 .. N - 1
    BY <1>1 DEF InTurn, Back
  <1> QED
    BY <1>1, <1>2, <1>3

\* The buffers in use are places of the pool.
LEMMA InTurnTypes ==
  ASSUME NEW N \in Nat \ {0}, NEW pool, NEW n, InTurn(N, pool, n)
  PROVE  pool.used \subseteq 0 .. N - 1
  BY DEF InTurn, Back

\* Handing one out, when there is one, leaves one more in use.
LEMMA HandOut ==
  ASSUME NEW q \in Queues, NEW pool, NEW n, InTurn(Buffers[q], pool, n),
         pool.offset \notin pool.used
  PROVE  /\ InTurn(Buffers[q], Taken(pool, q), n + 1)
         /\ \A j \in 0 .. n :
              Back(Taken(pool, q).offset, j + 1, Buffers[q]) = Back(pool.offset, j, Buffers[q])
         /\ Back(Taken(pool, q).offset, 1, Buffers[q]) = pool.offset
  <1> DEFINE N == Buffers[q]
             k == pool.offset
             l == (k + 1) % N
  <1>1. N \in Nat \ {0} /\ n \in 0 .. N /\ k \in 0 .. N - 1
    BY AudioAssumption DEF InTurn
  <1>2. l = IF k + 1 = N THEN 0 ELSE k + 1
    BY <1>1, NextPlace
  <1>3. Taken(pool, q).offset = l /\ Taken(pool, q).used = pool.used \cup {k}
    BY DEF Taken
  <1> HIDE DEF N, k, l
  <1>4. n < N
    <2> SUFFICES ASSUME n = N
                 PROVE  FALSE
      BY <1>1
    <2>1. k = Back(k, N, N) /\ N \in 1 .. n
      BY <1>1 DEF Back
    <2> QED
      BY <2>1 DEF InTurn, N, k
  <1>5. \A j \in 0 .. n : Back(l, j + 1, N) = Back(k, j, N)
    BY <1>1, <1>2, <1>4 DEF Back
  <1>6. Back(k, 0, N) = k
    BY <1>1 DEF Back
  <1>7. pool.used = {Back(k, j, N) : j \in 1 .. n}
    BY DEF InTurn, N, k
  <1>8. pool.used \cup {k} = {Back(l, j, N) : j \in 1 .. n + 1}
    <2>1. \A j \in 1 .. n : j + 1 \in 1 .. n + 1 /\ Back(l, j + 1, N) = Back(k, j, N)
      BY <1>1, <1>5
    <2>2. 1 \in 1 .. n + 1 /\ Back(l, 1, N) = k
      BY <1>1, <1>5, <1>6
    <2>3. \A j \in 1 .. n + 1 : j = 1 \/ (j - 1 \in 1 .. n /\ Back(l, j, N) = Back(k, j - 1, N))
      <3> TAKE j \in 1 .. n + 1
      <3>1. j - 1 \in 0 .. n /\ (j - 1) + 1 = j
        BY <1>1
      <3> QED
        BY <1>1, <1>5, <3>1
    <2> QED
      BY <1>7, <2>1, <2>2, <2>3
  <1>9. l \in 0 .. N - 1 /\ n + 1 \in 0 .. N
    BY <1>1, <1>2, <1>4
  <1> QED
    BY <1>1, <1>3, <1>5, <1>6, <1>8, <1>9 DEF InTurn, N, k

\* Giving the oldest one back leaves the others.
LEMMA GiveBack ==
  ASSUME NEW N \in Nat \ {0}, NEW pool, NEW n, InTurn(N, pool, n), n > 0,
         NEW left, left.offset = pool.offset, left.used = pool.used \ {Back(pool.offset, n, N)}
  PROVE  InTurn(N, left, n - 1)
  <1> DEFINE k == pool.offset
  <1>1. n \in 1 .. N /\ n - 1 \in 0 .. N /\ k \in 0 .. N - 1
    BY DEF InTurn
  <1>2. \A j \in 1 .. n - 1 : Back(k, j, N) # Back(k, n, N)
    BY <1>1, BackInjective
  <1>3. pool.used = {Back(k, j, N) : j \in 1 .. n}
    BY DEF InTurn
  <1> HIDE DEF k
  <1>4. pool.used \ {Back(k, n, N)} = {Back(k, j, N) : j \in 1 .. n - 1}
    BY <1>1, <1>2, <1>3
  <1> QED
    BY <1>1, <1>4 DEF InTurn, k

-----------------------------------------------------------------------------
(* Buffers in line                                                         *)

\* The producer gets a buffer.
LEMMA LineGets ==
  ASSUME NEW q \in Queues, NEW pool, NEW queue, NEW real \in Nat, NEW held \in {0, 1}, NEW buf,
         InLine(Buffers[q], pool, queue, real, held, buf, 0), pool.offset \notin pool.used
  PROVE  /\ InLine(Buffers[q], Taken(pool, q), queue, real, held, buf, 1)
         /\ pool.offset = Back(Taken(pool, q).offset, 1, Buffers[q])
  <1> DEFINE N == Buffers[q]
             n == real + held
             k == pool.offset
             l == Taken(pool, q).offset
  <1>1. n \in Nat /\ InTurn(N, pool, n)
    BY DEF InLine
  <1>2. /\ InTurn(N, Taken(pool, q), n + 1)
        /\ \A j \in 0 .. n : Back(l, j + 1, N) = Back(k, j, N)
        /\ Back(l, 1, N) = k
    BY <1>1, HandOut
  <1>3. \A i \in 1 .. real : queue[i] = Back(k, real - i + 1, N)
    BY DEF InLine
  <1>4. held = 1 => buf = Back(k, n, N)
    BY DEF InLine
  <1> HIDE DEF N, k, l
  <1>5. \A i \in 1 .. real : queue[i] = Back(l, real - i + 1 + 1, N)
    <2> TAKE i \in 1 .. real
    <2>1. real - i + 1 \in 0 .. n
      OBVIOUS
    <2> QED
      BY <1>2, <1>3, <2>1
  <1>6. held = 1 => buf = Back(l, n + 1, N)
    BY <1>1, <1>2, <1>4
  <1> QED
    BY <1>2, <1>5, <1>6 DEF InLine, N, k, l

\* The producer puts the buffer it made last.
LEMMA LinePuts ==
  ASSUME NEW N \in Nat \ {0}, NEW pool, NEW S, NEW queue \in Seq(S), NEW held \in {0, 1}, NEW buf,
         NEW x \in S, InLine(N, pool, queue, Len(queue), held, buf, 1),
         x = Back(pool.offset, 1, N)
  PROVE  InLine(N, pool, Append(queue, x), Len(Append(queue, x)), held, buf, 0)
  <1>1. /\ Len(Append(queue, x)) = Len(queue) + 1 /\ Len(queue) \in Nat
        /\ \A i \in 1 .. Len(queue) : Append(queue, x)[i] = queue[i]
        /\ Append(queue, x)[Len(queue) + 1] = x
    BY AppendProperties
  <1> QED
    BY <1>1 DEF InLine

\* The consumer takes the first buffer of the queue.
LEMMA LineTakes ==
  ASSUME NEW N \in Nat \ {0}, NEW pool, NEW S, NEW queue \in Seq(S), NEW real \in 1 .. Len(queue),
         NEW made \in {0, 1}, NEW buf, InLine(N, pool, queue, real, 0, buf, made)
  PROVE  /\ InLine(N, pool, Tail(queue), real - 1, 1, Head(queue), made)
         /\ Head(queue) \in 0 .. N - 1
  <1>1. queue # <<>> /\ Len(queue) \in Nat
    BY EmptySeq
  <1>2. /\ Len(Tail(queue)) = Len(queue) - 1
        /\ \A i \in 1 .. Len(Tail(queue)) : Tail(queue)[i] = queue[i + 1]
        /\ Head(queue) = queue[1]
    BY <1>1, HeadTailProperties
  <1>3. InTurn(N, pool, real + made) /\ queue[1] = Back(pool.offset, real + made, N)
    BY DEF InLine
  <1>4. queue[1] \in 0 .. N - 1
    BY <1>3 DEF InTurn, Back
  <1>5. \A i \in 1 .. real - 1 : Tail(queue)[i] = Back(pool.offset, (real - 1) - i + 1 + made, N)
    <2> TAKE i \in 1 .. real - 1
    <2>1. Tail(queue)[i] = queue[i + 1] /\ i + 1 \in 1 .. real
      BY <1>1, <1>2
    <2> QED
      BY <2>1 DEF InLine
  <1> QED
    BY <1>1, <1>2, <1>3, <1>4, <1>5 DEF InLine

\* The consumer gives its buffer back.
LEMMA LineFrees ==
  ASSUME NEW N \in Nat \ {0}, NEW pool, NEW queue, NEW real \in Nat, NEW made \in {0, 1}, NEW buf,
         InLine(N, pool, queue, real, 1, buf, made),
         NEW left, left.offset = pool.offset, left.used = pool.used \ {buf}, NEW other
  PROVE  InLine(N, left, queue, real, 0, other, made)
  <1>1. /\ InTurn(N, pool, real + 1 + made) /\ buf = Back(pool.offset, real + 1 + made, N)
        /\ real + 1 + made > 0 /\ (real + 1 + made) - 1 = real + 0 + made
    BY DEF InLine
  <1>2. InTurn(N, left, real + 0 + made)
    BY <1>1, GiveBack
  <1> QED
    BY <1>2 DEF InLine

\* What is put after the buffers of a queue leaves them as they are.
LEMMA LineEnds ==
  ASSUME NEW N \in Nat \ {0}, NEW pool, NEW S, NEW queue \in Seq(S), NEW real \in 0 .. Len(queue),
         NEW held \in {0, 1}, NEW made \in {0, 1}, NEW buf, NEW x \in S,
         InLine(N, pool, queue, real, held, buf, made)
  PROVE  InLine(N, pool, Append(queue, x), real, held, buf, made)
  <1>1. Len(queue) \in Nat /\ \A i \in 1 .. Len(queue) : Append(queue, x)[i] = queue[i]
    BY AppendProperties
  <1> QED
    BY <1>1 DEF InLine

\* A bit is 0 or 1.
LEMMA BitTypes ==
  ASSUME NEW b
  PROVE  Bit(b) \in {0, 1}
  BY DEF Bit

\* The buffer handed out last is one of the pool's.
LEMMA BackLast ==
  ASSUME NEW N \in Nat \ {0}, NEW k \in 0 .. N - 1
  PROVE  Back(k, 1, N) \in 0 .. N - 1
  BY DEF Back

\* The producer gets a buffer and puts it.
LEMMA QueueGets ==
  ASSUME NEW q \in Queues, NEW pool, NEW S, NEW queue \in Seq(S), NEW held \in {0, 1}, NEW buf,
         ~Ended(queue), pool.offset \in S, pool.offset \notin pool.used,
         InLine(Buffers[q], pool, queue, Real(queue), held, buf, 0)
  PROVE  LET longer == Append(queue, pool.offset)
         IN  /\ InLine(Buffers[q], Taken(pool, q), longer, Real(longer), held, buf, 0)
             /\ ~Ended(longer) /\ Len(queue) < Buffers[q]
  <1> DEFINE longer == Append(queue, pool.offset)
  <1>1. /\ Len(longer) = Len(queue) + 1 /\ Len(queue) \in Nat
        /\ longer[Len(queue) + 1] = pool.offset
    BY AppendProperties
  <1>2. Real(queue) = Len(queue) /\ Buffers[q] \in Nat \ {0}
    BY <1>1, AudioAssumption DEF Real, Bit
  <1>3. pool.offset # Empty
    BY <1>2 DEF InLine, InTurn, Empty
  <1>4. ~Ended(longer) /\ Real(longer) = Len(longer)
    BY <1>1, <1>3 DEF Ended, Real, Bit
  <1>5. /\ InLine(Buffers[q], Taken(pool, q), queue, Len(queue), held, buf, 1)
        /\ pool.offset = Back(Taken(pool, q).offset, 1, Buffers[q])
    <2> HIDE DEF longer
    <2> DEFINE real == Len(queue)
    <2>1. InLine(Buffers[q], pool, queue, real, held, buf, 0) /\ real \in Nat
      BY <1>1, <1>2
    <2> HIDE DEF real
    <2>2. /\ InLine(Buffers[q], Taken(pool, q), queue, real, held, buf, 1)
          /\ pool.offset = Back(Taken(pool, q).offset, 1, Buffers[q])
      BY <2>1, LineGets
    <2> QED
      BY <2>2 DEF real
  <1>6. InLine(Buffers[q], Taken(pool, q), longer, Len(longer), held, buf, 0)
    BY <1>2, <1>5, LinePuts
  <1>7. Len(queue) < Buffers[q]
    BY <1>1, <1>2, <1>5 DEF InLine, InTurn
  <1> QED
    BY <1>4, <1>6, <1>7

\* The queue gets the empty buffer.
LEMMA QueueEnds ==
  ASSUME NEW N \in Nat \ {0}, NEW pool, NEW S, NEW queue \in Seq(S), NEW held \in {0, 1}, NEW buf,
         ~Ended(queue), Empty \in S, InLine(N, pool, queue, Real(queue), held, buf, 0)
  PROVE  LET longer == Append(queue, Empty)
         IN  InLine(N, pool, longer, Real(longer), held, buf, 0) /\ Len(queue) <= N
  <1> DEFINE longer == Append(queue, Empty)
  <1>1. /\ Len(longer) = Len(queue) + 1 /\ Len(queue) \in Nat
        /\ longer[Len(queue) + 1] = Empty /\ longer # <<>>
    BY AppendProperties
  <1>2. Real(queue) = Len(queue) /\ Real(longer) = Len(queue)
    BY <1>1 DEF Real, Bit, Ended
  <1>3. Len(queue) <= N
    BY <1>1, <1>2 DEF InLine, InTurn
  <1>4. Len(queue) \in 0 .. Len(queue)
    BY <1>1
  <1>5. InLine(N, pool, longer, Len(queue), held, buf, 0)
    BY <1>2, <1>4, LineEnds
  <1> QED
    BY <1>2, <1>3, <1>5

\* The consumer takes what comes first.
LEMMA QueueTakes ==
  ASSUME NEW N \in Nat \ {0}, NEW pool, NEW S, NEW queue \in Seq(S), queue # <<>>, NEW buf,
         InLine(N, pool, queue, Real(queue), 0, buf, 0)
  PROVE  LET rest == Tail(queue)
         IN  /\ Head(queue) = Empty =>
                  ~Ended(rest) /\ \A x : InLine(N, pool, rest, Real(rest), 0, x, 0)
             /\ Head(queue) # Empty =>
                  /\ InLine(N, pool, rest, Real(rest), 1, Head(queue), 0)
                  /\ Head(queue) \in 0 .. N - 1
                  /\ Ended(rest) => Ended(queue)
  <1> DEFINE rest == Tail(queue)
  <1>1. /\ Len(queue) \in Nat /\ Len(queue) > 0 /\ rest \in Seq(S)
        /\ Len(rest) = Len(queue) - 1
        /\ \A i \in 1 .. Len(rest) : rest[i] = queue[i + 1]
        /\ Head(queue) = queue[1]
    BY EmptySeq, HeadTailProperties
  <1>2. rest # <<>> => Len(rest) > 0
    BY <1>1, EmptySeq
  <1>3. Ended(rest) => Ended(queue)
    BY <1>1, <1>2 DEF Ended
  <1>4. Real(queue) \in 0 .. Len(queue)
    BY <1>1 DEF Real, Bit
  <1>5. \A i \in 1 .. Real(queue) : queue[i] # Empty
    <2> TAKE i \in 1 .. Real(queue)
    <2>1. queue[i] = Back(pool.offset, Real(queue) - i + 1, N)
      BY <1>1, <1>4 DEF InLine
    <2>2. Real(queue) - i + 1 \in 0 .. N /\ pool.offset \in 0 .. N - 1
      BY <1>1, <1>4 DEF InLine, InTurn
    <2> QED
      BY <2>1, <2>2 DEF Back, Empty
  <1>6. CASE Head(queue) = Empty
    <2>1. Real(queue) = 0
      BY <1>1, <1>4, <1>5, <1>6
    <2>2. Len(rest) = 0 /\ rest = <<>>
      BY <1>1, <1>2, <2>1 DEF Real, Bit
    <2>3. ~Ended(rest) /\ Real(rest) = 0
      BY <2>2 DEF Real, Bit, Ended
    <2>4. \A x : InLine(N, pool, rest, 0, 0, x, 0)
      BY <2>1 DEF InLine
    <2> QED
      BY <1>6, <2>3, <2>4
  <1>7. CASE Head(queue) # Empty
    <2>1. Ended(queue) => Ended(rest)
      <3> HIDE DEF rest
      <3> SUFFICES ASSUME Ended(queue)
                   PROVE  rest # <<>> /\ rest[Len(rest)] = Empty
        BY DEF Ended
      <3>1. queue[Len(queue)] = Empty /\ Len(queue) # 1
        BY <1>1, <1>7 DEF Ended
      <3>2. Len(rest) \in 1 .. Len(rest) /\ rest[Len(rest)] = queue[Len(rest) + 1]
        BY <1>1, <3>1
      <3>3. rest # <<>>
        BY <1>1, <3>1, EmptySeq
      <3> QED
        BY <1>1, <3>1, <3>2, <3>3
    <2>2. Real(rest) = Real(queue) - 1 /\ Real(queue) \in 1 .. Len(queue)
      BY <1>1, <1>2, <1>3, <1>4, <1>7, <2>1 DEF Real, Bit, Ended
    <2>3. /\ InLine(N, pool, rest, Real(queue) - 1, 1, Head(queue), 0)
          /\ Head(queue) \in 0 .. N - 1
      BY <2>2, LineTakes
    <2> QED
      BY <1>3, <1>7, <2>2, <2>3
  <1> QED
    BY <1>6, <1>7

-----------------------------------------------------------------------------
(* Pools and queues keep their types                                       *)

\* Get() changes one pool and keeps its type.
LEMMA GetTypes ==
  ASSUME PoolsOK, NEW q \in Queues, GetBuffer(q)
  PROVE  /\ PoolsOK' /\ pools'[q] = Taken(pools[q], q)
         /\ \A p \in Queues \ {q} : pools'[p] = pools[p]
  <1>1. /\ pools[q].offset \in 0 .. Buffers[q] - 1 /\ pools[q].used \subseteq 0 .. Buffers[q] - 1
        /\ Buffers[q] \in Nat \ {0}
    BY AudioAssumption DEF PoolsOK, Slots
  <1>2. (pools[q].offset + 1) % Buffers[q] \in 0 .. Buffers[q] - 1
    BY <1>1, NextPlace
  <1>3. /\ Taken(pools[q], q) \in [used : SUBSET Nat, offset : Nat]
        /\ Taken(pools[q], q).used \subseteq Slots(q) /\ Taken(pools[q], q).offset \in Slots(q)
    BY <1>1, <1>2 DEF Taken, Slots
  <1> QED
    BY <1>3 DEF PoolsOK, GetBuffer

\* Reuse() removes a buffer from one pool and moves no offset.
LEMMA FreeTypes ==
  ASSUME PoolsOK, NEW q \in Queues, NEW buf, Free(q, buf)
  PROVE  /\ PoolsOK'
         /\ pools'[q].offset = pools[q].offset /\ pools'[q].used = pools[q].used \ {buf}
         /\ \A p \in Queues \ {q} : pools'[p] = pools[p]
  BY DEF PoolsOK, Free

\* Put() appends to one queue.
LEMMA PutTypes ==
  ASSUME QueuesOK, NEW q \in Queues, NEW buf \in Slots(q) \cup {Empty}, Put(q, buf)
  PROVE  /\ QueuesOK' /\ aborted' \in BOOLEAN
         /\ queues'[q] = Append(queues[q], buf)
         /\ \A p \in Queues \ {q} : queues'[p] = queues[p]
  <1>1. /\ Append(queues[q], buf) \in Seq(Slots(q) \cup {Empty})
        /\ Append(queues[q], buf) \in Seq(Nat \cup {Empty})
    <2>1. buf \in Nat \cup {Empty}
      BY AudioAssumption DEF Slots
    <2> QED
      BY <2>1, AppendProperties DEF QueuesOK
  <1>2. /\ queues' = [queues EXCEPT ![q] = Append(queues[q], buf)]
        /\ aborted' = (Len(queues[q]) + 1 > Capacity[q])
    BY DEF Put
  <1>3. aborted' \in BOOLEAN
    BY <1>2
  <1>4. /\ queues'[q] = Append(queues[q], buf)
        /\ \A p \in Queues \ {q} : queues'[p] = queues[p]
    BY <1>2 DEF QueuesOK
  <1>5. QueuesOK'
    BY <1>1, <1>2 DEF QueuesOK
  <1> QED
    BY <1>3, <1>4, <1>5

\* GetBlocking() takes the head of one queue, a buffer of its pool or the empty one.
LEMMA TakeTypes ==
  ASSUME QueuesOK, NEW q \in Queues, Take(q)
  PROVE  /\ QueuesOK' /\ UNCHANGED aborted
         /\ queues[q] # <<>> /\ queues'[q] = Tail(queues[q])
         /\ Head(queues[q]) \in Slots(q) \cup {Empty}
         /\ \A p \in Queues \ {q} : queues'[p] = queues[p]
  <1>1. /\ queues[q] # <<>> /\ queues' = [queues EXCEPT ![q] = Tail(queues[q])] /\ UNCHANGED aborted
    BY DEF Take
  <1>2. /\ Tail(queues[q]) \in Seq(Slots(q) \cup {Empty}) /\ Tail(queues[q]) \in Seq(Nat \cup {Empty})
        /\ Head(queues[q]) \in Slots(q) \cup {Empty}
    BY <1>1, HeadTailProperties DEF QueuesOK
  <1> QED
    BY <1>1, <1>2 DEF QueuesOK

-----------------------------------------------------------------------------
(* The first state                                                         *)

\* Before anything was started no buffer is in use.
LEMMA InitInv ==
  ASSUME Init
  PROVE  Inv
  <1>1. /\ \A q \in Queues : Buffers[q] \in Nat \ {0} /\ 0 \in Slots(q)
        /\ \A q \in Queues : pools[q] = [used |-> {}, offset |-> 0] /\ queues[q] = <<>>
    BY AudioAssumption DEF Init, Slots
  <1>2. PoolsOK
    BY <1>1 DEF Init, PoolsOK
  <1>3. QueuesOK
    <2>1. \A S : <<>> \in Seq(S)
      BY EmptySeq
    <2> QED
      BY <1>1, <2>1 DEF Init, QueuesOK
  <1>4. ControlOK
    BY DEF Init, ControlOK
  <1>5. ~Ended(<<>>) /\ Len(<<>>) = 0 /\ Real(<<>>) = 0
    BY EmptySeq DEF Ended, Real, Bit
  <1>6. Phases
    BY <1>1, <1>5 DEF Init, Phases, Queues
  <1>7. \A q \in Queues : \A buf : InLine(Buffers[q], pools[q], queues[q], 0, 0, buf, 0)
    BY <1>1 DEF InLine, InTurn
  <1>8. DecodedInLine /\ CapturedInLine /\ FarendInLine
    BY <1>1, <1>5, <1>7 DEF Init, DecodedInLine, CapturedInLine, FarendInLine, ThreadLine, Bit,
       Queues
  <1> QED
    BY <1>2, <1>3, <1>4, <1>6, <1>8 DEF Init, Inv, Kept, OverfullOnlyAtStop

-----------------------------------------------------------------------------
(* The queue of decoded buffers                                            *)

\* Nothing happens to the queue, to its pool, and to who has a buffer of it.
LEMMA DecodedUntouched ==
  ASSUME Inv, pools'["decoded"] = pools["decoded"], queues'["decoded"] = queues["decoded"],
         (playback'.at \in {"release", "copy", "return"}) <=> (playback.at \in {"release", "copy", "return"}),
         playback.at \in {"release", "copy", "return"} => playback'.buf = playback.buf,
         decoder'.at = "put" <=> decoder.at = "put", decoder.at = "put" => decoder'.buf = decoder.buf
  PROVE  DecodedInLine'
  <1>1. /\ Bit(playback.at \in {"release", "copy", "return"})'
             = Bit(playback.at \in {"release", "copy", "return"})
        /\ Bit(decoder.at = "put")' = Bit(decoder.at = "put")
    BY DEF Bit
  <1>2. Bit(playback.at \in {"release", "copy", "return"}) = 1 => playback'.buf = playback.buf
    BY DEF Bit
  <1> QED
    BY <1>1, <1>2 DEF Inv, DecodedInLine, InLine

\* What the steps below use of the types.
LEMMA TypeParts ==
  ASSUME Inv
  PROVE  /\ PoolsOK /\ QueuesOK /\ ControlOK
         /\ \A q \in Queues : Buffers[q] \in Nat \ {0} /\ Len(queues[q]) \in Nat
         /\ permits \in Nat /\ InQueue \in Nat /\ WithDecoder \in {0, 1} /\ WithCallback \in {0, 1}
         /\ Owed \in {0, 2}
  <1>1. PoolsOK /\ QueuesOK /\ ControlOK
    BY DEF Inv
  <1>2. \A q \in Queues : Len(queues[q]) \in Nat
    BY <1>1, LenProperties DEF QueuesOK
  <1>3. permits \in Nat /\ InQueue \in Nat /\ WithDecoder \in {0, 1} /\ WithCallback \in {0, 1}
    BY <1>1, <1>2 DEF ControlOK, InQueue, WithDecoder, WithCallback, Queues
  <1>4. Owed \in {0, 2}
    BY DEF Owed, Ahead
  <1> QED
    BY <1>1, <1>2, <1>3, <1>4, AudioAssumption

\* The decoder asks for a buffer and may get one.
LEMMA FillBufferLine ==
  ASSUME Inv, FillBuffer
  PROVE  /\ PoolsOK' /\ DecodedInLine' /\ decoder' \in [at : {"decode", "acquire", "put", "exited"},
                                                       buf : Slots("decoded") \cup {None}, left : Nat]
         /\ \A q \in Queues \ {"decoded"} : pools'[q] = pools[q]
  <1>1. PoolsOK /\ QueuesOK /\ ControlOK /\ "decoded" \in Queues /\ decoder.at = "fill"
    BY TypeParts DEF Queues, FillBuffer
  <1>2. UNCHANGED <<queues, playback>>
    BY DEF FillBuffer
  <1>3. decoder.left \in Nat \ {0}
    BY <1>1 DEF Inv, Phases, ControlOK
  <1>4. CASE UNCHANGED pools /\ (decoder' = Exited \/ decoder' = Continue(decoder.left - 1))
    <2>1. /\ decoder'.at # "put"
          /\ decoder' \in [at : {"decode", "acquire", "put", "exited"},
                           buf : Slots("decoded") \cup {None}, left : Nat]
      BY <1>3, <1>4 DEF Exited, Continue
    <2> QED
      BY <1>1, <1>2, <1>4, <2>1, DecodedUntouched DEF PoolsOK
  <1>5. CASE /\ HasBuffer("decoded") /\ GetBuffer("decoded")
             /\ decoder' = [decoder EXCEPT !.at = "put", !.buf = pools["decoded"].offset]
    <2> DEFINE pool == pools["decoded"]
               held == Bit(playback.at \in {"release", "copy", "return"})
    <2>1. /\ PoolsOK' /\ pools'["decoded"] = Taken(pool, "decoded")
          /\ \A q \in Queues \ {"decoded"} : pools'[q] = pools[q]
      BY <1>1, <1>5, GetTypes
    <2>2. /\ pool.offset \notin pool.used /\ pool.offset \in Slots("decoded")
      BY <1>1, <1>5 DEF HasBuffer, PoolsOK
    <2>3. /\ held \in {0, 1} /\ Len(queues["decoded"]) \in Nat
          /\ InLine(Buffers["decoded"], pool, queues["decoded"], Len(queues["decoded"]), held,
                    playback.buf, 0)
      <3>1. held \in {0, 1} /\ Bit(decoder.at = "put") = 0
        BY <1>1 DEF Bit
      <3>2. DecodedInLine
        BY DEF Inv
      <3> QED
        BY <1>1, <3>1, <3>2, TypeParts DEF DecodedInLine
    <2>4. /\ InLine(Buffers["decoded"], Taken(pool, "decoded"), queues["decoded"],
                    Len(queues["decoded"]), held, playback.buf, 1)
          /\ pool.offset = Back(Taken(pool, "decoded").offset, 1, Buffers["decoded"])
      <3> HIDE DEF pool, held
      <3> QED
        BY <1>1, <2>2, <2>3, LineGets
    <2>5. /\ decoder'.at = "put" /\ decoder'.buf = pool.offset
          /\ decoder' \in [at : {"decode", "acquire", "put", "exited"},
                           buf : Slots("decoded") \cup {None}, left : Nat]
      BY <1>1, <1>5, <2>2 DEF ControlOK
    <2>6. DecodedInLine'
      BY <1>2, <2>1, <2>4, <2>5 DEF DecodedInLine, Bit
    <2> QED
      BY <2>1, <2>5, <2>6
  <1> QED
    BY <1>4, <1>5 DEF FillBuffer

\* What the decoder made becomes the last of its queue, which has room for it.
LEMMA PutDecodedLine ==
  ASSUME Inv, PutDecoded
  PROVE  /\ QueuesOK' /\ ~aborted' /\ DecodedInLine'
         /\ Len(queues'["decoded"]) = Len(queues["decoded"]) + 1
         /\ \A q \in Queues \ {"decoded"} : queues'[q] = queues[q]
  <1> DEFINE pool == pools["decoded"]
             queue == queues["decoded"]
             held == Bit(playback.at \in {"release", "copy", "return"})
             x == decoder.buf
  <1>1. /\ PoolsOK /\ QueuesOK /\ ControlOK /\ "decoded" \in Queues /\ decoder.at = "put"
        /\ Put("decoded", x) /\ UNCHANGED <<pools, playback>> /\ decoder'.at # "put"
    BY TypeParts DEF Queues, PutDecoded, Continue
  <1>2. /\ held \in {0, 1} /\ Len(queue) \in Nat /\ Buffers["decoded"] \in Nat \ {0}
        /\ InLine(Buffers["decoded"], pool, queue, Len(queue), held, playback.buf, 1)
        /\ x = Back(pool.offset, 1, Buffers["decoded"])
    BY <1>1, TypeParts DEF Inv, DecodedInLine, Bit
  <1>3. x \in Slots("decoded") /\ Len(queue) < Buffers["decoded"]
    <2> HIDE DEF pool, queue, held, x
    <2> DEFINE N == Buffers["decoded"]
    <2>1. /\ pool.offset \in 0 .. N - 1 /\ Len(queue) + held + 1 \in 0 .. N
      BY <1>2 DEF InLine, InTurn
    <2>2. x \in 0 .. N - 1
      BY <1>2, <2>1, BackLast
    <2>3. Len(queue) < N
      BY <1>2, <2>1
    <2> QED
      BY <2>2, <2>3 DEF Slots
  <1>4. /\ QueuesOK' /\ queues'["decoded"] = Append(queue, x)
        /\ \A q \in Queues \ {"decoded"} : queues'[q] = queues[q]
    BY <1>1, <1>3, PutTypes
  <1>5. ~aborted'
    <2>1. aborted' = (Len(queue) + 1 > Capacity["decoded"])
      BY <1>1 DEF Put
    <2>2. Buffers["decoded"] <= Capacity["decoded"] /\ Capacity["decoded"] \in Nat
      BY <1>1, AudioAssumption
    <2>3. ~(Len(queue) + 1 > Capacity["decoded"])
      BY <1>2, <1>3, <2>2
    <2> QED
      BY <2>1, <2>3
  <1>6. /\ queue \in Seq(Slots("decoded") \cup {Empty}) /\ x \in Slots("decoded") \cup {Empty}
    BY <1>1, <1>3 DEF QueuesOK
  <1>7. /\ InLine(Buffers["decoded"], pool, Append(queue, x), Len(Append(queue, x)), held,
                  playback.buf, 0)
        /\ Len(Append(queue, x)) = Len(queue) + 1
    BY <1>2, <1>6, LinePuts, AppendProperties
  <1>8. DecodedInLine'
    BY <1>1, <1>4, <1>7 DEF DecodedInLine, Bit
  <1> QED
    BY <1>4, <1>5, <1>7, <1>8

\* The callback gets the first of the queue, the oldest buffer in use.
LEMMA CallbackGetLine ==
  ASSUME Inv, CallbackGet
  PROVE  /\ QueuesOK' /\ UNCHANGED aborted /\ DecodedInLine'
         /\ playback' \in [at : {"release"}, buf : Slots("decoded")]
         /\ Len(queues'["decoded"]) = Len(queues["decoded"]) - 1
         /\ \A q \in Queues \ {"decoded"} : queues'[q] = queues[q]
  <1> DEFINE pool == pools["decoded"]
             queue == queues["decoded"]
             made == Bit(decoder.at = "put")
  <1>1. /\ PoolsOK /\ QueuesOK /\ ControlOK /\ "decoded" \in Queues /\ playback.at = "get"
        /\ Take("decoded") /\ UNCHANGED <<pools, decoder>>
        /\ playback' = [at |-> "release", buf |-> Head(queue)]
    BY TypeParts DEF Queues, CallbackGet
  <1>2. /\ QueuesOK' /\ UNCHANGED aborted /\ queue # <<>> /\ queues'["decoded"] = Tail(queue)
        /\ \A q \in Queues \ {"decoded"} : queues'[q] = queues[q]
    BY <1>1, TakeTypes
  <1>3. /\ made \in {0, 1} /\ Buffers["decoded"] \in Nat \ {0}
        /\ InLine(Buffers["decoded"], pool, queue, Len(queue), 0, playback.buf, made)
    BY <1>1, TypeParts DEF Inv, DecodedInLine, Bit
  <1>4. /\ queue \in Seq(Slots("decoded") \cup {Empty}) /\ Len(queue) \in 1 .. Len(queue)
        /\ Len(Tail(queue)) = Len(queue) - 1
    BY <1>1, <1>2, EmptySeq, HeadTailProperties DEF QueuesOK
  <1>5. /\ InLine(Buffers["decoded"], pool, Tail(queue), Len(queue) - 1, 1, Head(queue), made)
        /\ Head(queue) \in Slots("decoded")
    <2> HIDE DEF pool, queue, made
    <2>1. /\ InLine(Buffers["decoded"], pool, Tail(queue), Len(queue) - 1, 1, Head(queue), made)
          /\ Head(queue) \in 0 .. Buffers["decoded"] - 1
      BY <1>3, <1>4, LineTakes
    <2> QED
      BY <2>1 DEF Slots
  <1>6. DecodedInLine'
    BY <1>1, <1>2, <1>4, <1>5 DEF Inv, DecodedInLine, Bit
  <1> QED
    BY <1>1, <1>2, <1>4, <1>5, <1>6

\* The callback gives back the oldest buffer in use.
LEMMA CallbackReturnLine ==
  ASSUME Inv, CallbackReturn
  PROVE  PoolsOK' /\ DecodedInLine' /\ \A q \in Queues \ {"decoded"} : pools'[q] = pools[q]
  <1> DEFINE queue == queues["decoded"]
             made == Bit(decoder.at = "put")
  <1>1. /\ PoolsOK /\ QueuesOK /\ ControlOK /\ "decoded" \in Queues
        /\ playback.at \in {"copy", "return"} /\ playback'.at = "idle"
        /\ Free("decoded", playback.buf) /\ UNCHANGED <<queues, decoder>>
    BY TypeParts DEF Queues, CallbackReturn
  <1>2. /\ PoolsOK' /\ pools'["decoded"].offset = pools["decoded"].offset
        /\ pools'["decoded"].used = pools["decoded"].used \ {playback.buf}
        /\ \A q \in Queues \ {"decoded"} : pools'[q] = pools[q]
    BY <1>1, FreeTypes
  <1>3. /\ made \in {0, 1} /\ Buffers["decoded"] \in Nat \ {0} /\ Len(queue) \in Nat
        /\ InLine(Buffers["decoded"], pools["decoded"], queue, Len(queue), 1, playback.buf, made)
    BY <1>1, TypeParts DEF Inv, DecodedInLine, Bit
  <1>4. InLine(Buffers["decoded"], pools'["decoded"], queue, Len(queue), 0, playback'.buf, made)
    <2> DEFINE left == pools'["decoded"]
               pool == pools["decoded"]
               buf  == playback.buf
               real == Len(queue)
    <2>1. left.offset = pool.offset /\ left.used = pool.used \ {buf}
      BY <1>2
    <2> HIDE DEF queue, made, left, pool, buf, real
    <2>2. real \in Nat
      BY <1>3 DEF real
    <2>3. made \in {0, 1} /\ Buffers["decoded"] \in Nat \ {0}
      BY <1>3
    <2>4. InLine(Buffers["decoded"], pool, queue, real, 1, buf, made)
      BY <1>3 DEF pool, buf, real
    <2>5. \A x : InLine(Buffers["decoded"], left, queue, real, 0, x, made)
      BY <2>1, <2>2, <2>3, <2>4, LineFrees
    <2> QED
      BY <2>5 DEF left, real
  <1>5. DecodedInLine'
    BY <1>1, <1>2, <1>4 DEF Inv, DecodedInLine, Bit
  <1> QED
    BY <1>2, <1>5

-----------------------------------------------------------------------------
(* The queues of captured buffers and of the echo canceller                *)

\* A buffer handed out and queued is the newest, and its queue has room for it.
LEMMA ThreadLineGets ==
  ASSUME PoolsOK, QueuesOK, NEW q \in Queues, NEW held, NEW buf, ThreadLine(q, held, buf),
         HasBuffer(q), ~Ended(queues[q]), GetBuffer(q), Put(q, pools[q].offset)
  PROVE  /\ PoolsOK' /\ QueuesOK' /\ ~aborted'
         /\ InLine(Buffers[q], pools'[q], queues'[q], Real(queues'[q]), Bit(held), buf, 0)
         /\ ~Ended(queues'[q])
         /\ \A p \in Queues \ {q} : pools'[p] = pools[p] /\ queues'[p] = queues[p]
  <1> DEFINE pool == pools[q]
             queue == queues[q]
             x == pools[q].offset
             h == Bit(held)
             S == Slots(q) \cup {Empty}
  <1>1. /\ PoolsOK' /\ pools'[q] = Taken(pool, q)
        /\ \A p \in Queues \ {q} : pools'[p] = pools[p]
    BY GetTypes
  <1>2. x \in Slots(q) /\ x \in S /\ x = pool.offset /\ pool.offset \notin pool.used
    BY DEF PoolsOK, HasBuffer
  <1>3. /\ QueuesOK' /\ queues'[q] = Append(queue, x)
        /\ \A p \in Queues \ {q} : queues'[p] = queues[p]
    BY <1>2, PutTypes
  <1>4. queue \in Seq(S) /\ h \in {0, 1} /\ InLine(Buffers[q], pool, queue, Real(queue), h, buf, 0)
    BY BitTypes DEF QueuesOK, ThreadLine
  <1>5. ~Ended(queue)
    OBVIOUS
  <1>6. /\ InLine(Buffers[q], Taken(pool, q), Append(queue, x), Real(Append(queue, x)), h, buf, 0)
        /\ ~Ended(Append(queue, x)) /\ Len(queue) < Buffers[q]
    <2> HIDE DEF pool, queue, x, h, S
    <2> QED
      BY <1>2, <1>4, <1>5, QueueGets
  <1>7. ~aborted'
    <2>1. aborted' = (Len(queue) + 1 > Capacity[q])
      BY DEF Put
    <2>2. /\ Buffers[q] <= Capacity[q] /\ Capacity[q] \in Nat /\ Buffers[q] \in Nat
          /\ Len(queue) \in Nat
      BY <1>4, AudioAssumption, LenProperties
    <2>3. ~(Len(queue) + 1 > Capacity[q])
      BY <1>6, <2>2
    <2> QED
      BY <2>1, <2>3
  <1> QED
    BY <1>1, <1>3, <1>6, <1>7

\* The empty buffer comes last; only with all buffers queued may it overfill the queue.
LEMMA ThreadLineEnds ==
  ASSUME QueuesOK, NEW q \in Queues, NEW held, NEW buf, ThreadLine(q, held, buf),
         ~Ended(queues[q]), Put(q, Empty)
  PROVE  /\ QueuesOK'
         /\ InLine(Buffers[q], pools[q], queues'[q], Real(queues'[q]), Bit(held), buf, 0)
         /\ aborted' => Len(queues'[q]) > Capacity[q] /\ Len(queues'[q]) <= Buffers[q] + 1
         /\ \A p \in Queues \ {q} : queues'[p] = queues[p]
  <1> DEFINE pool == pools[q]
             queue == queues[q]
             h == Bit(held)
             S == Slots(q) \cup {Empty}
  <1>1. /\ QueuesOK' /\ queues'[q] = Append(queue, Empty)
        /\ \A p \in Queues \ {q} : queues'[p] = queues[p]
    BY PutTypes
  <1>2. /\ queue \in Seq(S) /\ h \in {0, 1} /\ InLine(Buffers[q], pool, queue, Real(queue), h, buf, 0)
        /\ Empty \in S /\ ~Ended(queue) /\ Buffers[q] \in Nat \ {0}
    BY BitTypes, AudioAssumption DEF QueuesOK, ThreadLine
  <1>3. InLine(Buffers[q], pool, Append(queue, Empty), Real(Append(queue, Empty)), h, buf, 0)
        /\ Len(queue) <= Buffers[q]
    <2> HIDE DEF pool, queue, h, S
    <2> QED
      BY <1>2, QueueEnds
  <1>4. Len(Append(queue, Empty)) = Len(queue) + 1 /\ Len(queue) \in Nat
    BY <1>2, AppendProperties
  <1>5. aborted' = (Len(queue) + 1 > Capacity[q])
    BY DEF Put
  <1>6. Len(queue) + 1 <= Buffers[q] + 1
    BY <1>2, <1>3, <1>4
  <1> QED
    BY <1>1, <1>3, <1>4, <1>5, <1>6

\* A thread without a buffer takes the oldest one in use, or the empty one that ends it.
LEMMA ThreadLineTakes ==
  ASSUME QueuesOK, NEW q \in Queues, NEW buf, ThreadLine(q, FALSE, buf), Take(q)
  PROVE  /\ QueuesOK' /\ UNCHANGED aborted
         /\ Head(queues[q]) = Empty =>
              /\ ~Ended(queues'[q])
              /\ \A x : InLine(Buffers[q], pools[q], queues'[q], Real(queues'[q]), 0, x, 0)
         /\ Head(queues[q]) # Empty =>
              /\ InLine(Buffers[q], pools[q], queues'[q], Real(queues'[q]), 1, Head(queues[q]), 0)
              /\ Head(queues[q]) \in Slots(q)
              /\ Ended(queues'[q]) => Ended(queues[q])
         /\ \A p \in Queues \ {q} : queues'[p] = queues[p]
  <1> DEFINE pool == pools[q]
             queue == queues[q]
             S == Slots(q) \cup {Empty}
  <1>1. /\ QueuesOK' /\ UNCHANGED aborted /\ queue # <<>> /\ queues'[q] = Tail(queue)
        /\ \A p \in Queues \ {q} : queues'[p] = queues[p]
    BY TakeTypes
  <1>2. /\ queue \in Seq(S) /\ Buffers[q] \in Nat \ {0}
        /\ InLine(Buffers[q], pool, queue, Real(queue), 0, buf, 0)
    BY AudioAssumption DEF QueuesOK, ThreadLine, Bit
  <1>3. /\ Head(queue) = Empty =>
             /\ ~Ended(Tail(queue))
             /\ \A x : InLine(Buffers[q], pool, Tail(queue), Real(Tail(queue)), 0, x, 0)
        /\ Head(queue) # Empty =>
             /\ InLine(Buffers[q], pool, Tail(queue), Real(Tail(queue)), 1, Head(queue), 0)
             /\ Head(queue) \in 0 .. Buffers[q] - 1
             /\ Ended(Tail(queue)) => Ended(queue)
    <2> HIDE DEF pool, queue, S
    <2> QED
      BY <1>1, <1>2, QueueTakes
  <1> QED
    BY <1>1, <1>3 DEF Slots

\* A thread gives back the oldest buffer in use.
LEMMA ThreadLineFrees ==
  ASSUME PoolsOK, QueuesOK, NEW q \in Queues, NEW buf, ThreadLine(q, TRUE, buf), Free(q, buf)
  PROVE  /\ PoolsOK'
         /\ \A x : InLine(Buffers[q], pools'[q], queues[q], Real(queues[q]), 0, x, 0)
         /\ \A p \in Queues \ {q} : pools'[p] = pools[p]
  <1> DEFINE pool == pools[q]
             left == pools'[q]
             queue == queues[q]
             real == Real(queues[q])
  <1>1. /\ PoolsOK' /\ left.offset = pool.offset /\ left.used = pool.used \ {buf}
        /\ \A p \in Queues \ {q} : pools'[p] = pools[p]
    BY FreeTypes
  <1>2. Buffers[q] \in Nat \ {0} /\ Len(queue) \in Nat /\ (Len(queue) = 0 => ~Ended(queue))
    BY AudioAssumption, LenProperties, EmptySeq DEF QueuesOK, Ended
  <1>3. real \in Nat
    BY <1>2 DEF Real, Bit
  <1>4. InLine(Buffers[q], pool, queue, real, 1, buf, 0) /\ 0 \in {0, 1}
    BY DEF ThreadLine, Bit
  <1>5. \A x : InLine(Buffers[q], left, queue, real, 0, x, 0)
    <2> HIDE DEF pool, left, queue, real
    <2> QED
      BY <1>1, <1>2, <1>3, <1>4, LineFrees
  <1> QED
    BY <1>1, <1>5

\* Steps of others leave the captured buffers in line.
LEMMA CapturedUntouched ==
  ASSUME Inv, pools'["captured"] = pools["captured"], queues'["captured"] = queues["captured"],
         (encoder'.at = "busy") <=> (encoder.at = "busy"),
         encoder.at = "busy" => encoder'.buf = encoder.buf
  PROVE  CapturedInLine'
  <1>1. Bit(encoder.at = "busy")' = Bit(encoder.at = "busy")
        /\ (Bit(encoder.at = "busy") = 1 => encoder'.buf = encoder.buf)
    BY DEF Bit
  <1> QED
    BY <1>1 DEF Inv, CapturedInLine, ThreadLine, InLine

\* Steps of others leave the far-end buffers in line.
LEMMA FarendUntouched ==
  ASSUME Inv, pools'["farend"] = pools["farend"], queues'["farend"] = queues["farend"],
         (farend'.at = "busy") <=> (farend.at = "busy"),
         farend.at = "busy" => farend'.buf = farend.buf
  PROVE  FarendInLine'
  <1>1. Bit(farend.at = "busy")' = Bit(farend.at = "busy")
        /\ (Bit(farend.at = "busy") = 1 => farend'.buf = farend.buf)
    BY DEF Bit
  <1> QED
    BY <1>1 DEF Inv, FarendInLine, ThreadLine, InLine

\* With the pool of decoded buffers exhausted, more would be under way than are asked for.
LEMMA DecodedNeverShort ==
  ASSUME Inv, running, ~aborted, decoder.at = "fill"
  PROVE  HasBuffer("decoded")
  <1> DEFINE queue == queues["decoded"]
             held == Bit(playback.at \in {"release", "copy", "return"})
             N == Buffers["decoded"]
  <1>1. /\ Len(queue) \in Nat /\ N \in Nat \ {0} /\ N > Ahead /\ held \in {0, 1} /\ permits \in Nat
    BY TypeParts, BitTypes, AudioAssumption DEF Queues, ControlOK
  <1>2. InTurn(N, pools["decoded"], Len(queue) + held)
    <2>1. InLine(N, pools["decoded"], queue, Len(queue), held, playback.buf, 0)
      BY DEF Inv, DecodedInLine, Bit
    <2> QED
      BY <1>1, <2>1 DEF InLine
  <1>3. Len(queue) + 1 <= Ahead
    <2>1. permits + InQueue + WithDecoder + WithCallback = Owed /\ WithDecoder = 1
      BY DEF Inv, Kept, WithDecoder
    <2> QED
      BY <2>1, TypeParts DEF InQueue, Ahead
  <1>4. Len(queue) + held < N
    <2> HIDE DEF queue, held, N
    <2> QED
      BY <1>1, <1>3 DEF Ahead
  <1> QED
    BY <1>1, <1>2, <1>4, FullWhenNextInUse DEF HasBuffer

-----------------------------------------------------------------------------
(* Steps of the threads                                                    *)

\* Pools and queues are as they were.
LEMMA SoundUnchanged ==
  ASSUME Inv, ~aborted, UNCHANGED sound
  PROVE  /\ PoolsOK' /\ QueuesOK' /\ ~aborted' /\ aborted' \in BOOLEAN /\ OverfullOnlyAtStop'
         /\ Ended(queues'["captured"]) <=> Ended(queues["captured"])
         /\ Ended(queues'["farend"]) <=> Ended(queues["farend"])
         /\ \A q \in Queues : pools'[q] = pools[q] /\ queues'[q] = queues[q]
  BY TypeParts DEF ControlOK, sound, PoolsOK, QueuesOK, OverfullOnlyAtStop

\* Decoding a frame touches no buffer: the decoder only learns how many it needs.
LEMMA DecodeFrameInv ==
  ASSUME Inv, DecodeFrame
  PROVE  Inv'
  <1>1. /\ ~aborted /\ decoder.at = "decode"
        /\ UNCHANGED <<sound, permits, sized, running, playback, farend, encoder, encRunning, owner>>
    BY DEF DecodeFrame
  <1> DEFINE Next1 == [at : {"decode", "acquire", "exited"}, buf : Slots("decoded") \cup {None},
                       left : Nat]
  <1>2. decoder' \in Next1 /\ (decoder'.at = "acquire" => decoder'.left > 0)
    <2>1. ASSUME NEW n \in PacketsPerFrame, decoder' = Continue(n)
          PROVE  decoder' \in Next1 /\ (decoder'.at = "acquire" => decoder'.left > 0)
      BY <2>1, AudioAssumption DEF Continue
    <2>2. CASE decoder' = Exited
      BY <2>2 DEF Exited
    <2> QED
      BY <2>1, <2>2 DEF DecodeFrame
  <1>3. ControlOK'
    BY <1>1, <1>2, SoundUnchanged, TypeParts DEF ControlOK
  <1>4. Phases'
    BY <1>1, <1>2, SoundUnchanged DEF Inv, Phases, OutputCallbackSet, sound
  <1>5. DecodedInLine' /\ CapturedInLine' /\ FarendInLine'
    BY <1>1, <1>2, SoundUnchanged, DecodedUntouched, CapturedUntouched, FarendUntouched DEF Queues
  <1>6. Kept' /\ OverfullOnlyAtStop'
    BY <1>1, <1>2, SoundUnchanged DEF Inv, Kept, InQueue, WithDecoder, WithCallback, Owed, sound
  <1> QED
    BY <1>1, <1>3, <1>4, <1>5, <1>6, SoundUnchanged DEF Inv

\* A permit goes from the semaphore to the decoder.
LEMMA AcquireInv ==
  ASSUME Inv, Acquire
  PROVE  Inv'
  <1>1. /\ ~aborted /\ decoder.at = "acquire" /\ permits > 0 /\ permits' = permits - 1
        /\ decoder' = [decoder EXCEPT !.at = "fill"]
        /\ UNCHANGED <<sound, sized, running, playback, farend, encoder, encRunning, owner>>
    BY DEF Acquire
  <1>2. /\ permits \in Nat /\ decoder'.at = "fill" /\ decoder'.left = decoder.left
        /\ decoder' \in [at : {"fill"}, buf : Slots("decoded") \cup {None}, left : Nat]
    BY <1>1, TypeParts DEF ControlOK
  <1>3. ControlOK'
    BY <1>1, <1>2, SoundUnchanged, TypeParts DEF ControlOK
  <1>4. Phases'
    BY <1>1, <1>2, SoundUnchanged DEF Inv, Phases, OutputCallbackSet, sound
  <1>5. DecodedInLine' /\ CapturedInLine' /\ FarendInLine'
    BY <1>1, <1>2, SoundUnchanged, DecodedUntouched, CapturedUntouched, FarendUntouched DEF Queues
  <1>6. Kept' /\ OverfullOnlyAtStop'
    <2>1. WithDecoder = 0 /\ WithDecoder' = 1 /\ UNCHANGED <<InQueue, WithCallback, Owed>>
      BY <1>1, <1>2 DEF WithDecoder, WithCallback, InQueue, Owed, sound
    <2> QED
      BY <1>1, <2>1, SoundUnchanged, TypeParts DEF Inv, Kept
  <1> QED
    BY <1>1, <1>3, <1>4, <1>5, <1>6, SoundUnchanged DEF Inv

\* The decoder takes the next place of its pool: with two permits about, it is free.
LEMMA FillBufferInv ==
  ASSUME Inv, FillBuffer
  PROVE  Inv'
  <1>1. /\ ~aborted /\ decoder.at = "fill"
        /\ UNCHANGED <<queues, aborted, permits, sized, running, playback, farend, encoder,
                       encRunning, owner>>
    BY DEF FillBuffer
  <1>2. /\ PoolsOK' /\ DecodedInLine'
        /\ decoder' \in [at : {"decode", "acquire", "put", "exited"},
                         buf : Slots("decoded") \cup {None}, left : Nat]
        /\ \A q \in Queues \ {"decoded"} : pools'[q] = pools[q]
    BY FillBufferLine
  <1>3. /\ running => decoder'.at = "put"
        /\ decoder'.at \in {"acquire", "put"} => decoder'.left > 0
    <2>1. decoder.left \in Nat \ {0}
      BY <1>1, TypeParts DEF Inv, Phases, ControlOK
    <2>2. CASE ~running /\ decoder' = Exited
      BY <2>2 DEF Exited
    <2>3. CASE running /\ decoder' = [decoder EXCEPT !.at = "put", !.buf = pools["decoded"].offset]
      <3>1. decoder'.at = "put" /\ decoder'.left = decoder.left
        BY <2>3, TypeParts DEF ControlOK
      <3> QED
        BY <2>1, <3>1
    <2>4. ~(running /\ ~HasBuffer("decoded"))
      BY <1>1, DecodedNeverShort
    <2> QED
      BY <2>2, <2>3, <2>4 DEF FillBuffer
  <1>4. ControlOK'
    BY <1>1, <1>2, TypeParts DEF ControlOK, QueuesOK
  <1>5. Phases'
    BY <1>1, <1>2, <1>3 DEF Inv, Phases, OutputCallbackSet
  <1>6. CapturedInLine' /\ FarendInLine'
    BY <1>1, <1>2, CapturedUntouched, FarendUntouched DEF Queues
  <1>7. Kept' /\ OverfullOnlyAtStop'
    <2>1. running => UNCHANGED <<InQueue, WithDecoder, WithCallback, Owed>>
      BY <1>1, <1>3 DEF WithDecoder, WithCallback, InQueue, Owed
    <2> QED
      BY <1>1, <2>1 DEF Inv, Kept, OverfullOnlyAtStop
  <1> QED
    <2>1. QueuesOK'
      BY <1>1, TypeParts DEF QueuesOK
    <2> QED
      BY <1>2, <1>4, <1>5, <1>6, <1>7, <2>1 DEF Inv

\* A permit goes with the buffer from the decoder to its queue.
LEMMA PutDecodedInv ==
  ASSUME Inv, PutDecoded
  PROVE  Inv'
  <1>1. /\ ~aborted /\ decoder.at = "put" /\ decoder' = Continue(decoder.left - 1)
        /\ UNCHANGED <<pools, permits, sized, running, playback, farend, encoder, encRunning, owner>>
    BY DEF PutDecoded
  <1>2. /\ QueuesOK' /\ ~aborted' /\ DecodedInLine'
        /\ Len(queues'["decoded"]) = Len(queues["decoded"]) + 1
        /\ \A q \in Queues \ {"decoded"} : queues'[q] = queues[q]
    BY PutDecodedLine
  <1>3. decoder.left \in Nat \ {0}
    BY <1>1, TypeParts DEF Inv, Phases, ControlOK
  <1>4. /\ decoder' \in [at : {"decode", "acquire"}, buf : Slots("decoded") \cup {None}, left : Nat]
        /\ decoder'.at = "acquire" => decoder'.left > 0
    BY <1>1, <1>3 DEF Continue
  <1>5. aborted' \in BOOLEAN
    <2>1. aborted' = (Len(queues["decoded"]) + 1 > Capacity["decoded"])
      BY DEF PutDecoded, Put
    <2> QED
      BY <2>1
  <1>6. ControlOK'
    BY <1>1, <1>2, <1>4, <1>5, TypeParts DEF ControlOK, PoolsOK
  <1>7. Phases'
    BY <1>1, <1>2, <1>4 DEF Inv, Phases, OutputCallbackSet, Queues
  <1>8. CapturedInLine' /\ FarendInLine'
    BY <1>1, <1>2, CapturedUntouched, FarendUntouched DEF Queues
  <1>9. Kept' /\ OverfullOnlyAtStop'
    <2>1. /\ WithDecoder = 1 /\ WithDecoder' = 0 /\ UNCHANGED <<WithCallback, Owed>>
          /\ InQueue' = InQueue + 1
      BY <1>1, <1>2, <1>4 DEF WithDecoder, WithCallback, InQueue, Owed
    <2> QED
      BY <1>1, <1>2, <2>1, TypeParts DEF Inv, Kept, OverfullOnlyAtStop
  <1> QED
    <2>1. PoolsOK'
      BY <1>1, TypeParts DEF PoolsOK
    <2> QED
      BY <1>2, <1>6, <1>7, <1>8, <1>9, <2>1 DEF Inv

\* A device that calls has no buffer yet.
LEMMA DeviceCallsInv ==
  ASSUME Inv, DeviceCalls
  PROVE  Inv'
  <1>1. /\ ~aborted /\ DevicesRun /\ playback.at = "idle"
        /\ playback' = [playback EXCEPT !.at = "called"]
        /\ UNCHANGED <<sound, permits, sized, decoder, running, farend, encoder, encRunning, owner>>
    BY DEF DeviceCalls
  <1>2. playback' \in [at : {"called"}, buf : Slots("decoded") \cup {None}]
    BY <1>1, TypeParts DEF ControlOK
  <1>3. ControlOK'
    BY <1>1, <1>2, SoundUnchanged, TypeParts DEF ControlOK
  <1>4. Phases'
    BY <1>1, <1>2, SoundUnchanged DEF Inv, Phases, DevicesRun, OutputCallbackSet, sound
  <1>5. DecodedInLine' /\ CapturedInLine' /\ FarendInLine'
    BY <1>1, <1>2, SoundUnchanged, DecodedUntouched, CapturedUntouched, FarendUntouched DEF Queues
  <1>6. Kept' /\ OverfullOnlyAtStop'
    BY <1>1, <1>2, SoundUnchanged DEF Inv, Kept, InQueue, WithDecoder, WithCallback, Owed, sound
  <1> QED
    BY <1>1, <1>3, <1>4, <1>5, <1>6, SoundUnchanged DEF Inv

\* The first callback sizes the buffers, which is when the permits come to be.
LEMMA CallbackStartInv ==
  ASSUME Inv, CallbackStart
  PROVE  Inv'
  <1>1. /\ ~aborted /\ playback.at = "called"
        /\ UNCHANGED <<sound, decoder, running, farend, encoder, encRunning, owner>>
    BY DEF CallbackStart
  <1>2. permits \in Nat
    BY TypeParts DEF ControlOK
  <1>3. \/ /\ OutputCallbackSet /\ running
           /\ permits' = (IF sized THEN permits ELSE permits + Ahead) /\ sized' = TRUE
           /\ playback' \in [at : {"get"}, buf : Slots("decoded") \cup {None}]
        \/ /\ playback' \in [at : {"idle"}, buf : Slots("decoded") \cup {None}]
           /\ UNCHANGED <<permits, sized>>
    BY TypeParts DEF CallbackStart, ControlOK
  <1>4. \/ permits' = permits /\ Owed' = Owed
        \/ permits' = permits + 2 /\ Owed = 0 /\ Owed' = 2
    <2>1. CASE UNCHANGED <<permits, sized>>
      BY <2>1 DEF Owed
    <2>2. CASE permits' = (IF sized THEN permits ELSE permits + Ahead) /\ sized' = TRUE
      BY <2>2 DEF Owed, Ahead
    <2> QED
      BY <1>3, <2>1, <2>2
  <1>8. ControlOK'
    <2>1. sized' \in BOOLEAN /\ permits' \in Nat
      <3>1. sized' \in BOOLEAN
        BY <1>3, TypeParts DEF ControlOK
      <3>2. permits' \in Nat
        BY <1>2, <1>4
      <3> QED
        BY <3>1, <3>2
    <2> QED
      BY <1>1, <1>3, <2>1, SoundUnchanged, TypeParts DEF ControlOK
  <1>5. Phases'
    BY <1>1, <1>3, SoundUnchanged DEF Inv, Phases, OutputCallbackSet, sound
  <1>6. DecodedInLine' /\ CapturedInLine' /\ FarendInLine'
    BY <1>1, <1>3, SoundUnchanged, DecodedUntouched, CapturedUntouched, FarendUntouched DEF Queues
  <1>7. Kept'
    <2>1. UNCHANGED <<InQueue, WithDecoder, WithCallback>> /\ aborted' = aborted
      BY <1>1, <1>3 DEF WithDecoder, WithCallback, InQueue, sound
    <2>2. CASE UNCHANGED <<permits, Owed>>
      BY <1>1, <2>1, <2>2 DEF Inv, Kept
    <2>3. CASE permits' = permits + 2 /\ Owed = 0 /\ Owed' = 2
      BY <1>1, <2>1, <2>3, TypeParts DEF Inv, Kept
    <2> QED
      BY <1>4, <2>2, <2>3 DEF Owed
  <1> QED
    BY <1>1, <1>5, <1>6, <1>7, <1>8, SoundUnchanged DEF Inv

\* A permit goes with the buffer from the queue to the callback.
LEMMA CallbackGetInv ==
  ASSUME Inv, CallbackGet
  PROVE  Inv'
  <1>1. /\ ~aborted /\ playback.at = "get"
        /\ UNCHANGED <<pools, permits, sized, decoder, running, farend, encoder, encRunning, owner>>
    BY DEF CallbackGet
  <1>2. /\ QueuesOK' /\ UNCHANGED aborted /\ DecodedInLine'
        /\ playback' \in [at : {"release"}, buf : Slots("decoded")]
        /\ Len(queues'["decoded"]) = Len(queues["decoded"]) - 1
        /\ \A q \in Queues \ {"decoded"} : queues'[q] = queues[q]
    BY CallbackGetLine
  <1>3. ControlOK' /\ PoolsOK'
    BY <1>1, <1>2, TypeParts DEF ControlOK, PoolsOK
  <1>4. Phases'
    <2>1. owner # "created"
      BY <1>1 DEF Inv, Phases
    <2> QED
      BY <1>1, <1>2, <2>1 DEF Inv, Phases, OutputCallbackSet, Queues
  <1>5. CapturedInLine' /\ FarendInLine'
    BY <1>1, <1>2, CapturedUntouched, FarendUntouched DEF Queues
  <1>6. Kept' /\ OverfullOnlyAtStop'
    <2>1. /\ WithCallback = 0 /\ WithCallback' = 1 /\ UNCHANGED <<WithDecoder, Owed>>
          /\ InQueue' = InQueue - 1
      BY <1>1, <1>2 DEF WithDecoder, WithCallback, InQueue, Owed
    <2> QED
      BY <1>1, <1>2, <2>1, TypeParts DEF Inv, Kept, OverfullOnlyAtStop
  <1> QED
    BY <1>2, <1>3, <1>4, <1>5, <1>6 DEF Inv

\* The callback returns its permit to the semaphore and keeps the buffer.
LEMMA CallbackReleaseInv ==
  ASSUME Inv, CallbackRelease
  PROVE  Inv'
  <1>1. /\ ~aborted /\ playback.at = "release" /\ permits' = permits + 1
        /\ playback' = [playback EXCEPT !.at = "copy"]
        /\ UNCHANGED <<sound, sized, decoder, running, farend, encoder, encRunning, owner>>
    BY DEF CallbackRelease
  <1>2. /\ playback' \in [at : {"copy"}, buf : Slots("decoded") \cup {None}]
        /\ playback'.buf = playback.buf /\ permits \in Nat
    BY <1>1, TypeParts DEF ControlOK
  <1>3. ControlOK'
    BY <1>1, <1>2, SoundUnchanged, TypeParts DEF ControlOK
  <1>4. Phases'
    BY <1>1, <1>2, SoundUnchanged DEF Inv, Phases, OutputCallbackSet, sound
  <1>5. DecodedInLine' /\ CapturedInLine' /\ FarendInLine'
    BY <1>1, <1>2, SoundUnchanged, DecodedUntouched, CapturedUntouched, FarendUntouched DEF Queues
  <1>6. Kept'
    <2>1. WithCallback = 1 /\ WithCallback' = 0 /\ UNCHANGED <<WithDecoder, Owed, InQueue>>
      BY <1>1, <1>2 DEF WithDecoder, WithCallback, InQueue, Owed, sound
    <2> QED
      BY <1>1, <2>1, SoundUnchanged, TypeParts DEF Inv, Kept
  <1> QED
    BY <1>1, <1>3, <1>4, <1>5, <1>6, SoundUnchanged DEF Inv

\* The copy for the echo canceller is queued if a buffer is free, and dropped if not.
LEMMA SpeakerOutInv ==
  ASSUME Inv, SpeakerOut
  PROVE  Inv'
  <1>1. /\ ~aborted /\ playback.at = "copy" /\ playback' = [playback EXCEPT !.at = "return"]
        /\ UNCHANGED <<permits, sized, decoder, running, farend, encoder, encRunning, owner>>
    BY DEF SpeakerOut
  <1>2. /\ playback' \in [at : {"return"}, buf : Slots("decoded") \cup {None}]
        /\ playback'.buf = playback.buf
    BY <1>1, TypeParts DEF ControlOK
  <1>3. /\ "farend" \in Queues /\ ~Ended(queues["farend"]) /\ PoolsOK /\ QueuesOK /\ ControlOK
        /\ ThreadLine("farend", farend.at = "busy", farend.buf)
        /\ OutputCallbackSet
    BY <1>1, TypeParts DEF Inv, Phases, OutputCallbackSet, FarendInLine, Queues
  <1>4. /\ PoolsOK' /\ QueuesOK' /\ ~aborted' /\ aborted' \in BOOLEAN /\ FarendInLine'
        /\ ~Ended(queues'["farend"])
        /\ \A q \in Queues \ {"farend"} : pools'[q] = pools[q] /\ queues'[q] = queues[q]
    <2>1. CASE UNCHANGED sound
      BY <1>1, <1>3, <2>1, SoundUnchanged, FarendUntouched
    <2>2. CASE HasBuffer("farend") /\ GetBuffer("farend") /\ Put("farend", pools["farend"].offset)
      <3>1. /\ PoolsOK' /\ QueuesOK' /\ ~aborted' /\ ~Ended(queues'["farend"])
            /\ InLine(Buffers["farend"], pools'["farend"], queues'["farend"],
                      Real(queues'["farend"]), Bit(farend.at = "busy"), farend.buf, 0)
            /\ \A q \in Queues \ {"farend"} : pools'[q] = pools[q] /\ queues'[q] = queues[q]
        BY <1>3, <2>2, ThreadLineGets
      <3>2. FarendInLine'
        BY <1>1, <3>1 DEF FarendInLine, ThreadLine
      <3>3. aborted' = (Len(queues["farend"]) + 1 > Capacity["farend"])
        BY <2>2 DEF Put
      <3>4. aborted' \in BOOLEAN
        BY <3>3
      <3> QED
        BY <3>1, <3>2, <3>4
    <2> QED
      BY <2>1, <2>2 DEF SpeakerOut
  <1>5. ControlOK'
    BY <1>1, <1>2, <1>3, <1>4 DEF ControlOK
  <1>6. Phases'
    BY <1>1, <1>2, <1>3, <1>4 DEF Inv, Phases, OutputCallbackSet, Queues
  <1>7. DecodedInLine' /\ CapturedInLine'
    BY <1>1, <1>2, <1>4, DecodedUntouched, CapturedUntouched DEF Queues
  <1>8. Kept' /\ OverfullOnlyAtStop'
    <2>1. UNCHANGED <<InQueue, WithDecoder, WithCallback, Owed>>
      BY <1>1, <1>2, <1>4 DEF WithDecoder, WithCallback, InQueue, Owed, Queues
    <2> QED
      BY <1>1, <1>4, <2>1 DEF Inv, Kept, OverfullOnlyAtStop
  <1> QED
    BY <1>4, <1>5, <1>6, <1>7, <1>8 DEF Inv

\* The callback gives its buffer back, with no permit any more.
LEMMA CallbackReturnInv ==
  ASSUME Inv, CallbackReturn
  PROVE  Inv'
  <1>1. /\ ~aborted /\ playback.at \in {"copy", "return"}
        /\ playback' = [at |-> "idle", buf |-> None]
        /\ UNCHANGED <<queues, aborted, permits, sized, decoder, running, farend, encoder,
                       encRunning, owner>>
    BY DEF CallbackReturn
  <1>2. PoolsOK' /\ DecodedInLine' /\ \A q \in Queues \ {"decoded"} : pools'[q] = pools[q]
    BY CallbackReturnLine
  <1>3. ControlOK' /\ QueuesOK'
    BY <1>1, TypeParts DEF ControlOK, QueuesOK
  <1>4. Phases'
    BY <1>1 DEF Inv, Phases, OutputCallbackSet
  <1>5. CapturedInLine' /\ FarendInLine'
    BY <1>1, <1>2, CapturedUntouched, FarendUntouched DEF Queues
  <1>6. Kept' /\ OverfullOnlyAtStop'
    <2>1. UNCHANGED <<InQueue, WithDecoder, WithCallback, Owed>>
      BY <1>1 DEF WithDecoder, WithCallback, InQueue, Owed
    <2> QED
      BY <1>1, <2>1 DEF Inv, Kept, OverfullOnlyAtStop
  <1> QED
    BY <1>2, <1>3, <1>4, <1>5, <1>6 DEF Inv

\* The echo canceller's thread takes a buffer, or ends.
LEMMA FarendTakeInv ==
  ASSUME Inv, FarendTake
  PROVE  Inv'
  <1> DEFINE buf == Head(queues["farend"])
             line(x, h) == InLine(Buffers["farend"], pools["farend"], queues'["farend"],
                                  Real(queues'["farend"]), h, x, 0)
  <1>1. /\ ~aborted /\ farend.at = "take" /\ Take("farend")
        /\ farend' = IF buf = Empty THEN [at |-> "exited", buf |-> None]
            ELSE [at |-> "busy", buf |-> buf]
        /\ UNCHANGED <<pools, player, encoder, encRunning, owner>>
    BY DEF FarendTake
  <1>2. "farend" \in Queues /\ QueuesOK /\ ThreadLine("farend", FALSE, farend.buf)
    BY <1>1, TypeParts DEF Inv, FarendInLine, ThreadLine, Bit, Queues
  <1>3. /\ QueuesOK' /\ UNCHANGED aborted
        /\ \A q \in Queues \ {"farend"} : queues'[q] = queues[q]
        /\ buf = Empty => ~Ended(queues'["farend"]) /\ \A x : line(x, 0)
        /\ buf # Empty => /\ line(buf, 1) /\ buf \in Slots("farend")
                          /\ Ended(queues'["farend"]) => Ended(queues["farend"])
    BY <1>1, <1>2, ThreadLineTakes
  <1>4. /\ farend' \in [at : {"busy", "exited"}, buf : Slots("farend") \cup {None}]
        /\ FarendInLine' /\ (Ended(queues'["farend"]) => Ended(queues["farend"]))
    <2> HIDE DEF line
    <2>1. CASE buf = Empty
      <3>1. farend'.at = "exited" /\ farend' \in [at : {"exited"}, buf : {None}]
        BY <1>1, <2>1
      <3>2. Bit(farend'.at = "busy") = 0
        BY <3>1 DEF Bit
      <3>3. line(farend'.buf, 0) /\ ~Ended(queues'["farend"])
        BY <1>3, <2>1
      <3>4. FarendInLine'
        BY <1>1, <3>2, <3>3 DEF FarendInLine, ThreadLine, line
      <3> QED
        BY <3>1, <3>3, <3>4
    <2>2. CASE buf # Empty
      <3>1. farend'.at = "busy" /\ farend'.buf = buf /\ farend' \in [at : {"busy"}, buf : Slots("farend")]
        BY <1>1, <1>3, <2>2
      <3>2. Bit(farend'.at = "busy") = 1
        BY <3>1 DEF Bit
      <3>3. line(farend'.buf, 1)
        BY <1>3, <2>2, <3>1
      <3>4. FarendInLine'
        BY <1>1, <3>2, <3>3 DEF FarendInLine, ThreadLine, line
      <3> QED
        BY <1>3, <2>2, <3>1, <3>4
    <2> QED
      BY <2>1, <2>2
  <1>5. ControlOK' /\ PoolsOK'
    BY <1>1, <1>3, <1>4, TypeParts DEF ControlOK, PoolsOK, player
  <1>6. Phases'
    BY <1>1, <1>3, <1>4 DEF Inv, Phases, OutputCallbackSet, Queues, player
  <1>7. DecodedInLine' /\ CapturedInLine'
    BY <1>1, <1>3, DecodedUntouched, CapturedUntouched DEF Queues, player
  <1>8. Kept' /\ OverfullOnlyAtStop'
    <2>1. UNCHANGED <<InQueue, WithDecoder, WithCallback, Owed, running, permits>>
      BY <1>1, <1>3 DEF WithDecoder, WithCallback, InQueue, Owed, Queues, player
    <2> QED
      BY <1>1, <1>3, <2>1 DEF Inv, Kept, OverfullOnlyAtStop
  <1> QED
    BY <1>3, <1>4, <1>5, <1>6, <1>7, <1>8 DEF Inv

\* The encoder's thread takes a buffer, or ends.
LEMMA EncoderTakeInv ==
  ASSUME Inv, EncoderTake
  PROVE  Inv'
  <1> DEFINE buf == Head(queues["captured"])
             line(x, h) == InLine(Buffers["captured"], pools["captured"], queues'["captured"],
                                  Real(queues'["captured"]), h, x, 0)
  <1>1. /\ ~aborted /\ encoder.at = "take" /\ Take("captured")
        /\ encoder' = IF buf = Empty THEN [at |-> "exited", buf |-> None]
            ELSE [at |-> "busy", buf |-> buf]
        /\ UNCHANGED <<pools, player, farend, encRunning, owner>>
    BY DEF EncoderTake
  <1>2. "captured" \in Queues /\ QueuesOK /\ ThreadLine("captured", FALSE, encoder.buf)
    BY <1>1, TypeParts DEF Inv, CapturedInLine, ThreadLine, Bit, Queues
  <1>3. /\ QueuesOK' /\ UNCHANGED aborted
        /\ \A q \in Queues \ {"captured"} : queues'[q] = queues[q]
        /\ buf = Empty => ~Ended(queues'["captured"]) /\ \A x : line(x, 0)
        /\ buf # Empty => /\ line(buf, 1) /\ buf \in Slots("captured")
                          /\ Ended(queues'["captured"]) => Ended(queues["captured"])
    BY <1>1, <1>2, ThreadLineTakes
  <1>4. /\ encoder' \in [at : {"busy", "exited"}, buf : Slots("captured") \cup {None}]
        /\ CapturedInLine' /\ (Ended(queues'["captured"]) => Ended(queues["captured"]))
    <2> HIDE DEF line
    <2>1. CASE buf = Empty
      <3>1. encoder'.at = "exited" /\ encoder' \in [at : {"exited"}, buf : {None}]
        BY <1>1, <2>1
      <3>2. Bit(encoder'.at = "busy") = 0
        BY <3>1 DEF Bit
      <3>3. line(encoder'.buf, 0) /\ ~Ended(queues'["captured"])
        BY <1>3, <2>1
      <3>4. CapturedInLine'
        BY <1>1, <3>2, <3>3 DEF CapturedInLine, ThreadLine, line
      <3> QED
        BY <3>1, <3>3, <3>4
    <2>2. CASE buf # Empty
      <3>1. encoder'.at = "busy" /\ encoder'.buf = buf /\ encoder' \in [at : {"busy"}, buf : Slots("captured")]
        BY <1>1, <1>3, <2>2
      <3>2. Bit(encoder'.at = "busy") = 1
        BY <3>1 DEF Bit
      <3>3. line(encoder'.buf, 1)
        BY <1>3, <2>2, <3>1
      <3>4. CapturedInLine'
        BY <1>1, <3>2, <3>3 DEF CapturedInLine, ThreadLine, line
      <3> QED
        BY <1>3, <2>2, <3>1, <3>4
    <2> QED
      BY <2>1, <2>2
  <1>5. ControlOK' /\ PoolsOK'
    BY <1>1, <1>3, <1>4, TypeParts DEF ControlOK, PoolsOK, player
  <1>6. Phases'
    BY <1>1, <1>3, <1>4 DEF Inv, Phases, OutputCallbackSet, Queues, player
  <1>7. DecodedInLine' /\ FarendInLine'
    BY <1>1, <1>3, DecodedUntouched, FarendUntouched DEF Queues, player
  <1>8. Kept' /\ OverfullOnlyAtStop'
    <2>1. UNCHANGED <<InQueue, WithDecoder, WithCallback, Owed, running, permits>>
      BY <1>1, <1>3 DEF WithDecoder, WithCallback, InQueue, Owed, Queues, player
    <2> QED
      BY <1>1, <1>3, <2>1 DEF Inv, Kept, OverfullOnlyAtStop
  <1> QED
    BY <1>3, <1>4, <1>5, <1>6, <1>7, <1>8 DEF Inv

\* The echo canceller's thread gives its buffer back.
LEMMA FarendDoneInv ==
  ASSUME Inv, FarendDone
  PROVE  Inv'
  <1>1. /\ ~aborted /\ farend.at = "busy" /\ Free("farend", farend.buf)
        /\ farend' = [at |-> "take", buf |-> None]
        /\ UNCHANGED <<queues, aborted, player, encoder, encRunning, owner>>
    BY DEF FarendDone
  <1>2. /\ "farend" \in Queues /\ PoolsOK /\ QueuesOK
        /\ ThreadLine("farend", TRUE, farend.buf)
    BY <1>1, TypeParts DEF Inv, FarendInLine, ThreadLine, Bit, Queues
  <1>3. /\ PoolsOK' /\ \A q \in Queues \ {"farend"} : pools'[q] = pools[q]
        /\ \A x : InLine(Buffers["farend"], pools'["farend"], queues["farend"],
                         Real(queues["farend"]), 0, x, 0)
    BY <1>1, <1>2, ThreadLineFrees
  <1>4. FarendInLine'
    <2>1. Bit(farend'.at = "busy") = 0
      BY <1>1 DEF Bit
    <2> QED
      BY <1>1, <1>3, <2>1 DEF FarendInLine, ThreadLine
  <1>5. ControlOK' /\ QueuesOK'
    <2>1. ControlOK'
      BY <1>1, TypeParts DEF ControlOK, player
    <2>2. QueuesOK'
      BY <1>1, TypeParts DEF QueuesOK
    <2> QED
      BY <2>1, <2>2
  <1>6. Phases'
    BY <1>1 DEF Inv, Phases, OutputCallbackSet, player
  <1>7. DecodedInLine' /\ CapturedInLine'
    BY <1>1, <1>3, DecodedUntouched, CapturedUntouched DEF Queues, player
  <1>8. Kept' /\ OverfullOnlyAtStop'
    BY <1>1 DEF Inv, Kept, OverfullOnlyAtStop, WithDecoder, WithCallback, InQueue, Owed, player
  <1> QED
    BY <1>3, <1>4, <1>5, <1>6, <1>7, <1>8 DEF Inv

\* The encoder's thread gives its buffer back.
LEMMA EncoderDoneInv ==
  ASSUME Inv, EncoderDone
  PROVE  Inv'
  <1>1. /\ ~aborted /\ encoder.at = "busy" /\ Free("captured", encoder.buf)
        /\ encoder' = [at |-> IF encRunning THEN "take" ELSE "exited", buf |-> None]
        /\ UNCHANGED <<queues, aborted, player, farend, encRunning, owner>>
    BY DEF EncoderDone
  <1>2. /\ "captured" \in Queues /\ PoolsOK /\ QueuesOK
        /\ ThreadLine("captured", TRUE, encoder.buf)
    BY <1>1, TypeParts DEF Inv, CapturedInLine, ThreadLine, Bit, Queues
  <1>3. /\ PoolsOK' /\ \A q \in Queues \ {"captured"} : pools'[q] = pools[q]
        /\ \A x : InLine(Buffers["captured"], pools'["captured"], queues["captured"],
                         Real(queues["captured"]), 0, x, 0)
    BY <1>1, <1>2, ThreadLineFrees
  <1>4. CapturedInLine'
    <2>1. Bit(encoder'.at = "busy") = 0
      BY <1>1 DEF Bit
    <2> QED
      BY <1>1, <1>3, <2>1 DEF CapturedInLine, ThreadLine
  <1>5. ControlOK' /\ QueuesOK'
    BY <1>1, TypeParts DEF ControlOK, QueuesOK, player
  <1>6. Phases'
    BY <1>1 DEF Inv, Phases, OutputCallbackSet, player
  <1>7. DecodedInLine' /\ FarendInLine'
    BY <1>1, <1>3, DecodedUntouched, FarendUntouched DEF Queues, player
  <1>8. Kept' /\ OverfullOnlyAtStop'
    BY <1>1 DEF Inv, Kept, OverfullOnlyAtStop, WithDecoder, WithCallback, InQueue, Owed, player
  <1> QED
    BY <1>3, <1>4, <1>5, <1>6, <1>7, <1>8 DEF Inv

\* Recorded sound is queued if a buffer is free, and dropped if not.
LEMMA CaptureCallbackInv ==
  ASSUME Inv, CaptureCallback
  PROVE  Inv'
  <1>1. /\ ~aborted /\ InputCallbackSet /\ HasBuffer("captured")
        /\ GetBuffer("captured") /\ Put("captured", pools["captured"].offset)
        /\ UNCHANGED <<player, farend, encoder, encRunning, owner>>
    BY DEF CaptureCallback
  <1>2. /\ "captured" \in Queues /\ PoolsOK /\ QueuesOK /\ ~Ended(queues["captured"])
        /\ ThreadLine("captured", encoder.at = "busy", encoder.buf)
    BY <1>1, TypeParts DEF Inv, Phases, InputCallbackSet, CapturedInLine, Queues
  <1>3. /\ PoolsOK' /\ QueuesOK' /\ ~aborted' /\ ~Ended(queues'["captured"])
        /\ InLine(Buffers["captured"], pools'["captured"], queues'["captured"],
                  Real(queues'["captured"]), Bit(encoder.at = "busy"), encoder.buf, 0)
        /\ \A q \in Queues \ {"captured"} : pools'[q] = pools[q] /\ queues'[q] = queues[q]
    BY <1>1, <1>2, ThreadLineGets
  <1>4. CapturedInLine'
    BY <1>1, <1>3 DEF CapturedInLine, ThreadLine
  <1>5. ControlOK'
    <2>1. aborted' = (Len(queues["captured"]) + 1 > Capacity["captured"])
      BY <1>1 DEF Put
    <2>2. aborted' \in BOOLEAN
      BY <2>1
    <2> QED
      BY <1>1, <2>2, TypeParts DEF ControlOK, player
  <1>6. Phases'
    BY <1>1, <1>3 DEF Inv, Phases, OutputCallbackSet, Queues, player
  <1>7. DecodedInLine' /\ FarendInLine'
    BY <1>1, <1>3, DecodedUntouched, FarendUntouched DEF Queues, player
  <1>8. Kept' /\ OverfullOnlyAtStop'
    <2>1. UNCHANGED <<InQueue, WithDecoder, WithCallback, Owed, running, permits>>
      BY <1>1, <1>3 DEF WithDecoder, WithCallback, InQueue, Owed, Queues, player
    <2> QED
      BY <1>1, <1>3, <2>1 DEF Inv, Kept, OverfullOnlyAtStop
  <1> QED
    BY <1>3, <1>4, <1>5, <1>6, <1>7, <1>8 DEF Inv

-----------------------------------------------------------------------------
(* Steps of the owner                                                      *)

\* Starting the decoder hands out no buffer.
LEMMA StartDecoderInv ==
  ASSUME Inv, StartDecoder
  PROVE  Inv'
  <1>1. /\ ~aborted /\ owner = "created" /\ running' = TRUE /\ owner' = "startEncoder"
        /\ decoder' = [decoder EXCEPT !.at = "decode"]
        /\ UNCHANGED <<sound, permits, sized, playback, farend, encoder, encRunning>>
    BY DEF StartDecoder
  <1>2. /\ decoder' \in [at : {"decode"}, buf : Slots("decoded") \cup {None}, left : Nat]
        /\ decoder'.at = "decode" /\ decoder.at = "off"
        /\ permits = 0 /\ ~sized /\ queues["decoded"] = <<>> /\ playback.at = "idle"
        /\ encoder.at = "off"
    BY <1>1, TypeParts DEF ControlOK, Inv, Phases
  <1>3. ControlOK'
    BY <1>1, <1>2, SoundUnchanged, TypeParts DEF ControlOK
  <1>4. Phases'
    BY <1>1, <1>2, SoundUnchanged DEF Inv, Phases, OutputCallbackSet, sound
  <1>5. DecodedInLine' /\ CapturedInLine' /\ FarendInLine'
    BY <1>1, <1>2, SoundUnchanged, DecodedUntouched, CapturedUntouched, FarendUntouched DEF Queues
  <1>6. Kept'
    <2>1. /\ permits' = 0 /\ InQueue' = 0 /\ Owed' = 0
          /\ WithDecoder' = 0 /\ WithCallback' = 0
      BY <1>1, <1>2, EmptySeq DEF WithDecoder, WithCallback, InQueue, Owed, sound
    <2> QED
      BY <2>1 DEF Kept
  <1> QED
    BY <1>1, <1>3, <1>4, <1>5, <1>6, SoundUnchanged DEF Inv

\* Starting the encoder hands out no buffer.
LEMMA StartEncoderInv ==
  ASSUME Inv, StartEncoder
  PROVE  Inv'
  <1>1. /\ ~aborted /\ owner = "startEncoder" /\ encRunning' = TRUE /\ owner' = "playing"
        /\ encoder' = [encoder EXCEPT !.at = "take"]
        /\ UNCHANGED <<sound, player, farend>>
    BY DEF StartEncoder
  <1>2. /\ encoder' \in [at : {"take"}, buf : Slots("captured") \cup {None}]
        /\ encoder'.at = "take" /\ encoder.at = "off"
    BY <1>1, TypeParts DEF ControlOK, Inv, Phases
  <1>3. ControlOK'
    BY <1>1, <1>2, SoundUnchanged, TypeParts DEF ControlOK, player
  <1>4. Phases'
    BY <1>1, <1>2, SoundUnchanged DEF Inv, Phases, OutputCallbackSet, sound, player
  <1>5. DecodedInLine' /\ CapturedInLine' /\ FarendInLine'
    BY <1>1, <1>2, SoundUnchanged, DecodedUntouched, CapturedUntouched, FarendUntouched
       DEF Queues, player
  <1>6. Kept'
    BY <1>1, SoundUnchanged DEF Inv, Kept, InQueue, WithDecoder, WithCallback, Owed, sound, player
  <1> QED
    BY <1>1, <1>3, <1>4, <1>5, <1>6, SoundUnchanged DEF Inv

\* The owner goes on, and nothing else happens.
LEMMA OwnerMovesInv ==
  ASSUME Inv, \/ Stop \/ ClearInput \/ ClearOutput \/ JoinDecoder \/ JoinEncoder \/ JoinFarend
  PROVE  Inv'
  <1>1. /\ ~aborted /\ UNCHANGED <<sound, player, farend, encoder, encRunning>>
        /\ \/ owner' \in {"clearInput", "clearOutput"}
           \/ owner' = "stopDecoder" /\ playback.at \in {"idle", "called"}
           \/ owner \notin {"created", "startEncoder", "playing", "clearInput", "clearOutput"}
              /\ owner' \in {"stopEncoder", "stopFarend", "done"}
        /\ owner' \in {"clearInput", "clearOutput", "stopDecoder", "stopEncoder"} =>
             owner \in {"created", "playing", "clearInput", "clearOutput", "joinDecoder"}
        /\ owner' = "stopFarend" => owner = "joinEncoder"
        /\ owner' = "done" => owner = "joinFarend"
    BY DEF Stop, ClearInput, ClearOutput, JoinDecoder, JoinEncoder, JoinFarend
  <1>2. ControlOK'
    BY <1>1, SoundUnchanged, TypeParts DEF ControlOK, player
  <1>3. Phases'
    BY <1>1, SoundUnchanged DEF Inv, Phases, OutputCallbackSet, sound, player
  <1>4. DecodedInLine' /\ CapturedInLine' /\ FarendInLine'
    BY <1>1, SoundUnchanged, DecodedUntouched, CapturedUntouched, FarendUntouched DEF Queues, player
  <1>5. Kept'
    BY <1>1, SoundUnchanged DEF Inv, Kept, InQueue, WithDecoder, WithCallback, Owed, sound, player
  <1> QED
    BY <1>1, <1>2, <1>3, <1>4, <1>5, SoundUnchanged DEF Inv

\* Stopping the decoder adds a permit to wake it; none is counted from then on.
LEMMA StopDecoderInv ==
  ASSUME Inv, StopDecoder
  PROVE  Inv'
  <1>1. /\ ~aborted /\ owner = "stopDecoder" /\ running' = FALSE
        /\ permits' = IF running THEN permits + 1 ELSE permits
        /\ owner' = IF running THEN "joinDecoder" ELSE "stopEncoder"
        /\ UNCHANGED <<sound, sized, decoder, playback, farend, encoder, encRunning>>
    BY DEF StopDecoder
  <1>2. permits' \in Nat /\ owner' \in {"joinDecoder", "stopEncoder"}
    <2>1. CASE running
      BY <1>1, <2>1, TypeParts
    <2>2. CASE ~running
      BY <1>1, <2>2, TypeParts
    <2> QED
      BY <2>1, <2>2
  <1>3. ControlOK'
    <2>1. running' \in BOOLEAN /\ aborted' \in BOOLEAN
      BY <1>1, SoundUnchanged
    <2>2. ControlOK /\ UNCHANGED <<sized, decoder, playback, farend, encoder, encRunning>>
      BY <1>1, TypeParts
    <2> QED
      BY <1>2, <2>1, <2>2 DEF ControlOK
  <1>4. Phases'
    BY <1>1, <1>2, SoundUnchanged DEF Inv, Phases, OutputCallbackSet, sound
  <1>5. DecodedInLine' /\ CapturedInLine' /\ FarendInLine'
    BY <1>1, SoundUnchanged, DecodedUntouched, CapturedUntouched, FarendUntouched DEF Queues
  <1>6. Kept'
    BY <1>1 DEF Kept
  <1> QED
    BY <1>1, <1>3, <1>4, <1>5, <1>6, SoundUnchanged DEF Inv

\* Stopping the encoder ends its queue; this is the one step that may overfill it.
LEMMA StopEncoderInv ==
  ASSUME Inv, StopEncoder
  PROVE  Inv'
  <1>1. /\ ~aborted /\ owner = "stopEncoder" /\ encRunning' = FALSE
        /\ UNCHANGED <<pools, player, farend, encoder>>
    BY DEF StopEncoder
  <1>2. /\ "captured" \in Queues /\ PoolsOK /\ QueuesOK /\ ~Ended(queues["captured"])
        /\ ~Ended(queues["farend"])
        /\ ThreadLine("captured", encoder.at = "busy", encoder.buf)
    BY <1>1, TypeParts DEF Inv, Phases, CapturedInLine, Queues
  <1>3. /\ QueuesOK' /\ CapturedInLine' /\ OverfullOnlyAtStop' /\ aborted' \in BOOLEAN
        /\ Ended(queues'["captured"]) => owner' = "joinEncoder"
        /\ owner' \in {"joinEncoder", "stopFarend"}
        /\ \A q \in Queues \ {"captured"} : queues'[q] = queues[q]
    <2>1. CASE Put("captured", Empty) /\ owner' = "joinEncoder"
      <3>1. /\ QueuesOK'
            /\ InLine(Buffers["captured"], pools["captured"], queues'["captured"],
                      Real(queues'["captured"]), Bit(encoder.at = "busy"), encoder.buf, 0)
            /\ aborted' => Len(queues'["captured"]) > Capacity["captured"]
                           /\ Len(queues'["captured"]) <= Buffers["captured"] + 1
            /\ \A q \in Queues \ {"captured"} : queues'[q] = queues[q]
        BY <1>2, <2>1, ThreadLineEnds
      <3>2. CapturedInLine'
        BY <1>1, <3>1 DEF CapturedInLine, ThreadLine
      <3>3. Len(queues'["captured"]) \in Nat
        BY <1>2, <3>1, LenProperties DEF QueuesOK
      <3>4. OverfullOnlyAtStop'
        BY <1>2, <2>1, <3>1, <3>3, AudioAssumption DEF OverfullOnlyAtStop
      <3>5. aborted' = (Len(queues["captured"]) + 1 > Capacity["captured"])
        BY <2>1 DEF Put
      <3>6. aborted' \in BOOLEAN
        BY <3>5
      <3> QED
        BY <2>1, <3>1, <3>2, <3>4, <3>6
    <2>2. CASE UNCHANGED <<queues, aborted>> /\ owner' = "stopFarend"
      BY <1>1, <1>2, <2>2, SoundUnchanged, CapturedUntouched DEF sound
    <2> QED
      BY <2>1, <2>2 DEF StopEncoder
  <1>4. ControlOK' /\ PoolsOK'
    <2>1. ControlOK'
      <3>1. encRunning' \in BOOLEAN
        BY <1>1
      <3>2. UNCHANGED <<sized, running, permits, decoder, playback>>
        BY <1>1 DEF player
      <3>3. ControlOK /\ UNCHANGED <<farend, encoder>>
        BY <1>1, TypeParts
      <3> QED
        BY <1>3, <3>1, <3>2, <3>3 DEF ControlOK
    <2>2. PoolsOK'
      BY <1>1, TypeParts DEF PoolsOK
    <2> QED
      BY <2>1, <2>2
  <1>5. Phases'
    BY <1>1, <1>2, <1>3 DEF Inv, Phases, OutputCallbackSet, Queues, player
  <1>6. DecodedInLine' /\ FarendInLine'
    BY <1>1, <1>3, DecodedUntouched, FarendUntouched DEF Queues, player
  <1>7. Kept'
    <2>1. UNCHANGED <<InQueue, WithDecoder, WithCallback, Owed, running, permits>>
      BY <1>1, <1>3 DEF WithDecoder, WithCallback, InQueue, Owed, Queues, player
    <2> QED
      BY <1>1, <2>1 DEF Inv, Kept
  <1> QED
    BY <1>3, <1>4, <1>5, <1>6, <1>7 DEF Inv

\* Stopping the echo canceller ends its queue, which has room for the empty buffer.
LEMMA StopFarendInv ==
  ASSUME Inv, StopFarend
  PROVE  Inv'
  <1>1. /\ ~aborted /\ owner = "stopFarend" /\ Put("farend", Empty) /\ owner' = "joinFarend"
        /\ UNCHANGED <<pools, player, farend, encoder, encRunning>>
    BY DEF StopFarend
  <1>2. /\ "farend" \in Queues /\ PoolsOK /\ QueuesOK /\ ~Ended(queues["farend"])
        /\ ThreadLine("farend", farend.at = "busy", farend.buf)
    BY <1>1, TypeParts DEF Inv, Phases, FarendInLine, Queues
  <1>3. /\ QueuesOK'
        /\ InLine(Buffers["farend"], pools["farend"], queues'["farend"],
                  Real(queues'["farend"]), Bit(farend.at = "busy"), farend.buf, 0)
        /\ aborted' => Len(queues'["farend"]) > Capacity["farend"]
                       /\ Len(queues'["farend"]) <= Buffers["farend"] + 1
        /\ \A q \in Queues \ {"farend"} : queues'[q] = queues[q]
    BY <1>1, <1>2, ThreadLineEnds
  <1>4. FarendInLine'
    BY <1>1, <1>3 DEF FarendInLine, ThreadLine
  <1>5. ~aborted'
    <2>1. Len(queues'["farend"]) \in Nat
      BY <1>2, <1>3, LenProperties DEF QueuesOK
    <2> QED
      BY <1>2, <1>3, <2>1, AudioAssumption
  <1>6. ControlOK' /\ PoolsOK'
    <2>1. aborted' = (Len(queues["farend"]) + 1 > Capacity["farend"])
      BY <1>1 DEF Put
    <2>2. aborted' \in BOOLEAN
      BY <2>1
    <2> QED
      BY <1>1, <2>2, TypeParts DEF ControlOK, PoolsOK, player
  <1>7. Phases'
    BY <1>1, <1>3 DEF Inv, Phases, OutputCallbackSet, Queues, player
  <1>8. DecodedInLine' /\ CapturedInLine'
    BY <1>1, <1>3, DecodedUntouched, CapturedUntouched DEF Queues, player
  <1>9. Kept' /\ OverfullOnlyAtStop'
    <2>1. UNCHANGED <<InQueue, WithDecoder, WithCallback, Owed, running, permits>>
      BY <1>1, <1>3 DEF WithDecoder, WithCallback, InQueue, Owed, Queues, player
    <2> QED
      BY <1>1, <1>5, <2>1 DEF Inv, Kept, OverfullOnlyAtStop
  <1> QED
    BY <1>3, <1>4, <1>6, <1>7, <1>8, <1>9 DEF Inv

-----------------------------------------------------------------------------
(* The theorems                                                            *)

\* Every step keeps the invariant.
LEMMA NextInv ==
  ASSUME Inv, [Next]_vars
  PROVE  Inv'
  <1>1. CASE UNCHANGED vars
    <2>1. UNCHANGED <<pools, queues, aborted, player, farend, encoder, encRunning, owner>>
      BY <1>1 DEF vars, sound
    <2>2. PoolsOK' /\ QueuesOK'
      BY <2>1, TypeParts DEF PoolsOK, QueuesOK
    <2>3. ControlOK'
      BY <2>1, TypeParts DEF ControlOK, player
    <2>4. Phases'
      BY <2>1 DEF Inv, Phases, OutputCallbackSet, player
    <2>5. DecodedInLine' /\ CapturedInLine' /\ FarendInLine'
      BY <2>1, DecodedUntouched, CapturedUntouched, FarendUntouched DEF player
    <2>6. Kept' /\ OverfullOnlyAtStop'
      BY <2>1 DEF Inv, Kept, InQueue, WithDecoder, WithCallback, Owed, OverfullOnlyAtStop, player
    <2> QED
      BY <2>2, <2>3, <2>4, <2>5, <2>6 DEF Inv
  <1>2. CASE DecoderThread
    BY <1>2, DecodeFrameInv, AcquireInv, FillBufferInv, PutDecodedInv DEF DecoderThread
  <1>3. CASE PlaybackThread
    BY <1>3, CallbackStartInv, CallbackGetInv, CallbackReleaseInv, SpeakerOutInv,
       CallbackReturnInv DEF PlaybackThread
  <1>4. CASE FarendThread \/ EncoderThread
    BY <1>4, FarendTakeInv, FarendDoneInv, EncoderTakeInv, EncoderDoneInv
       DEF FarendThread, EncoderThread
  <1>5. CASE DeviceCalls \/ CaptureCallback
    BY <1>5, DeviceCallsInv, CaptureCallbackInv
  <1>6. CASE Start \/ Stop
    BY <1>6, StartDecoderInv, StartEncoderInv, OwnerMovesInv DEF Start
  <1>7. CASE Shutdown
    BY <1>7, OwnerMovesInv, StopDecoderInv, StopEncoderInv, StopFarendInv DEF Shutdown
  <1> QED
    BY <1>1, <1>2, <1>3, <1>4, <1>5, <1>6, <1>7 DEF Next

\* The inductive invariant holds in every state of the threads.
THEOREM Invariance == Spec => []Inv
  <1>1. Init => Inv
    BY InitInv
  <1>2. Inv /\ [Next]_vars => Inv'
    BY NextInv
  <1> QED
    BY <1>1, <1>2, PTL DEF Spec

(***************************************************************************)
(* Every buffer a thread or a queue has is one of the queue's pool, the    *)
(* callback never gets the empty one, and semaphore and frame counters are *)
(* never less than nothing (OpusDecoder.cpp, OpusEncoder.cpp,              *)
(* EchoCanceller.cpp, Buffers.h).                                          *)
(***************************************************************************)
THEOREM TypeCorrect == Spec => []TypeOK
  <1>1. Inv => TypeOK
    BY DEF Inv, TypeOK, PoolsOK, QueuesOK, ControlOK
  <1> QED
    BY <1>1, Invariance, PTL

(***************************************************************************)
(* While the decoder runs, two buffers are on their way to the device from *)
(* its first call on, whatever the threads do in between: no permit is     *)
(* lost or made (the semaphore of OpusDecoder.cpp).                        *)
(***************************************************************************)
THEOREM PermitsNeverLost == Spec => []PermitsConserved
  <1>1. Inv => PermitsConserved
    BY TypeParts DEF Inv, Kept, PermitsConserved, InQueue, WithDecoder, WithCallback, Owed
  <1> QED
    BY <1>1, Invariance, PTL

(***************************************************************************)
(* BufferPool::Get() looks at one place, and misses nothing by it, for     *)
(* pools of any sizes: when that place is in use all are (Buffers.h).      *)
(***************************************************************************)
THEOREM OnePlaceIsEnough == Spec => []PoolsFailOnlyWhenExhausted
  <1>1. ASSUME Inv, NEW q \in Queues, ~HasBuffer(q)
        PROVE  pools[q].used = Slots(q)
    <2>1. PICK n : InTurn(Buffers[q], pools[q], n)
      BY <1>1 DEF Inv, DecodedInLine, CapturedInLine, FarendInLine, ThreadLine, InLine, Queues
    <2> QED
      BY <1>1, <2>1, FullWhenNextInUse, TypeParts DEF HasBuffer, Slots
  <1>2. Inv => PoolsFailOnlyWhenExhausted
    BY <1>1 DEF PoolsFailOnlyWhenExhausted
  <1> QED
    BY <1>2, Invariance, PTL

(***************************************************************************)
(* BlockingQueue::Put() aborts the process only for the empty buffer that  *)
(* ends the encoder, and then the queue has one buffer too many: for any   *)
(* queues as large as their pools (BlockingQueue.h, OpusEncoder.cpp).      *)
(***************************************************************************)
THEOREM NoAbortWhileSoundFlows == Spec => []OverfullOnlyAtStop
  <1>1. Inv => OverfullOnlyAtStop
    BY DEF Inv
  <1> QED
    BY <1>1, Invariance, PTL
====
