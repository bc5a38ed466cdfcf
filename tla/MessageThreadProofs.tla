------------------------- MODULE MessageThreadProofs -------------------------
(***************************************************************************)
(* The queue of the message thread is in the order its messages are due    *)
(* in, each message is in one place, and the thread implements the         *)
(* abstract MessageQueue, for any threads, any delays and any number of    *)
(* messages.                                                               *)
(***************************************************************************)
EXTENDS MessageThread, SequenceTheorems, FiniteSetTheorems, WellFoundedInduction,
        TLAPS

Sorted(q) == \A i, j \in 1 .. Len(q) : i < j => q[i].due <= q[j].due

\* The messages posted without a delay are in the order they were posted in.
PostedInOrder(q) ==
  \A i, j \in 1 .. Len(q) :
    i < j /\ q[i].due = Immediate /\ q[j].due = Immediate => q[i].no < q[j].no

\* Those of the batch were posted before those of the queue.
BatchFirst ==
  \A i \in 1 .. Len(msgsToDeliverNow), j \in 1 .. Len(queue) :
    msgsToDeliverNow[i].due = Immediate /\ queue[j].due = Immediate =>
      msgsToDeliverNow[i].no < queue[j].no

Order == Sorted(queue) /\ PostedInOrder(msgsToDeliverNow) /\ PostedInOrder(queue) /\ BatchFirst

\* No message of a sequence is in it twice.
Distinct(q) == \A i, j \in 1 .. Len(q) : q[i].no = q[j].no => i = j

\* None is in both.
Disjoint(q, r) == \A i \in 1 .. Len(q), j \in 1 .. Len(r) : q[i].no # r[j].no

Apart ==
  /\ Distinct(msgsToDeliverNow) /\ Distinct(queue) /\ Disjoint(msgsToDeliverNow, queue)
  /\ Disjoint(msgsToDeliverNow, <<current>>) /\ Disjoint(queue, <<current>>)

\* The first number Post() gives out.
FirstID == IF Heartbeat > 0 THEN 2 ELSE 1

\* One of the first n messages posted, and not cancelled; the timer keeps its number.
PostedBy(m, n, c) ==
  /\ m.no <= n /\ m.no \notin c
  /\ m.no = 0 => m.id = 1 /\ Heartbeat > 0
  /\ m.no # 0 => m.id >= FirstID

AllPosted ==
  /\ \A i \in 1 .. Len(queue) : PostedBy(queue[i], posted, cancelled)
  /\ \A i \in 1 .. Len(msgsToDeliverNow) : PostedBy(msgsToDeliverNow[i], posted, cancelled)
  /\ current # Nothing => PostedBy(current, posted, cancelled)

\* What is in the batch is due; what is called has a clock time by then.
Batch ==
  /\ pc \in {"check", "sleep", "waiting", "collect"} => msgsToDeliverNow = <<>>
  /\ \A i \in 1 .. Len(msgsToDeliverNow) : msgsToDeliverNow[i].due <= 0
  /\ current.due <= 0 /\ current.due # Immediate

\* The numbers given out and those being given out fit the messages there may be.
Inserting == {t \in Threads : posting[t] = "insert"}
Numbers ==
  /\ posted + Cardinality(Inserting) <= MaxPosts
  /\ lastMessageID >= FirstID /\ lastMessageID <= posted + FirstID
  /\ \A t \in Inserting : number[t] >= FirstID /\ number[t] <= posted + FirstID
  /\ cancelled \subseteq 1 .. posted

Inv == TypeOK /\ Order /\ Apart /\ Batch /\ Numbers /\ AllPosted

-------------------------------------------------------------------------------
(* Messages and sequences of them                                              *)

\* Of some natural numbers one is the smallest.
LEMMA Smallest ==
  ASSUME NEW T, T \subseteq Nat, T # {}
  PROVE  \E x \in T : \A y \in T : x <= y
  <1> DEFINE R == OpToRel(<, Nat)
  <1>1. \A x, y \in Nat : x < y => <<x, y>> \in R
    BY DEF OpToRel
  <1>2. IsWellFoundedOn(R, Nat)
    BY NatLessThanWellFounded
  <1> HIDE DEF R
  <1>3. \E x \in T : \A y \in T : ~(<<y, x>> \in R)
    BY <1>2, WFMin
  <1>4. PICK x \in T : \A y \in T : ~(<<y, x>> \in R)
    BY <1>3
  <1>5. ASSUME NEW y \in T
        PROVE  x <= y
    <2>1. x \in Nat /\ y \in Nat
      OBVIOUS
    <2>2. ~(y < x)
      BY <1>1, <1>4, <2>1
    <2> QED
      BY <2>1, <2>2
  <1> QED
    BY <1>5

\* The bounds, as numbers.
LEMMA Constants ==
  /\ MaxPosts \in Nat /\ MaxLate \in Nat /\ MaxLate > 0 /\ Longest \in Nat
  /\ Heartbeat \in Nat /\ Heartbeat <= Longest /\ Immediate \in Int /\ Immediate < -MaxLate
  /\ \A d \in Delays : d \in Nat /\ d <= Longest
  /\ \A n \in Periods : n \in Nat /\ n <= Longest
  /\ FirstID \in {1, 2} /\ FirstID \in Nat
  BY ThreadAssumption DEF Immediate, Periods, FirstID

\* The fields of a message, as numbers.
LEMMA MessageFields ==
  ASSUME NEW m \in Messages
  PROVE  /\ m.no \in Nat /\ m.no <= MaxPosts /\ m.id \in Nat /\ m.id >= 1 /\ m.id <= MaxPosts + 1
         /\ m.due \in Int /\ m.due >= Immediate /\ m.due <= Longest
         /\ m.due # Immediate => m.due >= -MaxLate
         /\ m.every \in Nat /\ m.every <= Longest /\ m.every \in Periods
         /\ m # Nothing
  <1>1. m.no \in 0 .. MaxPosts /\ m.id \in 1 .. MaxPosts + 1 /\ m.due \in DueTimes
        /\ m.every \in Periods
    BY DEF Messages
  <1>2. Nothing.no = -1
    BY DEF Nothing
  <1> QED
    BY <1>1, <1>2, Constants DEF DueTimes

\* A message that is due at another time is otherwise the same.
LEMMA DueAt ==
  ASSUME NEW m \in Messages, NEW due, due \in DueTimes
  PROVE  LET d == [m EXCEPT !.due = due]
         IN  /\ d \in Messages /\ d.due = due
             /\ d.no = m.no /\ d.id = m.id /\ d.every = m.every
  BY DEF Messages

\* The clock makes nothing immediate, and nothing later than what was due later.
LEMMA AgedFacts ==
  ASSUME NEW m \in Messages
  PROVE  /\ Aged(m) \in Messages
         /\ Aged(m).no = m.no /\ Aged(m).id = m.id /\ Aged(m).every = m.every
         /\ Aged(m).due = IF m.due <= -MaxLate THEN m.due ELSE m.due - 1
         /\ Aged(m).due = Immediate <=> m.due = Immediate
  <1> DEFINE due == IF m.due <= -MaxLate THEN m.due ELSE m.due - 1
  <1>1. due \in DueTimes /\ (due = Immediate <=> m.due = Immediate)
    BY MessageFields, Constants DEF DueTimes
  <1>2. Aged(m) = [m EXCEPT !.due = due]
    BY DEF Aged
  <1> HIDE DEF due
  <1>3. /\ Aged(m) \in Messages /\ Aged(m).due = due
        /\ Aged(m).no = m.no /\ Aged(m).id = m.id /\ Aged(m).every = m.every
    BY <1>1, <1>2, DueAt
  <1> QED
    BY <1>1, <1>3 DEF due

\* r is q with m at place p + 1, after what is due no later and before what is due later.
Spliced(q, p, m, r) ==
  /\ r \in Seq(Messages) /\ Len(r) = Len(q) + 1
  /\ \A i \in 1 .. p : r[i] = q[i] /\ q[i].due <= m.due
  /\ r[p + 1] = m
  /\ \A i \in p + 1 .. Len(q) : r[i + 1] = q[i] /\ q[i].due > m.due

\* InsertMessageInternal() finds that place in a queue that is in order.
LEMMA InsertedIsSpliced ==
  ASSUME NEW q \in Seq(Messages), NEW m \in Messages, Sorted(q)
  PROVE  \E p \in 0 .. Len(q) : Spliced(q, p, m, Inserted(q, m))
  <1>1. /\ Len(q) \in Nat /\ \A i \in 1 .. Len(q) : q[i] \in Messages /\ q[i].due \in Int
        /\ m.due \in Int
    BY MessageFields, LenProperties, ElementOfSeq
  <1>2. CASE q = <<>> \/ q[1].due > m.due
    <2> DEFINE r == <<m>> \o q
    <2>1. <<m>> \in Seq(Messages) /\ Len(<<m>>) = 1 /\ <<m>>[1] = m
      OBVIOUS
    <2>2. /\ r \in Seq(Messages) /\ Len(r) = 1 + Len(q)
          /\ \A i \in 1 .. 1 + Len(q) : r[i] = IF i <= 1 THEN <<m>>[i] ELSE q[i - 1]
      <3> HIDE DEF r
      <3>1. r = <<m>> \o q
        BY DEF r
      <3> QED
        BY <2>1, <3>1, ConcatProperties
    <2>3. Inserted(q, m) = r
      BY <1>2 DEF Inserted
    <2> HIDE DEF r
    <2>4. r[1] = m
      BY <1>1, <2>1, <2>2
    <2>5. \A i \in 1 .. Len(q) : r[i + 1] = q[i]
      BY <1>1, <2>2
    <2>6. \A i \in 1 .. Len(q) : q[i].due > m.due
      <3> SUFFICES ASSUME NEW i \in 1 .. Len(q)
                   PROVE  q[i].due > m.due
        OBVIOUS
      <3>1. q # <<>> /\ 1 \in 1 .. Len(q) /\ q[1].due > m.due
        BY <1>1, <1>2
      <3>2. i = 1 \/ q[1].due <= q[i].due
        BY <1>1, <3>1 DEF Sorted
      <3> QED
        BY <1>1, <3>1, <3>2
    <2>7. Spliced(q, 0, m, r)
      BY <1>1, <2>2, <2>4, <2>5, <2>6 DEF Spliced
    <2> QED
      BY <1>1, <2>3, <2>7
  <1>3. CASE ~(q = <<>> \/ q[1].due > m.due)
    <2> DEFINE places == {i \in 1 .. Len(q) : \/ i = Len(q)
                                              \/ q[i].due <= m.due /\ q[i + 1].due > m.due}
               p == Min(places)
    <2>1. Len(q) > 0 /\ Len(q) \in places /\ q[1].due <= m.due
      BY <1>1, <1>3, EmptySeq
    <2>2. p \in places /\ \A i \in places : p <= i
      <3>1. \E i \in places : \A j \in places : i <= j
        <4> HIDE DEF places
        <4>1. places \subseteq Nat
          BY <1>1 DEF places
        <4> QED
          BY <2>1, <4>1, Smallest
      <3> HIDE DEF places
      <3> QED
        BY <3>1 DEF Min
    <2>3. p \in 1 .. Len(q) /\ p \in Nat
      BY <1>1, <2>2
    <2>4. \A i \in 1 .. p : q[i].due <= m.due
      <3> SUFFICES ASSUME NEW k \in 1 .. p, ~(q[k].due <= m.due)
                   PROVE  FALSE
        OBVIOUS
      <3> DEFINE later == {i \in 1 .. Len(q) : q[i].due > m.due}
      <3>1. k \in later /\ later \subseteq Nat
        BY <1>1, <2>3
      <3>2. PICK i \in later : \A j \in later : i <= j
        <4> HIDE DEF later
        <4> QED
          BY <3>1, Smallest
      <3>3. i <= k /\ i # 1 /\ i \in Nat /\ i \in 1 .. Len(q)
        BY <1>1, <2>1, <3>1, <3>2
      <3>4. i - 1 \in 1 .. Len(q) /\ i - 1 \notin later
        BY <1>1, <3>2, <3>3
      <3>5. q[i - 1].due <= m.due /\ q[(i - 1) + 1].due > m.due
        BY <1>1, <3>2, <3>3, <3>4
      <3>6. i - 1 \in places
        BY <3>4, <3>5
      <3> HIDE DEF p, places
      <3> QED
        BY <1>1, <2>2, <2>3, <3>3, <3>6
    <2>5. \A i \in p + 1 .. Len(q) : q[i].due > m.due
      <3> SUFFICES ASSUME NEW i \in p + 1 .. Len(q)
                   PROVE  q[i].due > m.due
        OBVIOUS
      <3>1. p # Len(q) /\ p + 1 \in 1 .. Len(q) /\ i \in 1 .. Len(q)
        BY <1>1, <2>3
      <3>2. q[p + 1].due > m.due
        BY <2>2, <3>1
      <3>3. i = p + 1 \/ q[p + 1].due <= q[i].due
        BY <1>1, <2>3, <3>1 DEF Sorted
      <3> HIDE DEF p
      <3> QED
        BY <1>1, <3>1, <3>2, <3>3
    <2>6. Inserted(q, m) = SubSeq(q, 1, (p + 1) - 1) \o <<m>> \o SubSeq(q, p + 1, Len(q))
      BY <1>3 DEF Inserted, InsertAt
    <2> HIDE DEF p, places
    <2> DEFINE s1 == SubSeq(q, 1, (p + 1) - 1)
               s2 == SubSeq(q, p + 1, Len(q))
    <2>7. /\ s1 \in Seq(Messages) /\ Len(s1) = p /\ \A i \in 1 .. p : s1[i] = q[i]
          /\ s2 \in Seq(Messages) /\ Len(s2) = Len(q) - p
          /\ \A i \in 1 .. Len(q) - p : s2[i] = q[p + i]
      <3>1. /\ s1 \in Seq(Messages) /\ Len(s1) = p /\ \A i \in 1 .. p : s1[i] = q[i]
        <4>1. (p + 1) - 1 = p /\ p \in Int /\ 1 \in Int /\ \A i \in 1 .. p : q[i] \in Messages
          BY <1>1, <2>3
        <4>2. /\ SubSeq(q, 1, p) \in Seq(Messages)
              /\ Len(SubSeq(q, 1, p)) = IF 1 <= p THEN p - 1 + 1 ELSE 0
              /\ \A i \in 1 .. p - 1 + 1 : SubSeq(q, 1, p)[i] = q[1 + i - 1]
          BY <4>1, SubSeqProperties
        <4> QED
          BY <2>3, <4>1, <4>2
      <3>2. /\ s2 \in Seq(Messages) /\ Len(s2) = Len(q) - p
            /\ \A i \in 1 .. Len(q) - p : s2[i] = q[p + i]
        <4>1. p + 1 \in Int /\ Len(q) \in Int /\ \A i \in p + 1 .. Len(q) : q[i] \in Messages
          BY <1>1, <2>3
        <4>2. /\ s2 \in Seq(Messages)
              /\ Len(s2) = IF p + 1 <= Len(q) THEN Len(q) - (p + 1) + 1 ELSE 0
              /\ \A i \in 1 .. Len(q) - (p + 1) + 1 : s2[i] = q[(p + 1) + i - 1]
          BY <4>1, SubSeqProperties
        <4> HIDE DEF s2
        <4> QED
          BY <1>1, <2>3, <4>2
      <3> QED
        BY <3>1, <3>2
    <2> HIDE DEF s1, s2
    <2> DEFINE front == s1 \o <<m>>
               r == front \o s2
    <2>8. /\ front \in Seq(Messages) /\ Len(front) = p + 1
          /\ \A i \in 1 .. p : front[i] = q[i]
          /\ front[p + 1] = m
      <3>1. <<m>> \in Seq(Messages) /\ Len(<<m>>) = 1 /\ <<m>>[1] = m
        OBVIOUS
      <3>2. /\ front \in Seq(Messages) /\ Len(front) = p + 1
            /\ \A i \in 1 .. p + 1 : front[i] = IF i <= p THEN s1[i] ELSE <<m>>[i - p]
        BY <2>7, <3>1, ConcatProperties
      <3> HIDE DEF front
      <3>3. \A i \in 1 .. p : front[i] = q[i]
        BY <2>3, <2>7, <3>2
      <3>4. front[p + 1] = m
        <4>1. p + 1 \in 1 .. p + 1 /\ ~(p + 1 <= p) /\ (p + 1) - p = 1
          BY <2>3
        <4> QED
          BY <3>1, <3>2, <4>1
      <3> QED
        BY <3>2, <3>3, <3>4
    <2>9. /\ r \in Seq(Messages) /\ Len(r) = (p + 1) + (Len(q) - p)
          /\ \A i \in 1 .. (p + 1) + (Len(q) - p) :
               r[i] = IF i <= p + 1 THEN front[i] ELSE s2[i - (p + 1)]
      <3> HIDE DEF front, r
      <3>1. r = front \o s2
        BY DEF r
      <3>2. /\ front \o s2 \in Seq(Messages)
            /\ Len(front \o s2) = Len(front) + Len(s2)
            /\ \A i \in 1 .. Len(front) + Len(s2) :
                 (front \o s2)[i] = IF i <= Len(front) THEN front[i] ELSE s2[i - Len(front)]
        <4>1. front \in Seq(Messages) /\ s2 \in Seq(Messages)
          BY <2>7, <2>8
        <4> QED
          BY <4>1, ConcatProperties
      <3>3. Len(front) = p + 1 /\ Len(s2) = Len(q) - p
        BY <2>7, <2>8
      <3> QED
        BY <3>1, <3>2, <3>3
    <2>10. Inserted(q, m) = r
      BY <2>6 DEF s1, s2
    <2> HIDE DEF front, r
    <2>11. Len(r) = Len(q) + 1
      BY <1>1, <2>3, <2>9
    <2>15. \A i \in 1 .. p + 1 : r[i] = front[i]
      <3>1. \A i \in 1 .. p + 1 : i \in 1 .. (p + 1) + (Len(q) - p) /\ i <= p + 1
        BY <1>1, <2>3
      <3> QED
        BY <2>9, <3>1
    <2>12. \A i \in 1 .. p : r[i] = q[i]
      <3>1. \A i \in 1 .. p : i \in 1 .. p + 1
        BY <2>3
      <3> QED
        BY <2>8, <2>15, <3>1
    <2>13. r[p + 1] = m
      <3>1. p + 1 \in 1 .. p + 1
        BY <2>3
      <3>2. r[p + 1] = front[p + 1]
        BY <2>15, <3>1
      <3>3. front[p + 1] = m
        BY <2>8
      <3> QED
        BY <3>2, <3>3
    <2>14. \A i \in p + 1 .. Len(q) : r[i + 1] = q[i]
      <3> SUFFICES ASSUME NEW i \in p + 1 .. Len(q)
                   PROVE  r[i + 1] = q[i]
        OBVIOUS
      <3>1. r[i + 1] = s2[(i + 1) - (p + 1)]
        <4>1. i + 1 \in 1 .. (p + 1) + (Len(q) - p) /\ ~(i + 1 <= p + 1)
          BY <1>1, <2>3
        <4> QED
          BY <2>9, <4>1
      <3>2. (i + 1) - (p + 1) = i - p /\ i - p \in 1 .. Len(q) - p /\ p + (i - p) = i
        BY <1>1, <2>3
      <3> QED
        BY <2>7, <3>1, <3>2
    <2>16. Spliced(q, p, m, r)
      BY <2>4, <2>5, <2>9, <2>11, <2>12, <2>13, <2>14 DEF Spliced
    <2> QED
      BY <1>1, <2>3, <2>10, <2>16
  <1> QED
    BY <1>2, <1>3

\* Where the messages of the longer queue were.
LEMMA SplicedFrom ==
  ASSUME NEW q \in Seq(Messages), NEW m \in Messages, NEW p \in 0 .. Len(q), NEW r,
         Spliced(q, p, m, r), NEW k \in 1 .. Len(r)
  PROVE  \/ k <= p /\ k \in 1 .. Len(q) /\ r[k] = q[k] /\ q[k].due <= m.due
         \/ k = p + 1 /\ r[k] = m
         \/ k > p + 1 /\ k - 1 \in 1 .. Len(q) /\ r[k] = q[k - 1] /\ q[k - 1].due > m.due
  <1>1. Len(q) \in Nat /\ p \in Nat /\ k \in Nat /\ k <= Len(q) + 1 /\ p <= Len(q)
    BY DEF Spliced
  <1>2. CASE k <= p
    BY <1>1, <1>2 DEF Spliced
  <1>3. CASE k = p + 1
    BY <1>3 DEF Spliced
  <1>4. CASE k > p + 1
    <2>1. k - 1 \in p + 1 .. Len(q) /\ (k - 1) + 1 = k
      BY <1>1, <1>4
    <2>2. r[(k - 1) + 1] = q[k - 1] /\ q[k - 1].due > m.due
      BY <2>1 DEF Spliced
    <2> QED
      BY <1>1, <1>4, <2>1, <2>2
  <1> QED
    BY <1>1, <1>2, <1>3, <1>4

\* Inserting a message keeps the order, if it was posted last when it is immediate, and
\* brings in no message but this one.
LEMMA SplicedKeeps ==
  ASSUME NEW q \in Seq(Messages), NEW m \in Messages, NEW p \in 0 .. Len(q), NEW r,
         Spliced(q, p, m, r), Sorted(q)
  PROVE  /\ r \in Seq(Messages) /\ Sorted(r)
         /\ \A k \in 1 .. Len(r) : r[k] = m \/ \E i \in 1 .. Len(q) : r[k] = q[i]
         /\ /\ PostedInOrder(q)
            /\ m.due = Immediate => \A i \in 1 .. Len(q) : q[i].no < m.no
            => PostedInOrder(r)
         /\ Distinct(q) /\ (\A i \in 1 .. Len(q) : q[i].no # m.no) => Distinct(r)
  <1>1. r \in Seq(Messages) /\ Len(q) \in Nat /\ p \in Nat /\ m.due \in Int
    BY MessageFields, LenProperties DEF Spliced
  <1>2. \A k \in 1 .. Len(r) :
          \/ k <= p /\ k \in 1 .. Len(q) /\ r[k] = q[k] /\ q[k].due <= m.due
          \/ k = p + 1 /\ r[k] = m
          \/ k > p + 1 /\ k - 1 \in 1 .. Len(q) /\ r[k] = q[k - 1] /\ q[k - 1].due > m.due
    BY SplicedFrom
  <1>3. /\ \A i \in 1 .. Len(q) : q[i].due \in Int /\ q[i].no \in Nat
        /\ \A i \in 1 .. Len(r) : r[i].due \in Int
    BY <1>1, MessageFields, ElementOfSeq
  <1>4. ASSUME NEW i \in 1 .. Len(r), NEW j \in 1 .. Len(r), i < j
        PROVE  \/ \E a, b \in 1 .. Len(q) : a < b /\ r[i] = q[a] /\ r[j] = q[b]
               \/ \E a \in 1 .. Len(q) : r[i] = q[a] /\ q[a].due <= m.due /\ r[j] = m
               \/ \E b \in 1 .. Len(q) : r[i] = m /\ r[j] = q[b] /\ q[b].due > m.due
    <2>1. CASE i <= p /\ j <= p
      BY <1>1, <1>2, <1>4, <2>1
    <2>2. CASE i <= p /\ j = p + 1
      BY <1>1, <1>2, <1>4, <2>2
    <2>3. CASE i <= p /\ j > p + 1
      <3>1. i < j - 1
        BY <1>1, <2>3
      <3> QED
        BY <1>1, <1>2, <1>4, <2>3, <3>1
    <2>4. CASE i = p + 1
      BY <1>1, <1>2, <1>4, <2>4
    <2>5. CASE i > p + 1
      <3>1. i - 1 < j - 1 /\ j > p + 1
        BY <1>1, <1>4, <2>5
      <3>2. i - 1 \in 1 .. Len(q) /\ r[i] = q[i - 1]
        <4>1. ~(i <= p) /\ i # p + 1
          BY <1>1, <2>5
        <4> QED
          BY <1>2, <4>1
      <3>3. j - 1 \in 1 .. Len(q) /\ r[j] = q[j - 1]
        <4>1. ~(j <= p) /\ j # p + 1
          BY <1>1, <3>1
        <4> QED
          BY <1>2, <4>1
      <3> QED
        BY <3>1, <3>2, <3>3
    <2> QED
      BY <1>1, <2>1, <2>2, <2>3, <2>4, <2>5
  <1>5. Sorted(r)
    <2>1. ASSUME NEW i \in 1 .. Len(r), NEW j \in 1 .. Len(r), i < j
          PROVE  r[i].due <= r[j].due
      <3>1. ASSUME NEW a \in 1 .. Len(q), NEW b \in 1 .. Len(q), a < b,
                   r[i] = q[a], r[j] = q[b]
            PROVE  r[i].due <= r[j].due
        BY <1>3, <3>1 DEF Sorted
      <3>2. ASSUME NEW a \in 1 .. Len(q), r[i] = q[a], q[a].due <= m.due, r[j] = m
            PROVE  r[i].due <= r[j].due
        BY <1>1, <1>3, <3>2
      <3>3. ASSUME NEW b \in 1 .. Len(q), r[i] = m, r[j] = q[b], q[b].due > m.due
            PROVE  r[i].due <= r[j].due
        BY <1>1, <1>3, <3>3
      <3> QED
        BY <1>4, <2>1, <3>1, <3>2, <3>3
    <2> QED
      BY <2>1 DEF Sorted
  <1>6. \A k \in 1 .. Len(r) : r[k] = m \/ \E i \in 1 .. Len(q) : r[k] = q[i]
    BY <1>2
  <1>7. ASSUME PostedInOrder(q), m.due = Immediate => \A i \in 1 .. Len(q) : q[i].no < m.no
        PROVE  PostedInOrder(r)
    <2>1. ASSUME NEW i \in 1 .. Len(r), NEW j \in 1 .. Len(r), i < j,
                 r[i].due = Immediate, r[j].due = Immediate
          PROVE  r[i].no < r[j].no
      <3>1. ASSUME NEW a \in 1 .. Len(q), NEW b \in 1 .. Len(q), a < b,
                   r[i] = q[a], r[j] = q[b]
            PROVE  r[i].no < r[j].no
        BY <1>3, <3>1, <1>7, <2>1 DEF PostedInOrder
      <3>2. ASSUME NEW a \in 1 .. Len(q), r[i] = q[a], q[a].due <= m.due, r[j] = m
            PROVE  r[i].no < r[j].no
        BY <1>1, <1>3, <3>2, <1>7, <2>1
      <3>3. ASSUME NEW b \in 1 .. Len(q), r[i] = m, r[j] = q[b], q[b].due > m.due
            PROVE  r[i].no < r[j].no
        BY <1>1, <1>3, <3>3, <1>7, <2>1
      <3> QED
        BY <1>4, <2>1, <3>1, <3>2, <3>3
    <2> QED
      BY <2>1 DEF PostedInOrder
  <1>8. ASSUME Distinct(q), \A i \in 1 .. Len(q) : q[i].no # m.no
        PROVE  Distinct(r)
    <2>1. ASSUME NEW i \in 1 .. Len(r), NEW j \in 1 .. Len(r), i < j, r[i].no = r[j].no
          PROVE  FALSE
      <3>1. ASSUME NEW a \in 1 .. Len(q), NEW b \in 1 .. Len(q), a < b,
                   r[i] = q[a], r[j] = q[b]
            PROVE  FALSE
        BY <1>3, <3>1, <1>8, <2>1 DEF Distinct
      <3>2. ASSUME NEW a \in 1 .. Len(q), r[i] = q[a], q[a].due <= m.due, r[j] = m
            PROVE  FALSE
        BY <1>1, <1>3, <3>2, <1>8, <2>1
      <3>3. ASSUME NEW b \in 1 .. Len(q), r[i] = m, r[j] = q[b], q[b].due > m.due
            PROVE  FALSE
        BY <1>1, <1>3, <3>3, <1>8, <2>1
      <3> QED
        BY <1>4, <2>1, <3>1, <3>2, <3>3
    <2>2. Len(r) \in Nat
      BY <1>1
    <2> QED
      BY <2>1, <2>2 DEF Distinct
  <1> QED
    BY <1>1, <1>5, <1>6, <1>7, <1>8

Within(q, places) == places \subseteq 1 .. Len(q)

\* What lies along a walk is part of the sequence, in the same order.
LEMMA PartKeeps ==
  ASSUME NEW q \in Seq(Messages), NEW places, Within(q, places),
         NEW walk \in Walks(places), NEW r, r = Along(q, walk)
  PROVE  /\ r \in Seq(Messages)
         /\ \A k \in 1 .. Len(r) : \E i \in places : r[k] = q[i]
         /\ Sorted(q) => Sorted(r)
         /\ PostedInOrder(q) => PostedInOrder(r)
         /\ Distinct(q) => Distinct(r)
  <1> DEFINE n == Cardinality(places)
  <1>1. n \in Nat
    <2>1. IsFiniteSet(1 .. Len(q))
      BY FS_Interval, LenProperties
    <2> QED
      BY <2>1, FS_Subset, FS_CardinalityType DEF Within
  <1>2. /\ walk \in [1 .. n -> places]
        /\ \A i, j \in 1 .. n : i < j => walk[i] < walk[j]
    BY DEF Walks
  <1> HIDE DEF n
  <1>3. r = [i \in 1 .. n |-> q[walk[i]]]
    BY <1>2 DEF Along
  <1>4. \A i \in 1 .. n : walk[i] \in places /\ walk[i] \in 1 .. Len(q)
                           /\ q[walk[i]] \in Messages
    BY <1>2, ElementOfSeq DEF Within
  <1>5. r \in Seq(Messages) /\ Len(r) = n
    BY <1>1, <1>3, <1>4, IsASeq
  <1>6. \A k \in 1 .. Len(r) : r[k] = q[walk[k]] /\ walk[k] \in places
    BY <1>3, <1>4, <1>5
  <1>7. Sorted(q) => Sorted(r)
    BY <1>2, <1>4, <1>5, <1>6 DEF Sorted
  <1>8. PostedInOrder(q) => PostedInOrder(r)
    BY <1>2, <1>4, <1>5, <1>6 DEF PostedInOrder
  <1>9. Distinct(q) => Distinct(r)
    <2> SUFFICES ASSUME Distinct(q), NEW i \in 1 .. n, NEW j \in 1 .. n,
                        r[i].no = r[j].no, i # j
                 PROVE  FALSE
      BY <1>5 DEF Distinct
    <2>1. walk[i] = walk[j]
      <3>1. /\ r[i] = q[walk[i]] /\ walk[i] \in 1 .. Len(q)
            /\ r[j] = q[walk[j]] /\ walk[j] \in 1 .. Len(q)
        BY <1>4, <1>5, <1>6
      <3> QED
        BY <3>1 DEF Distinct
    <2>2. i < j \/ j < i
      BY <1>1
    <2>3. walk[i] \in Int /\ walk[j] \in Int
      BY <1>4
    <2> QED
      BY <1>2, <2>1, <2>2, <2>3
  <1> QED
    BY <1>5, <1>6, <1>7, <1>8, <1>9

\* A queue in which every message has aged.
LEMMA AgedKeeps ==
  ASSUME NEW q \in Seq(Messages), NEW r, r = [i \in DOMAIN q |-> Aged(q[i])]
  PROVE  /\ r \in Seq(Messages) /\ Len(r) = Len(q)
         /\ \A i \in 1 .. Len(q) : r[i] = Aged(q[i]) /\ q[i] \in Messages
         /\ Sorted(q) => Sorted(r)
         /\ PostedInOrder(q) => PostedInOrder(r)
         /\ Distinct(q) => Distinct(r)
  <1>1. Len(q) \in Nat /\ DOMAIN q = 1 .. Len(q)
    BY LenProperties
  <1>2. \A i \in 1 .. Len(q) : q[i] \in Messages /\ Aged(q[i]) \in Messages
    BY AgedFacts, ElementOfSeq
  <1>3. r \in Seq(Messages) /\ Len(r) = Len(q)
    BY <1>1, <1>2, IsASeq
  <1>4. \A i \in 1 .. Len(q) : r[i] = Aged(q[i])
    BY <1>1
  <1>5. Sorted(q) => Sorted(r)
    <2> SUFFICES ASSUME Sorted(q), NEW i \in 1 .. Len(q), NEW j \in 1 .. Len(q), i < j
                 PROVE  r[i].due <= r[j].due
      BY <1>3 DEF Sorted
    <2>1. q[i].due <= q[j].due /\ q[i].due \in Int /\ q[j].due \in Int
      BY <1>2, MessageFields DEF Sorted
    <2>2. /\ r[i].due = IF q[i].due <= -MaxLate THEN q[i].due ELSE q[i].due - 1
          /\ r[j].due = IF q[j].due <= -MaxLate THEN q[j].due ELSE q[j].due - 1
      BY <1>2, <1>4, AgedFacts
    <2> QED
      BY <2>1, <2>2, Constants
  <1>6. PostedInOrder(q) => PostedInOrder(r)
    BY <1>2, <1>3, <1>4, AgedFacts DEF PostedInOrder
  <1>7. Distinct(q) => Distinct(r)
    BY <1>2, <1>3, <1>4, AgedFacts DEF Distinct
  <1> QED
    BY <1>2, <1>3, <1>4, <1>5, <1>6, <1>7

-------------------------------------------------------------------------------
(* The steps                                                                   *)

\* Where no message moves, only the thread and the numbers are left to look at.
LEMMA StillInv ==
  ASSUME Inv, UNCHANGED <<queue, msgsToDeliverNow, current, posted, cancelled>>,
         TypeOK', Batch', Numbers'
  PROVE  Inv'
  BY DEF Inv, Order, BatchFirst, Apart, AllPosted

\* Queue and batch, place by place.
LEMMA SequenceFacts ==
  ASSUME Inv
  PROVE  /\ queue \in Seq(Messages) /\ msgsToDeliverNow \in Seq(Messages)
         /\ Len(queue) \in Nat /\ Len(msgsToDeliverNow) \in Nat
         /\ \A i \in 1 .. Len(queue) : queue[i] \in Messages
         /\ \A i \in 1 .. Len(msgsToDeliverNow) : msgsToDeliverNow[i] \in Messages
         /\ \A i \in 1 .. Len(queue) : queue[i].no \in Nat /\ queue[i].no <= posted
         /\ \A i \in 1 .. Len(msgsToDeliverNow) :
              msgsToDeliverNow[i].no \in Nat /\ msgsToDeliverNow[i].no <= posted
         /\ posted \in Nat
         /\ current # Nothing => current \in Messages
  <1>1. queue \in Seq(Messages) /\ msgsToDeliverNow \in Seq(Messages) /\ posted \in Nat
    BY Constants DEF Inv, TypeOK
  <1>2. /\ \A i \in 1 .. Len(queue) : queue[i] \in Messages
        /\ \A i \in 1 .. Len(msgsToDeliverNow) : msgsToDeliverNow[i] \in Messages
    BY <1>1, ElementOfSeq
  <1> QED
    BY <1>1, <1>2, MessageFields, LenProperties DEF Inv, TypeOK, AllPosted, PostedBy

\* A message that is nowhere is inserted; an immediate one was posted last.
LEMMA InsertingKeeps ==
  ASSUME Inv, NEW m \in Messages, NEW r, r = Inserted(queue, m),
         \A i \in 1 .. Len(queue) : queue[i].no # m.no,
         \A i \in 1 .. Len(msgsToDeliverNow) : msgsToDeliverNow[i].no # m.no,
         m.due = Immediate =>
           /\ \A i \in 1 .. Len(queue) : queue[i].no < m.no
           /\ \A i \in 1 .. Len(msgsToDeliverNow) : msgsToDeliverNow[i].no < m.no
  PROVE  /\ r \in Seq(Messages) /\ Sorted(r) /\ PostedInOrder(r) /\ Distinct(r)
         /\ Disjoint(msgsToDeliverNow, r)
         /\ \A k \in 1 .. Len(r) : r[k] = m \/ \E i \in 1 .. Len(queue) : r[k] = queue[i]
         /\ \A i \in 1 .. Len(msgsToDeliverNow), j \in 1 .. Len(r) :
              msgsToDeliverNow[i].due = Immediate /\ r[j].due = Immediate =>
                msgsToDeliverNow[i].no < r[j].no
  <1>1. /\ Sorted(queue) /\ PostedInOrder(queue) /\ Distinct(queue)
        /\ Disjoint(msgsToDeliverNow, queue) /\ BatchFirst /\ queue \in Seq(Messages)
    BY SequenceFacts DEF Inv, Order, Apart
  <1>2. PICK p \in 0 .. Len(queue) : Spliced(queue, p, m, r)
    BY <1>1, InsertedIsSpliced
  <1>3. /\ r \in Seq(Messages) /\ Sorted(r) /\ PostedInOrder(r) /\ Distinct(r)
        /\ \A k \in 1 .. Len(r) : r[k] = m \/ \E i \in 1 .. Len(queue) : r[k] = queue[i]
    BY <1>1, <1>2, SplicedKeeps
  <1>4. Disjoint(msgsToDeliverNow, r)
    <2> SUFFICES ASSUME NEW i \in 1 .. Len(msgsToDeliverNow), NEW j \in 1 .. Len(r)
                 PROVE  msgsToDeliverNow[i].no # r[j].no
      BY DEF Disjoint
    <2>1. CASE r[j] = m
      BY <2>1
    <2>2. ASSUME NEW k \in 1 .. Len(queue), r[j] = queue[k]
          PROVE  msgsToDeliverNow[i].no # r[j].no
      BY <1>1, <2>2 DEF Disjoint
    <2> QED
      BY <1>3, <2>1, <2>2
  <1>5. ASSUME NEW i \in 1 .. Len(msgsToDeliverNow), NEW j \in 1 .. Len(r),
               msgsToDeliverNow[i].due = Immediate, r[j].due = Immediate
        PROVE  msgsToDeliverNow[i].no < r[j].no
    <2>1. CASE r[j] = m
      BY <1>5, <2>1
    <2>2. ASSUME NEW k \in 1 .. Len(queue), r[j] = queue[k]
          PROVE  msgsToDeliverNow[i].no < r[j].no
      BY <1>1, <1>5, <2>2 DEF BatchFirst
    <2> QED
      BY <1>3, <2>1, <2>2
  <1> QED
    BY <1>3, <1>4, <1>5

\* The threads inside Post() can be counted.
LEMMA InsertingFacts ==
  ASSUME Inv
  PROVE  /\ IsFiniteSet(Inserting) /\ Cardinality(Inserting) \in Nat
         /\ \A t \in Threads : IsFiniteSet(Inserting \cup {t}) /\ IsFiniteSet(Inserting \ {t})
  <1>1. IsFiniteSet(Inserting)
    <2>1. Inserting \subseteq Threads /\ IsFiniteSet(Threads)
      BY ThreadAssumption DEF Inserting
    <2> QED
      BY <2>1, FS_Subset
  <1> QED
    BY <1>1, FS_CardinalityType, FS_AddElement, FS_RemoveElement

\* Two threads may read one id: the number of posts is what tells messages apart.
LEMMA PostNumberInv ==
  ASSUME Inv, NEW t \in Threads, PostNumber(t)
  PROVE  Inv'
  <1>1. /\ posting[t] = "no" /\ posted + Cardinality(Inserting) < MaxPosts
        /\ posting' = [posting EXCEPT ![t] = "insert"]
        /\ number' = [number EXCEPT ![t] = lastMessageID]
        /\ UNCHANGED <<queue, running, loop, lastMessageID, posted, stopper, cancelled>>
    BY DEF PostNumber, Free, Inserting
  <1>2. Inserting' = Inserting \cup {t} /\ t \notin Inserting
    BY <1>1 DEF Inserting, Inv, TypeOK
  <1>3. Cardinality(Inserting') = Cardinality(Inserting) + 1
    BY <1>2, InsertingFacts, FS_AddElement
  <1>4. /\ lastMessageID \in Nat /\ lastMessageID >= FirstID /\ lastMessageID <= posted + FirstID
        /\ posted \in Nat /\ Cardinality(Inserting) \in Nat
    BY InsertingFacts, Constants DEF Inv, Numbers, TypeOK
  <1>5. Numbers'
    <2>1. posted' + Cardinality(Inserting') <= MaxPosts
      BY <1>1, <1>3, <1>4, Constants
    <2>2. \A u \in Inserting' : number'[u] >= FirstID /\ number'[u] <= posted' + FirstID
      BY <1>1, <1>2, <1>4 DEF Inv, Numbers, TypeOK, Inserting
    <2> QED
      BY <1>1, <2>1, <2>2 DEF Inv, Numbers
  <1>6. lastMessageID \in 0 .. MaxPosts + 1
    BY <1>1, <1>4, Constants
  <1>7. TypeOK'
    BY <1>1, <1>6 DEF Inv, TypeOK, loop
  <1> QED
    BY <1>1, <1>5, <1>7, StillInv DEF Inv, Batch, loop

\* The message that Post() inserts has the next number, and an id read before.
LEMMA PostedMessage ==
  ASSUME Inv, NEW t \in Threads, PostInsert(t)
  PROVE  /\ t \in Inserting /\ Inserting' = Inserting \ {t}
         /\ Cardinality(Inserting') = Cardinality(Inserting) - 1
         /\ posted \in Nat /\ number[t] \in Nat
         /\ number[t] >= FirstID /\ number[t] <= posted + FirstID
         /\ posted + 1 <= MaxPosts /\ Cardinality(Inserting) \in Nat
         /\ posted + Cardinality(Inserting) <= MaxPosts
         /\ \E m \in Messages :
              m.no = posted + 1 /\ m.id = number[t] /\ queue' = Inserted(queue, m)
  <1>1. PICK delay \in Delays, interval \in Intervals :
          queue' = Inserted(queue, [no |-> posted + 1, id |-> number[t], every |-> interval,
                                    due |-> IF delay = 0 THEN Immediate ELSE delay])
    BY DEF PostInsert
  <1> DEFINE due == IF delay = 0 THEN Immediate ELSE delay
             m == [no |-> posted + 1, id |-> number[t], every |-> interval, due |-> due]
  <1>2. /\ posting[t] = "insert" /\ lastMessageID' = number[t] + 1 /\ posted' = posted + 1
        /\ posting' = [posting EXCEPT ![t] = IF t = Loop THEN "no" ELSE "signal"]
        /\ number' = [number EXCEPT ![t] = 0]
        /\ UNCHANGED <<running, loop, stopper, cancelled>>
    BY DEF PostInsert
  <1>3. t \in Inserting /\ Inserting' = Inserting \ {t}
    BY <1>2 DEF Inserting, Inv, TypeOK
  <1>4. Cardinality(Inserting') = Cardinality(Inserting) - 1
    BY <1>3, InsertingFacts, FS_RemoveElement
  <1>5. /\ posted \in Nat /\ number[t] \in Nat
        /\ number[t] >= FirstID /\ number[t] <= posted + FirstID
        /\ posted + 1 <= MaxPosts /\ Cardinality(Inserting) \in Nat
        /\ posted + Cardinality(Inserting) <= MaxPosts
    <2>1. Cardinality(Inserting) # 0
      BY <1>3, InsertingFacts, FS_EmptySet
    <2> QED
      BY <1>3, <2>1, InsertingFacts, Constants DEF Inv, Numbers, TypeOK
  <1>6. due \in DueTimes /\ interval \in Periods
    BY Constants DEF DueTimes, Periods
  <1> HIDE DEF due
  <1>7. m \in Messages /\ m.no = posted + 1 /\ m.id = number[t] /\ m.due = due
    <2>1. posted + 1 \in 0 .. MaxPosts /\ number[t] \in 1 .. MaxPosts + 1
      BY <1>5, Constants
    <2> QED
      BY <1>6, <2>1 DEF Messages
  <1>8. queue' = Inserted(queue, m)
    BY <1>1 DEF due
  <1> HIDE DEF m
  <1> HIDE DEF m
  <1> QED
    BY <1>3, <1>4, <1>5, <1>7, <1>8

\* Inserting after all that are due no later keeps the order.
LEMMA PostInsertInv ==
  ASSUME Inv, NEW t \in Threads, PostInsert(t)
  PROVE  Inv'
  <1>1. PICK m \in Messages :
          m.no = posted + 1 /\ m.id = number[t] /\ queue' = Inserted(queue, m)
    BY PostedMessage
  <1>2. /\ posting[t] = "insert" /\ lastMessageID' = number[t] + 1 /\ posted' = posted + 1
        /\ posting' = [posting EXCEPT ![t] = IF t = Loop THEN "no" ELSE "signal"]
        /\ number' = [number EXCEPT ![t] = 0]
        /\ UNCHANGED <<running, loop, stopper, cancelled>>
    BY DEF PostInsert
  <1>3. t \in Inserting /\ Inserting' = Inserting \ {t}
    BY PostedMessage
  <1>4. Cardinality(Inserting') = Cardinality(Inserting) - 1
    BY PostedMessage
  <1>5. /\ posted \in Nat /\ number[t] \in Nat
        /\ number[t] >= FirstID /\ number[t] <= posted + FirstID
        /\ posted + 1 <= MaxPosts /\ Cardinality(Inserting) \in Nat
        /\ posted + Cardinality(Inserting) <= MaxPosts
    BY PostedMessage
  <1>6. /\ \A i \in 1 .. Len(queue) : queue[i].no < m.no /\ queue[i].no # m.no
        /\ \A i \in 1 .. Len(msgsToDeliverNow) :
             msgsToDeliverNow[i].no < m.no /\ msgsToDeliverNow[i].no # m.no
    <2>1. /\ \A i \in 1 .. Len(queue) : queue[i].no \in 0 .. posted
          /\ \A i \in 1 .. Len(msgsToDeliverNow) : msgsToDeliverNow[i].no \in 0 .. posted
      BY SequenceFacts
    <2>2. \A x \in 0 .. posted : x < m.no /\ x # m.no
      BY <1>1, <1>5
    <2> QED
      BY <2>1, <2>2
  <1>7. /\ queue' \in Seq(Messages) /\ Sorted(queue') /\ PostedInOrder(queue')
        /\ Distinct(queue') /\ Disjoint(msgsToDeliverNow, queue')
        /\ \A k \in 1 .. Len(queue') :
             queue'[k] = m \/ \E i \in 1 .. Len(queue) : queue'[k] = queue[i]
        /\ \A i \in 1 .. Len(msgsToDeliverNow), j \in 1 .. Len(queue') :
             msgsToDeliverNow[i].due = Immediate /\ queue'[j].due = Immediate =>
               msgsToDeliverNow[i].no < queue'[j].no
    BY <1>1, <1>6, InsertingKeeps
  <1>8. UNCHANGED <<msgsToDeliverNow, current, pc, cancelled>>
    BY <1>2 DEF loop
  <1>9. Order'
    <2>1. BatchFirst'
      BY <1>7, <1>8 DEF BatchFirst
    <2>2. PostedInOrder(msgsToDeliverNow')
      BY <1>8 DEF Inv, Order
    <2> QED
      BY <1>7, <2>1, <2>2 DEF Order
  <1>10. Apart'
    <2>1. m.no # current.no
      <3>1. CASE current = Nothing
        BY <1>1, <1>5, <3>1 DEF Nothing
      <3>2. CASE current # Nothing
        <4>1. current.no \in Nat /\ current.no <= posted
          BY <3>2, SequenceFacts, MessageFields DEF Inv, AllPosted, PostedBy
        <4> QED
          BY <1>1, <1>5, <4>1
      <3> QED
        BY <3>1, <3>2
    <2>2. \A i \in 1 .. Len(queue) : queue[i].no # current.no
      BY DEF Inv, Apart, Disjoint
    <2>3. \A k \in 1 .. Len(queue') : queue'[k].no # current.no
      BY <1>7, <2>1, <2>2
    <2> QED
      BY <1>7, <1>8, <2>3 DEF Inv, Apart, Disjoint
  <1>11. Numbers'
    <2>1. posted' + Cardinality(Inserting') <= MaxPosts
      BY <1>2, <1>4, <1>5, Constants
    <2>2. lastMessageID' >= FirstID /\ lastMessageID' <= posted' + FirstID
      BY <1>2, <1>5, Constants
    <2>3. \A u \in Inserting' : number'[u] >= FirstID /\ number'[u] <= posted' + FirstID
      <3> SUFFICES ASSUME NEW u \in Inserting'
                   PROVE  number'[u] >= FirstID /\ number'[u] <= posted' + FirstID
        OBVIOUS
      <3>1. u \in Inserting /\ u # t /\ number'[u] = number[u] /\ number[u] \in Nat
        BY <1>2, <1>3, Constants DEF Inv, TypeOK, Inserting
      <3> QED
        BY <1>2, <1>5, <3>1, Constants DEF Inv, Numbers
    <2>4. cancelled' \subseteq 1 .. posted'
      BY <1>2, <1>5 DEF Inv, Numbers
    <2> QED
      BY <2>1, <2>2, <2>3, <2>4 DEF Numbers
  <1>12. TypeOK'
    <2>1. /\ lastMessageID' \in 1 .. MaxPosts + 2 /\ posted' \in 0 .. MaxPosts
          /\ number' \in [Threads -> 0 .. MaxPosts + 1]
      <3>1. number \in [Threads -> 0 .. MaxPosts + 1] /\ 0 \in 0 .. MaxPosts + 1
        BY Constants DEF Inv, TypeOK
      <3>2. number' \in [Threads -> 0 .. MaxPosts + 1]
        BY <1>2, <3>1
      <3>3. lastMessageID' \in 1 .. MaxPosts + 2 /\ posted' \in 0 .. MaxPosts
        BY <1>2, <1>5, Constants
      <3> QED
        BY <3>2, <3>3
    <2> QED
      BY <1>2, <1>7, <2>1 DEF Inv, TypeOK, loop
  <1>13. PostedBy(m, posted', cancelled')
    <2>1. m.no \notin cancelled
      BY <1>1, <1>5 DEF Inv, Numbers
    <2>2. m.no = posted' /\ m.no # 0 /\ m.id >= FirstID
      BY <1>1, <1>2, <1>5
    <2> QED
      BY <1>2, <1>5, <2>1, <2>2 DEF PostedBy
  <1>14. ASSUME NEW k \in Messages, PostedBy(k, posted, cancelled)
         PROVE  PostedBy(k, posted', cancelled')
    <2>1. k.no \in Nat
      BY MessageFields
    <2> QED
      BY <1>2, <1>5, <1>14, <2>1 DEF PostedBy
  <1>15. AllPosted'
    <2>1. \A k \in 1 .. Len(queue') : PostedBy(queue'[k], posted', cancelled')
      <3> SUFFICES ASSUME NEW k \in 1 .. Len(queue')
                   PROVE  PostedBy(queue'[k], posted', cancelled')
        OBVIOUS
      <3>1. ASSUME NEW i \in 1 .. Len(queue), queue'[k] = queue[i]
            PROVE  PostedBy(queue'[k], posted', cancelled')
        BY <1>14, <3>1, SequenceFacts DEF Inv, AllPosted
      <3> QED
        BY <1>7, <1>13, <3>1
    <2>2. \A i \in 1 .. Len(msgsToDeliverNow') :
            PostedBy(msgsToDeliverNow'[i], posted', cancelled')
      BY <1>8, <1>14, SequenceFacts DEF Inv, AllPosted
    <2>3. current' # Nothing => PostedBy(current', posted', cancelled')
      BY <1>8, <1>14, SequenceFacts DEF Inv, AllPosted
    <2> QED
      BY <2>1, <2>2, <2>3 DEF AllPosted
  <1> QED
    BY <1>8, <1>9, <1>10, <1>11, <1>12, <1>15 DEF Inv, Batch

\* Where no number is given out either.
LEMMA StillPosts ==
  ASSUME Inv, UNCHANGED <<queue, msgsToDeliverNow, current, posts, cancelled>>, TypeOK',
         pc' \in {"check", "sleep", "waiting", "collect"} =>
           pc \in {"check", "sleep", "waiting", "collect"}
  PROVE  Inv'
  <1>1. Numbers'
    BY DEF Inv, Numbers, posts, Inserting
  <1>2. Batch'
    BY DEF Inv, Batch
  <1> QED
    BY <1>1, <1>2, StillInv DEF posts

\* A signal moves the loop and no message.
LEMMA PostSignalInv ==
  ASSUME Inv, NEW t \in Threads, PostSignal(t)
  PROVE  Inv'
  <1>1. /\ posting[t] = "signal" /\ pc' = IF pc = "waiting" THEN "collect" ELSE pc
        /\ posting' = [posting EXCEPT ![t] = "no"]
        /\ UNCHANGED <<queue, running, waitTimeout, msgsToDeliverNow, current, cancelCurrent,
                       lastMessageID, number, posted, stopper, cancelled>>
    BY DEF PostSignal, Signal
  <1>2. Inserting' = Inserting
    BY <1>1 DEF Inserting, Inv, TypeOK
  <1>3. Numbers'
    BY <1>1, <1>2 DEF Inv, Numbers
  <1>4. TypeOK'
    BY <1>1 DEF Inv, TypeOK
  <1> QED
    BY <1>1, <1>3, <1>4, StillInv DEF Inv, Batch

\* The loop looks at the queue with no batch left.
LEMMA CheckInv ==
  ASSUME Inv, Check
  PROVE  Inv'
  <1>1. /\ pc = "check" /\ pc' \in {"exited", "sleep", "collect"}
        /\ \/ waitTimeout' = waitTimeout \/ waitTimeout' = Forever
           \/ queue # <<>> /\ waitTimeout' = Head(queue).due /\ Head(queue).due > 0
        /\ UNCHANGED <<queue, running, msgsToDeliverNow, current, cancelCurrent, posts,
                       stopper, cancelled>>
    BY Zenon DEF Check
  <1>2. waitTimeout' \in {Forever} \cup 0 .. Longest
    <2>1. CASE queue # <<>> /\ waitTimeout' = Head(queue).due /\ Head(queue).due > 0
      <3>1. Head(queue) \in Messages
        BY <2>1, SequenceFacts, HeadTailProperties
      <3> QED
        BY <2>1, <3>1, MessageFields, Constants
    <2> QED
      BY <1>1, <2>1 DEF Inv, TypeOK
  <1>3. TypeOK'
    BY <1>1, <1>2 DEF Inv, TypeOK, posts
  <1> QED
    BY <1>1, <1>3, StillPosts

\* The steps of the loop about its sleep, the cancelling of the message that is called,
\* and Stop().
LEMMA StillSteps ==
  ASSUME Inv, Sleep \/ TimeOut \/ WakeSpuriously \/ CancelSelf \/ Stop \/ StopSignal \/ Join
  PROVE  Inv'
  <1>1. UNCHANGED <<queue, msgsToDeliverNow, current, posts, cancelled>>
    BY DEF Sleep, TimeOut, WakeSpuriously, CancelSelf, Stop, StopSignal, Join, loop
  <1>2. /\ pc' \in {"check", "sleep", "waiting", "collect"} =>
             pc \in {"check", "sleep", "waiting", "collect"}
        /\ pc' \in {"check", "sleep", "waiting", "collect", "deliver", "calling", "exited"}
        /\ pc' = "calling" <=> pc = "calling"
    BY DEF Inv, TypeOK, Sleep, TimeOut, WakeSpuriously, CancelSelf, Stop, StopSignal, Signal,
           Join, loop
  <1>3. running' \in BOOLEAN /\ cancelCurrent' \in BOOLEAN
    BY DEF Inv, TypeOK, Sleep, TimeOut, WakeSpuriously, CancelSelf, Stop, StopSignal, Join, loop
  <1>4. waitTimeout' = waitTimeout /\ stopper' \in {"no", "signal", "join", "done"}
    BY DEF Inv, TypeOK, Sleep, TimeOut, WakeSpuriously, CancelSelf, Stop, StopSignal, Join, loop
  <1>5. TypeOK'
    BY <1>1, <1>2, <1>3, <1>4 DEF Inv, TypeOK, posts
  <1> QED
    BY <1>1, <1>2, <1>5, StillPosts

\* What the collection of a batch uses of the queue.
LEMMA QueueFacts ==
  ASSUME Inv
  PROVE  queue \in Seq(Messages) /\ Sorted(queue) /\ PostedInOrder(queue) /\ Distinct(queue)
  BY SequenceFacts DEF Inv, Order, Apart

\* What Cancel() and the loop keep of the queue, or take out of it.
LEMMA PartOfQueue ==
  ASSUME Inv, NEW places, Within(queue, places), NEW walk \in Walks(places),
         NEW r, r = Along(queue, walk)
  PROVE  /\ r \in Seq(Messages)
         /\ \A k \in 1 .. Len(r) : \E i \in places : r[k] = queue[i]
         /\ Sorted(r) /\ PostedInOrder(r) /\ Distinct(r)
  <1>1. queue \in Seq(Messages) /\ Sorted(queue) /\ PostedInOrder(queue) /\ Distinct(queue)
    BY QueueFacts
  <1> QED
    BY <1>1, PartKeeps

\* Cancel() removes every message with the id it is given: none of those that stay, of
\* the batch or of the call has the number of one it removed.
LEMMA CancelInv ==
  ASSUME Inv, NEW t \in Threads, Cancel(t)
  PROVE  Inv'
  <1>1. PICK id \in {m.id : m \in {n \in Range(queue) : n.no # 0}} :
          \E kept \in Walks({i \in DOMAIN queue : queue[i].id # id}) :
            /\ queue' = Along(queue, kept)
            /\ cancelled' = cancelled \cup {m.no : m \in {n \in Range(queue) : n.id = id}}
    BY Zenon DEF Cancel
  <1> DEFINE places == {i \in DOMAIN queue : queue[i].id # id}
             removed == {m.no : m \in {n \in Range(queue) : n.id = id}}
  <1>2. PICK kept \in Walks(places) :
          queue' = Along(queue, kept) /\ cancelled' = cancelled \cup removed
    BY <1>1
  <1>3. UNCHANGED <<running, loop, posts, stopper>>
    BY DEF Cancel
  <1>4. DOMAIN queue = 1 .. Len(queue) /\ Range(queue) = {queue[i] : i \in 1 .. Len(queue)}
    BY SequenceFacts, LenProperties DEF Range
  <1>5. \A i \in places : i \in 1 .. Len(queue) /\ queue[i].id # id
    BY <1>4
  <1>6. \A n \in removed : \E i \in 1 .. Len(queue) : queue[i].no = n /\ queue[i].id = id
    BY <1>4
  <1>7. \E i \in 1 .. Len(queue) : queue[i].id = id /\ queue[i].no # 0
    BY <1>4
  <1>8. Within(queue, places)
    BY <1>5 DEF Within
  <1> HIDE DEF places, removed
  <1>9. /\ queue' \in Seq(Messages)
        /\ \A k \in 1 .. Len(queue') : \E i \in places : queue'[k] = queue[i]
        /\ Sorted(queue') /\ PostedInOrder(queue') /\ Distinct(queue')
    BY <1>2, <1>8, PartOfQueue
  <1>10. \A k \in 1 .. Len(queue') : \E i \in 1 .. Len(queue) :
            queue'[k] = queue[i] /\ queue[i].id # id
    BY <1>5, <1>9
  <1>11. UNCHANGED <<msgsToDeliverNow, current, pc, posted, waitTimeout, cancelCurrent>>
    BY <1>3 DEF loop, posts
  <1>12. Order'
    <2>1. BatchFirst'
      BY <1>10, <1>11 DEF Inv, Order, BatchFirst
    <2>2. PostedInOrder(msgsToDeliverNow')
      BY <1>11 DEF Inv, Order
    <2> QED
      BY <1>9, <2>1, <2>2 DEF Order
  <1>13. Apart'
    <2>1. /\ Disjoint(msgsToDeliverNow, queue) /\ Disjoint(queue, <<current>>)
          /\ Disjoint(msgsToDeliverNow, <<current>>) /\ Distinct(msgsToDeliverNow)
      BY DEF Inv, Apart
    <2>2. Disjoint(msgsToDeliverNow, queue')
      BY <1>10, <2>1 DEF Disjoint
    <2>3. Disjoint(queue', <<current>>)
      BY <1>10, <2>1 DEF Disjoint
    <2> QED
      BY <1>9, <1>11, <2>1, <2>2, <2>3 DEF Apart
  <1>14. removed \subseteq 1 .. posted
    <2> SUFFICES ASSUME NEW n \in removed
                 PROVE  n \in 1 .. posted
      OBVIOUS
    <2>1. PICK i \in 1 .. Len(queue) : queue[i].no = n /\ queue[i].id = id
      BY <1>6
    <2>2. PICK j \in 1 .. Len(queue) : queue[j].id = id /\ queue[j].no # 0
      BY <1>7
    <2>3. n # 0
      <3>1. id >= FirstID
        BY <2>2 DEF Inv, AllPosted, PostedBy
      <3>2. n = 0 => id = 1 /\ Heartbeat > 0
        BY <2>1 DEF Inv, AllPosted, PostedBy
      <3> QED
        BY <3>1, <3>2, Constants DEF FirstID
    <2> QED
      BY <2>1, <2>3, SequenceFacts
  <1>15. Numbers'
    BY <1>2, <1>3, <1>14 DEF Inv, Numbers, posts, Inserting
  <1>16. cancelled' \subseteq 1 .. MaxPosts
    <2>1. posted \in Nat /\ posted <= MaxPosts
      BY Constants DEF Inv, TypeOK
    <2> QED
      BY <1>2, <1>14, <2>1, Constants DEF Inv, Numbers
  <1>17. TypeOK'
    BY <1>3, <1>9, <1>16 DEF Inv, TypeOK, loop, posts
  <1>18. AllPosted'
    <2>1. ASSUME NEW k \in 1 .. Len(queue')
          PROVE  PostedBy(queue'[k], posted', cancelled')
      <3>1. PICK i \in 1 .. Len(queue) : queue'[k] = queue[i] /\ queue[i].id # id
        BY <1>10
      <3>2. queue[i].no \notin removed
        <4>1. Distinct(queue)
          BY DEF Inv, Apart
        <4>2. ASSUME NEW j \in 1 .. Len(queue), queue[j].no = queue[i].no, queue[j].id = id
              PROVE  FALSE
          <5>1. i # j
            BY <3>1, <4>2
          <5> QED
            BY <3>1, <4>1, <4>2, <5>1 DEF Distinct
        <4> QED
          BY <1>6, <4>2
      <3>3. PostedBy(queue[i], posted, cancelled)
        BY DEF Inv, AllPosted
      <3> QED
        BY <1>2, <1>11, <3>1, <3>2, <3>3 DEF PostedBy
    <2>2. ASSUME NEW k \in 1 .. Len(msgsToDeliverNow)
          PROVE  PostedBy(msgsToDeliverNow[k], posted', cancelled')
      <3>1. msgsToDeliverNow[k].no \notin removed
        BY <1>6 DEF Inv, Apart, Disjoint
      <3>2. PostedBy(msgsToDeliverNow[k], posted, cancelled)
        BY DEF Inv, AllPosted
      <3> QED
        BY <1>2, <1>11, <3>1, <3>2 DEF PostedBy
    <2>3. ASSUME current # Nothing
          PROVE  PostedBy(current, posted', cancelled')
      <3>1. current.no \notin removed
        <4>1. \A i \in 1 .. Len(queue) : queue[i].no # current.no
          BY DEF Inv, Apart, Disjoint
        <4> QED
          BY <1>6, <4>1
      <3>2. PostedBy(current, posted, cancelled)
        BY <2>3 DEF Inv, AllPosted
      <3> QED
        BY <1>2, <1>11, <3>1, <3>2 DEF PostedBy
    <2> QED
      BY <1>11, <2>1, <2>2, <2>3 DEF AllPosted
  <1> QED
    BY <1>11, <1>12, <1>13, <1>15, <1>17, <1>18 DEF Inv, Batch

\* Collect() takes the messages that are due into the batch, which is empty, and leaves
\* those that are not.
LEMMA CollectInv ==
  ASSUME Inv, Collect
  PROVE  Inv'
  <1>1. /\ pc = "collect" /\ waitTimeout' = 0
        /\ UNCHANGED <<running, current, cancelCurrent, posts, stopper, cancelled>>
    BY DEF Collect
  <1>2. CASE ~running /\ pc' = "exited" /\ UNCHANGED <<queue, msgsToDeliverNow>>
    <2>1. TypeOK'
      BY <1>1, <1>2, Constants DEF Inv, TypeOK, posts
    <2> QED
      BY <1>1, <1>2, <2>1, StillPosts
  <1>3. ASSUME running, pc' = "deliver",
               NEW now \in Walks({i \in DOMAIN queue : queue[i].due <= 0}),
               NEW later \in Walks({i \in DOMAIN queue : queue[i].due > 0}),
               msgsToDeliverNow' = Along(queue, now), queue' = Along(queue, later)
        PROVE  Inv'
    <2> DEFINE soon == {i \in DOMAIN queue : queue[i].due <= 0}
               then == {i \in DOMAIN queue : queue[i].due > 0}
    <2>1. /\ \A i \in soon : i \in 1 .. Len(queue) /\ queue[i].due <= 0
          /\ \A i \in then : i \in 1 .. Len(queue) /\ queue[i].due > 0
      BY SequenceFacts, LenProperties
    <2>2. now \in Walks(soon) /\ later \in Walks(then)
      BY <1>3
    <2> HIDE DEF soon, then
    <2>3. Within(queue, soon) /\ Within(queue, then)
      BY <2>1 DEF Within
    <2>4. /\ msgsToDeliverNow' \in Seq(Messages)
          /\ \A k \in 1 .. Len(msgsToDeliverNow') : \E i \in soon : msgsToDeliverNow'[k] = queue[i]
          /\ Sorted(msgsToDeliverNow') /\ PostedInOrder(msgsToDeliverNow')
          /\ Distinct(msgsToDeliverNow')
      BY <1>3, <2>2, <2>3, PartOfQueue
    <2>5. /\ queue' \in Seq(Messages)
          /\ \A k \in 1 .. Len(queue') : \E i \in then : queue'[k] = queue[i]
          /\ Sorted(queue') /\ PostedInOrder(queue') /\ Distinct(queue')
      BY <1>3, <2>2, <2>3, PartOfQueue
    <2>6. UNCHANGED <<current, posted, cancelled>>
      BY <1>1 DEF posts
    <2>7. current = Nothing
      BY <1>1 DEF Inv, TypeOK
    <2>8. BatchFirst'
      <3> SUFFICES ASSUME NEW k \in 1 .. Len(queue')
                   PROVE  queue'[k].due # Immediate
        BY DEF BatchFirst
      <3>1. PICK i \in then : queue'[k] = queue[i]
        BY <2>5
      <3> QED
        BY <2>1, <3>1, Constants
    <2>9. Order'
      BY <2>4, <2>5, <2>8 DEF Order
    <2>10. Disjoint(msgsToDeliverNow', queue')
      <3> SUFFICES ASSUME NEW k \in 1 .. Len(msgsToDeliverNow'), NEW l \in 1 .. Len(queue')
                   PROVE  msgsToDeliverNow'[k].no # queue'[l].no
        BY DEF Disjoint
      <3>1. PICK i \in soon : msgsToDeliverNow'[k] = queue[i]
        BY <2>4
      <3>2. PICK j \in then : queue'[l] = queue[j]
        BY <2>5
      <3>3. i # j
        <4>1. queue[i] \in Messages /\ queue[i].due <= 0 /\ queue[j].due > 0
          BY <2>1, SequenceFacts
        <4>2. queue[i].due \in Int
          BY <4>1, MessageFields
        <4> QED
          BY <4>1, <4>2
      <3> QED
        BY <2>1, <3>1, <3>2, <3>3 DEF Inv, Apart, Distinct
    <2>11. \A i \in 1 .. Len(queue) : queue[i].no # current.no
      BY DEF Inv, Apart, Disjoint
    <2>12. Disjoint(msgsToDeliverNow', <<current>>)
      BY <2>1, <2>4, <2>11 DEF Disjoint
    <2>13. Disjoint(queue', <<current>>)
      BY <2>1, <2>5, <2>11 DEF Disjoint
    <2>14. Apart'
      BY <2>4, <2>5, <2>6, <2>10, <2>12, <2>13 DEF Apart
    <2>15. Batch'
      <3>1. \A k \in 1 .. Len(msgsToDeliverNow') : msgsToDeliverNow'[k].due <= 0
        BY <2>1, <2>4
      <3> QED
        BY <1>3, <2>6, <3>1 DEF Inv, Batch
    <2>16. Numbers'
      BY <1>1 DEF Inv, Numbers, posts, Inserting
    <2>17. TypeOK'
      BY <1>1, <1>3, <2>4, <2>5, <2>7, Constants DEF Inv, TypeOK, posts
    <2>18. AllPosted'
      BY <2>1, <2>4, <2>5, <2>6, <2>7 DEF Inv, AllPosted
    <2> QED
      BY <2>9, <2>14, <2>15, <2>16, <2>17, <2>18 DEF Inv
  <1>4. \/ ~running /\ pc' = "exited" /\ UNCHANGED <<queue, msgsToDeliverNow>>
        \/ /\ running /\ pc' = "deliver"
           /\ \E now   \in Walks({i \in DOMAIN queue : queue[i].due <= 0}),
                 later \in Walks({i \in DOMAIN queue : queue[i].due > 0}) :
                msgsToDeliverNow' = Along(queue, now) /\ queue' = Along(queue, later)
    BY Zenon DEF Collect
  <1> QED
    BY <1>2, <1>3, <1>4

\* The first message of the batch is called.
LEMMA CallInv ==
  ASSUME Inv, Call
  PROVE  Inv'
  <1> DEFINE m == Head(msgsToDeliverNow)
             due == IF m.due = Immediate THEN 0 ELSE m.due
  <1>1. /\ pc = "deliver" /\ msgsToDeliverNow # <<>> /\ pc' = "calling"
        /\ current' = [m EXCEPT !.due = due]
        /\ msgsToDeliverNow' = Tail(msgsToDeliverNow) /\ cancelCurrent' = FALSE
        /\ UNCHANGED <<queue, running, waitTimeout, posts, stopper, cancelled>>
    BY DEF Call
  <1>2. /\ m \in Messages /\ m = msgsToDeliverNow[1] /\ Len(msgsToDeliverNow) > 0
        /\ msgsToDeliverNow' \in Seq(Messages)
        /\ Len(msgsToDeliverNow') = Len(msgsToDeliverNow) - 1
        /\ \A i \in 1 .. Len(msgsToDeliverNow') : msgsToDeliverNow'[i] = msgsToDeliverNow[i + 1]
    BY <1>1, SequenceFacts, HeadTailProperties, EmptySeq
  <1>3. m.due <= 0 /\ due \in DueTimes /\ due <= 0 /\ due # Immediate
    <2>1. m.due <= 0
      BY <1>2, SequenceFacts DEF Inv, Batch
    <2>2. m.due \in Int /\ (m.due # Immediate => m.due >= -MaxLate)
      BY <1>2, MessageFields
    <2> QED
      BY <2>1, <2>2, Constants DEF DueTimes
  <1> HIDE DEF m, due
  <1>4. /\ current' \in Messages /\ current'.due = due
        /\ current'.no = m.no /\ current'.id = m.id /\ current'.every = m.every
    BY <1>1, <1>2, <1>3, DueAt
  <1>5. \A i \in 1 .. Len(msgsToDeliverNow') :
          i + 1 \in 1 .. Len(msgsToDeliverNow) /\ msgsToDeliverNow'[i] = msgsToDeliverNow[i + 1]
    BY <1>2, SequenceFacts
  <1>6. UNCHANGED <<queue, posted, cancelled>>
    BY <1>1 DEF posts
  <1>7. Order'
    <2>1. PostedInOrder(msgsToDeliverNow')
      <3> SUFFICES ASSUME NEW i \in 1 .. Len(msgsToDeliverNow'),
                          NEW j \in 1 .. Len(msgsToDeliverNow'), i < j,
                          msgsToDeliverNow'[i].due = Immediate,
                          msgsToDeliverNow'[j].due = Immediate
                   PROVE  msgsToDeliverNow'[i].no < msgsToDeliverNow'[j].no
        BY DEF PostedInOrder
      <3>1. i + 1 < j + 1
        BY <1>2
      <3> QED
        BY <1>5, <3>1 DEF Inv, Order, PostedInOrder
    <2>2. BatchFirst'
      BY <1>5, <1>6 DEF Inv, Order, BatchFirst
    <2> QED
      BY <1>6, <2>1, <2>2 DEF Inv, Order
  <1>8. Apart'
    <2>1. Distinct(msgsToDeliverNow')
      <3> SUFFICES ASSUME NEW i \in 1 .. Len(msgsToDeliverNow'),
                          NEW j \in 1 .. Len(msgsToDeliverNow'),
                          msgsToDeliverNow'[i].no = msgsToDeliverNow'[j].no
                   PROVE  i = j
        BY DEF Distinct
      <3>1. i + 1 = j + 1
        BY <1>5 DEF Inv, Apart, Distinct
      <3> QED
        BY <1>2, <3>1
    <2>2. Disjoint(msgsToDeliverNow', queue)
      BY <1>5 DEF Inv, Apart, Disjoint
    <2>3. Disjoint(msgsToDeliverNow', <<current'>>)
      <3>1. ASSUME NEW i \in 1 .. Len(msgsToDeliverNow')
            PROVE  msgsToDeliverNow'[i].no # m.no
        <4>1. 1 \in 1 .. Len(msgsToDeliverNow) /\ i + 1 # 1
          BY <1>2, SequenceFacts
        <4> QED
          BY <1>2, <1>5, <4>1 DEF Inv, Apart, Distinct
      <3> QED
        BY <1>4, <3>1 DEF Disjoint
    <2>4. Disjoint(queue, <<current'>>)
      <3>1. \A i \in 1 .. Len(queue) : queue[i].no # m.no
        BY <1>2, SequenceFacts DEF Inv, Apart, Disjoint
      <3> QED
        BY <1>4, <3>1 DEF Disjoint
    <2> QED
      BY <1>6, <2>1, <2>2, <2>3, <2>4 DEF Inv, Apart
  <1>9. Batch'
    BY <1>1, <1>3, <1>4, <1>5 DEF Inv, Batch
  <1>10. Numbers'
    BY <1>1 DEF Inv, Numbers, posts, Inserting
  <1>11. TypeOK'
    <2>1. current' # Nothing
      BY <1>4, MessageFields
    <2> QED
      BY <1>1, <1>2, <1>4, <2>1 DEF Inv, TypeOK, posts
  <1>12. AllPosted'
    <2>1. PostedBy(current', posted, cancelled)
      <3>1. PostedBy(m, posted, cancelled)
        BY <1>2, SequenceFacts DEF Inv, AllPosted
      <3> QED
        BY <1>4, <3>1 DEF PostedBy
    <2> QED
      BY <1>5, <1>6, <2>1 DEF Inv, AllPosted
  <1> QED
    BY <1>7, <1>8, <1>9, <1>10, <1>11, <1>12 DEF Inv

\* What is called has a clock time, so a timer that is queued again is not immediate.
LEMMA ReturnInv ==
  ASSUME Inv, Return
  PROVE  Inv'
  <1> DEFINE due == current.due + current.every
             m == [current EXCEPT !.due = due]
  <1>1. /\ pc = "calling" /\ current' = Nothing /\ pc' = "deliver"
        /\ UNCHANGED <<running, waitTimeout, msgsToDeliverNow, cancelCurrent, posts, stopper,
                       cancelled>>
    BY DEF Return
  <1>2. queue' = queue \/ queue' = Inserted(queue, m)
    BY DEF Return
  <1>3. /\ current # Nothing /\ current \in Messages /\ PostedBy(current, posted, cancelled)
        /\ current.due <= 0 /\ current.due # Immediate
    BY <1>1 DEF Inv, TypeOK, AllPosted, Batch
  <1>4. due \in DueTimes /\ due # Immediate
    <2>1. /\ current.due \in Int /\ current.due >= -MaxLate
          /\ current.every \in Nat /\ current.every <= Longest
      BY <1>3, MessageFields
    <2> QED
      BY <1>3, <2>1, Constants DEF DueTimes
  <1> HIDE DEF due
  <1>5. m \in Messages /\ m.due = due /\ m.no = current.no /\ PostedBy(m, posted, cancelled)
    <2>1. m \in Messages /\ m.due = due /\ m.no = current.no /\ m.id = current.id
      BY <1>3, <1>4, DueAt
    <2> HIDE DEF m
    <2> QED
      BY <1>3, <2>1 DEF PostedBy
  <1> HIDE DEF m
  <1>6. /\ \A i \in 1 .. Len(queue) : queue[i].no # current.no
        /\ \A i \in 1 .. Len(msgsToDeliverNow) : msgsToDeliverNow[i].no # current.no
    BY DEF Inv, Apart, Disjoint
  <1>7. /\ queue' \in Seq(Messages) /\ Sorted(queue') /\ PostedInOrder(queue')
        /\ Distinct(queue') /\ Disjoint(msgsToDeliverNow, queue')
        /\ \A k \in 1 .. Len(queue') :
             queue'[k] = m \/ \E i \in 1 .. Len(queue) : queue'[k] = queue[i]
        /\ \A i \in 1 .. Len(msgsToDeliverNow), j \in 1 .. Len(queue') :
             msgsToDeliverNow[i].due = Immediate /\ queue'[j].due = Immediate =>
               msgsToDeliverNow[i].no < queue'[j].no
    <2>1. CASE queue' = queue
      BY <2>1, SequenceFacts DEF Inv, Order, Apart, BatchFirst
    <2>2. CASE queue' = Inserted(queue, m)
      BY <1>4, <1>5, <1>6, <2>2, InsertingKeeps
    <2> QED
      BY <1>2, <2>1, <2>2
  <1>8. UNCHANGED <<msgsToDeliverNow, posted, cancelled>>
    BY <1>1 DEF posts
  <1>9. Order'
    BY <1>7, <1>8 DEF Inv, Order, BatchFirst
  <1>10. Apart'
    <2>1. Disjoint(queue', <<Nothing>>)
      <3>1. \A k \in 1 .. Len(queue') : queue'[k] \in Messages
        BY <1>7, ElementOfSeq
      <3>2. \A k \in 1 .. Len(queue') : queue'[k].no # Nothing.no
        BY <3>1, MessageFields DEF Nothing
      <3> QED
        BY <3>2 DEF Disjoint
    <2>2. Disjoint(msgsToDeliverNow, <<Nothing>>)
      <3>1. \A k \in 1 .. Len(msgsToDeliverNow) : msgsToDeliverNow[k].no # Nothing.no
        BY SequenceFacts DEF Nothing
      <3> QED
        BY <3>1 DEF Disjoint
    <2> QED
      BY <1>1, <1>7, <1>8, <2>1, <2>2 DEF Inv, Apart
  <1>11. Batch'
    <2>1. Nothing.due = 0
      BY DEF Nothing
    <2> QED
      BY <1>1, <1>8, <2>1, Constants DEF Inv, Batch
  <1>12. Numbers'
    BY <1>1 DEF Inv, Numbers, posts, Inserting
  <1>13. TypeOK'
    BY <1>1, <1>7 DEF Inv, TypeOK, posts
  <1>14. AllPosted'
    <2>1. \A k \in 1 .. Len(queue') : PostedBy(queue'[k], posted, cancelled)
      BY <1>5, <1>7 DEF Inv, AllPosted
    <2> QED
      BY <1>1, <1>8, <2>1 DEF Inv, AllPosted
  <1> QED
    BY <1>9, <1>10, <1>11, <1>12, <1>13, <1>14 DEF Inv

\* The loop goes on only when its batch is empty.
LEMMA AllDeliveredInv ==
  ASSUME Inv, AllDelivered
  PROVE  Inv'
  <1>1. /\ pc = "deliver" /\ msgsToDeliverNow = <<>> /\ pc' = "check"
        /\ UNCHANGED <<queue, running, waitTimeout, msgsToDeliverNow, current, cancelCurrent,
                       posts, stopper, cancelled>>
    BY DEF AllDelivered
  <1>2. TypeOK' /\ Batch' /\ Numbers'
    BY <1>1 DEF Inv, TypeOK, Batch, Numbers, posts, Inserting
  <1> QED
    BY <1>1, <1>2, StillInv DEF posts

\* The clock counts every message down, and moves none.
LEMMA TickInv ==
  ASSUME Inv, Tick
  PROVE  Inv'
  <1>1. /\ queue' = [i \in DOMAIN queue |-> Aged(queue[i])]
        /\ msgsToDeliverNow' = [i \in DOMAIN msgsToDeliverNow |-> Aged(msgsToDeliverNow[i])]
        /\ current' = IF current = Nothing THEN current ELSE Aged(current)
        /\ waitTimeout' = IF pc = "waiting" /\ waitTimeout > 0 THEN waitTimeout - 1
                          ELSE waitTimeout
        /\ UNCHANGED <<running, pc, cancelCurrent, posts, stopper, cancelled>>
    BY DEF Tick
  <1>2. UNCHANGED <<posted, cancelled>>
    BY <1>1 DEF posts
  <1>3. /\ queue' \in Seq(Messages) /\ Len(queue') = Len(queue)
        /\ \A i \in 1 .. Len(queue) : queue'[i] = Aged(queue[i]) /\ queue[i] \in Messages
        /\ Sorted(queue') /\ PostedInOrder(queue') /\ Distinct(queue')
    <2>1. queue \in Seq(Messages) /\ Sorted(queue) /\ PostedInOrder(queue) /\ Distinct(queue)
      BY SequenceFacts DEF Inv, Order, Apart
    <2> QED
      BY <1>1, <2>1, AgedKeeps
  <1>4. /\ msgsToDeliverNow' \in Seq(Messages) /\ Len(msgsToDeliverNow') = Len(msgsToDeliverNow)
        /\ \A i \in 1 .. Len(msgsToDeliverNow) :
             /\ msgsToDeliverNow'[i] = Aged(msgsToDeliverNow[i])
             /\ msgsToDeliverNow[i] \in Messages
        /\ PostedInOrder(msgsToDeliverNow') /\ Distinct(msgsToDeliverNow')
    <2>1. /\ msgsToDeliverNow \in Seq(Messages) /\ PostedInOrder(msgsToDeliverNow)
          /\ Distinct(msgsToDeliverNow)
      BY SequenceFacts DEF Inv, Order, Apart
    <2> QED
      BY <1>1, <2>1, AgedKeeps
  <1>5. /\ \A i \in 1 .. Len(queue) :
             /\ queue'[i].no = queue[i].no /\ queue'[i].id = queue[i].id
             /\ queue'[i].due = Immediate <=> queue[i].due = Immediate
        /\ \A i \in 1 .. Len(msgsToDeliverNow) :
             /\ msgsToDeliverNow'[i].no = msgsToDeliverNow[i].no
             /\ msgsToDeliverNow'[i].id = msgsToDeliverNow[i].id
             /\ msgsToDeliverNow'[i].due = Immediate <=> msgsToDeliverNow[i].due = Immediate
    BY <1>3, <1>4, AgedFacts
  <1>6. /\ current' = Nothing <=> current = Nothing
        /\ current # Nothing => current' \in Messages
        /\ current'.no = current.no /\ current'.id = current.id
        /\ current'.due <= 0 /\ current'.due # Immediate
    <2>1. CASE current = Nothing
      BY <1>1, <2>1 DEF Inv, Batch
    <2>2. CASE current # Nothing
      <3>1. current \in Messages /\ current.due <= 0 /\ current.due # Immediate
        BY <2>2 DEF Inv, TypeOK, Batch
      <3>2. /\ current' \in Messages /\ current'.no = current.no /\ current'.id = current.id
            /\ current'.due = IF current.due <= -MaxLate THEN current.due ELSE current.due - 1
            /\ current'.due # Immediate
        BY <1>1, <2>2, <3>1, AgedFacts
      <3>3. current.due \in Int /\ current' # Nothing
        BY <3>1, <3>2, MessageFields
      <3> QED
        BY <2>2, <3>1, <3>2, <3>3
    <2> QED
      BY <2>1, <2>2
  <1>7. Order'
    <2>1. BatchFirst'
      BY <1>3, <1>4, <1>5 DEF Inv, Order, BatchFirst
    <2> QED
      BY <1>3, <1>4, <2>1 DEF Order
  <1>8. Apart'
    <2>1. Disjoint(msgsToDeliverNow', queue')
      BY <1>3, <1>4, <1>5 DEF Inv, Apart, Disjoint
    <2>2. Disjoint(msgsToDeliverNow', <<current'>>)
      <3>1. \A i \in 1 .. Len(msgsToDeliverNow) : msgsToDeliverNow[i].no # current.no
        BY DEF Inv, Apart, Disjoint
      <3> QED
        BY <1>4, <1>5, <1>6, <3>1 DEF Disjoint
    <2>3. Disjoint(queue', <<current'>>)
      <3>1. \A i \in 1 .. Len(queue) : queue[i].no # current.no
        BY DEF Inv, Apart, Disjoint
      <3> QED
        BY <1>3, <1>5, <1>6, <3>1 DEF Disjoint
    <2> QED
      BY <1>3, <1>4, <2>1, <2>2, <2>3 DEF Apart
  <1>9. Batch'
    <2>1. pc' \in {"check", "sleep", "waiting", "collect"} => msgsToDeliverNow' = <<>>
      <3>1. msgsToDeliverNow = <<>> => Len(msgsToDeliverNow') = 0
        BY <1>4
      <3> QED
        BY <1>1, <1>4, <3>1, EmptySeq DEF Inv, Batch
    <2>2. ASSUME NEW i \in 1 .. Len(msgsToDeliverNow)
          PROVE  msgsToDeliverNow'[i].due <= 0
      <3> DEFINE m == msgsToDeliverNow[i]
      <3>1. m \in Messages /\ m.due <= 0 /\ msgsToDeliverNow'[i] = Aged(m)
        BY <1>4 DEF Inv, Batch
      <3> HIDE DEF m
      <3>2. m.due \in Int /\ Aged(m).due = IF m.due <= -MaxLate THEN m.due ELSE m.due - 1
        BY <3>1, AgedFacts, MessageFields
      <3> QED
        BY <3>1, <3>2
    <2> QED
      BY <1>4, <1>6, <2>1, <2>2 DEF Batch
  <1>10. Numbers'
    BY <1>1 DEF Inv, Numbers, posts, Inserting
  <1>11. waitTimeout' \in {Forever} \cup 0 .. Longest
    BY <1>1, Constants DEF Inv, TypeOK, Forever
  <1>12. TypeOK'
    BY <1>1, <1>3, <1>4, <1>6, <1>11 DEF Inv, TypeOK, posts
  <1>13. AllPosted'
    BY <1>2, <1>3, <1>4, <1>5, <1>6 DEF Inv, AllPosted, PostedBy
  <1> QED
    BY <1>7, <1>8, <1>9, <1>10, <1>12, <1>13 DEF Inv

\* Only the timer is queued, if there is one.
LEMMA InitInv ==
  ASSUME Init
  PROVE  Inv
  <1>1. Inserting = {}
    BY DEF Init, Inserting
  <1>2. Cardinality(Inserting) = 0
    BY <1>1, FS_EmptySet
  <1>3. /\ msgsToDeliverNow = <<>> /\ current = Nothing /\ posted = 0 /\ cancelled = {}
        /\ Len(msgsToDeliverNow) = 0 /\ pc = "check"
    BY DEF Init
  <1>4. /\ queue \in Seq(Messages) /\ Len(queue) <= 1 /\ Len(queue) \in Nat
        /\ \A i \in 1 .. Len(queue) : queue[i] = Timer /\ Heartbeat > 0
    <2>1. CASE Heartbeat > 0
      <3>1. Timer \in Messages
        BY <2>1, Constants DEF Timer, Messages, DueTimes, Periods
      <3>2. queue = <<Timer>>
        BY <2>1 DEF Init
      <3> QED
        BY <2>1, <3>1, <3>2
    <2>2. CASE ~(Heartbeat > 0)
      BY <2>2 DEF Init
    <2> QED
      BY <2>1, <2>2
  <1>5. Order
    BY <1>3, <1>4 DEF Order, Sorted, PostedInOrder, BatchFirst
  <1>6. Timer.no = 0 /\ Timer.id = 1 /\ Nothing.no = -1 /\ Nothing.due = 0
    BY DEF Timer, Nothing
  <1>7. Apart
    <2>1. Distinct(queue) /\ Distinct(msgsToDeliverNow)
      BY <1>3, <1>4 DEF Distinct
    <2>2. Disjoint(queue, <<current>>)
      BY <1>3, <1>4, <1>6 DEF Disjoint
    <2>3. Disjoint(msgsToDeliverNow, queue) /\ Disjoint(msgsToDeliverNow, <<current>>)
      BY <1>3 DEF Disjoint
    <2> QED
      BY <2>1, <2>2, <2>3 DEF Apart
  <1>8. Batch
    BY <1>3, <1>6, Constants DEF Batch
  <1>9. lastMessageID = FirstID
    BY DEF Init, FirstID
  <1>10. Numbers
    BY <1>1, <1>2, <1>3, <1>9, Constants DEF Numbers
  <1>11. TypeOK
    <2>1. /\ posting \in [Threads -> {"no", "insert", "signal"}]
          /\ number \in [Threads -> 0 .. MaxPosts + 1]
      BY Constants DEF Init
    <2>2. /\ running = TRUE /\ cancelCurrent = FALSE /\ stopper = "no"
          /\ waitTimeout \in 0 .. Longest
      BY Constants DEF Init
    <2>3. lastMessageID \in 1 .. MaxPosts + 2 /\ posted \in 0 .. MaxPosts
      BY <1>3, <1>9, Constants
    <2>4. msgsToDeliverNow \in Seq(Messages)
      BY <1>3
    <2> QED
      BY <1>3, <1>4, <2>1, <2>2, <2>3, <2>4 DEF TypeOK
  <1>12. AllPosted
    BY <1>3, <1>4, <1>6 DEF AllPosted, PostedBy
  <1> QED
    BY <1>5, <1>7, <1>8, <1>10, <1>11, <1>12 DEF Inv

\* Every step keeps the invariant.
LEMMA NextInv ==
  ASSUME Inv, [Next]_vars
  PROVE  Inv'
  <1>1. ASSUME NEW t \in Threads, PostNumber(t) \/ PostInsert(t) \/ PostSignal(t) \/ Cancel(t)
        PROVE  Inv'
    BY <1>1, PostNumberInv, PostInsertInv, PostSignalInv, CancelInv
  <1>2. CASE CancelSelf \/ Stop \/ StopSignal \/ Join \/ WakeSpuriously
    BY <1>2, StillSteps
  <1>3. CASE Run
    BY <1>3, CheckInv, StillSteps, CollectInv, CallInv, ReturnInv, AllDeliveredInv DEF Run
  <1>4. CASE Tick
    BY <1>4, TickInv
  <1>5. CASE UNCHANGED vars
    <2>1. UNCHANGED <<queue, running, loop, posts, stopper, cancelled>>
      BY <1>5 DEF vars
    <2>2. TypeOK' /\ pc' = pc
      BY <2>1 DEF Inv, TypeOK, loop, posts
    <2> QED
      BY <2>1, <2>2, StillPosts DEF loop
  <1> QED
    BY <1>1, <1>2, <1>3, <1>4, <1>5 DEF Next

-------------------------------------------------------------------------------
(* What follows for every execution                                            *)

\* Messages are where the code looks for them: the queue is in order, what is collected
\* is due, and no message is in two places.
THEOREM Invariance == Spec => []Inv
  <1>1. Init => Inv
    BY InitInv
  <1>2. Inv /\ [Next]_vars => Inv'
    BY NextInv
  <1> QED
    BY <1>1, <1>2, PTL DEF Spec

\* The ids Post() gives out and the times of the queue stay in their ranges, for any
\* number of threads inside Post() at once.
THEOREM TypeCorrect == Spec => []TypeOK
  <1>1. Inv => TypeOK
    BY DEF Inv
  <1> QED
    BY <1>1, Invariance, PTL

\* The invariant implies the order.
LEMMA InOrder ==
  ASSUME Inv
  PROVE  DueInOrder
  <1> DEFINE all == msgsToDeliverNow \o queue
             n == Len(msgsToDeliverNow)
  <1>1. /\ Len(all) = n + Len(queue) /\ all \in Seq(Messages)
        /\ \A i \in 1 .. n + Len(queue) :
             all[i] = IF i <= n THEN msgsToDeliverNow[i] ELSE queue[i - n]
    BY SequenceFacts, ConcatProperties
  <1>2. DOMAIN all = 1 .. n + Len(queue) /\ DOMAIN queue = 1 .. Len(queue)
    <2> HIDE DEF all
    <2> QED
      BY <1>1, SequenceFacts, LenProperties
  <1>3. n \in Nat /\ Len(queue) \in Nat
    BY SequenceFacts
  <1> HIDE DEF all, n
  <1>4. ASSUME NEW i \in DOMAIN all, NEW j \in DOMAIN all, i < j,
               all[i].due = Immediate, all[j].due = Immediate
        PROVE  all[i].no < all[j].no
    <2>1. CASE j <= n
      <3>1. i \in 1 .. n /\ j \in 1 .. n /\ all[i] = msgsToDeliverNow[i]
            /\ all[j] = msgsToDeliverNow[j]
        BY <1>1, <1>2, <1>3, <1>4, <2>1
      <3> QED
        BY <1>4, <3>1 DEF Inv, Order, PostedInOrder, n
    <2>2. CASE i <= n /\ j > n
      <3>1. i \in 1 .. n /\ j - n \in 1 .. Len(queue) /\ all[i] = msgsToDeliverNow[i]
            /\ all[j] = queue[j - n]
        BY <1>1, <1>2, <1>3, <1>4, <2>2
      <3> QED
        BY <1>4, <3>1 DEF Inv, Order, BatchFirst, n
    <2>3. CASE i > n
      <3>1. i - n \in 1 .. Len(queue) /\ j - n \in 1 .. Len(queue) /\ i - n < j - n
            /\ all[i] = queue[i - n] /\ all[j] = queue[j - n]
        BY <1>1, <1>2, <1>3, <1>4, <2>3
      <3> QED
        BY <1>4, <3>1 DEF Inv, Order, PostedInOrder
    <2> QED
      BY <1>2, <1>3, <1>4, <2>1, <2>2, <2>3
  <1>5. \A i, j \in DOMAIN queue : i < j => queue[i].due <= queue[j].due
    BY <1>2 DEF Inv, Order, Sorted
  <1> QED
    BY <1>4, <1>5 DEF DueInOrder, all

(***************************************************************************)
(* A message is in one place: a timer that is being called is not queued   *)
(* as well, and one taken out of the queue by Cancel() does not come back. *)
(***************************************************************************)
NeverTwice ==
  LET all == msgsToDeliverNow \o queue \o <<current>>
  IN  /\ \A i, j \in DOMAIN all : all[i].no = all[j].no => i = j
      /\ \A i \in DOMAIN all : all[i].no \notin cancelled

\* The invariant implies that no message is in two places.
LEMMA Once ==
  ASSUME Inv
  PROVE  NeverTwice
  <1> DEFINE front == msgsToDeliverNow \o queue
             all == front \o <<current>>
             n == Len(msgsToDeliverNow)
             l == n + Len(queue)
             Entries == Messages \cup {Nothing}
  <1>1. n \in Nat /\ Len(queue) \in Nat /\ l \in Nat
    BY SequenceFacts
  <1>2. /\ Len(front) = l /\ front \in Seq(Messages)
        /\ \A i \in 1 .. l : front[i] = IF i <= n THEN msgsToDeliverNow[i] ELSE queue[i - n]
    BY SequenceFacts, ConcatProperties
  <1>3. \A i \in 1 .. l : front[i] \in Messages
    <2> HIDE DEF front, l, n
    <2> QED
      BY <1>2, ElementOfSeq
  <1> HIDE DEF front
  <1>4. front \in Seq(Entries) /\ <<current>> \in Seq(Entries) /\ Len(<<current>>) = 1
    <2>1. DOMAIN front = 1 .. l /\ front = [i \in 1 .. l |-> front[i]]
      <3> HIDE DEF l
      <3> QED
        BY <1>2, LenProperties
    <2>2. \A i \in 1 .. l : front[i] \in Entries
      BY <1>3
    <2>3. current \in Entries
      BY DEF Inv, TypeOK
    <2> HIDE DEF l, Entries
    <2>4. front \in Seq(Entries)
      BY <1>1, <2>1, <2>2, IsASeq
    <2> QED
      BY <2>3, <2>4
  <1>5. /\ Len(all) = l + 1 /\ all \in Seq(Entries)
        /\ \A i \in 1 .. l + 1 : all[i] = IF i <= l THEN front[i] ELSE <<current>>[i - l]
    <2> HIDE DEF l, Entries
    <2> QED
      BY <1>2, <1>4, ConcatProperties
  <1>6. DOMAIN all = 1 .. l + 1
    <2> HIDE DEF all, l, Entries
    <2> QED
      BY <1>5, LenProperties
  <1> HIDE DEF all, n, Entries
  <1>7. ASSUME NEW i \in DOMAIN all
        PROVE  \/ i \in 1 .. n /\ all[i] = msgsToDeliverNow[i]
               \/ i > n /\ i - n \in 1 .. Len(queue) /\ all[i] = queue[i - n]
               \/ i = l + 1 /\ all[i] = current
    <2>1. i \in 1 .. l + 1
      BY <1>6
    <2>2. CASE i <= n
      BY <1>1, <1>2, <1>5, <2>1, <2>2
    <2>3. CASE i > n /\ i <= l
      BY <1>1, <1>2, <1>5, <2>1, <2>3
    <2>4. CASE i = l + 1
      <3>1. i - l = 1 /\ ~(i <= l)
        BY <1>1, <2>4
      <3>2. all[i] = <<current>>[1]
        BY <1>5, <2>1, <3>1
      <3> QED
        BY <2>4, <3>2
    <2> QED
      BY <1>1, <2>1, <2>2, <2>3, <2>4
  <1> DEFINE InBatch(i) == i \in 1 .. n /\ all[i] = msgsToDeliverNow[i]
             InQueue(i) == i > n /\ i - n \in 1 .. Len(queue) /\ all[i] = queue[i - n]
             Called(i) == i = l + 1 /\ all[i] = current
  <1>8. \A i \in DOMAIN all : i \in Int /\ (InBatch(i) \/ InQueue(i) \/ Called(i))
    BY <1>6, <1>7
  <1>9. /\ \A i \in 1 .. Len(queue) : queue[i].no # current.no
        /\ \A i \in 1 .. n : msgsToDeliverNow[i].no # current.no
    BY DEF Inv, Apart, Disjoint, n
  <1>10. ASSUME NEW i \in DOMAIN all, NEW j \in DOMAIN all, all[i].no = all[j].no
         PROVE  i = j
    <2>1. CASE InBatch(i) /\ InBatch(j)
      BY <1>10, <2>1 DEF Inv, Apart, Distinct, n
    <2>2. CASE InQueue(i) /\ InQueue(j)
      <3>1. i - n = j - n
        BY <1>10, <2>2 DEF Inv, Apart, Distinct
      <3> QED
        BY <1>1, <1>8, <3>1
    <2>3. CASE (InBatch(i) /\ InQueue(j)) \/ (InQueue(i) /\ InBatch(j))
      BY <1>10, <2>3 DEF Inv, Apart, Disjoint, n
    <2>4. CASE Called(i) /\ Called(j)
      BY <2>4
    <2>5. CASE Called(i) /\ (InBatch(j) \/ InQueue(j))
      <3>1. current.no = all[j].no
        BY <1>10, <2>5
      <3> QED
        BY <1>9, <2>5, <3>1
    <2>6. CASE Called(j) /\ (InBatch(i) \/ InQueue(i))
      <3>1. current.no = all[i].no
        BY <1>10, <2>6
      <3> QED
        BY <1>9, <2>6, <3>1
    <2> HIDE DEF InBatch, InQueue, Called
    <2> QED
      BY <1>8, <2>1, <2>2, <2>3, <2>4, <2>5, <2>6
  <1>11. ASSUME NEW i \in DOMAIN all
         PROVE  all[i].no \notin cancelled
    <2>1. CASE InBatch(i)
      BY <2>1 DEF Inv, AllPosted, PostedBy, n
    <2>2. CASE InQueue(i)
      BY <2>2 DEF Inv, AllPosted, PostedBy
    <2>3. CASE Called(i)
      <3>1. CASE current = Nothing
        <4>1. -1 \notin cancelled
          BY Constants DEF Inv, TypeOK
        <4> QED
          BY <2>3, <3>1, <4>1 DEF Nothing
      <3>2. CASE current # Nothing
        BY <2>3, <3>2 DEF Inv, AllPosted, PostedBy
      <3> QED
        BY <3>1, <3>2
    <2> HIDE DEF InBatch, InQueue, Called
    <2> QED
      BY <1>8, <2>1, <2>2, <2>3
  <1> QED
    BY <1>10, <1>11 DEF NeverTwice, all, front

\* The loop never sleeps past a message, and functions posted without a delay are called
\* in the order they were posted, however many threads post and whatever comes late.
THEOREM InOrderAlways == Spec => []DueInOrder
  <1>1. Inv => DueInOrder
    BY InOrder
  <1> QED
    BY <1>1, Invariance, PTL

\* No function is called twice for one Post(), and none that Cancel() took out of the
\* queue is called, though two threads may have been given the same id.
THEOREM NeverCalledTwice == Spec => []NeverTwice
  <1>1. Inv => NeverTwice
    BY Once
  <1> QED
    BY <1>1, Invariance, PTL

-------------------------------------------------------------------------------
(* The message queue it implements                                             *)

\* A walk passes by all of its places.
LEMMA WalkIsComplete ==
  ASSUME NEW q \in Seq(Messages), NEW places, Within(q, places),
         NEW walk \in Walks(places), NEW r, r = Along(q, walk)
  PROVE  Range(r) = {q[i] : i \in places}
  <1> DEFINE n == Cardinality(places)
  <1>1. IsFiniteSet(places) /\ n \in Nat
    <2>1. IsFiniteSet(1 .. Len(q))
      BY FS_Interval, LenProperties
    <2> QED
      BY <2>1, FS_Subset, FS_CardinalityType DEF Within
  <1>2. /\ walk \in [1 .. n -> places]
        /\ \A i, j \in 1 .. n : i < j => walk[i] < walk[j]
    BY DEF Walks
  <1>3. Cardinality(1 .. n) = n
    <2> HIDE DEF n
    <2>1. n \in Int /\ 1 \in Int
      BY <1>1
    <2>2. Cardinality(1 .. n) = IF 1 > n THEN 0 ELSE n - 1 + 1
      BY <2>1, FS_Interval
    <2> QED
      BY <1>1, <2>2
  <1>4. walk \in Injection(1 .. n, places)
    <2> HIDE DEF n
    <2>1. ASSUME NEW i \in 1 .. n, NEW j \in 1 .. n, i # j
          PROVE  walk[i] # walk[j]
      <3>1. walk[i] \in Int /\ walk[j] \in Int
        <4>1. walk[i] \in places /\ walk[j] \in places
          BY <1>2
        <4>2. \A k \in 1 .. Len(q) : k \in Int
          BY LenProperties
        <4> QED
          BY <4>1, <4>2 DEF Within
      <3>2. i < j \/ j < i
        BY <1>1, <2>1
      <3> QED
        BY <1>2, <3>1, <3>2
    <2> QED
      BY <1>2, <2>1 DEF Injection, IsInjective
  <1>5. walk \in Surjection(1 .. n, places)
    BY <1>1, <1>3, <1>4, FS_Injection
  <1>6. \A i \in places : \E k \in 1 .. n : walk[k] = i
    BY <1>5 DEF Surjection
  <1> HIDE DEF n
  <1>7. DOMAIN r = 1 .. n /\ \A k \in 1 .. n : r[k] = q[walk[k]] /\ walk[k] \in places
    BY <1>2 DEF Along
  <1> QED
    BY <1>6, <1>7 DEF Range

\* What Post() and a timer insert is added to what was queued.
LEMMA InsertedIsAdded ==
  ASSUME Inv, NEW m \in Messages
  PROVE  Range(Inserted(queue, m)) = Range(queue) \cup {m}
  <1> DEFINE r == Inserted(queue, m)
  <1>1. queue \in Seq(Messages) /\ Sorted(queue)
    BY QueueFacts
  <1>2. PICK p \in 0 .. Len(queue) : Spliced(queue, p, m, r)
    BY <1>1, InsertedIsSpliced
  <1> HIDE DEF r
  <1>3. /\ DOMAIN r = 1 .. Len(r) /\ DOMAIN queue = 1 .. Len(queue) /\ Len(queue) \in Nat
        /\ Len(r) = Len(queue) + 1
    BY <1>1, <1>2, LenProperties DEF Spliced
  <1>4. \A k \in 1 .. Len(r) : r[k] = m \/ \E i \in 1 .. Len(queue) : r[k] = queue[i]
    BY <1>1, <1>2, SplicedKeeps
  <1>5. \E k \in 1 .. Len(r) : r[k] = m
    <2>1. p + 1 \in 1 .. Len(r) /\ r[p + 1] = m
      BY <1>2, <1>3 DEF Spliced
    <2> QED
      BY <2>1
  <1>6. ASSUME NEW i \in 1 .. Len(queue)
        PROVE  \E k \in 1 .. Len(r) : r[k] = queue[i]
    <2>1. CASE i <= p
      <3>1. i \in 1 .. p /\ i \in 1 .. Len(r)
        BY <1>3, <2>1
      <3> QED
        BY <1>2, <3>1 DEF Spliced
    <2>2. CASE i > p
      <3>1. i \in p + 1 .. Len(queue) /\ i + 1 \in 1 .. Len(r)
        BY <1>3, <2>2
      <3>2. r[i + 1] = queue[i]
        BY <1>2, <3>1 DEF Spliced
      <3> QED
        BY <3>1, <3>2
    <2> QED
      BY <1>3, <2>1, <2>2
  <1> QED
    <2>1. Range(r) = {r[k] : k \in 1 .. Len(r)} /\ Range(queue) = {queue[i] : i \in 1 .. Len(queue)}
      BY <1>3 DEF Range
    <2>2. Range(r) \subseteq Range(queue) \cup {m}
      BY <1>4, <2>1
    <2>3. Range(queue) \cup {m} \subseteq Range(r)
      BY <1>5, <1>6, <2>1
    <2>4. Range(r) = Range(queue) \cup {m}
      BY <2>2, <2>3
    <2> QED
      BY <2>4 DEF r

\* Queue and batch as sets.
LEMMA RangeFacts ==
  ASSUME Inv
  PROVE  /\ Range(queue) = {queue[i] : i \in 1 .. Len(queue)}
         /\ Range(msgsToDeliverNow) =
              {msgsToDeliverNow[i] : i \in 1 .. Len(msgsToDeliverNow)}
         /\ DOMAIN queue = 1 .. Len(queue)
         /\ Range(queue) \subseteq Messages /\ Range(msgsToDeliverNow) \subseteq Messages
  <1>1. DOMAIN queue = 1 .. Len(queue) /\ DOMAIN msgsToDeliverNow = 1 .. Len(msgsToDeliverNow)
    BY SequenceFacts, LenProperties
  <1> QED
    BY <1>1, SequenceFacts DEF Range

\* Whoever posted two messages knows them by their numbers.
LEMMA PromisesApart ==
  ASSUME Inv, NEW x \in Range(msgsToDeliverNow) \cup Range(queue),
         NEW y \in Range(msgsToDeliverNow) \cup Range(queue), Promise(x) = Promise(y)
  PROVE  x = y
  <1>1. x.no = y.no
    BY DEF Promise
  <1>2. CASE x \in Range(queue) /\ y \in Range(queue)
    BY <1>1, <1>2, RangeFacts DEF Inv, Apart, Distinct
  <1>3. CASE x \in Range(msgsToDeliverNow) /\ y \in Range(msgsToDeliverNow)
    BY <1>1, <1>3, RangeFacts DEF Inv, Apart, Distinct
  <1>4. ASSUME NEW u \in Range(msgsToDeliverNow), NEW v \in Range(queue), u.no = v.no
        PROVE  FALSE
    BY <1>4, RangeFacts DEF Inv, Apart, Disjoint
  <1> QED
    BY <1>1, <1>2, <1>3, <1>4

\* Post() adds a message with the next number.
LEMMA PostRefines ==
  ASSUME Inv, NEW t \in Threads, PostInsert(t)
  PROVE  Promised!Post
  <1>1. PICK m \in Messages :
          m.no = posted + 1 /\ m.id = number[t] /\ queue' = Inserted(queue, m)
    BY PostedMessage
  <1>2. posted' = posted + 1 /\ UNCHANGED <<msgsToDeliverNow, current, cancelled>>
    BY DEF PostInsert, loop
  <1>3. Range(queue') = Range(queue) \cup {m}
    BY <1>1, InsertedIsAdded
  <1>4. Pending' = Pending \cup {Promise(m)}
    BY <1>2, <1>3 DEF Pending
  <1>5. Calling' = Calling
    BY <1>2 DEF Calling
  <1>6. Promise(m) = [no |-> posted', periodic |-> m.every > 0, prompt |-> m.due = Immediate]
    BY <1>1, <1>2 DEF Promise
  <1>7. (m.every > 0) \in BOOLEAN /\ (m.due = Immediate) \in BOOLEAN
    OBVIOUS
  <1> QED
    BY <1>2, <1>4, <1>5, <1>6, <1>7 DEF Promised!Post

\* Cancel() takes away what it counts as cancelled, and nothing else.
LEMMA CancelRefines ==
  ASSUME Inv, NEW t \in Threads, Cancel(t)
  PROVE  Promised!Cancel
  <1>1. PICK id \in {m.id : m \in {n \in Range(queue) : n.no # 0}} :
          \E kept \in Walks({i \in DOMAIN queue : queue[i].id # id}) :
            /\ queue' = Along(queue, kept)
            /\ cancelled' = cancelled \cup {m.no : m \in {n \in Range(queue) : n.id = id}}
    BY Zenon DEF Cancel
  <1> DEFINE places == {i \in DOMAIN queue : queue[i].id # id}
             taken == {n \in Range(queue) : n.id = id}
             gone == {Promise(m) : m \in taken}
  <1>2. PICK kept \in Walks(places) : queue' = Along(queue, kept)
    BY <1>1
  <1>3. cancelled' = cancelled \cup {m.no : m \in taken}
    BY <1>1
  <1>4. UNCHANGED <<msgsToDeliverNow, current, posted>>
    BY DEF Cancel, loop, posts
  <1>5. Range(queue') = Range(queue) \ taken
    <2>1. Within(queue, places) /\ queue \in Seq(Messages)
      BY RangeFacts, SequenceFacts DEF Within
    <2>2. Range(queue') = {queue[i] : i \in places}
      BY <1>2, <2>1, WalkIsComplete
    <2> QED
      BY <2>2, RangeFacts
  <1>6. taken \subseteq Range(queue)
    OBVIOUS
  <1> HIDE DEF places, taken
  <1>7. gone \subseteq Pending
    BY <1>6 DEF Pending
  <1>8. Pending' = Pending \ gone
    <2> DEFINE all == Range(msgsToDeliverNow) \cup Range(queue)
               left == Range(msgsToDeliverNow) \cup Range(queue')
    <2>1. left = all \ taken
      <3>1. ASSUME NEW x \in Range(msgsToDeliverNow)
            PROVE  x \notin taken
        BY <1>6, RangeFacts DEF Inv, Apart, Disjoint
      <3> QED
        BY <1>5, <1>6, <3>1
    <2>2. \A x, y \in all : Promise(x) = Promise(y) => x = y
      BY PromisesApart
    <2>3. Pending = {Promise(m) : m \in all} /\ Pending' = {Promise(m) : m \in left}
      BY <1>4 DEF Pending
    <2>4. taken \subseteq all
      BY <1>6
    <2> HIDE DEF all, left
    <2> QED
      BY <2>1, <2>2, <2>3, <2>4
  <1>9. {p.no : p \in gone} = {m.no : m \in taken}
    <2>1. \A m : Promise(m).no = m.no
      BY DEF Promise
    <2> QED
      BY <2>1
  <1>10. Calling' = Calling
    BY <1>4 DEF Calling
  <1> HIDE DEF gone
  <1>11. gone \in SUBSET Pending /\ cancelled' = cancelled \cup {p.no : p \in gone}
    BY <1>3, <1>7, <1>9
  <1> QED
    BY <1>4, <1>8, <1>10, <1>11 DEF Promised!Cancel

\* The batch and what stays queued are together what was queued.
LEMMA CollectRefines ==
  ASSUME Inv, Collect
  PROVE  Pending' = Pending
  <1>1. \/ UNCHANGED <<queue, msgsToDeliverNow>>
        \/ \E now   \in Walks({i \in DOMAIN queue : queue[i].due <= 0}),
              later \in Walks({i \in DOMAIN queue : queue[i].due > 0}) :
             msgsToDeliverNow' = Along(queue, now) /\ queue' = Along(queue, later)
    BY Zenon DEF Collect
  <1>2. CASE UNCHANGED <<queue, msgsToDeliverNow>>
    BY <1>2 DEF Pending
  <1>3. ASSUME NEW now \in Walks({i \in DOMAIN queue : queue[i].due <= 0}),
               NEW later \in Walks({i \in DOMAIN queue : queue[i].due > 0}),
               msgsToDeliverNow' = Along(queue, now), queue' = Along(queue, later)
        PROVE  Pending' = Pending
    <2> DEFINE soon == {i \in DOMAIN queue : queue[i].due <= 0}
               then == {i \in DOMAIN queue : queue[i].due > 0}
    <2>1. queue \in Seq(Messages) /\ Within(queue, soon) /\ Within(queue, then)
      BY RangeFacts, SequenceFacts DEF Within
    <2>2. \A i \in 1 .. Len(queue) : i \in soon \/ i \in then
      <3> SUFFICES ASSUME NEW i \in 1 .. Len(queue)
                   PROVE  i \in soon \/ i \in then
        OBVIOUS
      <3>1. queue[i].due \in Int /\ i \in DOMAIN queue
        BY RangeFacts, SequenceFacts, MessageFields
      <3> QED
        BY <3>1
    <2>3. now \in Walks(soon) /\ later \in Walks(then)
      BY <1>3
    <2> HIDE DEF soon, then
    <2>4. Range(msgsToDeliverNow') = {queue[i] : i \in soon}
      BY <1>3, <2>1, <2>3, WalkIsComplete
    <2>5. Range(queue') = {queue[i] : i \in then}
      BY <1>3, <2>1, <2>3, WalkIsComplete
    <2>6. Range(msgsToDeliverNow') \cup Range(queue') = Range(queue)
      BY <2>1, <2>2, <2>4, <2>5, RangeFacts DEF Within
    <2>7. Range(msgsToDeliverNow) = {}
      <3>1. msgsToDeliverNow = <<>>
        BY DEF Collect, Inv, Batch
      <3> QED
        BY <3>1, EmptySeq DEF Range
    <2> QED
      BY <2>6, <2>7 DEF Pending
  <1> QED
    BY <1>1, <1>2, <1>3

\* What is called is no longer prompt.
LEMMA NoLongerPrompt ==
  ASSUME NEW no, NEW periodic, NEW prompt,
         NEW p, p = [no |-> no, periodic |-> periodic, prompt |-> prompt]
  PROVE  [p EXCEPT !.prompt = FALSE] = [no |-> no, periodic |-> periodic, prompt |-> FALSE]
  <1> DEFINE changed == FALSE
  <1> HIDE DEF changed
  <1>1. [p EXCEPT !.prompt = changed] = [no |-> no, periodic |-> periodic, prompt |-> changed]
    OBVIOUS
  <1> QED
    BY <1>1, Zenon DEF changed

\* The first of the batch is called: of those without a delay it was posted first.
LEMMA CallRefines ==
  ASSUME Inv, Call
  PROVE  \E p \in Pending : Promised!Call(p)
  <1> DEFINE m == Head(msgsToDeliverNow)
             rest == Tail(msgsToDeliverNow)
             due == IF m.due = Immediate THEN 0 ELSE m.due
             all == Range(msgsToDeliverNow) \cup Range(queue)
             left == Range(rest) \cup Range(queue)
  <1>1. /\ pc = "deliver" /\ msgsToDeliverNow # <<>> /\ current' = [m EXCEPT !.due = due]
        /\ msgsToDeliverNow' = rest /\ UNCHANGED <<queue, posted, cancelled>>
    BY DEF Call, posts
  <1>2. /\ m \in Messages /\ m = msgsToDeliverNow[1] /\ Len(msgsToDeliverNow) \in Nat \ {0}
        /\ rest \in Seq(Messages) /\ Len(rest) = Len(msgsToDeliverNow) - 1
        /\ \A i \in 1 .. Len(rest) : rest[i] = msgsToDeliverNow[i + 1]
    BY <1>1, SequenceFacts, HeadTailProperties, EmptySeq
  <1>3. due \in DueTimes /\ due # Immediate
    BY <1>2, MessageFields, Constants DEF DueTimes
  <1>4. m \in all
    <2>1. 1 \in 1 .. Len(msgsToDeliverNow)
      BY <1>2
    <2> QED
      BY <1>2, <2>1, RangeFacts
  <1> HIDE DEF m, due, rest
  <1>5. left = all \ {m}
    <2>1. DOMAIN rest = 1 .. Len(rest)
      BY <1>2, LenProperties
    <2>2. Range(rest) = Range(msgsToDeliverNow) \ {m}
      <3>1. ASSUME NEW i \in 1 .. Len(rest)
            PROVE  rest[i] \in Range(msgsToDeliverNow) \ {m}
        <4>1. i + 1 \in 1 .. Len(msgsToDeliverNow) /\ 1 \in 1 .. Len(msgsToDeliverNow) /\ i + 1 # 1
          BY <1>2
        <4>2. msgsToDeliverNow[i + 1].no # msgsToDeliverNow[1].no
          BY <4>1 DEF Inv, Apart, Distinct
        <4> QED
          BY <1>2, <4>1, <4>2, RangeFacts
      <3>2. ASSUME NEW j \in 1 .. Len(msgsToDeliverNow), msgsToDeliverNow[j] # m
            PROVE  \E i \in 1 .. Len(rest) : rest[i] = msgsToDeliverNow[j]
        <4>1. j # 1
          BY <1>2, <3>2
        <4>2. j - 1 \in 1 .. Len(rest) /\ (j - 1) + 1 = j
          BY <1>2, <4>1
        <4>3. rest[j - 1] = msgsToDeliverNow[(j - 1) + 1]
          BY <1>2, <4>2
        <4> QED
          BY <4>2, <4>3
      <3>3. Range(rest) = {rest[i] : i \in 1 .. Len(rest)}
        BY <2>1 DEF Range
      <3> QED
        BY <3>1, <3>2, <3>3, RangeFacts
    <2>3. m \notin Range(queue)
      <3>1. \A i \in 1 .. Len(queue) : m.no # queue[i].no
        <4>1. 1 \in 1 .. Len(msgsToDeliverNow)
          BY <1>2
        <4> QED
          BY <1>2, <4>1 DEF Inv, Apart, Disjoint
      <3> QED
        BY <3>1, RangeFacts
    <2> QED
      BY <2>2, <2>3
  <1>6. Pending = {Promise(x) : x \in all} /\ Pending' = {Promise(x) : x \in left}
    BY <1>1 DEF Pending
  <1>7. \A x, y \in all : Promise(x) = Promise(y) => x = y
    BY PromisesApart
  <1>8. ASSUME NEW x \in all, m.due = Immediate, x.due = Immediate
        PROVE  m.no <= x.no
    <2>1. ASSUME NEW i \in 1 .. Len(msgsToDeliverNow), x = msgsToDeliverNow[i]
          PROVE  m.no <= x.no
      <3>1. m.no \in Nat
        BY <1>2, MessageFields
      <3>2. 1 \in 1 .. Len(msgsToDeliverNow) /\ (i = 1 \/ 1 < i)
        BY <1>2
      <3>3. CASE i = 1
        BY <1>2, <2>1, <3>1, <3>3
      <3>4. CASE 1 < i
        <4>1. m.no < x.no
          BY <1>2, <1>8, <2>1, <3>2, <3>4 DEF Inv, Order, PostedInOrder
        <4>2. x.no \in Nat
          BY <2>1, SequenceFacts
        <4> QED
          BY <3>1, <4>1, <4>2
      <3> QED
        BY <3>2, <3>3, <3>4
    <2>2. ASSUME NEW j \in 1 .. Len(queue), x = queue[j]
          PROVE  m.no <= x.no
      <3>1. 1 \in 1 .. Len(msgsToDeliverNow)
        BY <1>2
      <3>2. m.no < x.no
        BY <1>2, <1>8, <2>2, <3>1 DEF Inv, Order, BatchFirst
      <3>3. m.no \in Nat /\ x.no \in Nat
        BY <1>2, <2>2, SequenceFacts, MessageFields
      <3> QED
        BY <3>2, <3>3
    <2> QED
      BY <2>1, <2>2, RangeFacts
  <1> HIDE DEF all, left
  <1> DEFINE p == Promise(m)
  <1>9. p \in Pending
    BY <1>4, <1>6
  <1>10. Pending' = Pending \ {p}
    BY <1>4, <1>5, <1>6, <1>7
  <1>11. p.prompt => \A n \in Pending : n.prompt => p.no <= n.no
    <2>1. \A x : Promise(x).prompt <=> x.due = Immediate
      BY DEF Promise
    <2>2. \A x : Promise(x).no = x.no
      BY DEF Promise
    <2> QED
      BY <1>6, <1>8, <2>1, <2>2
  <1>12. Calling = {}
    BY <1>1 DEF Inv, TypeOK, Calling
  <1>13. Calling' = {[p EXCEPT !.prompt = FALSE]}
    <2>1. /\ current' \in Messages /\ current'.due = due
          /\ current'.no = m.no /\ current'.every = m.every
      BY <1>1, <1>2, <1>3, DueAt
    <2>2. current' # Nothing
      BY <2>1, MessageFields
    <2>3. Promise(current') = [no |-> m.no, periodic |-> m.every > 0, prompt |-> FALSE]
      BY <1>3, <2>1 DEF Promise
    <2>4. [p EXCEPT !.prompt = FALSE] = [no |-> m.no, periodic |-> m.every > 0, prompt |-> FALSE]
      <3> DEFINE periodic == m.every > 0
                 prompt == m.due = Immediate
      <3>1. p = [no |-> m.no, periodic |-> periodic, prompt |-> prompt]
        BY DEF Promise
      <3> HIDE DEF p, periodic, prompt
      <3>2. [p EXCEPT !.prompt = FALSE] = [no |-> m.no, periodic |-> periodic, prompt |-> FALSE]
        BY <3>1, NoLongerPrompt, Zenon
      <3> QED
        BY <3>2 DEF periodic
    <2> HIDE DEF p
    <2>5. Calling' = {Promise(current')}
      BY <2>2 DEF Calling
    <2> QED
      BY <2>3, <2>4, <2>5
  <1> HIDE DEF p
  <1>14. Promised!Call(p)
    BY <1>1, <1>10, <1>11, <1>12, <1>13 DEF Promised!Call
  <1> QED
    BY <1>9, <1>14

\* A periodic message is pending again, and still what was posted.
LEMMA ReturnRefines ==
  ASSUME Inv, Return
  PROVE  Promised!Return
  <1> DEFINE due == current.due + current.every
             m == [current EXCEPT !.due = due]
  <1>1. /\ pc = "calling" /\ current' = Nothing
        /\ UNCHANGED <<msgsToDeliverNow, posted, cancelled>>
        /\ queue' = queue \/ (current.every > 0 /\ queue' = Inserted(queue, m))
    BY DEF Return, posts
  <1>2. /\ current # Nothing /\ current \in Messages
        /\ current.due <= 0 /\ current.due # Immediate
    BY <1>1 DEF Inv, TypeOK, Batch
  <1>3. due \in DueTimes /\ due # Immediate
    <2>1. /\ current.due \in Int /\ current.due >= -MaxLate
          /\ current.every \in Nat /\ current.every <= Longest
      BY <1>2, MessageFields
    <2> QED
      BY <1>2, <2>1, Constants DEF DueTimes
  <1> HIDE DEF due
  <1>4. /\ m \in Messages /\ m.due = due /\ m.no = current.no /\ m.every = current.every
    BY <1>2, <1>3, DueAt
  <1> HIDE DEF m
  <1>5. Promise(m) = Promise(current)
    BY <1>2, <1>3, <1>4 DEF Promise
  <1>6. Calling = {Promise(current)} /\ Calling' = {}
    BY <1>1, <1>2 DEF Calling
  <1>7. CASE queue' = queue
    <2>1. Pending' = Pending
      BY <1>1, <1>7 DEF Pending
    <2> QED
      BY <1>1, <1>6, <2>1 DEF Promised!Return
  <1>8. CASE current.every > 0 /\ queue' = Inserted(queue, m)
    <2>1. Range(queue') = Range(queue) \cup {m}
      BY <1>4, <1>8, InsertedIsAdded
    <2>2. Pending' = Pending \cup {Promise(m)}
      BY <1>1, <2>1 DEF Pending
    <2>3. Pending' = Pending \cup Calling
      BY <1>5, <1>6, <2>2
    <2>4. \A n \in Calling : n.periodic
      <3>1. Promise(current).periodic <=> current.every > 0
        BY DEF Promise
      <3> QED
        BY <1>6, <1>8, <3>1
    <2> QED
      BY <1>1, <1>6, <2>3, <2>4 DEF Promised!Return
  <1> QED
    BY <1>1, <1>7, <1>8

\* The clock changes nothing that was promised.
LEMMA TickRefines ==
  ASSUME Inv, Tick
  PROVE  UNCHANGED Promised!vars
  <1>1. /\ queue' = [i \in DOMAIN queue |-> Aged(queue[i])]
        /\ msgsToDeliverNow' = [i \in DOMAIN msgsToDeliverNow |-> Aged(msgsToDeliverNow[i])]
        /\ current' = IF current = Nothing THEN current ELSE Aged(current)
        /\ UNCHANGED <<posted, cancelled>>
    BY DEF Tick, posts
  <1>2. ASSUME NEW x \in Messages
        PROVE  Promise(Aged(x)) = Promise(x)
    BY AgedFacts DEF Promise
  <1> DEFINE all == Range(msgsToDeliverNow) \cup Range(queue)
  <1>3. /\ Range(queue') = {Aged(x) : x \in Range(queue)}
        /\ Range(msgsToDeliverNow') = {Aged(x) : x \in Range(msgsToDeliverNow)}
    BY <1>1 DEF Range
  <1>4. Pending' = {Promise(Aged(x)) : x \in all}
    BY <1>3 DEF Pending
  <1>5. all \subseteq Messages /\ Pending = {Promise(x) : x \in all}
    BY RangeFacts DEF Pending
  <1> HIDE DEF all
  <1>6. Pending' = Pending
    BY <1>2, <1>4, <1>5
  <1>7. Calling' = Calling
    <2>1. CASE current = Nothing
      BY <1>1, <2>1 DEF Calling
    <2>2. CASE current # Nothing
      <3>1. current \in Messages
        BY <2>2 DEF Inv, TypeOK
      <3>2. current' # Nothing /\ Promise(current') = Promise(current)
        BY <1>1, <1>2, <2>2, <3>1, AgedFacts, MessageFields
      <3> QED
        BY <2>2, <3>2 DEF Calling
    <2> QED
      BY <2>1, <2>2
  <1> QED
    BY <1>1, <1>6, <1>7 DEF Promised!vars

\* Every other step leaves it alone.
LEMMA StillRefines ==
  ASSUME UNCHANGED <<queue, msgsToDeliverNow, current, posted, cancelled>>
  PROVE  UNCHANGED Promised!vars
  <1>1. Pending' = Pending
    BY DEF Pending
  <1>2. Calling' = Calling
    BY DEF Calling
  <1> QED
    BY <1>1, <1>2 DEF Promised!vars

\* A step of the thread is one of the queue, or none.
LEMMA StepRefines ==
  ASSUME Inv, [Next]_vars
  PROVE  [Promised!Next]_(Promised!vars)
  <1>1. ASSUME NEW t \in Threads, PostNumber(t) \/ PostInsert(t) \/ PostSignal(t) \/ Cancel(t)
        PROVE  [Promised!Next]_(Promised!vars)
    <2>1. CASE PostNumber(t) \/ PostSignal(t)
      BY <2>1, StillRefines DEF PostNumber, PostSignal, loop
    <2>2. CASE PostInsert(t)
      BY <2>2, PostRefines DEF Promised!Next
    <2>3. CASE Cancel(t)
      BY <2>3, CancelRefines DEF Promised!Next
    <2> QED
      BY <1>1, <2>1, <2>2, <2>3
  <1>2. CASE CancelSelf \/ Stop \/ StopSignal \/ Join \/ WakeSpuriously
    BY <1>2, StillRefines DEF CancelSelf, Stop, StopSignal, Join, WakeSpuriously, loop, posts
  <1>3. CASE Run
    <2>1. CASE Check \/ Sleep \/ TimeOut \/ AllDelivered
      <3>1. UNCHANGED <<queue, msgsToDeliverNow, current, posted, cancelled>>
        BY <2>1 DEF Check, Sleep, TimeOut, AllDelivered, posts
      <3> QED
        BY <3>1, StillRefines
    <2>2. CASE Collect
      <3>1. UNCHANGED <<current, posted, cancelled>>
        BY <2>2 DEF Collect, posts
      <3>2. Pending' = Pending
        BY <2>2, CollectRefines
      <3>3. Calling' = Calling
        BY <3>1 DEF Calling
      <3> QED
        BY <3>1, <3>2, <3>3 DEF Promised!vars
    <2>3. CASE Call
      BY <2>3, CallRefines DEF Promised!Next
    <2>4. CASE Return
      BY <2>4, ReturnRefines DEF Promised!Next
    <2> QED
      BY <1>3, <2>1, <2>2, <2>3, <2>4 DEF Run
  <1>4. CASE Tick
    BY <1>4, TickRefines
  <1>5. CASE UNCHANGED vars
    BY <1>5, StillRefines DEF vars, loop, posts
  <1> QED
    BY <1>1, <1>2, <1>3, <1>4, <1>5 DEF Next

\* At first the timer is pending, if there is one.
LEMMA InitRefines ==
  ASSUME Init
  PROVE  Promised!Init
  <1>1. /\ posted = 0 /\ cancelled = {} /\ current = Nothing /\ msgsToDeliverNow = <<>>
        /\ queue = IF Heartbeat > 0 THEN <<Timer>> ELSE <<>>
    BY DEF Init
  <1>2. Range(<<>>) = {}
    BY EmptySeq DEF Range
  <1>3. Range(<<Timer>>) = {Timer}
    BY DEF Range
  <1>4. Heartbeat > 0 => Promise(Timer) = [no |-> 0, periodic |-> TRUE, prompt |-> FALSE]
    <2> SUFFICES ASSUME Heartbeat > 0
                 PROVE  Promise(Timer) = [no |-> 0, periodic |-> TRUE, prompt |-> FALSE]
      OBVIOUS
    <2>1. Timer.no = 0 /\ Timer.every = Heartbeat /\ Timer.due = Heartbeat
      BY DEF Timer
    <2>2. (Timer.every > 0) = TRUE /\ (Timer.due = Immediate) = FALSE
      BY <2>1, Constants
    <2> QED
      BY <2>1, <2>2, Zenon DEF Promise
  <1>5. Range(queue) = {} \/ (Heartbeat > 0 /\ Range(queue) = {Timer})
    BY <1>1, <1>2, <1>3, Constants
  <1>6. Pending \subseteq {[no |-> 0, periodic |-> TRUE, prompt |-> FALSE]}
    BY <1>1, <1>2, <1>4, <1>5 DEF Pending
  <1>7. Calling = {}
    BY <1>1 DEF Calling
  <1> QED
    BY <1>1, <1>6, <1>7 DEF Promised!Init

(***************************************************************************)
(* The thread implements the message queue, for any threads, delays and    *)
(* intervals and any number of messages: whatever is posted and cancelled  *)
(* while the loop has a batch in hand or a handler runs, nothing gets lost *)
(* or is called that is done with, and what was posted without a delay is  *)
(* called in the order of posting.                                         *)
(***************************************************************************)
THEOREM ThreadImplementsQueue == Spec => KeepsItsPromises
  <1>1. Init => Promised!Init
    BY InitRefines
  <1>2. Inv /\ [Next]_vars => [Promised!Next]_(Promised!vars)
    BY StepRefines
  <1> QED
    BY <1>1, <1>2, Invariance, PTL DEF Spec, KeepsItsPromises, Promised!Spec
===============================================================================
