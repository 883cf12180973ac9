--------------------------- MODULE EventBus_proofs ---------------------------
(***************************************************************************)
(* Proofs about EventBus for every set of subscriptions, every capacity    *)
(* and every classification of events: its channels keep their bound, it   *)
(* implements EventDelivery, dropped_events is an exact count, and close() *)
(* leaves no drain task behind.                                            *)
(*                                                                         *)
(* None is inductive alone.  That a channel is over its capacity only with *)
(* terminal events is what leaves room after an eviction; that it is       *)
(* sorted by event number is what makes its head the next to deliver; that *)
(* what waits in it was offered and not taken makes an eviction one loss;  *)
(* that close() walks every task that it found is what makes it quiet.     *)
(***************************************************************************)
EXTENDS EventBus, FiniteSetTheorems, WellFoundedInduction, TLAPS

Ascending(queue) == \A i, j \in 1..Len(queue) : i < j => queue[i] < queue[j]
Sorted == \A s \in Sub : Ascending(buf[s])

IInv == TypeOK /\ Sorted /\ ChannelBounded

-----------------------------------------------------------------------------
(* Channels *)

\* What is left of a queue without its i-th event.
LEMMA RemoveAtProperties ==
  ASSUME NEW S, NEW queue \in Seq(S), NEW i \in 1..Len(queue)
  PROVE  /\ RemoveAt(queue, i) \in Seq(S)
         /\ Len(RemoveAt(queue, i)) = Len(queue) - 1
         /\ \A j \in 1..Len(queue) - 1 :
              RemoveAt(queue, i)[j] = IF j < i THEN queue[j] ELSE queue[j + 1]
<1>1. /\ SubSeq(queue, 1, i - 1) \in Seq(S) /\ Len(SubSeq(queue, 1, i - 1)) = i - 1
      /\ SubSeq(queue, i + 1, Len(queue)) \in Seq(S)
      /\ Len(SubSeq(queue, i + 1, Len(queue))) = Len(queue) - i
  OBVIOUS
<1>2. \A j \in 1..i - 1 : SubSeq(queue, 1, i - 1)[j] = queue[j]
  OBVIOUS
<1>3. \A j \in 1..Len(queue) - i : SubSeq(queue, i + 1, Len(queue))[j] = queue[j + i]
  OBVIOUS
<1>. DEFINE front == SubSeq(queue, 1, i - 1)
            back == SubSeq(queue, i + 1, Len(queue))
<1>. HIDE DEF front, back
<1>. Len(queue) \in Nat /\ i \in Nat
  OBVIOUS
<1>4. front \in Seq(S) /\ Len(front) = i - 1 /\ back \in Seq(S) /\ Len(back) = Len(queue) - i
  BY <1>1 DEF front, back
<1>5. /\ front \o back \in Seq(S) /\ Len(front \o back) = Len(queue) - 1
      /\ \A j \in 1..Len(queue) - 1 :
           /\ j < i => (front \o back)[j] = front[j]
           /\ j >= i => (front \o back)[j] = back[j - (i - 1)]
  BY <1>4
<1>6. ASSUME NEW j \in 1..Len(queue) - 1
      PROVE  (front \o back)[j] = IF j < i THEN queue[j] ELSE queue[j + 1]
  <2>1. CASE j < i
    BY <1>2, <1>5, <2>1 DEF front
  <2>2. CASE j >= i
    <3>1. j - (i - 1) \in 1..Len(queue) - i /\ (j - (i - 1)) + i = j + 1
      BY <2>2
    <3>2. back[j - (i - 1)] = queue[j + 1]
      BY <1>3, <3>1 DEF back
    <3>. QED
      BY <1>5, <2>2, <3>2
  <2>3. j < i \/ j >= i
    OBVIOUS
  <2>. QED
    BY Zenon, <2>1, <2>2, <2>3
<1>. QED
  BY <1>5, <1>6 DEF RemoveAt, front, back

\* A queue without its i-th event stays sorted and loses that event only.
LEMMA RemoveAtSorted ==
  ASSUME NEW n \in Nat, NEW queue \in Seq(1..n), Ascending(queue), NEW i \in 1..Len(queue)
  PROVE  /\ Ascending(RemoveAt(queue, i))
         /\ Elements(RemoveAt(queue, i)) = Elements(queue) \ {queue[i]}
<1>. DEFINE rest == RemoveAt(queue, i)
<1>1. /\ rest \in Seq(1..n) /\ Len(rest) = Len(queue) - 1
      /\ \A j \in 1..Len(queue) - 1 : rest[j] = IF j < i THEN queue[j] ELSE queue[j + 1]
  BY RemoveAtProperties
<1>. HIDE DEF rest
<1>. DEFINE from(j) == IF j < i THEN j ELSE j + 1
<1>2. ASSUME NEW j \in 1..Len(rest)
      PROVE  from(j) \in 1..Len(queue) /\ from(j) # i /\ rest[j] = queue[from(j)]
  <2>1. j \in 1..Len(queue) - 1 /\ Len(queue) \in Nat /\ i \in Nat
    BY <1>1
  <2>2. rest[j] = queue[from(j)]
    BY Zenon, <1>1, <2>1
  <2>3. CASE j < i
    <3>1. from(j) = j
      BY <2>3
    <3>. QED
      BY <1>1, <2>1, <2>3, <2>2, <3>1
  <2>4. CASE j >= i
    <3>1. from(j) = j + 1
      BY <2>1, <2>4
    <3>2. j + 1 \in 1..Len(queue) /\ j + 1 # i
      BY <2>1, <2>4
    <3>. QED
      BY Zenon, <2>2, <3>1, <3>2
  <2>5. j < i \/ j >= i
    BY <2>1
  <2>. QED
    BY Zenon, <2>3, <2>4, <2>5
<1>3. \A j, k \in 1..Len(rest) : j < k => from(j) < from(k)
  <2>1. i \in Int /\ \A j \in 1..Len(rest) : j \in Int
    OBVIOUS
  <2>2. ASSUME NEW j \in Int, NEW k \in Int, j < k PROVE from(j) < from(k)
    BY <2>1, <2>2
  <2>. QED
    BY <2>1, <2>2
<1>4. \A j \in 1..Len(queue) : queue[j] \in 1..n
  OBVIOUS
<1>. HIDE DEF from
<1>5. Ascending(rest)
  BY <1>2, <1>3 DEF Ascending
<1>6. ASSUME NEW j \in 1..Len(rest) PROVE rest[j] \in Elements(queue) \ {queue[i]}
  <2>1. from(j) < i \/ from(j) > i
    BY <1>2
  <2>2. queue[from(j)] < queue[i] \/ queue[i] < queue[from(j)]
    BY <1>2, <2>1 DEF Ascending
  <2>3. queue[from(j)] # queue[i]
    BY <1>2, <1>4, <2>2
  <2>. QED
    BY <1>2, <2>3 DEF Elements
<1>7. ASSUME NEW j \in 1..Len(queue), j # i PROVE queue[j] \in Elements(rest)
  <2>1. CASE j < i
    <3>1. j \in 1..Len(rest) /\ rest[j] = queue[j]
      BY <1>1, <2>1
    <3>. QED
      BY <3>1 DEF Elements
  <2>2. CASE j > i
    <3>1. j - 1 \in 1..Len(rest) /\ rest[j - 1] = queue[j]
      BY <1>1, <2>2
    <3>. QED
      BY <3>1 DEF Elements
  <2>. QED
    BY <1>7, <2>1, <2>2
<1>8. Elements(rest) = Elements(queue) \ {queue[i]}
  BY <1>6, <1>7 DEF Elements
<1>. QED
  BY <1>5, <1>8 DEF rest

\* A new event goes to the end.
LEMMA AppendSorted ==
  ASSUME NEW n \in Nat, NEW queue \in Seq(1..n), Ascending(queue)
  PROVE  /\ Append(queue, n + 1) \in Seq(1..n + 1)
         /\ Ascending(Append(queue, n + 1))
         /\ Elements(Append(queue, n + 1)) = Elements(queue) \cup {n + 1}
<1>. DEFINE longer == Append(queue, n + 1)
<1>1. /\ Len(longer) = Len(queue) + 1 /\ longer[Len(queue) + 1] = n + 1
      /\ \A i \in 1..Len(queue) : longer[i] = queue[i] /\ queue[i] \in 1..n
  OBVIOUS
<1>2. longer \in Seq(1..n + 1)
  <2>1. queue \in Seq(1..n + 1)
    BY <1>1
  <2>. QED
    BY <2>1
<1>. HIDE DEF longer
<1>3. Ascending(longer)
  BY <1>1 DEF Ascending
<1>4. Elements(longer) = Elements(queue) \cup {n + 1}
  <2>1. ASSUME NEW i \in 1..Len(longer) PROVE longer[i] \in Elements(queue) \cup {n + 1}
    BY <1>1 DEF Elements
  <2>2. ASSUME NEW i \in 1..Len(queue) PROVE queue[i] \in Elements(longer)
    <3>1. i \in 1..Len(longer) /\ longer[i] = queue[i]
      BY <1>1
    <3>. QED
      BY <3>1 DEF Elements
  <2>3. n + 1 \in Elements(longer)
    BY <1>1 DEF Elements
  <2>. QED
    BY <2>1, <2>2, <2>3 DEF Elements
<1>. QED
  BY <1>2, <1>3, <1>4 DEF longer

\* A sorted queue holds no event twice.
LEMMA AscendingInjective ==
  ASSUME NEW n \in Nat, NEW queue \in Seq(1..n), Ascending(queue)
  PROVE  IsInjective(queue)
<1>1. ASSUME NEW i \in 1..Len(queue), NEW j \in 1..Len(queue), i # j
      PROVE  queue[i] # queue[j]
  <2>1. queue[i] \in 1..n /\ queue[j] \in 1..n /\ (i < j \/ j < i)
    BY <1>1
  <2>2. queue[i] < queue[j] \/ queue[j] < queue[i]
    BY <2>1 DEF Ascending
  <2>. QED
    BY <2>1, <2>2
<1>2. DOMAIN queue = 1..Len(queue)
  OBVIOUS
<1>. QED
  BY <1>1, <1>2 DEF IsInjective

\* The head of a sorted queue is its least event; the tail has all the others.
LEMMA TailSorted ==
  ASSUME NEW n \in Nat, NEW queue \in Seq(1..n), Ascending(queue), queue # <<>>
  PROVE  /\ Tail(queue) \in Seq(1..n) /\ Ascending(Tail(queue))
         /\ Len(Tail(queue)) = Len(queue) - 1
         /\ \A i \in 1..Len(Tail(queue)) : Tail(queue)[i] \in Elements(queue)
         /\ Elements(Tail(queue)) = Elements(queue) \ {Head(queue)}
         /\ Head(queue) \in Elements(queue) \cap 1..n
         /\ \A e \in Elements(queue) : Head(queue) <= e
<1>. DEFINE rest == Tail(queue)
<1>1. /\ rest \in Seq(1..n) /\ Len(rest) = Len(queue) - 1 /\ Len(queue) > 0
      /\ \A i \in 1..Len(rest) : i + 1 \in 1..Len(queue) /\ rest[i] = queue[i + 1]
      /\ Head(queue) = queue[1] /\ \A i \in 1..Len(queue) : queue[i] \in 1..n
  OBVIOUS
<1>. HIDE DEF rest
<1>2. Ascending(rest)
  <2>1. ASSUME NEW i \in 1..Len(rest), NEW j \in 1..Len(rest), i < j PROVE rest[i] < rest[j]
    <3>1. i + 1 \in 1..Len(queue) /\ j + 1 \in 1..Len(queue) /\ i + 1 < j + 1
      BY <1>1, <2>1
    <3>. QED
      BY <1>1, <3>1 DEF Ascending
  <2>. QED
    BY <2>1 DEF Ascending
<1>3. ASSUME NEW i \in 1..Len(rest) PROVE rest[i] \in Elements(queue) \ {queue[1]}
  <2>1. 1 \in 1..Len(queue) /\ i + 1 \in 1..Len(queue) /\ 1 < i + 1
    BY <1>1
  <2>2. queue[1] < queue[i + 1]
    BY <2>1 DEF Ascending
  <2>3. queue[i + 1] # queue[1]
    BY <1>1, <2>1, <2>2
  <2>4. queue[i + 1] \in Elements(queue)
    BY <2>1 DEF Elements
  <2>. QED
    BY <1>1, <2>3, <2>4
<1>4. ASSUME NEW i \in 1..Len(queue), i # 1 PROVE queue[i] \in Elements(rest)
  <2>1. i - 1 \in 1..Len(rest) /\ rest[i - 1] = queue[i]
    BY <1>1, <1>4
  <2>. QED
    BY <2>1 DEF Elements
<1>5. Elements(rest) = Elements(queue) \ {queue[1]}
  BY <1>3, <1>4 DEF Elements
<1>6. ASSUME NEW i \in 1..Len(queue) PROVE queue[1] <= queue[i]
  BY <1>1 DEF Ascending
<1>7. queue[1] \in Elements(queue) \cap 1..n
  BY <1>1 DEF Elements
<1>8. \A e \in Elements(queue) : queue[1] <= e
  BY <1>6 DEF Elements
<1>. QED
  BY <1>1, <1>2, <1>3, <1>5, <1>7, <1>8 DEF rest

\* A channel that holds a non-terminal event holds an oldest one.
LEMMA OldestExists ==
  ASSUME NEW n \in Nat, NEW S \in SUBSET (1..n), S # {}
  PROVE  \E i \in S : \A j \in S : i <= j
<1>. DEFINE less == {ab \in Nat \X Nat : ab[1] < ab[2]}
<1>1. IsWellFoundedOn(less, Nat)
  BY NatLessThanWellFounded DEF OpToRel
<1>. HIDE DEF less
<1>2. PICK i \in S : \A j \in S : <<j, i>> \notin less
  <2>1. S \subseteq Nat
    OBVIOUS
  <2>2. \E i \in S : \A j \in S : ~(<<j, i>> \in less)
    BY Zenon, <1>1, <2>1, WFMin
  <2>. QED
    BY Zenon, <2>2
<1>3. ASSUME NEW j \in S PROVE i <= j
  <2>1. i \in Nat /\ j \in Nat
    OBVIOUS
  <2>2. <<j, i>> \in Nat \X Nat /\ <<j, i>>[1] = j /\ <<j, i>>[2] = i
    BY <2>1
  <2>3. ~(j < i)
    BY <1>2, <2>2 DEF less
  <2>. QED
    BY <2>1, <2>3
<1>. QED
  BY <1>3

\* What an offer of the event being published may make of a channel.
Kept(queue, new, capacity) ==
  LET event == Len(log) + 1 IN
  /\ new \in Seq(1..event) /\ Ascending(new)
  /\ Len(new) > capacity => \A i \in 1..Len(new) : log'[new[i]] \in Terminal
  /\ Elements(new) \subseteq Elements(queue) \cup {event}
  /\ \A e, f \in (Elements(queue) \cup {event}) \ Elements(new) : e = f /\ log'[e] \notin Terminal

\* An offer keeps a channel sorted and its bound; it takes at most one event from
\* the channel and the offered one together, and never a terminal one.
LEMMA OfferKeeps ==
  ASSUME log \in Seq(Kind), NEW kind \in Kind, log' = Append(log, kind),
         NEW queue \in Seq(1..Len(log)), Ascending(queue), NEW capacity \in Nat,
         Len(queue) > capacity => Evictable(queue) = {}
  PROVE  Kept(queue, Offer(queue, kind, Len(log) + 1, capacity), capacity)
<1>. DEFINE event == Len(log) + 1
            new == Offer(queue, kind, event, capacity)
<1>. SUFFICES
       /\ new \in Seq(1..event) /\ Ascending(new)
       /\ Len(new) > capacity => \A i \in 1..Len(new) : log'[new[i]] \in Terminal
       /\ Elements(new) \subseteq Elements(queue) \cup {event}
       /\ \A e, f \in (Elements(queue) \cup {event}) \ Elements(new) :
            e = f /\ log'[e] \notin Terminal
  BY DEF Kept
<1>1. event = Len(log) + 1 /\ new = Offer(queue, kind, event, capacity)
  OBVIOUS
<1>. HIDE DEF new
<1>. DEFINE n == Len(log)
<1>2. n \in Nat /\ log'[event] = kind /\ \A i \in 1..n : log'[i] = log[i] /\ log[i] \in Kind
  OBVIOUS
<1>3. \A i \in 1..Len(queue) : queue[i] \in 1..n
  OBVIOUS
<1>4. /\ Append(queue, event) \in Seq(1..event) /\ Ascending(Append(queue, event))
      /\ Elements(Append(queue, event)) = Elements(queue) \cup {event}
      /\ Len(Append(queue, event)) = Len(queue) + 1
      /\ Append(queue, event)[Len(queue) + 1] = event
      /\ \A i \in 1..Len(queue) : Append(queue, event)[i] = queue[i]
  <2>1. /\ Len(Append(queue, event)) = Len(queue) + 1
        /\ Append(queue, event)[Len(queue) + 1] = event
        /\ \A i \in 1..Len(queue) : Append(queue, event)[i] = queue[i]
    OBVIOUS
  <2>2. event = n + 1
    OBVIOUS
  <2>. QED
    BY <1>2, <2>1, <2>2, AppendSorted
<1>5. CASE Len(queue) < capacity
  <2>1. new = Append(queue, event)
    BY <1>1, <1>5 DEF Offer
  <2>2. ~(Len(new) > capacity)
    BY <1>4, <1>5, <2>1
  <2>. QED
    BY Zenon, <1>4, <2>1, <2>2
<1>6. CASE Len(queue) >= capacity /\ Evictable(queue) # {}
  <2>. DEFINE oldest == CHOOSE i \in Evictable(queue) : \A j \in Evictable(queue) : i <= j
  <2>1. oldest \in Evictable(queue)
    <3>1. Evictable(queue) \in SUBSET (1..Len(queue)) /\ Len(queue) \in Nat
      BY DEF Evictable
    <3>. QED
      BY Zenon, <1>6, <3>1, OldestExists
  <2>. DEFINE rest == RemoveAt(queue, oldest)
  <2>2. oldest \in 1..Len(queue) /\ log[queue[oldest]] \notin Terminal
    BY <2>1 DEF Evictable
  <2>3. new = Append(rest, event)
    <3>1. ~(Len(queue) < capacity)
      BY <1>6
    <3>. QED
      BY Zenon, <1>1, <1>6, <3>1 DEF Offer, Evicted
  <2>. HIDE DEF oldest
  <2>4. rest \in Seq(1..n) /\ Len(rest) = Len(queue) - 1
    BY <2>2, RemoveAtProperties
  <2>5. Ascending(rest) /\ Elements(rest) = Elements(queue) \ {queue[oldest]}
    BY <1>2, <2>2, RemoveAtSorted
  <2>. HIDE DEF rest
  <2>6. /\ new \in Seq(1..event) /\ Ascending(new) /\ Elements(new) = Elements(rest) \cup {event}
        /\ Len(new) = Len(queue)
    <3>1. event = n + 1 /\ Len(Append(rest, event)) = Len(rest) + 1
      BY <2>4
    <3>2. /\ Append(rest, n + 1) \in Seq(1..n + 1) /\ Ascending(Append(rest, n + 1))
          /\ Elements(Append(rest, n + 1)) = Elements(rest) \cup {n + 1}
      BY <1>2, <2>4, <2>5, AppendSorted
    <3>3. Len(rest) + 1 = Len(queue)
      BY <2>4
    <3>. QED
      BY Zenon, <2>3, <3>1, <3>2, <3>3
  <2>7. Len(queue) = capacity
    BY <1>6
  <2>8. log'[queue[oldest]] \notin Terminal
    BY <1>2, <1>3, <2>2
  <2>9. ~(Len(new) > capacity)
    BY <2>6, <2>7
  <2>10. (Elements(queue) \cup {event}) \ Elements(new) \subseteq {queue[oldest]}
    BY <2>5, <2>6
  <2>. QED
    BY Zenon, <2>5, <2>6, <2>8, <2>9, <2>10
<1>7. CASE Len(queue) >= capacity /\ Evictable(queue) = {} /\ kind \in Terminal
  <2>1. new = Append(queue, event)
    <3>1. ~(Len(queue) < capacity)
      BY <1>7
    <3>. QED
      BY Zenon, <1>1, <1>7, <3>1 DEF Offer
  <2>2. ASSUME NEW i \in 1..Len(new) PROVE log'[new[i]] \in Terminal
    <3>1. CASE i = Len(queue) + 1
      BY <1>2, <1>4, <1>7, <2>1, <3>1
    <3>2. CASE i \in 1..Len(queue)
      <4>1. new[i] = queue[i] /\ log[queue[i]] \in Terminal
        BY <1>4, <1>7, <2>1, <3>2 DEF Evictable
      <4>. QED
        BY <1>2, <1>3, <3>2, <4>1
    <3>3. i = Len(queue) + 1 \/ i \in 1..Len(queue)
      BY <1>4, <2>1
    <3>. QED
      BY Zenon, <3>1, <3>2, <3>3
  <2>. QED
    BY Zenon, <1>4, <2>1, <2>2
<1>8. CASE Len(queue) >= capacity /\ Evictable(queue) = {} /\ kind \notin Terminal
  <2>1. new = queue
    <3>1. ~(Len(queue) < capacity)
      BY <1>8
    <3>. QED
      BY Zenon, <1>1, <1>8, <3>1 DEF Offer
  <2>2. new \in Seq(1..event)
    BY <1>2, <1>3, <2>1
  <2>3. ASSUME NEW i \in 1..Len(new) PROVE log'[new[i]] \in Terminal
    <3>1. log[queue[i]] \in Terminal
      BY <1>8, <2>1 DEF Evictable
    <3>. QED
      BY <1>2, <1>3, <2>1, <3>1
  <2>4. (Elements(queue) \cup {event}) \ Elements(new) \subseteq {event}
    BY <2>1
  <2>. QED
    BY <1>2, <1>8, <2>1, <2>2, <2>3, <2>4
<1>9. Len(queue) < capacity \/ Len(queue) >= capacity
  OBVIOUS
<1>. QED
  BY Zenon, <1>5, <1>6, <1>7, <1>8, <1>9

-----------------------------------------------------------------------------
(* The steps *)

\* publish() keeps the invariant, and what it loses is one non-terminal event.
LEMMA PublishStep == ASSUME IInv, NEW kind \in Kind, Publish(kind) PROVE IInv'
<1>. DEFINE event == Len(log) + 1
            to == {s \in Sub : Subscribed(s) /\ kind \in Wants[s]}
<1>1. /\ log \in Seq(Kind) /\ log' = Append(log, kind) /\ Len(log') = event
      /\ Len(log) \in Nat /\ 1..Len(log) \subseteq 1..event /\ event \in 1..event
      /\ \A i \in 1..Len(log) : log'[i] = log[i]
  BY DEF IInv, TypeOK, Publish
<1>2. ASSUME NEW s \in Sub
      PROVE  /\ buf'[s] \in Seq(1..event) /\ Ascending(buf'[s])
             /\ Len(buf'[s]) > Capacity[s] => \A i \in 1..Len(buf'[s]) : log'[buf'[s][i]] \in Terminal
  <2>1. /\ buf[s] \in Seq(1..Len(log)) /\ Ascending(buf[s]) /\ Capacity[s] \in Nat
        /\ Len(buf[s]) > Capacity[s] => Evictable(buf[s]) = {}
    BY CapacityAssumption DEF IInv, TypeOK, Sorted, ChannelBounded
  <2>2. buf'[s] = IF s \in to THEN Offer(buf[s], kind, event, Capacity[s]) ELSE buf[s]
    BY DEF Publish
  <2>. HIDE DEF to
  <2>3. CASE s \in to
    <3>1. buf'[s] = Offer(buf[s], kind, Len(log) + 1, Capacity[s])
      BY Zenon, <2>2, <2>3
    <3>. QED
      <4>1. Kept(buf[s], buf'[s], Capacity[s])
        BY <1>1, <2>1, <3>1, OfferKeeps
      <4>. QED
        BY <4>1 DEF Kept
  <2>4. CASE s \notin to
    <3>1. buf'[s] = buf[s]
      BY Zenon, <2>2, <2>4
    <3>2. buf[s] \in Seq(1..event) /\ \A i \in 1..Len(buf[s]) : buf[s][i] \in 1..Len(log)
      BY <1>1, <2>1
    <3>3. Len(buf[s]) > Capacity[s] => \A i \in 1..Len(buf[s]) : log[buf[s][i]] \in Terminal
      BY <2>1 DEF Evictable
    <3>4. Len(buf[s]) > Capacity[s] => \A i \in 1..Len(buf[s]) : log'[buf[s][i]] \in Terminal
      BY <1>1, <3>2, <3>3
    <3>. QED
      BY Zenon, <2>1, <3>1, <3>2, <3>4
  <2>. QED
    BY Zenon, <2>3, <2>4
<1>3. buf' \in [Sub -> Seq(1..Len(log'))]
  <2>1. buf' = [s \in Sub |-> buf'[s]]
    BY DEF Publish
  <2>. QED
    BY Zenon, <1>1, <1>2, <2>1
<1>4. Sorted'
  BY <1>2 DEF Sorted
<1>5. ChannelBounded'
  BY <1>2 DEF ChannelBounded, Evictable
<1>6. \A s \in Sub : IsInjective(buf'[s])
  <2>1. event \in Nat
    BY <1>1
  <2>. QED
    BY <1>2, <2>1, AscendingInjective
<1>7. history' \in [Sub -> [offered : SUBSET (1..Len(log')), taken : SUBSET (1..Len(log'))]]
  <2>1. ASSUME NEW s \in Sub
        PROVE  history[s] \in [offered : SUBSET (1..event), taken : SUBSET (1..event)]
    BY <1>1 DEF IInv, TypeOK
  <2>2. history' = [s \in Sub |-> IF s \in to THEN [history[s] EXCEPT !.offered = @ \cup {event}]
                                 ELSE history[s]]
    BY DEF Publish
  <2>. HIDE DEF to
  <2>3. ASSUME NEW s \in Sub
        PROVE  [history[s] EXCEPT !.offered = @ \cup {event}]
                 \in [offered : SUBSET (1..event), taken : SUBSET (1..event)]
    BY <1>1, <2>1
  <2>. QED
    BY <1>1, <2>1, <2>2, <2>3
<1>8. dropped' \in Nat
  <2>. DEFINE victims == {s \in to : Drops(buf[s], kind, Capacity[s])}
  <2>1. IsFiniteSet(victims) /\ victims \subseteq Sub
    BY SubAssumption, FS_Subset
  <2>2. dropped' = dropped + Cardinality(victims) /\ dropped \in Nat
    BY DEF Publish, IInv, TypeOK
  <2>. HIDE DEF victims
  <2>. QED
    BY <2>1, <2>2, FS_CardinalityType
<1>9. log' \in Seq(Kind)
  BY <1>1
<1>. QED
  BY <1>3, <1>4, <1>5, <1>6, <1>7, <1>8, <1>9 DEF IInv, TypeOK, Publish

\* Taking the head of a channel keeps the invariant's parts about channels.
LEMMA TakeKeeps ==
  ASSUME IInv, NEW s \in Sub, NEW running \in TaskState, TakeEvent(s, running), log' = log
  PROVE  /\ buf' \in [Sub -> Seq(1..Len(log))] /\ (\A t \in Sub : IsInjective(buf'[t]))
         /\ history' \in [Sub -> [offered : SUBSET (1..Len(log)), taken : SUBSET (1..Len(log))]]
         /\ task' \in [Sub -> TaskState]
         /\ Sorted' /\ ChannelBounded'
<1>. DEFINE n == Len(log)
<1>1. /\ n \in Nat /\ buf \in [Sub -> Seq(1..n)] /\ buf[s] # <<>> /\ Ascending(buf[s])
      /\ buf' = [buf EXCEPT ![s] = Tail(buf[s])]
      /\ Capacity \in [Sub -> Nat]
  <2>1. log \in Seq(Kind) /\ buf \in [Sub -> Seq(1..n)]
    BY DEF IInv, TypeOK
  <2>2. buf[s] # <<>> /\ buf' = [buf EXCEPT ![s] = Tail(buf[s])]
    BY DEF TakeEvent
  <2>3. n \in Nat
    BY <2>1
  <2>. QED
    BY <2>1, <2>2, <2>3, CapacityAssumption DEF IInv, Sorted
<1>2. /\ Tail(buf[s]) \in Seq(1..n) /\ Ascending(Tail(buf[s]))
      /\ Len(Tail(buf[s])) = Len(buf[s]) - 1
      /\ \A i \in 1..Len(Tail(buf[s])) : Tail(buf[s])[i] \in Elements(buf[s])
      /\ Head(buf[s]) \in 1..n
  BY <1>1, TailSorted
<1>. HIDE DEF n
<1>3. buf' \in [Sub -> Seq(1..n)] /\ \A t \in Sub : Ascending(buf'[t])
  BY <1>1, <1>2 DEF IInv, Sorted
<1>4. ASSUME NEW t \in Sub PROVE IsInjective(buf'[t])
  BY <1>1, <1>3, AscendingInjective
<1>5. ASSUME NEW t \in Sub, Len(buf'[t]) > Capacity[t]
      PROVE  \A i \in 1..Len(buf'[t]) : log[buf'[t][i]] \in Terminal
  <2>1. CASE t = s
    <3>1. buf'[t] = Tail(buf[s]) /\ Len(buf[s]) \in Nat /\ Capacity[s] \in Nat
      BY <1>1, <2>1
    <3>2. Len(buf[s]) > Capacity[s]
      BY <1>2, <1>5, <2>1, <3>1
    <3>3. \A e \in Elements(buf[s]) : log[e] \in Terminal
      BY <3>2 DEF IInv, ChannelBounded, Evictable, Elements
    <3>. QED
      BY Zenon, <1>2, <3>1, <3>3
  <2>2. CASE t # s
    BY <1>1, <1>5, <2>2 DEF IInv, ChannelBounded, Evictable
  <2>. QED
    BY <2>1, <2>2
<1>6. ChannelBounded'
  BY <1>5 DEF ChannelBounded, Evictable
<1>7. history' \in [Sub -> [offered : SUBSET (1..n), taken : SUBSET (1..n)]]
  <2>. DEFINE entry == [history[s] EXCEPT !.taken = @ \cup {Head(buf[s])}]
  <2>1. /\ history \in [Sub -> [offered : SUBSET (1..n), taken : SUBSET (1..n)]]
        /\ history' = [history EXCEPT ![s] = entry]
    BY DEF IInv, TypeOK, TakeEvent, n
  <2>2. history[s] \in [offered : SUBSET (1..n), taken : SUBSET (1..n)]
    BY <2>1
  <2>3. entry \in [offered : SUBSET (1..n), taken : SUBSET (1..n)]
    BY <1>2, <2>2
  <2>. HIDE DEF entry
  <2>. QED
    BY <2>1, <2>3
<1>8. task' \in [Sub -> TaskState]
  BY DEF IInv, TypeOK, TakeEvent
<1>9. Sorted'
  BY <1>3 DEF Sorted
<1>. QED
  BY <1>3, <1>4, <1>6, <1>7, <1>8, <1>9 DEF n

\* A step that leaves the channels alone keeps the invariant if it keeps the types.
LEMMA OtherKeeps ==
  ASSUME IInv, UNCHANGED <<log, buf, history, dropped>>,
         subs' \in Seq(Sub), task' \in [Sub -> TaskState],
         shut' \in [at : {"open", "closing", "done"}, next : Nat \ {0}]
  PROVE  IInv'
BY DEF IInv, TypeOK, Sorted, ChannelBounded, Evictable

LEMMA WakeStep == ASSUME IInv, NEW s \in Sub, Wake(s) PROVE IInv'
<1>1. "handling" \in TaskState
  BY DEF TaskState
<1>. QED
  BY <1>1, TakeKeeps DEF Wake, IInv, TypeOK

LEMMA HandlerReturnsStep == ASSUME IInv, NEW s \in Sub, HandlerReturns(s) PROVE IInv'
<1>1. CASE TakeEvent(s, task[s])
  <2>1. task[s] \in TaskState
    BY DEF IInv, TypeOK
  <2>. QED
    BY <1>1, <2>1, TakeKeeps DEF HandlerReturns, IInv, TypeOK
<1>2. CASE task' = [task EXCEPT ![s] = Waits(@)] /\ UNCHANGED <<buf, history>>
  <2>1. task' \in [Sub -> TaskState]
    BY <1>2 DEF IInv, TypeOK, TaskState, Waits
  <2>. QED
    BY <1>2, <2>1, OtherKeeps DEF HandlerReturns, IInv, TypeOK
<1>. QED
  BY <1>1, <1>2 DEF HandlerReturns

\* One subscription leaves the list, whichever task calls unsubscribe().
LEMMA LeaveKeepsType ==
  ASSUME TypeOK, NEW i \in 1..Len(subs), subs' = RemoveAt(subs, i)
  PROVE  subs' \in Seq(Sub)
BY RemoveAtProperties DEF TypeOK

LEMMA UnsubscribeStep == ASSUME IInv, NEW s \in Sub, Unsubscribe(s) PROVE IInv'
<1>1. subs' \in Seq(Sub)
  BY LeaveKeepsType DEF IInv, Unsubscribe
<1>2. task' \in [Sub -> TaskState]
  BY DEF IInv, TypeOK, Unsubscribe, Cancelled, TaskState
<1>. QED
  BY <1>1, <1>2, OtherKeeps DEF IInv, TypeOK, Unsubscribe

LEMMA UnsubscribeItselfStep == ASSUME IInv, NEW s \in Sub, UnsubscribeItself(s) PROVE IInv'
<1>1. subs' \in Seq(Sub)
  BY LeaveKeepsType DEF IInv, UnsubscribeItself
<1>2. task' \in [Sub -> TaskState]
  BY DEF IInv, TypeOK, UnsubscribeItself, TaskState
<1>. QED
  BY <1>1, <1>2, OtherKeeps DEF IInv, TypeOK, UnsubscribeItself

LEMMA CloseStep == ASSUME IInv, Close \/ AwaitTask \/ CancelClose \/ FinishClose PROVE IInv'
<1>1. CASE Close
  <2>1. task' \in [Sub -> TaskState]
    BY <1>1 DEF IInv, TypeOK, Close, Cancelled, TaskState
  <2>2. subs' \in Seq(Sub) /\ shut' \in [at : {"open", "closing", "done"}, next : Nat \ {0}]
    BY <1>1 DEF IInv, TypeOK, Close
  <2>. QED
    BY <1>1, <2>1, <2>2, OtherKeeps DEF Close
<1>2. CASE AwaitTask
  <2>1. shut' \in [at : {"open", "closing", "done"}, next : Nat \ {0}]
    <3>1. shut \in [at : {"open", "closing", "done"}, next : Nat \ {0}] /\ shut.next + 1 \in Nat \ {0}
      BY DEF IInv, TypeOK
    <3>2. shut' = [shut EXCEPT !.next = shut.next + 1]
      BY <1>2 DEF AwaitTask
    <3>. QED
      BY <3>1, <3>2
  <2>. QED
    BY <1>2, <2>1, OtherKeeps DEF IInv, TypeOK, AwaitTask
<1>3. CASE FinishClose
  <2>1. shut' \in [at : {"open", "closing", "done"}, next : Nat \ {0}] /\ subs' \in Seq(Sub)
    <3>1. shut \in [at : {"open", "closing", "done"}, next : Nat \ {0}]
      BY DEF IInv, TypeOK
    <3>2. shut' = [shut EXCEPT !.at = "done"] /\ subs' = <<>>
      BY <1>3 DEF FinishClose
    <3>. QED
      BY <3>1, <3>2
  <2>. QED
    BY <1>3, <2>1, OtherKeeps DEF IInv, TypeOK, FinishClose
<1>4. CASE CancelClose
  <2>1. task' \in [Sub -> TaskState]
    BY <1>4 DEF IInv, TypeOK, CancelClose, Cancelled, TaskState
  <2>. QED
    BY <1>4, <2>1, OtherKeeps DEF IInv, TypeOK, CancelClose
<1>. QED
  BY <1>1, <1>2, <1>3, <1>4

\* The steps that only move a drain task, or start one.
LEMMA TaskStep ==
  ASSUME IInv, NEW s \in Sub,
         Subscribe(s) \/ HandlerCancelled(s) \/ HandlerSuspends(s) \/ Unwind(s) \/ Swallow(s)
  PROVE  IInv'
<1>1. task' \in [Sub -> TaskState]
  BY DEF IInv, TypeOK, TaskState, Subscribe, HandlerCancelled, HandlerSuspends, Unwind,
     Swallow
<1>2. subs' \in Seq(Sub)
  <2>1. subs \in Seq(Sub)
    BY DEF IInv, TypeOK
  <2>2. subs' = subs \/ subs' = Append(subs, s)
    BY DEF Subscribe, HandlerCancelled, HandlerSuspends, Unwind, Swallow
  <2>. QED
    BY <2>1, <2>2
<1>. QED
  BY <1>1, <1>2, OtherKeeps
     DEF IInv, TypeOK, Subscribe, HandlerCancelled, HandlerSuspends, Unwind, Swallow

\* The bus as __init__ leaves it satisfies the invariant.
LEMMA InitInv == Init => IInv
<1>. SUFFICES ASSUME Init PROVE IInv
  OBVIOUS
<1>1. TypeOK
  BY DEF Init, TypeOK, TaskState, IsInjective
<1>2. Sorted /\ ChannelBounded
  BY CapacityAssumption DEF Init, Sorted, Ascending, ChannelBounded
<1>. QED
  BY <1>1, <1>2 DEF IInv

\* Every action, and stuttering, preserves it.
LEMMA NextInv == IInv /\ [Next]_vars => IInv'
<1>. SUFFICES ASSUME IInv, [Next]_vars PROVE IInv'
  OBVIOUS
<1>1. ASSUME NEW s \in Sub, Drain(s) PROVE IInv'
  BY <1>1, WakeStep, HandlerReturnsStep, TaskStep DEF Drain
<1>2. CASE UNCHANGED vars
  BY <1>2, OtherKeeps DEF vars, IInv, TypeOK
<1>. QED
  BY <1>1, <1>2, PublishStep, UnsubscribeStep, UnsubscribeItselfStep, CloseStep, TaskStep DEF Next

\* So it holds in every reachable state.
LEMMA Invariance == Spec => []IInv
BY InitInv, NextInv, PTL DEF Spec

-----------------------------------------------------------------------------
(* The theorems *)

\* The variables keep their types, and no channel holds an event twice.
THEOREM TypeCorrect == Spec => []TypeOK
<1>1. IInv => TypeOK
  BY DEF IInv
<1>. QED
  BY <1>1, Invariance, PTL

\* A channel is over its capacity only while it holds nothing but terminal
\* events, so publish() never raises QueueFull: an eviction makes room.
THEOREM RoomAfterEviction == Spec => []ChannelBounded
<1>1. IInv => ChannelBounded
  BY DEF IInv
<1>. QED
  BY <1>1, Invariance, PTL

-----------------------------------------------------------------------------
(* The bus implements EventDelivery *)

\* publish() offers the event to exactly the subscriptions that want it, and
\* each loses at most one event for it, none of them terminal.
LEMMA PublishDelivers ==
  ASSUME IInv, IInv', NEW kind \in Kind, Publish(kind) PROVE Delivery!Publish(kind)
<1>. DEFINE event == Len(log) + 1
            pending == [s \in Sub |-> Elements(buf[s])]
            absent == {s \in Sub : ~Subscribed(s)}
            offered(s) == IF kind \in Wants[s] /\ s \notin absent
                          THEN pending[s] \cup {event} ELSE pending[s]
<1>1. log \in Seq(Kind) /\ log' = Append(log, kind) /\ Len(log') = event
  BY DEF IInv, TypeOK, Publish
<1>2. pending' \in [Sub -> SUBSET (1..event)]
  <2>1. \A s \in Sub : buf'[s] \in Seq(1..event)
    BY <1>1 DEF IInv, TypeOK
  <2>2. \A s \in Sub : Elements(buf'[s]) \subseteq 1..event
    BY <2>1 DEF Elements
  <2>. QED
    BY <2>2
<1>3. ASSUME NEW s \in Sub
      PROVE  /\ pending'[s] \subseteq offered(s)
             /\ \A e, f \in offered(s) \ pending'[s] : e = f /\ log'[e] \notin Terminal
  <2>1. CASE Subscribed(s) /\ kind \in Wants[s]
    <3>1. buf'[s] = Offer(buf[s], kind, event, Capacity[s])
      BY <2>1 DEF Publish
    <3>2. /\ buf[s] \in Seq(1..Len(log)) /\ Ascending(buf[s]) /\ Capacity[s] \in Nat
          /\ Len(buf[s]) > Capacity[s] => Evictable(buf[s]) = {}
      BY CapacityAssumption DEF IInv, TypeOK, Sorted, ChannelBounded
    <3>3. Kept(buf[s], buf'[s], Capacity[s])
      BY <1>1, <3>1, <3>2, OfferKeeps
    <3>4. offered(s) = Elements(buf[s]) \cup {event} /\ pending'[s] = Elements(buf'[s])
      BY <2>1
    <3>. HIDE DEF offered, pending
    <3>. QED
      BY Zenon, <3>3, <3>4 DEF Kept
  <2>2. CASE ~(Subscribed(s) /\ kind \in Wants[s])
    <3>1. buf'[s] = buf[s]
      BY <2>2 DEF Publish
    <3>2. offered(s) = pending[s] /\ pending'[s] = pending[s]
      BY <2>2, <3>1 DEF Elements
    <3>. QED
      BY <3>2
  <2>. QED
    BY <2>1, <2>2
<1>4. UNCHANGED <<[s \in Sub |-> history[s].taken], absent>>
  <2>1. ASSUME NEW s \in Sub PROVE history'[s].taken = history[s].taken
    BY DEF Publish, IInv, TypeOK
  <2>2. absent' = absent
    BY DEF Publish, Subscribed
  <2>. QED
    BY <2>1, <2>2
<1>. HIDE DEF pending, absent
<1>. QED
  BY <1>1, <1>2, <1>3, <1>4 DEF Delivery!Publish, pending, absent

\* The head of a channel is the event EventDelivery would hand over next.
LEMMA TakeDelivers ==
  ASSUME IInv, NEW s \in Sub, NEW running, TakeEvent(s, running), UNCHANGED <<log, subs>>
  PROVE  Delivery!Take(s)
<1>. DEFINE e == Head(buf[s])
            pending == [t \in Sub |-> Elements(buf[t])]
            taken == [t \in Sub |-> history[t].taken]
<1>1. /\ log \in Seq(Kind) /\ buf \in [Sub -> Seq(1..Len(log))]
      /\ history \in [Sub -> [offered : SUBSET (1..Len(log)), taken : SUBSET (1..Len(log))]]
      /\ Ascending(buf[s])
  BY DEF IInv, TypeOK, Sorted
<1>2. /\ buf[s] # <<>> /\ buf' = [buf EXCEPT ![s] = Tail(buf[s])]
      /\ history' = [history EXCEPT ![s].taken = @ \cup {e}]
  BY DEF TakeEvent
<1>3. /\ Elements(Tail(buf[s])) = Elements(buf[s]) \ {e} /\ e \in Elements(buf[s])
      /\ \A f \in Elements(buf[s]) : e <= f
  <2>1. Len(log) \in Nat /\ buf[s] \in Seq(1..Len(log))
    BY <1>1
  <2>. QED
    BY <1>1, <1>2, <2>1, TailSorted
<1>4. pending' = [pending EXCEPT ![s] = @ \ {e}]
  <2>1. \A t \in Sub : Elements(buf'[t]) = IF t = s THEN Elements(buf[s]) \ {e} ELSE Elements(buf[t])
    BY <1>1, <1>2, <1>3
  <2>. QED
    BY <2>1
<1>5. taken' = [taken EXCEPT ![s] = @ \cup {e}]
  <2>1. \A t \in Sub : history'[t].taken = IF t = s THEN history[s].taken \cup {e} ELSE history[t].taken
    BY <1>1, <1>2
  <2>. QED
    BY <2>1
<1>6. e \in pending[s] /\ \A f \in pending[s] : e <= f
  BY <1>3
<1>7. UNCHANGED <<log, {t \in Sub : ~Subscribed(t)}>>
  BY DEF Subscribed
<1>. HIDE DEF e, pending, taken
<1>. QED
  BY <1>4, <1>5, <1>6, <1>7 DEF Delivery!Take, pending, taken

\* Every other step at most changes who is subscribed.
LEMMA OtherDelivers ==
  ASSUME UNCHANGED <<log, buf, history>> PROVE Delivery!ComeOrGo
BY DEF Delivery!ComeOrGo, Elements

\* Whatever overflows, is unsubscribed or closed, and in whatever order the drain
\* tasks run: events reach a handler in the order of publication, at most once,
\* and only non-terminal ones give way to others.
THEOREM DeliveryKept == Spec => KeepsDelivery
<1>1. Init => Delivery!Init
  <2>. SUFFICES ASSUME Init PROVE Delivery!Init
    OBVIOUS
  <2>1. [s \in Sub |-> Elements(buf[s])] = [s \in Sub |-> {}]
    BY DEF Init, Elements
  <2>2. [s \in Sub |-> history[s].taken] = [s \in Sub |-> {}]
    BY DEF Init
  <2>. QED
    BY <2>1, <2>2 DEF Init, Delivery!Init
<1>2. IInv /\ IInv' /\ [Next]_vars => [Delivery!Next]_Delivery!vars
  <2>. SUFFICES ASSUME IInv, IInv', [Next]_vars PROVE Delivery!Next \/ UNCHANGED Delivery!vars
    OBVIOUS
  <2>1. ASSUME NEW kind \in Kind, Publish(kind) PROVE Delivery!Next
    BY <2>1, PublishDelivers DEF Delivery!Next
  <2>2. ASSUME NEW s \in Sub, NEW running, TakeEvent(s, running), UNCHANGED <<log, subs>>
        PROVE  Delivery!Next
    BY <2>2, TakeDelivers DEF Delivery!Next
  <2>3. ASSUME UNCHANGED <<log, buf, history>> PROVE Delivery!Next
    BY <2>3, OtherDelivers DEF Delivery!Next
  <2>4. ASSUME NEW s \in Sub, Drain(s) PROVE Delivery!Next
    BY <2>2, <2>3, <2>4 DEF Drain, Wake, HandlerReturns, HandlerSuspends, Unwind
  <2>5. ASSUME NEW s \in Sub,
               Subscribe(s) \/ Unsubscribe(s) \/ UnsubscribeItself(s) \/ HandlerCancelled(s)
               \/ Swallow(s)
        PROVE  Delivery!Next
    BY <2>3, <2>5 DEF Subscribe, Unsubscribe, UnsubscribeItself, HandlerCancelled, Swallow
  <2>6. CASE Close \/ AwaitTask \/ CancelClose \/ FinishClose
    BY <2>3, <2>6 DEF Close, AwaitTask, CancelClose, FinishClose
  <2>7. CASE UNCHANGED vars
    BY <2>3, <2>7 DEF vars
  <2>. QED
    BY <2>1, <2>4, <2>5, <2>6, <2>7 DEF Next
<1>. QED
  BY <1>1, <1>2, Invariance, PTL DEF Spec, KeepsDelivery, Delivery!Spec

-----------------------------------------------------------------------------
(* dropped_events counts what overflow took *)

\* What a channel holds was offered to its subscription and not taken yet.
Waiting ==
  \A s \in Sub : /\ Elements(buf[s]) \subseteq history[s].offered
                 /\ Elements(buf[s]) \cap history[s].taken = {}

AllLost == UNION {{<<s, e>> : e \in Lost(s)} : s \in Sub}

\* An eviction takes one event of the channel out of it.
LEMMA EvictedLoses ==
  ASSUME NEW n \in Nat, NEW queue \in Seq(1..n), Ascending(queue), Evictable(queue) # {}
  PROVE  \E e \in Elements(queue) :
           /\ Evicted(queue) \in Seq(1..n) /\ Ascending(Evicted(queue))
           /\ Elements(Evicted(queue)) = Elements(queue) \ {e}
<1>. DEFINE oldest == CHOOSE i \in Evictable(queue) : \A j \in Evictable(queue) : i <= j
<1>1. oldest \in Evictable(queue)
  <2>1. Evictable(queue) \in SUBSET (1..Len(queue)) /\ Len(queue) \in Nat
    BY DEF Evictable
  <2>. QED
    BY Zenon, <2>1, OldestExists
<1>2. oldest \in 1..Len(queue)
  BY <1>1 DEF Evictable
<1>3. Evicted(queue) = RemoveAt(queue, oldest)
  BY DEF Evicted
<1>. HIDE DEF oldest
<1>4. queue[oldest] \in Elements(queue)
  BY <1>2 DEF Elements
<1>5. RemoveAt(queue, oldest) \in Seq(1..n)
  BY <1>2, RemoveAtProperties
<1>6. /\ Ascending(RemoveAt(queue, oldest))
      /\ Elements(RemoveAt(queue, oldest)) = Elements(queue) \ {queue[oldest]}
  BY <1>2, RemoveAtSorted
<1>. QED
  BY Zenon, <1>3, <1>4, <1>5, <1>6

\* An offer takes something from the channel and the new event exactly when it
\* is counted as a drop.
LEMMA OfferLoses ==
  ASSUME NEW n \in Nat, NEW kind, NEW queue \in Seq(1..n), Ascending(queue), NEW capacity \in Nat
  PROVE  Drops(queue, kind, capacity)
           <=> (Elements(queue) \cup {n + 1}) \ Elements(Offer(queue, kind, n + 1, capacity)) # {}
<1>. DEFINE new == Offer(queue, kind, n + 1, capacity)
<1>1. n + 1 \notin Elements(queue) /\ Len(queue) \in Nat
  BY DEF Elements
<1>2. Elements(Append(queue, n + 1)) = Elements(queue) \cup {n + 1}
  BY AppendSorted
<1>3. CASE Len(queue) < capacity
  <2>1. new = Append(queue, n + 1) /\ ~Drops(queue, kind, capacity)
    BY <1>1, <1>3 DEF Offer, Drops
  <2>. QED
    BY <1>2, <2>1
<1>4. CASE ~(Len(queue) < capacity) /\ Evictable(queue) # {}
  <2>1. new = Append(Evicted(queue), n + 1)
    BY Zenon, <1>4 DEF Offer
  <2>2. Drops(queue, kind, capacity)
    BY <1>1, <1>4 DEF Drops
  <2>3. PICK e \in Elements(queue) :
          /\ Evicted(queue) \in Seq(1..n) /\ Ascending(Evicted(queue))
          /\ Elements(Evicted(queue)) = Elements(queue) \ {e}
    BY <1>4, EvictedLoses
  <2>4. Elements(new) = (Elements(queue) \ {e}) \cup {n + 1}
    <3>1. Elements(Append(Evicted(queue), n + 1)) = Elements(Evicted(queue)) \cup {n + 1}
      BY <2>3, AppendSorted
    <3>. QED
      BY Zenon, <2>1, <2>3, <3>1
  <2>. HIDE DEF new
  <2>5. e \in (Elements(queue) \cup {n + 1}) \ Elements(new)
    BY <1>1, <2>4
  <2>. QED
    BY <2>2, <2>5 DEF new
<1>5. CASE ~(Len(queue) < capacity) /\ Evictable(queue) = {} /\ kind \in Terminal
  <2>1. new = Append(queue, n + 1)
    BY Zenon, <1>5 DEF Offer
  <2>2. ~Drops(queue, kind, capacity)
    BY <1>5 DEF Drops
  <2>. QED
    BY <1>2, <2>1, <2>2
<1>6. CASE ~(Len(queue) < capacity) /\ Evictable(queue) = {} /\ kind \notin Terminal
  <2>1. new = queue
    BY Zenon, <1>6 DEF Offer
  <2>2. Drops(queue, kind, capacity)
    BY <1>1, <1>6 DEF Drops
  <2>. QED
    BY <1>1, <2>1, <2>2
<1>. QED
  BY Zenon, <1>3, <1>4, <1>5, <1>6

\* The lost events can be counted.
LEMMA LostFinite ==
  ASSUME TypeOK
  PROVE  IsFiniteSet(AllLost) /\ AllLost \subseteq Sub \X (1..Len(log))
<1>1. Len(log) \in Nat /\ \A s \in Sub : history[s].offered \subseteq 1..Len(log)
  BY DEF TypeOK
<1>. 1 \in Int /\ Len(log) \in Int
  BY <1>1
<1>2. AllLost \subseteq Sub \X (1..Len(log))
  BY <1>1 DEF AllLost, Lost
<1>3. IsFiniteSet(1..Len(log))
  BY FS_Interval
<1>4. IsFiniteSet(Sub \X (1..Len(log)))
  BY <1>3, SubAssumption, FS_Product
<1>. QED
  BY <1>2, <1>4, FS_Subset

\* publish() counts one drop for each channel that loses an event.
LEMMA PublishCounts ==
  ASSUME IInv, IInv', Waiting, DropsCounted, NEW kind \in Kind, Publish(kind)
  PROVE  Waiting' /\ DropsCounted'
<1>. DEFINE n == Len(log)
            event == n + 1
            to == {s \in Sub : Subscribed(s) /\ kind \in Wants[s]}
            hit == {s \in to : Drops(buf[s], kind, Capacity[s])}
            gone(s) == (Elements(buf[s]) \cup {event}) \ Elements(buf'[s])
            more == {<<s, CHOOSE e \in gone(s) : TRUE>> : s \in hit}
<1>1. /\ n \in Nat /\ log \in Seq(Kind) /\ log' = Append(log, kind)
      /\ dropped' = dropped + Cardinality(hit) /\ dropped \in Nat /\ event \notin 1..n
  BY DEF IInv, TypeOK, Publish
<1>2. ASSUME NEW s \in Sub
      PROVE  /\ history[s].offered \subseteq 1..n /\ history[s].taken \subseteq 1..n
             /\ Elements(buf[s]) \subseteq 1..n
             /\ history'[s].taken = history[s].taken
  BY DEF IInv, TypeOK, Publish, Elements
<1>3. ASSUME NEW s \in to
      PROVE  /\ history'[s].offered = history[s].offered \cup {event}
             /\ Elements(buf'[s]) \subseteq Elements(buf[s]) \cup {event}
             /\ \A e, f \in gone(s) : e = f
             /\ s \in hit <=> gone(s) # {}
  <2>1. history'[s].offered = history[s].offered \cup {event}
    BY DEF IInv, TypeOK, Publish
  <2>2. buf'[s] = Offer(buf[s], kind, event, Capacity[s])
    BY DEF Publish
  <2>3. /\ buf[s] \in Seq(1..n) /\ Ascending(buf[s]) /\ Capacity[s] \in Nat
        /\ Len(buf[s]) > Capacity[s] => Evictable(buf[s]) = {}
    BY CapacityAssumption DEF IInv, TypeOK, Sorted, ChannelBounded
  <2>4. Kept(buf[s], buf'[s], Capacity[s])
    BY <1>1, <2>2, <2>3, OfferKeeps
  <2>5. /\ Elements(buf'[s]) \subseteq Elements(buf[s]) \cup {event}
        /\ \A e, f \in gone(s) : e = f
    BY Zenon, <2>4 DEF Kept
  <2>6. Drops(buf[s], kind, Capacity[s]) <=> gone(s) # {}
    BY Zenon, <1>1, <2>2, <2>3, OfferLoses
  <2>. HIDE DEF gone
  <2>. QED
    BY <2>1, <2>5, <2>6
<1>4. ASSUME NEW s \in Sub \ to PROVE history'[s] = history[s] /\ buf'[s] = buf[s]
  BY DEF Publish
<1>5. Waiting'
  <2>1. ASSUME NEW s \in to
        PROVE  /\ Elements(buf'[s]) \subseteq history'[s].offered
               /\ Elements(buf'[s]) \cap history'[s].taken = {}
    <3>1. /\ Elements(buf'[s]) \subseteq Elements(buf[s]) \cup {event}
          /\ history'[s].offered = history[s].offered \cup {event}
      BY <1>3
    <3>2. event \notin history[s].taken /\ history'[s].taken = history[s].taken
      BY <1>1, <1>2
    <3>. HIDE DEF event
    <3>. QED
      BY <3>1, <3>2 DEF Waiting
  <2>2. ASSUME NEW s \in Sub \ to
        PROVE  /\ Elements(buf'[s]) \subseteq history'[s].offered
               /\ Elements(buf'[s]) \cap history'[s].taken = {}
    BY <1>4 DEF Waiting
  <2>. HIDE DEF to
  <2>. QED
    BY <2>1, <2>2 DEF Waiting
<1>6. ASSUME NEW s \in to PROVE Lost(s)' = Lost(s) \cup gone(s) /\ Lost(s) \cap gone(s) = {}
  <2>1. /\ Elements(buf'[s]) \subseteq Elements(buf[s]) \cup {event}
        /\ history'[s].offered = history[s].offered \cup {event}
    BY <1>3
  <2>2. /\ history'[s].taken = history[s].taken
        /\ event \notin history[s].taken /\ event \notin history[s].offered
    BY <1>1, <1>2
  <2>. HIDE DEF event
  <2>. QED
    BY <2>1, <2>2 DEF Lost, Waiting
<1>7. ASSUME NEW s \in Sub \ to PROVE Lost(s)' = Lost(s)
  BY <1>4 DEF Lost
<1>8. to \subseteq Sub /\ hit \subseteq to /\ IsFiniteSet(hit)
  BY SubAssumption, FS_Subset
<1>. HIDE DEF to
<1>9. ASSUME NEW s \in hit PROVE gone(s) = {CHOOSE e \in gone(s) : TRUE}
  <2>1. gone(s) # {} /\ \A e, f \in gone(s) : e = f
    BY <1>3, <1>8
  <2>. HIDE DEF gone, hit
  <2>2. (CHOOSE e \in gone(s) : TRUE) \in gone(s)
    BY <2>1
  <2>. QED
    BY <2>1, <2>2
<1>10. ASSUME NEW s \in to \ hit PROVE gone(s) = {}
  BY <1>3
<1>. HIDE DEF gone, hit
<1>11. AllLost' = AllLost \cup more
  <2>1. ASSUME NEW s \in Sub, NEW e PROVE e \in Lost(s)' <=> e \in Lost(s) \/ <<s, e>> \in more
    <3>1. CASE s \in hit
      BY <1>6, <1>8, <1>9, <3>1
    <3>2. CASE s \in to \ hit
      BY <1>6, <1>10, <3>2
    <3>3. CASE s \in Sub \ to
      BY <1>7, <1>8, <3>3
    <3>. QED
      BY <3>1, <3>2, <3>3
  <2>2. more \subseteq {<<s, e>> : s \in Sub, e \in UNION {gone(t) : t \in hit}}
    BY <1>8, <1>9
  <2>. QED
    BY <2>1, <2>2 DEF AllLost
<1>12. AllLost \cap more = {}
  BY <1>6, <1>8, <1>9 DEF AllLost
<1>13. Cardinality(more) = Cardinality(hit) /\ IsFiniteSet(more)
  <2>. DEFINE f == [s \in hit |-> <<s, CHOOSE e \in gone(s) : TRUE>>]
  <2>1. f \in [hit -> more] /\ \A x \in more : \E s \in hit : f[s] = x
    OBVIOUS
  <2>2. ASSUME NEW s \in hit, NEW u \in hit, f[s] = f[u] PROVE s = u
    BY <2>2
  <2>. HIDE DEF f
  <2>3. f \in Bijection(hit, more)
    BY <2>1, <2>2 DEF Bijection, Injection, IsInjective, Surjection
  <2>4. ExistsBijection(hit, more)
    BY <2>3 DEF ExistsBijection
  <2>. QED
    BY <1>8, <2>4, FS_Bijection
<1>. HIDE DEF more
<1>14. Cardinality(AllLost') = Cardinality(AllLost) + Cardinality(hit)
  <2>1. IsFiniteSet(AllLost)
    BY LostFinite DEF IInv
  <2>2. Cardinality(AllLost \cup more)
          = Cardinality(AllLost) + Cardinality(more) - Cardinality(AllLost \cap more)
    BY <1>13, <2>1, FS_Union
  <2>3. Cardinality(AllLost \cap more) = 0
    BY <1>12, FS_EmptySet
  <2>4. Cardinality(AllLost) \in Nat /\ Cardinality(more) \in Nat
    BY <1>13, <2>1, FS_CardinalityType
  <2>. QED
    BY <1>11, <1>13, <2>2, <2>3, <2>4
<1>. QED
  BY <1>1, <1>5, <1>14 DEF DropsCounted, AllLost

\* An event that is taken from a channel was not lost.
LEMMA TakeCounts ==
  ASSUME IInv, Waiting, DropsCounted, NEW s \in Sub, NEW running, TakeEvent(s, running),
         UNCHANGED <<log, dropped>>
  PROVE  Waiting' /\ DropsCounted'
<1>. DEFINE e == Head(buf[s])
            n == Len(log)
<1>1. /\ n \in Nat /\ buf \in [Sub -> Seq(1..n)] /\ buf[s] # <<>> /\ Ascending(buf[s])
      /\ history \in [Sub -> [offered : SUBSET (1..n), taken : SUBSET (1..n)]]
      /\ buf' = [buf EXCEPT ![s] = Tail(buf[s])]
      /\ history' = [history EXCEPT ![s].taken = @ \cup {e}]
  BY DEF IInv, TypeOK, Sorted, TakeEvent
<1>2. Elements(Tail(buf[s])) = Elements(buf[s]) \ {e} /\ e \in Elements(buf[s])
  BY <1>1, TailSorted
<1>3. /\ history'[s].taken = history[s].taken \cup {e} /\ history'[s].offered = history[s].offered
      /\ buf'[s] = Tail(buf[s])
  BY <1>1
<1>4. ASSUME NEW t \in Sub, t # s PROVE history'[t] = history[t] /\ buf'[t] = buf[t]
  BY <1>1, <1>4
<1>. HIDE DEF e
<1>5. Waiting'
  BY <1>2, <1>3, <1>4 DEF Waiting
<1>6. ASSUME NEW t \in Sub PROVE Lost(t)' = Lost(t)
  <2>1. CASE t = s
    BY <1>2, <1>3, <2>1 DEF Lost
  <2>2. CASE t # s
    BY <1>4, <2>2 DEF Lost
  <2>. QED
    BY <2>1, <2>2
<1>7. AllLost' = AllLost
  BY <1>6 DEF AllLost
<1>. QED
  BY <1>5, <1>7 DEF DropsCounted, AllLost

\* Every other step moves no event.
LEMMA OtherCounts ==
  ASSUME Waiting, DropsCounted, UNCHANGED <<buf, dropped, history>>
  PROVE  Waiting' /\ DropsCounted'
BY DEF Waiting, DropsCounted, Lost

LEMMA CountInvariance == Spec => [](Waiting /\ DropsCounted)
<1>1. Init => Waiting /\ DropsCounted
  <2>. SUFFICES ASSUME Init PROVE Waiting /\ DropsCounted
    OBVIOUS
  <2>1. Waiting
    BY DEF Init, Waiting, Elements
  <2>2. AllLost = {}
    BY DEF Init, AllLost, Lost
  <2>. QED
    BY <2>1, <2>2, FS_EmptySet DEF Init, DropsCounted, AllLost
<1>2. IInv /\ IInv' /\ Waiting /\ DropsCounted /\ [Next]_vars => Waiting' /\ DropsCounted'
  <2>. SUFFICES ASSUME IInv, IInv', Waiting, DropsCounted, [Next]_vars PROVE Waiting' /\ DropsCounted'
    OBVIOUS
  <2>1. ASSUME NEW s \in Sub, Drain(s) PROVE Waiting' /\ DropsCounted'
    BY <2>1, TakeCounts, OtherCounts DEF Drain, Wake, HandlerReturns, HandlerSuspends, Unwind
  <2>2. ASSUME NEW s \in Sub,
               Subscribe(s) \/ Unsubscribe(s) \/ UnsubscribeItself(s) \/ HandlerCancelled(s)
               \/ Swallow(s)
        PROVE  Waiting' /\ DropsCounted'
    BY <2>2, OtherCounts DEF Subscribe, Unsubscribe, UnsubscribeItself, HandlerCancelled, Swallow
  <2>3. CASE Close \/ AwaitTask \/ CancelClose \/ FinishClose
    BY <2>3, OtherCounts DEF Close, AwaitTask, CancelClose, FinishClose
  <2>4. CASE UNCHANGED vars
    BY <2>4, OtherCounts DEF vars
  <2>. QED
    BY <2>1, <2>2, <2>3, <2>4, PublishCounts DEF Next
<1>. QED
  BY <1>1, <1>2, Invariance, PTL DEF Spec

\* dropped_events counts exactly the events that overflow took from somebody,
\* an eviction and the refusal of a newcomer alike, for every capacity.
THEOREM DropsAccounted == Spec => []DropsCounted
BY CountInvariance, PTL

-----------------------------------------------------------------------------
(* close() waits for the drain tasks *)

\* A subscription is listed once, and has had a task since.
Listed ==
  /\ \A i, j \in 1..Len(subs) : subs[i] = subs[j] => i = j
  /\ \A i \in 1..Len(subs) : task[subs[i]] # "none"

\* close() looks at one after the other, and has seen those before it end, if nobody
\* left the list.
Walked ==
  /\ shut.at = "open" => shut.next = 1
  /\ shut.at = "closing" /\ (\A s \in Sub : ~Unsubscribed(s)) =>
       \A i \in 1..Len(subs) : i < shut.next => task[subs[i]] = "ended"

\* Drain tasks do what they do: none comes to be, and one that has ended stays so.
LEMMA TasksWalk ==
  ASSUME IInv, Listed, Walked, UNCHANGED <<subs, shut>>, task' \in [Sub -> TaskState],
         \A s \in Sub : /\ task'[s] = "none" <=> task[s] = "none"
                        /\ task[s] = "ended" => task'[s] = "ended"
  PROVE  Listed' /\ Walked'
<1>1. \A i \in 1..Len(subs) : subs[i] \in Sub
  BY DEF IInv, TypeOK
<1>2. \A s \in Sub : Unsubscribed(s)' <=> Unsubscribed(s)
  BY DEF Unsubscribed, Subscribed
<1>. QED
  BY <1>1, <1>2 DEF Listed, Walked

\* Somebody unsubscribes: from then on close() may miss one.
LEMMA LeaveWalk ==
  ASSUME IInv, Listed, Walked, NEW s \in Sub, Unsubscribe(s) \/ UnsubscribeItself(s)
  PROVE  Listed' /\ Walked'
<1>1. PICK i \in 1..Len(subs) : subs[i] = s /\ subs' = RemoveAt(subs, i)
  BY DEF Unsubscribe, UnsubscribeItself
<1>2. subs \in Seq(Sub) /\ task \in [Sub -> TaskState] /\ shut' = shut
  BY DEF IInv, TypeOK, Unsubscribe, UnsubscribeItself
<1>3. \A t \in Sub : t # s => task'[t] = task[t]
  BY <1>2 DEF Unsubscribe, UnsubscribeItself
<1>4. task'[s] # "none"
  BY <1>2 DEF Unsubscribe, UnsubscribeItself, Cancelled
<1>5. /\ Len(subs') = Len(subs) - 1
      /\ \A j \in 1..Len(subs) - 1 : subs'[j] = IF j < i THEN subs[j] ELSE subs[j + 1]
  BY <1>1, <1>2, RemoveAtProperties
<1>. DEFINE old(j) == IF j < i THEN j ELSE j + 1
<1>6. Len(subs) \in Nat /\ i \in Nat
  BY <1>2
<1>7. \A j \in 1..Len(subs') : old(j) \in 1..Len(subs) /\ subs'[j] = subs[old(j)] /\ old(j) # i
  BY <1>5, <1>6
<1>8. \A j, k \in 1..Len(subs') : old(j) = old(k) => j = k
  BY <1>6
<1>. HIDE DEF old
<1>9. \A j \in 1..Len(subs') : subs'[j] \in Sub /\ subs'[j] # s /\ task[subs'[j]] # "none"
  BY <1>1, <1>2, <1>7 DEF Listed
<1>10. Listed'
  <2>1. \A j, k \in 1..Len(subs') : subs'[j] = subs'[k] => j = k
    BY <1>7, <1>8 DEF Listed
  <2>. QED
    BY <1>3, <1>9, <2>1 DEF Listed
<1>11. Unsubscribed(s)'
  BY <1>4, <1>9 DEF Unsubscribed, Subscribed
<1>. QED
  BY <1>2, <1>10, <1>11 DEF Walked

\* A subscription is put behind the others, as long as the bus is open.
LEMMA SubscribeWalk ==
  ASSUME IInv, Listed, Walked, NEW s \in Sub, Subscribe(s) PROVE Listed' /\ Walked'
<1>1. subs \in Seq(Sub) /\ task \in [Sub -> TaskState] /\ shut' = shut /\ shut.at = "open"
  BY DEF IInv, TypeOK, Subscribe, closed
<1>2. subs' = Append(subs, s) /\ task[s] = "none" /\ task'[s] # "none"
  BY <1>1 DEF Subscribe
<1>3. \A t \in Sub : t # s => task'[t] = task[t]
  BY <1>1 DEF Subscribe
<1>4. /\ Len(subs') = Len(subs) + 1 /\ subs'[Len(subs) + 1] = s
      /\ \A i \in 1..Len(subs) : subs'[i] = subs[i] /\ subs[i] \in Sub /\ subs[i] # s
  BY <1>1, <1>2 DEF Listed
<1>5. \A i \in 1..Len(subs') : i \in 1..Len(subs) \/ i = Len(subs) + 1
  BY <1>1, <1>4
<1>6. Listed'
  BY <1>2, <1>3, <1>4, <1>5 DEF Listed
<1>. QED
  BY <1>1, <1>6 DEF Walked

\* close() begins with the first, waits for it to end, and goes on with the next.
LEMMA CloseWalk ==
  ASSUME IInv, Listed, Walked, Close \/ AwaitTask \/ FinishClose PROVE Listed' /\ Walked'
<1>0. /\ subs \in Seq(Sub) /\ task \in [Sub -> TaskState] /\ shut.next \in Nat
      /\ shut \in [at : {"open", "closing", "done"}, next : Nat \ {0}]
  BY DEF IInv, TypeOK
<1>1. CASE Close
  <2>1. subs' = subs /\ shut'.at = "closing" /\ shut'.next = 1
    BY <1>0, <1>1 DEF Close, closed, Walked
  <2>2. \A s \in Sub : task[s] # "none" => task'[s] # "none"
    BY <1>0, <1>1 DEF Close, Cancelled
  <2>3. \A i \in 1..Len(subs) : subs[i] \in Sub /\ ~(i < 1)
    BY <1>0
  <2>. QED
    BY <2>1, <2>2, <2>3 DEF Listed, Walked
<1>2. CASE AwaitTask
  <2>1. /\ subs' = subs /\ task' = task /\ shut.at = "closing" /\ shut'.at = "closing"
        /\ shut'.next = shut.next + 1 /\ task[subs[shut.next]] = "ended"
    BY <1>0, <1>2 DEF AwaitTask, TaskOver
  <2>2. \A s \in Sub : Unsubscribed(s)' <=> Unsubscribed(s)
    BY <2>1 DEF Unsubscribed, Subscribed
  <2>3. \A i \in 1..Len(subs) : i < shut.next + 1 => i < shut.next \/ i = shut.next
    BY <1>0
  <2>. QED
    BY <2>1, <2>2, <2>3 DEF Listed, Walked
<1>3. CASE FinishClose
  <2>1. Len(subs') = 0 /\ shut'.at = "done"
    BY <1>0, <1>3 DEF FinishClose
  <2>. QED
    BY <2>1 DEF Listed, Walked
<1>. QED
  BY <1>1, <1>2, <1>3

\* Cancelling close() cancels, once more, a task that has begun and not ended.
LEMMA CancelWalk == ASSUME IInv, Listed, Walked, CancelClose PROVE Listed' /\ Walked'
<1>. DEFINE s == subs[shut.next]
<1>1. task \in [Sub -> TaskState] /\ shut.next \in 1..Len(subs) /\ s \in Sub
  BY DEF IInv, TypeOK, CancelClose
<1>2. task[s] \notin {"none", "ended"}
  BY <1>1 DEF CancelClose, Listed
<1>3. PICK at \in {"unwinding", "leaving"} : task' = [task EXCEPT ![s] = at]
  BY <1>1 DEF CancelClose, Cancelled
<1>4. task' \in [Sub -> TaskState]
  BY <1>1, <1>3 DEF TaskState
<1>5. \A t \in Sub : task'[t] = IF t = s THEN at ELSE task[t]
  BY <1>1, <1>3
<1>6. UNCHANGED <<subs, shut>>
  BY DEF CancelClose
<1>. QED
  BY <1>2, <1>4, <1>5, <1>6, TasksWalk

\* So close() has seen every task end that nobody took from its list.
LEMMA WalkInvariance == Spec => [](IInv /\ Listed /\ Walked)
<1>1. Init => Listed /\ Walked
  BY DEF Init, Listed, Walked
<1>2. IInv /\ Listed /\ Walked /\ [Next]_vars => Listed' /\ Walked'
  <2>. SUFFICES ASSUME IInv, Listed, Walked, [Next]_vars PROVE Listed' /\ Walked'
    OBVIOUS
  <2>0. task \in [Sub -> TaskState]
    BY DEF IInv, TypeOK
  <2>1. ASSUME NEW s \in Sub, Drain(s) \/ HandlerCancelled(s) \/ Swallow(s)
        PROVE  Listed' /\ Walked'
    <3>1. PICK at \in {"idle", "handling", "doomed", "unwinding", "leaving", "ended"} :
            task' = [task EXCEPT ![s] = at]
      BY <2>0, <2>1 DEF Drain, Wake, HandlerReturns, TakeEvent, Waits, HandlerSuspends, Unwind,
         HandlerCancelled, Swallow
    <3>2. task[s] \notin {"none", "ended"} /\ UNCHANGED <<subs, shut>>
      BY <2>1 DEF Drain, Wake, HandlerReturns, HandlerSuspends, Unwind, HandlerCancelled, Swallow
    <3>3. task' \in [Sub -> TaskState]
      BY <2>0, <3>1 DEF TaskState
    <3>4. \A t \in Sub : task'[t] = IF t = s THEN at ELSE task[t]
      BY <2>0, <3>1
    <3>. QED
      BY <3>2, <3>3, <3>4, TasksWalk
  <2>2. ASSUME NEW kind \in Kind, Publish(kind) PROVE Listed' /\ Walked'
    BY <2>0, <2>2, TasksWalk DEF Publish
  <2>3. CASE UNCHANGED vars
    BY <2>0, <2>3, TasksWalk DEF vars
  <2>4. CASE CancelClose
    BY <2>4, CancelWalk
  <2>. QED
    BY <2>1, <2>2, <2>3, <2>4, LeaveWalk, SubscribeWalk, CloseWalk DEF Next
<1>. QED
  BY <1>1, <1>2, Invariance, PTL DEF Spec

\* When close() returns no handler is running any more, for any number of subscriptions:
\* it awaited all of them, if nobody unsubscribed and so changed the list it walks
\* (events.py:266-275).
THEOREM CloseIsQuiet == Spec => QuietAfterClose
<1>1. IInv /\ Listed /\ Walked /\ [Next]_vars =>
        [shut'.at = "done" /\ (\A s \in Sub : ~Unsubscribed(s))
           => \A s \in Sub : task'[s] \in {"none", "ended"}]_shut
  <2>. SUFFICES ASSUME IInv, Listed, Walked, [Next]_vars, shut' # shut, shut'.at = "done",
                       \A s \in Sub : ~Unsubscribed(s), NEW s \in Sub
                PROVE  task'[s] \in {"none", "ended"}
    OBVIOUS
  <2>1. shut \in [at : {"open", "closing", "done"}, next : Nat \ {0}] /\ subs \in Seq(Sub)
    BY DEF IInv, TypeOK
  <2>2. FinishClose
    <3>1. \A t \in Sub : Drain(t) \/ Subscribe(t) \/ Unsubscribe(t) \/ UnsubscribeItself(t)
                         \/ HandlerCancelled(t) \/ Swallow(t) => shut' = shut
      BY DEF Drain, Wake, HandlerReturns, HandlerSuspends, Unwind, Subscribe, Unsubscribe,
         UnsubscribeItself, HandlerCancelled, Swallow
    <3>2. \A kind \in Kind : Publish(kind) => shut' = shut
      BY DEF Publish
    <3>3. Close \/ AwaitTask => shut'.at = "closing"
      BY <2>1 DEF Close, AwaitTask
    <3>4. CancelClose => shut' = shut
      BY DEF CancelClose
    <3>. QED
      BY <3>1, <3>2, <3>3, <3>4 DEF Next, vars
  <2>3. shut.at = "closing" /\ shut.next > Len(subs) /\ task' = task
    BY <2>2 DEF FinishClose
  <2>4. \A i \in 1..Len(subs) : i < shut.next
    BY <2>1, <2>3
  <2>5. \A i \in 1..Len(subs) : task[subs[i]] = "ended"
    BY <2>3, <2>4 DEF Walked
  <2>. QED
    BY <2>3, <2>5 DEF Unsubscribed, Subscribed
<1>. QED
  BY <1>1, WalkInvariance, PTL DEF Spec, QuietAfterClose
==============================================================================
