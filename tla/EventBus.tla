------------------------------ MODULE EventBus ------------------------------
(***************************************************************************)
(* registro_core/events.py: publish() appends an event to the channel of   *)
(* every matching subscription and returns; each subscription has a task   *)
(* (_drain) that takes events from its channel and awaits the handler.     *)
(*                                                                         *)
(* Event number n has kind log[n].  A Sub is one call of subscribe().  An  *)
(* action is the code that runs between two suspensions, of a drain task,  *)
(* of its handler, or of whoever calls the bus.                            *)
(***************************************************************************)
EXTENDS Naturals, Sequences, SequencesExt, FiniteSets

CONSTANTS Sub,        \* the subscriptions
          Kind,       \* the classes of events
          Terminal,   \* _TERMINAL_EVENTS
          Wants,      \* per subscription: the classes its event_type covers
          Capacity,   \* per subscription: the maxsize of its channel
          Stubborn,   \* the subscriptions whose handlers may catch a CancelledError
          MaxEvents   \* bound: how many events are published

ASSUME SubAssumption == IsFiniteSet(Sub) /\ Stubborn \subseteq Sub
ASSUME KindAssumption == Terminal \subseteq Kind /\ Wants \in [Sub -> SUBSET Kind]
ASSUME CapacityAssumption == Capacity \in [Sub -> Nat] /\ MaxEvents \in Nat

VARIABLES
  log,       \* the events published so far
  subs,      \* _subs
  buf,       \* per subscription: its channel's _buf
  task,      \* per subscription: its drain task
  dropped,   \* dropped_events
  shut,      \* close(): how far it is, and the subscription it looks at
  history    \* per subscription: the events offered to it and taken by it
vars == <<log, subs, buf, task, dropped, shut, history>>

\* idle: in get().  handling: in the handler.  doomed: in a handler whose own
\* task was cancelled while it ran, so that its next suspension raises.
\* unwinding: the handler gets a CancelledError.  leaving: get() does.
TaskState == {"none", "idle", "handling", "doomed", "unwinding", "leaving", "ended"}

TypeOK ==
  /\ log \in Seq(Kind) /\ dropped \in Nat
  /\ subs \in Seq(Sub) /\ task \in [Sub -> TaskState]
  /\ buf \in [Sub -> Seq(1..Len(log))] /\ \A s \in Sub : IsInjective(buf[s])
  /\ shut \in [at : {"open", "closing", "done"}, next : Nat \ {0}]
  /\ history \in [Sub -> [offered : SUBSET (1..Len(log)), taken : SUBSET (1..Len(log))]]

closed == shut.at # "open"
Subscribed(s) == \E i \in 1..Len(subs) : subs[i] = s
Elements(queue) == {queue[i] : i \in 1..Len(queue)}

Init ==
  /\ log = <<>> /\ subs = <<>> /\ dropped = 0
  /\ buf = [s \in Sub |-> <<>>]
  /\ task = [s \in Sub |-> "none"]
  /\ shut = [at |-> "open", next |-> 1]
  /\ history = [s \in Sub |-> [offered |-> {}, taken |-> {}]]

-----------------------------------------------------------------------------
(* subscribe, unsubscribe *)

Subscribe(s) ==
  /\ ~closed /\ task[s] = "none"
  /\ task' = [task EXCEPT ![s] = "idle"]
  /\ subs' = Append(subs, s)
  /\ UNCHANGED <<log, buf, dropped, shut, history>>

Cancelled(at) ==
  IF at \in {"idle", "leaving"} THEN "leaving" ELSE IF at = "ended" THEN at ELSE "unwinding"

\* By another task, while this one is suspended.
Unsubscribe(s) ==
  /\ \E i \in 1..Len(subs) : subs[i] = s /\ subs' = RemoveAt(subs, i)
  /\ task' = [task EXCEPT ![s] = Cancelled(@)]
  /\ UNCHANGED <<log, buf, dropped, shut, history>>

\* By the handler of the subscription: cancel() takes effect when it suspends.
UnsubscribeItself(s) ==
  /\ task[s] = "handling"
  /\ \E i \in 1..Len(subs) : subs[i] = s /\ subs' = RemoveAt(subs, i)
  /\ task' = [task EXCEPT ![s] = "doomed"]
  /\ UNCHANGED <<log, buf, dropped, shut, history>>

-----------------------------------------------------------------------------
(* publish: put_nowait, or _handle_overflow when the channel is full *)

Evictable(queue) == {i \in 1..Len(queue) : log[queue[i]] \notin Terminal}

\* evict_oldest_non_terminal
Evicted(queue) ==
  LET i == CHOOSE i \in Evictable(queue) : \A j \in Evictable(queue) : i <= j
  IN  RemoveAt(queue, i)

\* Mutant: the oldest event is the victim, whatever it is.
OfferOldest(queue, kind, event, capacity) ==
  IF Len(queue) < capacity \/ queue = <<>> THEN Append(queue, event)
  ELSE Append(Tail(queue), event)

\* Mutant: a full channel grows for any event.
OfferGrows(queue, kind, event, capacity) == Append(queue, event)

\* Mutant: without its "else" the last branch also runs after an eviction.
OfferTwice(queue, kind, event, capacity) ==
  IF Len(queue) < capacity THEN Append(queue, event)
  ELSE LET room == IF Evictable(queue) # {} THEN Append(Evicted(queue), event) ELSE queue
       IN  IF kind \in Terminal THEN Append(room, event) ELSE room

\* What becomes of a channel that is offered an event.
Offer(queue, kind, event, capacity) ==
  IF Len(queue) < capacity THEN Append(queue, event)
  ELSE IF Evictable(queue) # {} THEN Append(Evicted(queue), event)
  ELSE IF kind \in Terminal THEN Append(queue, event)
  ELSE queue

\* Mutant: an event that is itself dropped is not counted.
DropsEvicted(queue, kind, capacity) == Len(queue) >= capacity /\ Evictable(queue) # {}

\* The event of this kind did not fit, or another made room for it.
Drops(queue, kind, capacity) ==
  Len(queue) >= capacity /\ (Evictable(queue) # {} \/ kind \notin Terminal)

Publish(kind) ==
  LET event == Len(log) + 1
      to == {s \in Sub : Subscribed(s) /\ kind \in Wants[s]}
  IN
  /\ ~closed /\ Len(log) < MaxEvents
  /\ log' = Append(log, kind)
  /\ buf' = [s \in Sub |-> IF s \in to THEN Offer(buf[s], kind, event, Capacity[s]) ELSE buf[s]]
  /\ dropped' = dropped + Cardinality({s \in to : Drops(buf[s], kind, Capacity[s])})
  /\ history' = [s \in Sub |-> IF s \in to THEN [history[s] EXCEPT !.offered = @ \cup {event}]
                               ELSE history[s]]
  /\ UNCHANGED <<subs, task, shut>>

-----------------------------------------------------------------------------
(* _drain *)

\* Mutant: the newest event first.
TakeEventNewest(s, running) ==
  /\ buf[s] # <<>>
  /\ buf' = [buf EXCEPT ![s] = SubSeq(@, 1, Len(@) - 1)]
  /\ history' = [history EXCEPT ![s].taken = @ \cup {buf[s][Len(buf[s])]}]
  /\ task' = [task EXCEPT ![s] = running]

\* get() returns the oldest event and the handler starts.
TakeEvent(s, running) ==
  /\ buf[s] # <<>>
  /\ buf' = [buf EXCEPT ![s] = Tail(@)]
  /\ history' = [history EXCEPT ![s].taken = @ \cup {Head(buf[s])}]
  /\ task' = [task EXCEPT ![s] = running]

Wake(s) ==
  /\ task[s] = "idle" /\ TakeEvent(s, "handling")
  /\ UNCHANGED <<log, subs, dropped, shut>>

\* Mutant: the task that was cancelled waits on.
WaitsOn(at) == "idle"

\* get() suspends on an empty channel, which is where a doomed task is stopped.
Waits(at) == IF at = "doomed" THEN "leaving" ELSE "idle"

\* The handler returns or raises an Exception: get() again, without suspending
\* if there is an event.
HandlerReturns(s) ==
  /\ task[s] \in {"handling", "doomed"}
  /\ \/ TakeEvent(s, task[s])
     \/ /\ buf[s] = <<>>
        /\ task' = [task EXCEPT ![s] = Waits(@)]
        /\ UNCHANGED <<buf, history>>
  /\ UNCHANGED <<log, subs, dropped, shut>>

\* What the handler awaits was itself cancelled: "except Exception" lets that
\* CancelledError through and the task ends, its subscription still in place.
HandlerCancelled(s) ==
  /\ task[s] = "handling"
  /\ task' = [task EXCEPT ![s] = "ended"]
  /\ UNCHANGED <<log, subs, buf, dropped, shut, history>>

HandlerSuspends(s) ==
  /\ task[s] = "doomed"
  /\ task' = [task EXCEPT ![s] = "unwinding"]
  /\ UNCHANGED <<log, subs, buf, dropped, shut, history>>

\* The CancelledError passes "except Exception", or is raised outside the "try".
Unwind(s) ==
  /\ task[s] \in {"unwinding", "leaving"}
  /\ task' = [task EXCEPT ![s] = "ended"]
  /\ UNCHANGED <<log, subs, buf, dropped, shut, history>>

\* The handler catches its CancelledError: it goes on, and when it returns or
\* raises an Exception instead the loop goes on too, cancelled no longer.
Swallow(s) ==
  /\ s \in Stubborn /\ task[s] = "unwinding"
  /\ task' = [task EXCEPT ![s] = "handling"]
  /\ UNCHANGED <<log, subs, buf, dropped, shut, history>>

-----------------------------------------------------------------------------
(* close *)

Close ==
  /\ ~closed
  /\ shut' = [shut EXCEPT !.at = "closing"]
  /\ task' = [s \in Sub |-> IF Subscribed(s) THEN Cancelled(task[s]) ELSE task[s]]
  /\ UNCHANGED <<log, subs, buf, dropped, history>>

\* Mutant: close() does not wait for the tasks it cancelled.
TaskOverAlways(s) == TRUE

TaskOver(s) == task[s] = "ended"

\* "for sub in self._subs": an index into a list that may shrink meanwhile.
AwaitTask ==
  /\ shut.at = "closing" /\ shut.next <= Len(subs)
  /\ TaskOver(subs[shut.next])
  /\ shut' = [shut EXCEPT !.next = @ + 1]
  /\ UNCHANGED <<log, subs, buf, task, dropped, history>>

\* close() is itself cancelled: that cancels the task it awaits once more, whose
\* CancelledError is suppressed like the expected one, and close() goes on.
CancelClose ==
  /\ shut.at = "closing" /\ shut.next <= Len(subs)
  /\ task[subs[shut.next]] # "ended"
  /\ task' = [task EXCEPT ![subs[shut.next]] = Cancelled(@)]
  /\ UNCHANGED <<log, subs, buf, dropped, shut, history>>

FinishClose ==
  /\ shut.at = "closing" /\ shut.next > Len(subs)
  /\ shut' = [shut EXCEPT !.at = "done"]
  /\ subs' = <<>>
  /\ UNCHANGED <<log, buf, task, dropped, history>>

-----------------------------------------------------------------------------

Drain(s) == Wake(s) \/ HandlerReturns(s) \/ HandlerSuspends(s) \/ Unwind(s)

Next ==
  \/ \E s \in Sub : Subscribe(s) \/ Unsubscribe(s) \/ UnsubscribeItself(s)
  \/ \E kind \in Kind : Publish(kind)
  \/ \E s \in Sub : Drain(s) \/ HandlerCancelled(s) \/ Swallow(s)
  \/ Close \/ AwaitTask \/ CancelClose \/ FinishClose

(***************************************************************************)
(* Fairness: a drain task that can run runs, its handler returns or        *)
(* raises, and close() goes on.  Nobody has to publish, subscribe or       *)
(* unsubscribe, and no handler has to swallow a cancellation.              *)
(***************************************************************************)
Fairness ==
  /\ \A s \in Sub : WF_vars(Drain(s))
  /\ WF_vars(AwaitTask \/ FinishClose)

Spec == Init /\ [][Next]_vars
FairSpec == Spec /\ Fairness

-----------------------------------------------------------------------------
(* Properties *)

\* A channel outgrows its capacity with terminal events only.  So there is room
\* after an eviction ("Channel now has room") and put_nowait cannot raise
\* QueueFull out of publish().
ChannelBounded ==
  \A s \in Sub : Len(buf[s]) > Capacity[s] => Evictable(buf[s]) = {}

\* dropped_events counts exactly the events that overflow took from somebody.
Lost(s) == history[s].offered \ (history[s].taken \cup Elements(buf[s]))
DropsCounted ==
  dropped = Cardinality(UNION {{<<s, e>> : e \in Lost(s)} : s \in Sub})

\* Whatever the overflow policy evicts, events reach a handler at most once, in
\* the order of publication, and a terminal one is never the victim.
Delivery == INSTANCE EventDelivery
  WITH Subscriber <- Sub,
       pending <- [s \in Sub |-> Elements(buf[s])],
       taken <- [s \in Sub |-> history[s].taken],
       absent <- {s \in Sub : ~Subscribed(s)}
KeepsDelivery == Delivery!Spec

\* A subscription works off the terminal events it was offered, all of them,
\* unless its task ends: the status bar does not stay at "running".
TerminalPending(s) == \E e \in history[s].offered \ history[s].taken : log[e] \in Terminal
TerminalDelivered ==
  \A s \in Sub : TerminalPending(s) ~> ~TerminalPending(s) \/ task[s] = "ended"

\* When close() returns no handler is running any more: it awaited all of them,
\* if nobody unsubscribed and so changed the list it walks.
Unsubscribed(s) == task[s] # "none" /\ ~Subscribed(s)
QuietAfterClose ==
  [][shut'.at = "done" /\ (\A s \in Sub : ~Unsubscribed(s))
       => \A s \in Sub : task'[s] \in {"none", "ended"}]_shut

\* close() and unsubscribe() end the drain tasks, also those cancelled by their
\* own handler and those of a close() that is cancelled or kept waiting.  Only a
\* handler that catches its CancelledError keeps its task (and close() waiting).
TasksEnd ==
  \A s \in Sub \ Stubborn :
    (Unsubscribed(s) \/ closed) ~> task[s] \in {"none", "ended"}
=============================================================================
