----------------------------- MODULE EventQueue -----------------------------
(***************************************************************************)
(* rmatching's event queue: a monotone radix heap over cyclic times (util/ *)
(* radix_heap.rs) and one tracker per detector node, search node or region *)
(* (interop/queued_event_tracker.rs), which leaves events in the heap that *)
(* are no longer wanted and tells them apart when they come out.           *)
(*                                                                         *)
(* Width is 32 in the code.  curTime, 64 bits there, is not bounded; event *)
(* times are taken modulo 2^Width.  An item stands for what the event is   *)
(* about; what a look at it does is left to the callers, the flooders,     *)
(* which may want any time from the current one to Horizon later.          *)
(***************************************************************************)
EXTENDS Integers, Sequences

CONSTANTS
  Items,     \* nodes and regions events are about
  Width,     \* bits of a cyclic time
  Horizon,   \* how far ahead callers look: the longest edge
  MaxTime,   \* bound: last time
  MaxQueued  \* bound: events in the heap

\* The powers of two, up to the number of cyclic times.
Power[k \in 0..Width] == IF k = 0 THEN 1 ELSE 2 * Power[k - 1]

Modulus == Power[Width]
Half    == Power[Width - 1]

\* Edge weights have fewer bits than cyclic times (user_graph.rs:
\* NUM_DISTINCT_WEIGHTS); enqueue asserts that no time is in the cyclic past.
ASSUME WidthAssumption   == Width \in Nat \ {0}
ASSUME HorizonAssumption == Horizon \in Nat /\ Horizon < Half
ASSUME ItemsAssumption   == {"none", "pending"} \cap Items = {}

VARIABLES
  buckets,   \* the heap
  curTime,   \* cur_time
  enqueued,  \* num_enqueued
  tracker,   \* of each item
  look       \* what the last dequeue_valid returned, or "pending" inside it

heap == <<buckets, curTime, enqueued>>
vars == <<buckets, curTime, enqueued, tracker, look>>

Times    == 0..Modulus - 1
Buckets  == 0..Width
Default  == [desired |-> 0, queued |-> 0, hasDesired |-> FALSE, hasQueued |-> FALSE]

Least(S) == CHOOSE x \in S : \A y \in S : x <= y
Last(s)  == s[Len(s)]
Front(s) == SubSeq(s, 1, Len(s) - 1)

-----------------------------------------------------------------------------
(* radix_heap.rs.                                                          *)

\* cyclic_gt.
CyclicGt(a, b) == (a - b - 1) % Modulus < Half - 1

\* widen_from_nearby_reference.
Widen(time, reference) ==
  LET forward == reference + ((time - (reference % Modulus)) % Modulus)
  IN IF CyclicGt(reference % Modulus, time) THEN forward - Modulus ELSE forward

\* bucket_for: the number of low bits without which the times agree, that is
\* the position of the highest bit of time XOR now.
Bucket(time, now) ==
  Least({k \in Buckets : time \div Power[k] = (now % Modulus) \div Power[k]})

\* enqueue.
Pushed(bs, event, now) == [bs EXCEPT ![Bucket(event.time, now)] = Append(@, event)]

\* The first bucket that is not empty, and the time dequeue moves to.
First == Least({k \in Buckets : buckets[k] # <<>>})

TimeOf(k) == Least({buckets[k][i].time : i \in 1..Len(buckets[k])})

\* Mutant: the first event of the bucket stands for the earliest.
SettledTimeFirst == IF First = 0 THEN curTime ELSE Widen(buckets[First][1].time, curTime)

SettledTime == CASE First = 0 -> curTime
                 [] First = 1 -> curTime + 1
                 [] OTHER     -> Widen(TimeOf(First), curTime)

\* The buckets when all of some events have been pushed in turn.
Spread(bs, events, now) ==
  LET after[n \in 0..Len(events)] ==
        IF n = 0 THEN bs ELSE Pushed(after[n - 1], events[n], now)
  IN after[Len(events)]

\* The buckets dequeue takes its event from.
Settled == CASE First = 0 -> buckets
             [] First = 1 -> [buckets EXCEPT ![0] = buckets[1], ![1] = buckets[0]]
             [] OTHER     -> Spread([buckets EXCEPT ![First] = <<>>], buckets[First], SettledTime)

\* The event dequeue returns, and the buckets it leaves.
Out  == Last(Settled[0])
Rest == [Settled EXCEPT ![0] = Front(@)]

-----------------------------------------------------------------------------
(* queued_event_tracker.rs.                                                *)

\* set_desired_event: an event is queued if none is, or only a later one.
SetDesired(i, time) ==
  LET cyclic == time % Modulus
      wakes  == ~ tracker[i].hasQueued \/ CyclicGt(tracker[i].queued, cyclic)
  IN /\ tracker' = [tracker EXCEPT ![i] =
          [desired    |-> cyclic,
           queued     |-> IF wakes THEN cyclic ELSE @.queued,
           hasDesired |-> TRUE,
           hasQueued  |-> TRUE]]
     /\ IF wakes
        THEN /\ buckets' = Pushed(buckets, [item |-> i, time |-> cyclic], curTime)
             /\ enqueued' = enqueued + 1
             /\ UNCHANGED curTime
        ELSE UNCHANGED heap
     /\ UNCHANGED look

\* A flooder wants a look at i.
Want(i) ==
  /\ look # "pending"
  /\ enqueued < MaxQueued
  /\ \E ahead \in 0..Horizon : curTime + ahead <= MaxTime /\ SetDesired(i, curTime + ahead)

\* set_no_desired_event.
SetNoDesired(i) ==
  /\ look # "pending"
  /\ tracker[i].hasDesired
  /\ tracker' = [tracker EXCEPT ![i].hasDesired = FALSE]
  /\ UNCHANGED <<heap, look>>

\* A region's slot is used for another region; events about the old one stay queued.
Reuse(i) ==
  /\ look # "pending"
  /\ tracker[i] # Default
  /\ tracker' = [tracker EXCEPT ![i] = Default]
  /\ UNCHANGED <<heap, look>>

\* Dequeued, and counted.
Taken == enqueued > 0 /\ curTime' = SettledTime

\* The event is the one its tracker counts as queued.
Current(e) == tracker[e.item].hasQueued /\ tracker[e.item].queued = e.time

\* dequeue_decision: a stale event, or one that is no longer wanted.
Discard ==
  /\ Taken
  /\ \/ ~ Current(Out) /\ UNCHANGED tracker
     \/ /\ Current(Out) /\ ~ tracker[Out.item].hasDesired
        /\ tracker' = [tracker EXCEPT ![Out.item].hasQueued = FALSE]
  /\ buckets' = Rest
  /\ enqueued' = enqueued - 1
  /\ look' = "pending"

\* Mutant: an event that came too early is dropped with the wish for a later one.
RequeueDropped ==
  /\ Taken
  /\ Current(Out) /\ tracker[Out.item].hasDesired /\ tracker[Out.item].desired # Out.time
  /\ tracker' = [tracker EXCEPT ![Out.item].hasQueued = FALSE]
  /\ buckets' = Rest
  /\ enqueued' = enqueued - 1
  /\ look' = "pending"

\* dequeue_decision: the event is wanted later.
Requeue ==
  /\ Taken
  /\ Current(Out) /\ tracker[Out.item].hasDesired /\ tracker[Out.item].desired # Out.time
  /\ LET later == tracker[Out.item].desired
     IN /\ tracker' = [tracker EXCEPT ![Out.item].queued = later]
        /\ buckets' = Pushed(Rest, [item |-> Out.item, time |-> later], SettledTime)
  /\ UNCHANGED enqueued
  /\ look' = "pending"

\* dequeue_decision: the event is processed.
Process ==
  /\ Taken
  /\ Current(Out) /\ tracker[Out.item].hasDesired /\ tracker[Out.item].desired = Out.time
  /\ tracker' = [tracker EXCEPT ![Out.item].hasQueued = FALSE, ![Out.item].hasDesired = FALSE]
  /\ buckets' = Rest
  /\ enqueued' = enqueued - 1
  /\ look' = Out.item

\* dequeue returns no_event.
NoEvent ==
  /\ enqueued = 0
  /\ look' = "none"
  /\ UNCHANGED <<heap, tracker>>

\* GraphFlooder::reset and SearchFlooder::reset, before the next decoding.
Reset ==
  /\ look # "pending"
  /\ buckets' = [k \in Buckets |-> <<>>]
  /\ curTime' = 0
  /\ enqueued' = 0
  /\ tracker' = [i \in Items |-> Default]
  /\ look' = "none"

Init ==
  /\ buckets = [k \in Buckets |-> <<>>]
  /\ curTime = 0
  /\ enqueued = 0
  /\ tracker = [i \in Items |-> Default]
  /\ look = "none"

Next ==
  \/ \E i \in Items : Want(i) \/ SetNoDesired(i) \/ Reuse(i)
  \/ Discard \/ Requeue \/ Process \/ NoEvent
  \/ Reset

Spec == Init /\ [][Next]_vars

-----------------------------------------------------------------------------
(* Properties.                                                             *)

\* The absolute time of a queued or desired time, all of which lie ahead.
Absolute(time) == Widen(time, curTime)

\* After every move of the time, also around the end of the cycle, each event
\* is in the bucket its distance belongs to and none is in the past: the first
\* bucket that is not empty has the earliest event.  And the counter that says
\* whether there is one is right.
HeapOrdered ==
  /\ \A k \in Buckets : \A i \in 1..Len(buckets[k]) :
       LET time == buckets[k][i].time IN
       /\ Bucket(time, curTime) = k
       /\ Absolute(time) >= curTime
  /\ enqueued = 0 <=> \A k \in Buckets : buckets[k] = <<>>

Plan == INSTANCE Agenda WITH
  now    <- curTime,
  wanted <- [i \in Items |-> IF tracker[i].hasDesired
                             THEN Absolute(tracker[i].desired) ELSE -1],
  look   <- look

\* The flooders see an agenda: looks come in the order of time, each at the
\* time last wanted and once, and "no event" means that no look is wanted.
Implements == Plan!Spec
=============================================================================
