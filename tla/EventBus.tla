------------------------------ MODULE EventBus ------------------------------
(***************************************************************************)
(* The event bus: the subscribers of a topic, in a table of fixed size,    *)
(* and the bounded queue of each subscriber.  An event is its number.      *)
(***************************************************************************)
EXTENDS FixedRingBuffer

CONSTANTS
  Topics, Sinks, NoSink,
  SubscribersPerTopic,
  QueueCapacity,
  MaxEvents             \* bound: events published

ASSUME BusAssumption ==
  /\ NoSink \notin Sinks
  /\ {SubscribersPerTopic, QueueCapacity} \subseteq Nat \ {0} /\ MaxEvents \in Nat

VARIABLES
  subscribers,  \* subscribers_
  queues,       \* the queues of the sinks
  published,    \* history: events published so far
  owed          \* history: for a sink, the events published to it and not taken or refused

busVars == <<subscribers, queues, published, owed>>

Places == 1..SubscribersPerTopic

BusInit ==
  /\ subscribers = [t \in Topics |-> [p \in Places |-> NoSink]]
  /\ queues = [s \in Sinks |-> NewBuffer(0, QueueCapacity)]
  /\ published = 0
  /\ owed = [s \in Sinks |-> {}]

(* Mutant of Place: the first free place, without a look for the sink. *)
PlaceFree(t, s) == { p \in Places : subscribers[t][p] = NoSink }

(* The places where subscribe() may stop: the sink's own, or a free one. *)
Place(t, s) == { p \in Places : subscribers[t][p] \in {s, NoSink} }

Subscribe(t, s) ==
  /\ \E p \in Place(t, s) :
       /\ \A q \in Place(t, s) : p <= q
       /\ subscribers' = [subscribers EXCEPT ![t][p] = s]
  /\ UNCHANGED <<queues, published, owed>>

(* publish(): one try_push for every place taken, from the first to the last. *)
Publish(t) ==
  /\ published < MaxEvents
  /\ published' = published + 1
  /\ LET pushed[p \in 0..SubscribersPerTopic] ==
           IF p = 0 THEN queues
           ELSE [s \in Sinks |-> IF subscribers[t][p] = s
                                 THEN try_push(pushed[p-1][s], published + 1, QueueCapacity)
                                 ELSE pushed[p-1][s]]
     IN queues' = pushed[SubscribersPerTopic]
  /\ owed' = [s \in Sinks |->
                IF (\E p \in Places : subscribers[t][p] = s) /\ ~full(queues[s], QueueCapacity)
                THEN owed[s] \cup {published + 1} ELSE owed[s]]
  /\ UNCHANGED subscribers

(* A subscriber takes an event from its queue. *)
TakeEvent(s) ==
  /\ ~empty(queues[s])
  /\ queues' = [queues EXCEPT ![s] = drop_oldest(@, QueueCapacity)]
  /\ owed' = [owed EXCEPT ![s] = @ \ {peek(queues[s])}]
  /\ UNCHANGED <<subscribers, published>>

BusNext ==
  \/ \E t \in Topics, s \in Sinks : Subscribe(t, s)
  \/ \E t \in Topics : Publish(t)
  \/ \E s \in Sinks : TakeEvent(s)

BusSpec == BusInit /\ [][BusNext]_busVars

-----------------------------------------------------------------------------
(***************************************************************************)
(* A subscriber's queue has exactly the events published to its topics     *)
(* since it subscribed that found room and that it has not taken, each     *)
(* once and in the order of publication, however often and to whatever     *)
(* topics it subscribed.                                                   *)
(***************************************************************************)
EventsOnceInOrder ==
  \A s \in Sinks : LET events == Contents(queues[s], QueueCapacity) IN
    /\ { events[i] : i \in 1..queues[s].count } = owed[s]
    /\ \A i \in 2..queues[s].count : events[i-1] < events[i]

=============================================================================
