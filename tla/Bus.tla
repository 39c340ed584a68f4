-------------------------------- MODULE Bus --------------------------------
(* The coordination bus (src/bus/mod.rs, src/bus/redis_bus.rs) as its users  *)
(* see it.  Every publish runs in a task of its own, so the events a node    *)
(* has announced leave in any order; Redis hands each event to whoever is    *)
(* subscribed at that moment, the announcing node included, in one order;    *)
(* a node's subscriber handles one event at a time.                          *)
EXTENDS Naturals, Sequences, FiniteSets, Bags

CONSTANTS
  Node,     \* the gateway processes
  Lossy     \* TRUE if a publish may fail and a subscriber be disconnected

VARIABLES
  outbox,   \* outbox[n]: the bag of events whose publish task has not run yet
  chan      \* chan[n]: what Redis delivered to n's subscriber and it has not handled

busVars == <<outbox, chan>>

BusInit ==
  /\ outbox = [n \in Node |-> EmptyBag]
  /\ chan = [n \in Node |-> <<>>]

\* tokio::spawn(async move { bus.publish(&e).await }) on node n.
Announce(n, e) == outbox' = [outbox EXCEPT ![n] = @ (+) SetToBag({e})]

\* RedisBus::publish.  A failure is logged and the event is gone; a subscriber
\* that is reconnecting receives nothing and is sent nothing later.
Receivers == IF Lossy THEN SUBSET Node ELSE {Node}

Publish(n) ==
  \E e \in BagToSet(outbox[n]), to \in Receivers :
    /\ outbox' = [outbox EXCEPT ![n] = @ (-) SetToBag({e})]
    /\ chan' = [m \in Node |-> IF m \in to THEN Append(chan[m], e) ELSE chan[m]]

Dispatch_DropsBacklog(n) ==
  /\ chan[n] # <<>>
  /\ chan' = [chan EXCEPT ![n] = <<>>]

\* The subscriber of n dispatches the next event.
NextEvent(n) == Head(chan[n])

Dispatch(n) ==
  /\ chan[n] # <<>>
  /\ chan' = [chan EXCEPT ![n] = Tail(@)]

\* The process of n dies: its tasks and its subscription die with it.
BusRestart(n) ==
  /\ outbox' = [outbox EXCEPT ![n] = EmptyBag]
  /\ chan' = [chan EXCEPT ![n] = <<>>]
=============================================================================
