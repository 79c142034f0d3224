------------------------------- MODULE PubSub -------------------------------
(***************************************************************************)
(* The publish/subscribe service (pubsub.go): one goroutine that           *)
(* broadcasts, the publisher that is inside Publish, and the subscribers   *)
(* that are inside Subscribe.  There may be several services ("hubs"); the *)
(* operators below take the hub they work on.  They say what a step does   *)
(* to the service; Relay adds who takes it.                                *)
(*                                                                         *)
(* The three channels never block the one who sends: what does not fit is  *)
(* dropped.  The loop over the listeners runs under listenersLock and is   *)
(* one step: a subscriber that takes from its own channel meanwhile is not *)
(* told apart from one that does so before or after.                       *)
(***************************************************************************)
EXTENDS Integers, Sequences

CONSTANTS
  Publisher, Subscriber,     \* connections
  None,                      \* no hub, no connection
  IncomingSize,              \* capacity of pubSub.incoming, 1024 in the code
  ListenerSize,              \* capacity of a listener's channel, 1024
  MaxPacket                  \* bound on the packets a publisher sends

\* A hub is named after the publisher whose handler makes it.
Hub == Publisher

ASSUME PubSubAssumption ==
  /\ Publisher # {} /\ None \notin Publisher \cup Subscriber
  /\ Publisher \cap Subscriber = {}
  /\ IncomingSize \in Nat \ {0} /\ ListenerSize \in Nat \ {0}
  /\ MaxPacket \in Nat

VARIABLES
  ctx,                       \* hub -> "none" (not made), "live" or "done"
  broadcast,                 \* hub -> its goroutine: "on" or "off"
  publish,                   \* hubs whose flag publish is set
  publishLock,               \* hub -> the publisher that holds it, or None
  incoming,                  \* hub -> packets to be broadcast
  listeners,                 \* hub -> subscribers with an entry
  queue,                     \* subscriber -> packets in its channel
  aired,                     \* hub -> packets taken by the broadcast loop
  overflown                  \* subscribers whose channel was full once

hubVars == <<ctx, broadcast, publish, publishLock, incoming, listeners, queue, aired, overflown>>

Packet == [from : Publisher, n : 1..MaxPacket]

HubTypeOK ==
  /\ ctx \in [Hub -> {"none", "live", "done"}]
  /\ broadcast \in [Hub -> {"on", "off"}]
  /\ publish \subseteq Hub
  /\ publishLock \in [Hub -> Publisher \cup {None}]
  /\ incoming \in [Hub -> Seq(Packet)]
  /\ listeners \in [Hub -> SUBSET Subscriber]
  /\ queue \in [Subscriber -> Seq(Packet)]
  /\ aired \in [Hub -> Seq(Packet)]
  /\ overflown \subseteq Subscriber

HubInit(made) ==
  /\ ctx = [h \in Hub |-> IF h \in made THEN "live" ELSE "none"]
  /\ broadcast = [h \in Hub |-> IF h \in made THEN "on" ELSE "off"]
  /\ publish = {}
  /\ publishLock = [h \in Hub |-> None]
  /\ incoming = [h \in Hub |-> <<>>]
  /\ listeners = [h \in Hub |-> {}]
  /\ queue = [s \in Subscriber |-> <<>>]
  /\ aired = [h \in Hub |-> <<>>]
  /\ overflown = {}

NewPubSub(h) ==
  /\ ctx[h] = "none"
  /\ ctx' = [ctx EXCEPT ![h] = "live"]
  /\ broadcast' = [broadcast EXCEPT ![h] = "on"]
  /\ UNCHANGED <<publish, publishLock, incoming, listeners, queue, aired, overflown>>

-----------------------------------------------------------------------------
(* The broadcast loop.  Once the context is done and packets still wait,   *)
(* select takes either branch.                                             *)

BroadcastEnds(h) ==
  /\ broadcast[h] = "on" /\ ctx[h] = "done"
  /\ broadcast' = [broadcast EXCEPT ![h] = "off"]
  /\ UNCHANGED <<ctx, publish, publishLock, incoming, listeners, queue, aired, overflown>>

Full(s) == Len(queue[s]) >= ListenerSize

\* Mutant: the loop stops at the first listener whose channel is full.
BroadcastStops(h) ==
  /\ broadcast[h] = "on" /\ incoming[h] # <<>>
  /\ incoming' = [incoming EXCEPT ![h] = Tail(@)]
  /\ aired' = [aired EXCEPT ![h] = Append(@, Head(incoming[h]))]
  /\ LET full == {s \in listeners[h] : Full(s)}
     IN  /\ overflown' = overflown \cup full
         /\ queue' = [s \in Subscriber |->
                        IF s \in listeners[h] /\ full = {}
                        THEN Append(queue[s], Head(incoming[h])) ELSE queue[s]]
  /\ UNCHANGED <<ctx, broadcast, publish, publishLock, listeners>>

Broadcast(h) ==
  /\ broadcast[h] = "on" /\ incoming[h] # <<>>
  /\ incoming' = [incoming EXCEPT ![h] = Tail(@)]
  /\ aired' = [aired EXCEPT ![h] = Append(@, Head(incoming[h]))]
  /\ overflown' = overflown \cup {s \in listeners[h] : Full(s)}
  /\ queue' = [s \in Subscriber |->
                 IF s \in listeners[h] /\ ~Full(s)
                 THEN Append(queue[s], Head(incoming[h])) ELSE queue[s]]
  /\ UNCHANGED <<ctx, broadcast, publish, publishLock, listeners>>

-----------------------------------------------------------------------------
(* Publish holds publishLock from its first statement to its return, so    *)
(* that a second call waits for the first one to return and then fails.    *)

\* Mutant: the flag is not looked at.
PublishBeginsAgain(h, p) ==
  /\ publishLock[h] = None
  /\ publishLock' = [publishLock EXCEPT ![h] = p]
  /\ publish' = publish \cup {h}
  /\ UNCHANGED <<ctx, broadcast, incoming, listeners, queue, aired, overflown>>

PublishBegins(h, p) ==
  /\ publishLock[h] = None /\ h \notin publish
  /\ publishLock' = [publishLock EXCEPT ![h] = p]
  /\ publish' = publish \cup {h}
  /\ UNCHANGED <<ctx, broadcast, incoming, listeners, queue, aired, overflown>>

PublishRefused(h) ==
  /\ publishLock[h] = None /\ h \in publish
  /\ UNCHANGED hubVars

PublishPacket(h, pkt) ==
  /\ incoming' = [incoming EXCEPT ![h] = IF Len(@) < IncomingSize THEN Append(@, pkt) ELSE @]
  /\ UNCHANGED <<ctx, broadcast, publish, publishLock, listeners, queue, aired, overflown>>

\* Mutant: the context is not cancelled.
PublishEndsSilently(h) ==
  /\ publishLock' = [publishLock EXCEPT ![h] = None]
  /\ UNCHANGED <<ctx, broadcast, publish, incoming, listeners, queue, aired, overflown>>

\* ReadPacket has failed: the context is cancelled.
PublishEnds(h) ==
  /\ ctx' = [ctx EXCEPT ![h] = "done"]
  /\ publishLock' = [publishLock EXCEPT ![h] = None]
  /\ UNCHANGED <<broadcast, publish, incoming, listeners, queue, aired, overflown>>

-----------------------------------------------------------------------------
(* Subscribe.                                                              *)

SubscribeBegins(h, s) ==
  /\ listeners' = [listeners EXCEPT ![h] = @ \cup {s}]
  /\ queue' = [queue EXCEPT ![s] = <<>>]
  /\ UNCHANGED <<ctx, broadcast, publish, publishLock, incoming, aired, overflown>>

SubscribeTakes(s) ==
  /\ queue[s] # <<>>
  /\ queue' = [queue EXCEPT ![s] = Tail(@)]
  /\ UNCHANGED <<ctx, broadcast, publish, publishLock, incoming, listeners, aired, overflown>>

SubscribeEOF(h) ==
  /\ ctx[h] = "done"
  /\ UNCHANGED hubVars

\* The deferred function, whatever Subscribe returns.
SubscribeEnds(h, s) ==
  /\ listeners' = [listeners EXCEPT ![h] = @ \ {s}]
  /\ UNCHANGED <<ctx, broadcast, publish, publishLock, incoming, queue, aired, overflown>>

=============================================================================
