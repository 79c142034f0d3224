---------------------------- MODULE RelayProofs -----------------------------
(***************************************************************************)
(* For any number of publishers and subscribers, all sizes of the channels *)
(* and both ways to use the service: a stream has one publisher at a time, *)
(* a subscriber gets the packets of one publisher in their order, and it   *)
(* misses none unless its own channel was full.                            *)
(*                                                                         *)
(* OnePublisher relates who is past the look-up of handlePublish to the    *)
(* entry in channels, and who is inside Publish to the lock.  To be        *)
(* inductive it needs the local variable pubsub of the publishers that     *)
(* share one service.                                                      *)
(*                                                                         *)
(* StreamInv is about the packets on their way: those a subscriber has got,*)
(* those in its channel and those in incoming of its service follow each   *)
(* other (InOrder), and come from one publisher, because Publish sets the  *)
(* flag of a service once and for all (OneSource).  A subscriber is in     *)
(* listeners exactly while it is inside Subscribe (Entered).               *)
(***************************************************************************)
EXTENDS Relay, TLAPS

\* The provers, in this order, for the leaves that name none.
USE SMTT(30), Zenon

Handling == {"call", "publishing", "returned"}

PublisherTypes ==
  /\ channel \in Hub \cup {None}
  /\ pc \in [Conn -> {"request", "accepted", "call", "publishing",
                      "listening", "leaving", "returned", "closed"}]
  /\ hub \in [Conn -> Hub \cup {None}]
  /\ publishLock \in [Hub -> Publisher \cup {None}]
  /\ app \in {"server", "shared"}

KnowsShared ==
  app = "shared" => \A p \in Publisher : pc[p] \in Handling => hub[p] = Shared

Inv == PublisherTypes /\ KnowsShared /\ OnePublisher

-----------------------------------------------------------------------------

(* The service that the connections of one application share is one.       *)
LEMMA SharedIsHub == Shared \in Hub
BY PubSubAssumption DEF Shared, Hub

(* A publisher past the look-up knows a service.                           *)
LEMMA HandlingKnowsHub ==
  ASSUME Inv, NEW p \in Publisher, pc[p] \in Handling
  PROVE  hub[p] \in Hub
<1>1. CASE app = "server"
  BY <1>1 DEF Inv, OnePublisher, Handling, Hub
<1>2. CASE app = "shared"
  BY <1>2, SharedIsHub DEF Inv, KnowsShared
<1>3. QED
  BY <1>1, <1>2 DEF Inv, PublisherTypes

(* Before anybody connects there is no publisher.                          *)
LEMMA InitInv == Init => Inv
BY DEF Init, HubInit, Inv, PublisherTypes, KnowsShared, OnePublisher, Handling, Conn, Hub

(* Steps of the subscribers and of the broadcast loop, and all others that *)
(* leave the publishers, the channels and the locks alone.                 *)
LEMMA OtherStep ==
  ASSUME Inv, UNCHANGED <<app, channel, hub, publishLock>>,
         pc' \in [Conn -> {"request", "accepted", "call", "publishing",
                           "listening", "leaving", "returned", "closed"}],
         \A p \in Publisher : pc'[p] = pc[p]
  PROVE  Inv'
<1>1. PublisherTypes' /\ KnowsShared'
  BY DEF Inv, PublisherTypes, KnowsShared
<1>2. OnePublisher'
  BY DEF Inv, OnePublisher, PublisherTypes, Hub
<1>3. QED
  BY <1>1, <1>2 DEF Inv

(* handleConnect only lets a connection in or turns it away.               *)
LEMMA HandleConnectStep ==
  ASSUME Inv, NEW c \in Conn, HandleConnect(c)
  PROVE  Inv'
<1>1. /\ UNCHANGED <<app, channel, hub, publishLock>>
      /\ pc[c] = "request"
      /\ \/ pc' = [pc EXCEPT ![c] = "accepted"]
         \/ pc' = [pc EXCEPT ![c] = "closed"]
  BY DEF HandleConnect, Goes, hubVars
<1>2. PublisherTypes'
  BY <1>1 DEF Inv, PublisherTypes
<1>3. \A p \in Publisher : pc[p] \in Handling \/ pc'[p] \in Handling => pc'[p] = pc[p]
  BY <1>1 DEF Inv, PublisherTypes, Conn, Handling
<1>4. KnowsShared'
  BY <1>1, <1>3 DEF Inv, KnowsShared
<1>5. OnePublisher'
  BY <1>1, <1>3 DEF Inv, OnePublisher, PublisherTypes, Handling, Hub
<1>6. QED
  BY <1>2, <1>4, <1>5 DEF Inv

(* handlePublish: it takes the entry only if no one has it.                *)
LEMMA HandlePublishStep ==
  ASSUME Inv, NEW p \in Publisher, HandlePublish(p)
  PROVE  Inv'
<1>1. CASE /\ app = "server" /\ channel = None /\ Goes(p, "accepted", "call")
           /\ NewPubSub(p) /\ channel' = p /\ hub' = [hub EXCEPT ![p] = p]
           /\ UNCHANGED <<app, query, gone, sent, got>>
  <2>1. /\ pc[p] = "accepted" /\ pc' = [pc EXCEPT ![p] = "call"]
        /\ publishLock' = publishLock
    BY <1>1 DEF Goes, NewPubSub
  <2>2. PublisherTypes' /\ KnowsShared'
    BY <1>1, <2>1 DEF Inv, PublisherTypes, KnowsShared, Conn, Hub
  <2>3. \A q \in Publisher : pc[q] \notin Handling
    BY <1>1, PubSubAssumption DEF Inv, OnePublisher, Handling
  <2>4. \A q \in Publisher : q # p => pc'[q] = pc[q]
    BY <2>1 DEF Inv, PublisherTypes, Conn
  <2>5. pc'[p] = "call" /\ hub'[p] = p
    BY <1>1, <2>1 DEF Inv, PublisherTypes, Conn
  <2>6. OnePublisher'
    BY <1>1, <2>3, <2>4, <2>5, PubSubAssumption DEF OnePublisher, Handling
  <2>7. QED
    BY <2>2, <2>6 DEF Inv
<1>2. CASE /\ app = "server" /\ channel # None /\ Goes(p, "accepted", "closed")
           /\ UNCHANGED <<hubVars, app, query, channel, hub, gone, sent, got>>
  <2>1. /\ pc[p] = "accepted" /\ pc' = [pc EXCEPT ![p] = "closed"]
        /\ UNCHANGED <<app, channel, hub, publishLock>>
    BY <1>2 DEF Goes, hubVars
  <2>2. PublisherTypes' /\ KnowsShared'
    BY <1>2, <2>1, Zenon DEF Inv, PublisherTypes, KnowsShared
  <2>3. \A q \in Publisher : pc[q] \in Handling \/ pc'[q] \in Handling => pc'[q] = pc[q]
    BY <2>1 DEF Inv, PublisherTypes, Conn, Handling
  <2>4. OnePublisher'
    BY <2>1, <2>3 DEF Inv, OnePublisher, PublisherTypes, Handling, Hub
  <2>5. QED
    BY <2>2, <2>4 DEF Inv
<1>3. CASE /\ app = "shared" /\ Goes(p, "accepted", "call")
           /\ hub' = [hub EXCEPT ![p] = Shared]
           /\ UNCHANGED <<hubVars, app, query, channel, gone, sent, got>>
  <2>1. /\ pc[p] = "accepted" /\ pc' = [pc EXCEPT ![p] = "call"]
        /\ UNCHANGED <<app, channel, publishLock>>
    BY <1>3 DEF Goes, hubVars
  <2>3. PublisherTypes'
    BY <1>3, <2>1, SharedIsHub DEF Inv, PublisherTypes, Conn
  <2>4. \A q \in Publisher : q # p => pc'[q] = pc[q] /\ hub'[q] = hub[q]
    BY <1>3, <2>1 DEF Inv, PublisherTypes, Conn
  <2>5. pc'[p] = "call" /\ hub'[p] = Shared
    BY <1>3, <2>1 DEF Inv, PublisherTypes, Conn
  <2>6. KnowsShared'
    BY <2>1, <2>4, <2>5 DEF Inv, KnowsShared
  <2>7. OnePublisher'
    BY <1>3, <2>1, <2>4, <2>5 DEF Inv, OnePublisher
  <2>8. QED
    BY <2>3, <2>6, <2>7 DEF Inv
<1>4. QED
  BY <1>1, <1>2, <1>3 DEF HandlePublish

(* Publish: who enters holds the lock, and nobody held it before.          *)
LEMMA PublishStep ==
  ASSUME Inv, NEW p \in Publisher, Publish(p)
  PROVE  Inv'
<1>1. pc[p] = "call" /\ UNCHANGED <<app, channel, hub>> /\ hub[p] \in Hub
  <2>1. pc[p] = "call" /\ UNCHANGED <<app, channel, hub>>
    BY DEF Publish, Goes
  <2>2. QED
    BY <2>1, HandlingKnowsHub DEF Handling
<1>2. \/ /\ pc' = [pc EXCEPT ![p] = "publishing"]
         /\ publishLock[hub[p]] = None
         /\ publishLock' = [publishLock EXCEPT ![hub[p]] = p]
      \/ /\ pc' = [pc EXCEPT ![p] = "returned"] /\ publishLock' = publishLock
  BY DEF Publish, Goes, PublishBegins, PublishRefused, hubVars
<1>3. PublisherTypes'
  BY <1>1, <1>2 DEF Inv, PublisherTypes
<1>4. /\ \A q \in Publisher : q # p => pc'[q] = pc[q]
      /\ pc'[p] \in {"publishing", "returned"}
  BY <1>2 DEF Inv, PublisherTypes, Conn
<1>5. KnowsShared'
  BY <1>1, <1>4 DEF Inv, KnowsShared, Handling
<1>6. ASSUME app = "server"
      PROVE  /\ \A q \in Publisher : pc'[q] \in {"call", "publishing", "returned"} =>
                  channel' = q /\ hub'[q] = q
             /\ channel' # None => pc'[channel'] \in {"call", "publishing", "returned"}
  BY <1>1, <1>4, <1>6 DEF Inv, OnePublisher, PublisherTypes, Hub
<1>7. \A q \in Publisher : pc'[q] = "publishing" => publishLock'[hub'[q]] = q
  <2> SUFFICES ASSUME NEW q \in Publisher, pc'[q] = "publishing"
               PROVE  publishLock'[hub[q]] = q
    BY <1>1
  <2>1. CASE q = p
    <3>1. publishLock' = [publishLock EXCEPT ![hub[p]] = p]
      BY <1>2, <2>1 DEF Inv, PublisherTypes, Conn
    <3>2. QED
      BY <1>1, <2>1, <3>1 DEF Inv, PublisherTypes
  <2>2. CASE q # p
    <3>1. pc[q] = "publishing"
      BY <1>4, <2>2
    <3>2. publishLock[hub[q]] = q /\ q # None
      BY <3>1, PubSubAssumption DEF Inv, OnePublisher
    <3>3. hub[q] \in Hub
      BY <3>1, HandlingKnowsHub DEF Handling
    <3>4. QED
      BY <1>1, <1>2, <3>2, <3>3 DEF Inv, PublisherTypes
  <2>3. QED
    BY <2>1, <2>2
<1>8. OnePublisher'
  BY <1>1, <1>6, <1>7 DEF OnePublisher
<1>9. QED
  BY <1>3, <1>5, <1>8 DEF Inv

(* The end of Publish frees the lock that this publisher holds.            *)
LEMMA ReadFailsStep ==
  ASSUME Inv, NEW p \in Publisher, ReadFails(p)
  PROVE  Inv'
<1>1. /\ pc[p] = "publishing" /\ UNCHANGED <<app, channel, hub>>
      /\ pc' = [pc EXCEPT ![p] = "returned"]
      /\ publishLock' = [publishLock EXCEPT ![hub[p]] = None]
  BY DEF ReadFails, Goes, PublishEnds
<1>2. hub[p] \in Hub
  BY <1>1, HandlingKnowsHub DEF Handling
<1>3. PublisherTypes'
  BY <1>1, Zenon DEF Inv, PublisherTypes
<1>4. pc'[p] = "returned" /\ \A q \in Publisher : q # p => pc'[q] = pc[q]
  BY <1>1 DEF Inv, PublisherTypes, Conn
<1>5. KnowsShared'
  BY <1>1, <1>4 DEF Inv, KnowsShared, Handling
<1>6. ASSUME app = "server"
      PROVE  /\ \A q \in Publisher : pc'[q] \in {"call", "publishing", "returned"} =>
                  channel' = q /\ hub'[q] = q
             /\ channel' # None => pc'[channel'] \in {"call", "publishing", "returned"}
  BY <1>1, <1>4, <1>6 DEF Inv, OnePublisher, PublisherTypes, Hub
<1>7. \A q \in Publisher : pc'[q] = "publishing" => publishLock'[hub'[q]] = q
  <2> SUFFICES ASSUME NEW q \in Publisher, pc'[q] = "publishing"
               PROVE  publishLock'[hub[q]] = q
    BY <1>1
  <2>1. q # p /\ pc[q] = "publishing"
    BY <1>4
  <2>2. publishLock[hub[q]] = q /\ publishLock[hub[p]] = p
    BY <1>1, <2>1 DEF Inv, OnePublisher
  <2>3. hub[q] \in Hub /\ hub[q] # hub[p]
    BY <2>1, <2>2, HandlingKnowsHub DEF Handling
  <2>4. QED
    BY <1>1, <2>2, <2>3 DEF Inv, PublisherTypes
<1>8. OnePublisher'
  BY <1>1, <1>6, <1>7 DEF OnePublisher
<1>9. QED
  BY <1>3, <1>5, <1>8 DEF Inv

(* The deleted entry is the publisher's own.                               *)
LEMMA UnlistStep ==
  ASSUME Inv, NEW p \in Publisher, Unlist(p)
  PROVE  Inv'
<1>1. /\ pc[p] = "returned" /\ UNCHANGED <<app, hub, publishLock>>
      /\ pc' = [pc EXCEPT ![p] = "closed"]
      /\ channel' = IF app = "server" THEN None ELSE channel
  BY DEF Unlist, Goes, hubVars
<1>2. PublisherTypes'
  BY <1>1, Zenon DEF Inv, PublisherTypes
<1>3. pc'[p] = "closed" /\ \A q \in Publisher : q # p => pc'[q] = pc[q]
  BY <1>1 DEF Inv, PublisherTypes, Conn
<1>4. KnowsShared'
  BY <1>1, <1>3 DEF Inv, KnowsShared, Handling
<1>5. app = "server" => \A q \in Publisher : q # p => pc[q] \notin Handling
  BY <1>1 DEF Inv, OnePublisher, Handling
<1>6. OnePublisher'
  BY <1>1, <1>3, <1>5 DEF Inv, OnePublisher, Handling
<1>7. QED
  BY <1>2, <1>4, <1>6 DEF Inv

(* A subscriber's own steps.                                               *)
LEMMA SubscriberMoves ==
  ASSUME Inv, NEW s \in Subscriber,
         HandleSubscribe(s) \/ Subscribe(s) \/ WritePacket(s) \/ WriteFails(s)
           \/ EOF(s) \/ Unsubscribe(s)
  PROVE  Inv'
<1>1. s \in Conn /\ s \notin Publisher
  BY PubSubAssumption DEF Conn
<1>2. UNCHANGED <<app, channel, publishLock>>
  BY DEF HandleSubscribe, Subscribe, WritePacket, WriteFails, EOF, Unsubscribe, hubVars,
         SubscribeBegins, SubscribeTakes, SubscribeEOF, SubscribeEnds
<1>3. \/ pc' = pc
      \/ \E to \in {"call", "closed", "listening", "leaving"} : pc' = [pc EXCEPT ![s] = to]
  BY DEF HandleSubscribe, Subscribe, WritePacket, WriteFails, EOF, Unsubscribe, Goes
<1>4. hub' = hub \/ \E h \in Hub : hub' = [hub EXCEPT ![s] = h]
  <2>1. CASE HandleSubscribe(s)
    <3> DEFINE h == IF app = "shared" THEN Shared ELSE channel
    <3>1. hub' = hub \/ (h # None /\ hub' = [hub EXCEPT ![s] = h])
      BY <2>1 DEF HandleSubscribe
    <3>2. h # None /\ app # "shared" => h \in Hub
      BY DEF Inv, PublisherTypes
    <3>3. h # None => h \in Hub
      BY <3>2, SharedIsHub
    <3> HIDE DEF h
    <3>4. QED
      BY <3>1, <3>3
  <2>2. CASE ~HandleSubscribe(s)
    BY <2>2 DEF Subscribe, WritePacket, WriteFails, EOF, Unsubscribe
  <2>3. QED
    BY <2>1, <2>2
<1>5. PublisherTypes'
  BY <1>1, <1>2, <1>3, <1>4 DEF Inv, PublisherTypes
<1>6. \A p \in Publisher : pc'[p] = pc[p] /\ hub'[p] = hub[p]
  BY <1>1, <1>3, <1>4 DEF Inv, PublisherTypes, Conn
<1>7. KnowsShared'
  BY <1>2, <1>6 DEF Inv, KnowsShared
<1>8. OnePublisher'
  BY <1>2, <1>6 DEF Inv, OnePublisher, PublisherTypes, Hub
<1>9. QED
  BY <1>5, <1>7, <1>8 DEF Inv

(* The inductive invariant of the relay: a publisher past its look-up      *)
(* knows the service it works on, and the services keep their publishers   *)
(* apart.                                                                  *)
THEOREM InvHolds == Spec => []Inv
<1>1. Init => Inv
  BY InitInv
<1>2. Inv /\ [Next]_vars => Inv'
  <2> SUFFICES ASSUME Inv, [Next]_vars PROVE Inv'
    OBVIOUS
  <2>1. ASSUME NEW h \in Hub, Loop(h) PROVE Inv'
    <3>1. UNCHANGED <<app, channel, hub, publishLock, pc>>
      BY <2>1 DEF Loop, Broadcast, BroadcastEnds, relayVars
    <3>2. QED
      BY <3>1, OtherStep DEF Inv, PublisherTypes
  <2>2. ASSUME NEW p \in Publisher, PublisherStep(p) PROVE Inv'
    BY <2>2, HandleConnectStep, HandlePublishStep, PublishStep, ReadFailsStep, UnlistStep
       DEF PublisherStep, Conn
  <2>3. ASSUME NEW p \in Publisher, ReadPacket(p) \/ PeerLeaves(p) PROVE Inv'
    <3>1. UNCHANGED <<app, channel, hub, publishLock, pc>>
      BY <2>3 DEF ReadPacket, PeerLeaves, PublishPacket, hubVars
    <3>2. QED
      BY <3>1, OtherStep DEF Inv, PublisherTypes
  <2>4. ASSUME NEW s \in Subscriber, SubscriberStep(s) PROVE Inv'
    BY <2>4, HandleConnectStep, SubscriberMoves DEF SubscriberStep, Conn
  <2>5. CASE UNCHANGED vars
    <3>1. UNCHANGED <<app, channel, hub, publishLock, pc>>
      BY <2>5 DEF vars, hubVars, relayVars
    <3>2. QED
      BY <3>1, OtherStep DEF Inv, PublisherTypes
  <2>6. QED
    BY <2>1, <2>2, <2>3, <2>4, <2>5 DEF Next
<1>3. QED
  BY <1>1, <1>2, PTL DEF Spec

(* A stream that is being published is found in channels, under its own    *)
(* publisher, and at most one connection at a time feeds a service         *)
(* (handlePublish looks again after the peer was let in; Publish holds     *)
(* publishLock until it returns).                                          *)
THEOREM PublishersTakeTurns == Spec => []OnePublisher
<1>1. Inv => OnePublisher
  BY DEF Inv
<1>2. QED
  BY <1>1, InvHolds, PTL

-----------------------------------------------------------------------------
(* The order of what is relayed, and that nothing is missed.               *)

Follows(a, b) == a.from = b.from /\ a.n < b.n

Sorted(q) == \A i, j \in 1..Len(q) : i < j => Follows(q[i], q[j])

Before(q, r) == \A i \in 1..Len(q), j \in 1..Len(r) : Follows(q[i], r[j])

\* All packets of q were read from p, and are among the first m.
Of(q, p, m) == \A i \in 1..Len(q) : q[i].from = p /\ q[i].n <= m

EndOf(q, t) == \E n \in 0..Len(t) : q = SubSeq(t, n + 1, Len(t))

\* Inside Subscribe, the deferred function not run yet.
Listens(s) == pc[s] \in {"listening", "leaving"}

StreamTypes ==
  /\ incoming \in [Hub -> Seq(Packet)]
  /\ listeners \in [Hub -> SUBSET Subscriber]
  /\ queue \in [Subscriber -> Seq(Packet)]
  /\ got \in [Subscriber -> Seq(Packet)]
  /\ aired \in [Hub -> Seq(Packet)]
  /\ sent \in 0..MaxPacket

(* A subscriber is a listener of the service it has looked up while it is  *)
(* inside Subscribe, and has nothing before.                               *)
Entered ==
  \A s \in Subscriber :
    /\ \A h \in Hub : s \in listeners[h] <=> Listens(s) /\ hub[s] = h
    /\ pc[s] = "call" \/ Listens(s) => hub[s] \in Hub
    /\ pc[s] \in {"request", "accepted", "call"} => got[s] = <<>> /\ queue[s] = <<>>

(* Whatever was read from p and still is in service h or behind it.        *)
Source(h, p) ==
  /\ \A q \in Publisher : pc[q] = "publishing" /\ hub[q] = h => q = p
  /\ Of(incoming[h], p, sent)
  /\ \A s \in Subscriber : hub[s] = h => Of(got[s], p, sent) /\ Of(queue[s], p, sent)

(* A service gets packets from one publisher only, the one that set its    *)
(* flag.                                                                   *)
OneSource ==
  \A h \in Hub :
    /\ \E p \in Publisher : Source(h, p)
    /\ h \notin publish =>
         /\ \A q \in Publisher : pc[q] = "publishing" => hub[q] # h
         /\ incoming[h] = <<>>
         /\ \A s \in Subscriber : hub[s] = h => got[s] = <<>> /\ queue[s] = <<>>

InOrder ==
  /\ \A h \in Hub : Sorted(incoming[h])
  /\ \A s \in Subscriber :
       /\ Sorted(got[s]) /\ Sorted(queue[s]) /\ Before(got[s], queue[s])
       /\ Listens(s) => /\ Before(got[s], incoming[hub[s]])
                        /\ Before(queue[s], incoming[hub[s]])

(* NothingMissed: what was broadcast ends with what the subscriber got.    *)
Heard ==
  \A s \in Subscriber \ overflown :
    pc[s] = "listening" => EndOf(got[s] \o queue[s], aired[hub[s]])

StreamInv == StreamTypes /\ Entered /\ OneSource /\ InOrder /\ Heard

-----------------------------------------------------------------------------
(* Sequences of packets.                                                   *)

(* Taking the first packet of a channel keeps the order, and that packet   *)
(* comes before all the others.                                            *)
LEMMA SortedTail ==
  ASSUME NEW q \in Seq(Packet), q # <<>>, Sorted(q)
  PROVE  /\ Head(q) \in Packet /\ Tail(q) \in Seq(Packet)
         /\ Sorted(Tail(q))
         /\ \A j \in 1..Len(Tail(q)) : Follows(Head(q), Tail(q)[j])
<1>1. /\ Head(q) \in Packet /\ Tail(q) \in Seq(Packet) /\ Len(Tail(q)) = Len(q) - 1
      /\ \A i \in 1..Len(Tail(q)) : Tail(q)[i] = q[i + 1]
      /\ Head(q) = q[1] /\ Len(q) \in Nat \ {0}
  OBVIOUS
<1>2. QED
  BY <1>1 DEF Sorted

(* What relates to all of a channel relates to the rest of it.             *)
LEMMA TailKeeps ==
  ASSUME NEW q \in Seq(Packet), q # <<>>, NEW r \in Seq(Packet)
  PROVE  /\ Before(r, q) => Before(r, Tail(q)) /\ \A i \in 1..Len(r) : Follows(r[i], Head(q))
         /\ Before(q, r) => Before(Tail(q), r) /\ \A i \in 1..Len(r) : Follows(Head(q), r[i])
         /\ \A p \in Publisher, m \in Nat :
              Of(q, p, m) => Of(Tail(q), p, m) /\ Head(q).from = p /\ Head(q).n <= m
<1>1. /\ Len(Tail(q)) = Len(q) - 1 /\ Len(q) \in Nat \ {0} /\ Head(q) = q[1]
      /\ \A i \in 1..Len(Tail(q)) : Tail(q)[i] = q[i + 1] /\ i + 1 \in 1..Len(q)
  OBVIOUS
<1>2. QED
  BY <1>1 DEF Before, Of

(* A packet at the end of a channel: the places of Append.                 *)
LEMMA AppendPlaces ==
  ASSUME NEW q \in Seq(Packet), NEW e \in Packet
  PROVE  /\ Append(q, e) \in Seq(Packet)
         /\ Len(q) \in Nat /\ Len(Append(q, e)) = Len(q) + 1
         /\ \A i \in 1..Len(Append(q, e)) :
              \/ i \in 1..Len(q) /\ Append(q, e)[i] = q[i]
              \/ i = Len(q) + 1 /\ Append(q, e)[i] = e
OBVIOUS

(* A packet that follows all of a channel can be put at its end.           *)
LEMMA AppendSorted ==
  ASSUME NEW q \in Seq(Packet), NEW e \in Packet,
         Sorted(q), \A i \in 1..Len(q) : Follows(q[i], e)
  PROVE  Sorted(Append(q, e))
<1> SUFFICES ASSUME NEW i \in 1..Len(Append(q, e)), NEW j \in 1..Len(Append(q, e)), i < j
             PROVE  Follows(Append(q, e)[i], Append(q, e)[j])
  BY DEF Sorted
<1>1. /\ i \in 1..Len(q) /\ Append(q, e)[i] = q[i]
      /\ \/ j \in 1..Len(q) /\ Append(q, e)[j] = q[j]
         \/ Append(q, e)[j] = e
  BY AppendPlaces
<1>2. QED
  BY <1>1 DEF Sorted

(* A packet behind r, put at the end of a channel behind r.                *)
LEMMA BeforeAppend ==
  ASSUME NEW q \in Seq(Packet), NEW e \in Packet, NEW r \in Seq(Packet),
         Before(r, q), \A i \in 1..Len(r) : Follows(r[i], e)
  PROVE  Before(r, Append(q, e))
<1> SUFFICES ASSUME NEW i \in 1..Len(r), NEW j \in 1..Len(Append(q, e))
             PROVE  Follows(r[i], Append(q, e)[j])
  BY DEF Before
<1>1. \/ j \in 1..Len(q) /\ Append(q, e)[j] = q[j]
      \/ Append(q, e)[j] = e
  BY AppendPlaces
<1>2. QED
  BY <1>1 DEF Before

(* A packet before r, put at the end of a channel before r.                *)
LEMMA AppendBefore ==
  ASSUME NEW q \in Seq(Packet), NEW e \in Packet, NEW r \in Seq(Packet),
         Before(q, r), \A i \in 1..Len(r) : Follows(e, r[i])
  PROVE  Before(Append(q, e), r)
<1> SUFFICES ASSUME NEW j \in 1..Len(r), NEW i \in 1..Len(Append(q, e))
             PROVE  Follows(Append(q, e)[i], r[j])
  BY DEF Before
<1>1. \/ i \in 1..Len(q) /\ Append(q, e)[i] = q[i]
      \/ Append(q, e)[i] = e
  BY AppendPlaces
<1>2. QED
  BY <1>1 DEF Before

(* A further packet of the same publisher.                                 *)
LEMMA AppendOf ==
  ASSUME NEW q \in Seq(Packet), NEW e \in Packet, NEW p \in Publisher, NEW m \in Nat,
         Of(q, p, m), e.from = p, e.n <= m
  PROVE  Of(Append(q, e), p, m)
<1> SUFFICES ASSUME NEW i \in 1..Len(Append(q, e))
             PROVE  Append(q, e)[i].from = p /\ Append(q, e)[i].n <= m
  BY DEF Of
<1>1. \/ i \in 1..Len(q) /\ Append(q, e)[i] = q[i]
      \/ Append(q, e)[i] = e
  BY AppendPlaces
<1>2. QED
  BY <1>1 DEF Of

(* Channels one behind the other are in order as a whole.                  *)
LEMMA SortedConcat ==
  ASSUME NEW q \in Seq(Packet), NEW r \in Seq(Packet), NEW t \in Seq(Packet)
  PROVE  /\ Sorted(q) /\ Sorted(r) /\ Before(q, r) => Sorted(q \o r)
         /\ Before(q, t) /\ Before(r, t) => Before(q \o r, t)
         /\ q \o r \in Seq(Packet)
<1>1. /\ q \o r \in Seq(Packet) /\ Len(q \o r) = Len(q) + Len(r)
      /\ Len(q) \in Nat /\ Len(r) \in Nat
      /\ \A i \in 1..Len(q) : (q \o r)[i] = q[i]
      /\ \A i \in (Len(q) + 1)..(Len(q) + Len(r)) :
            (q \o r)[i] = r[i - Len(q)] /\ i - Len(q) \in 1..Len(r)
  OBVIOUS
<1>2. \A i \in 1..(Len(q) + Len(r)) : i \in 1..Len(q) \/ i \in (Len(q) + 1)..(Len(q) + Len(r))
  BY <1>1
<1>3. ASSUME Sorted(q), Sorted(r), Before(q, r),
             NEW i \in 1..(Len(q) + Len(r)), NEW j \in 1..(Len(q) + Len(r)), i < j
      PROVE  Follows((q \o r)[i], (q \o r)[j])
  <2>1. CASE j \in 1..Len(q)
    <3>1. i \in 1..Len(q)
      BY <1>1, <1>3, <2>1
    <3>2. QED
      BY <1>1, <1>3, <2>1, <3>1 DEF Sorted
  <2>2. CASE i \in 1..Len(q) /\ j \in (Len(q) + 1)..(Len(q) + Len(r))
    BY <1>1, <1>3, <2>2 DEF Before
  <2>3. CASE i \in (Len(q) + 1)..(Len(q) + Len(r)) /\ j \in (Len(q) + 1)..(Len(q) + Len(r))
    <3> DEFINE k == i - Len(q)
               l == j - Len(q)
    <3>1. k \in 1..Len(r) /\ l \in 1..Len(r) /\ k < l
      BY <1>1, <1>3, <2>3
    <3>2. (q \o r)[i] = r[k] /\ (q \o r)[j] = r[l]
      BY <1>1, <2>3
    <3> HIDE DEF k, l
    <3>3. QED
      BY <1>3, <3>1, <3>2 DEF Sorted
  <2>4. QED
    BY <1>1, <1>2, <1>3, <2>1, <2>2, <2>3
<1>4. Sorted(q) /\ Sorted(r) /\ Before(q, r) => Sorted(q \o r)
  BY <1>1, <1>3 DEF Sorted
<1>5. Before(q, t) /\ Before(r, t) => Before(q \o r, t)
  BY <1>1, <1>2, Zenon DEF Before
<1>6. QED
  BY <1>1, <1>4, <1>5

(* The end of a stream, by places.                                         *)
LEMMA EndByPlace ==
  ASSUME NEW q \in Seq(Packet), NEW t \in Seq(Packet)
  PROVE  EndOf(q, t) <=> /\ Len(q) <= Len(t)
                         /\ \A i \in 1..Len(q) : q[i] = t[Len(t) - Len(q) + i]
<1>1. Len(q) \in Nat /\ Len(t) \in Nat /\ q = [i \in 1..Len(q) |-> q[i]]
  OBVIOUS
<1>2. ASSUME NEW n \in 0..Len(t)
      PROVE  SubSeq(t, n + 1, Len(t)) = [i \in 1..(Len(t) - n) |-> t[n + i]]
  OBVIOUS
<1>3. ASSUME NEW n \in 0..Len(t), q = SubSeq(t, n + 1, Len(t))
      PROVE  /\ Len(q) <= Len(t)
             /\ \A i \in 1..Len(q) : q[i] = t[Len(t) - Len(q) + i]
  <2>1. Len(q) = Len(t) - n /\ n = Len(t) - Len(q)
    BY <1>1, <1>2, <1>3
  <2>2. \A i \in 1..Len(q) : q[i] = t[n + i]
    BY <1>2, <1>3, <2>1
  <2>3. QED
    BY <1>1, <2>1, <2>2
<1>4. ASSUME Len(q) <= Len(t), \A i \in 1..Len(q) : q[i] = t[Len(t) - Len(q) + i]
      PROVE  \E n \in 0..Len(t) : q = SubSeq(t, n + 1, Len(t))
  <2> DEFINE n == Len(t) - Len(q)
  <2>1. n \in 0..Len(t) /\ Len(t) - n = Len(q)
    BY <1>1, <1>4
  <2>2. \A i \in 1..Len(q) : q[i] = t[n + i]
    BY <1>4
  <2> HIDE DEF n
  <2>3. SubSeq(t, n + 1, Len(t)) = [i \in 1..Len(q) |-> t[n + i]]
    BY <1>2, <2>1, Zenon
  <2>4. q = SubSeq(t, n + 1, Len(t))
    BY <1>1, <2>2, <2>3
  <2>5. QED
    BY <2>1, <2>4
<1>5. QED
  BY <1>3, <1>4 DEF EndOf

(* A packet added to both keeps the one an end.                            *)
LEMMA EndAppend ==
  ASSUME NEW q \in Seq(Packet), NEW r \in Seq(Packet), NEW t \in Seq(Packet),
         NEW e \in Packet, EndOf(q \o r, t)
  PROVE  EndOf(q \o Append(r, e), Append(t, e))
<1>1. q \o Append(r, e) = Append(q \o r, e) /\ q \o r \in Seq(Packet)
  OBVIOUS
<1>2. PICK u \in Seq(Packet) : u = q \o r
  BY <1>1, Zenon
<1>3. /\ Len(u) <= Len(t) /\ Len(u) \in Nat /\ Len(t) \in Nat
      /\ \A i \in 1..Len(u) : u[i] = t[Len(t) - Len(u) + i]
  <2>1. EndOf(u, t)
    BY <1>2, Zenon
  <2>2. Len(u) \in Nat /\ Len(t) \in Nat
    OBVIOUS
  <2>3. QED
    BY <2>1, <2>2, EndByPlace, Zenon
<1> DEFINE v == Append(u, e)
           w == Append(t, e)
<1>4. /\ v \in Seq(Packet) /\ Len(v) = Len(u) + 1
      /\ w \in Seq(Packet) /\ Len(w) = Len(t) + 1
      /\ \A i \in 1..Len(u) : v[i] = u[i]
      /\ v[Len(u) + 1] = e
      /\ \A i \in 1..Len(t) : w[i] = t[i]
      /\ w[Len(t) + 1] = e
  OBVIOUS
<1> HIDE DEF v, w
<1>5. ASSUME NEW i \in 1..Len(v)
      PROVE  v[i] = w[Len(w) - Len(v) + i]
  <2>1. Len(w) - Len(v) + i = Len(t) - Len(u) + i
    BY <1>3, <1>4
  <2>2. CASE i \in 1..Len(u)
    <3>1. Len(t) - Len(u) + i \in 1..Len(t)
      BY <1>3, <2>2
    <3>2. w[Len(t) - Len(u) + i] = t[Len(t) - Len(u) + i]
      BY <1>4, <3>1, Zenon
    <3>3. QED
      BY <1>3, <1>4, <2>1, <2>2, <3>2, Zenon
  <2>3. CASE i = Len(u) + 1
    <3>1. Len(t) - Len(u) + i = Len(t) + 1
      BY <1>3, <2>3
    <3>2. QED
      BY <1>4, <2>1, <2>3, <3>1
  <2>4. QED
    BY <1>3, <1>4, <2>2, <2>3
<1>6. EndOf(v, w)
  <2>1. Len(v) <= Len(w)
    BY <1>3, <1>4
  <2>2. QED
    BY <1>4, <1>5, <2>1, EndByPlace, Zenon
<1>7. QED
  BY <1>1, <1>2, <1>6 DEF v, w

(* Writing the first packet of the channel changes nothing as a whole.     *)
LEMMA TakenIsKept ==
  ASSUME NEW q \in Seq(Packet), NEW r \in Seq(Packet), r # <<>>
  PROVE  Append(q, Head(r)) \o Tail(r) = q \o r
<1> DEFINE v == Append(q, Head(r)) \o Tail(r)
           w == q \o r
<1>1. Head(r) \in Packet /\ Tail(r) \in Seq(Packet) /\ Len(Tail(r)) = Len(r) - 1
  OBVIOUS
<1>2. /\ v \in Seq(Packet) /\ Len(v) = Len(q) + Len(r)
      /\ w \in Seq(Packet) /\ Len(w) = Len(q) + Len(r)
  BY <1>1
<1>3. \A i \in 1..(Len(q) + Len(r)) : v[i] = w[i]
  BY <1>1
<1> HIDE DEF v, w
<1>4. v = w
  BY <1>2, <1>3
<1>5. QED
  BY <1>4 DEF v, w

-----------------------------------------------------------------------------
(* The steps.                                                              *)

(* Nothing is relayed before anybody connects.                             *)
LEMMA StreamInit == Init => StreamInv
<1> SUFFICES ASSUME Init PROVE StreamInv
  OBVIOUS
<1>1. StreamTypes
  BY PubSubAssumption DEF Init, HubInit, StreamTypes
<1>2. Entered
  BY DEF Init, HubInit, Entered, Listens, Conn
<1>3. OneSource
  <2>1. \A h \in Hub : incoming[h] = <<>>
    BY DEF Init, HubInit
  <2>2. \A q \in Publisher : pc[q] # "publishing"
    BY DEF Init, Conn
  <2>3. \A s \in Subscriber : got[s] = <<>> /\ queue[s] = <<>>
    BY DEF Init, HubInit
  <2>4. PICK p \in Publisher : TRUE
    BY PubSubAssumption
  <2>5. \A h \in Hub : Source(h, p)
    BY <2>1, <2>2, <2>3 DEF Source, Of
  <2>6. QED
    BY <2>1, <2>2, <2>3, <2>4, <2>5 DEF OneSource
<1>4. InOrder
  BY DEF Init, HubInit, InOrder, Sorted, Before, Listens, Conn
<1>5. Heard
  BY DEF Init, Heard, Conn
<1>6. QED
  BY <1>1, <1>2, <1>3, <1>4, <1>5 DEF StreamInv

(* Steps that move no packet, begin no publishing and leave every          *)
(* subscriber inside or outside of Subscribe.                              *)
LEMMA QuietStep ==
  ASSUME StreamInv,
         UNCHANGED <<incoming, listeners, queue, got, aired, sent, publish, overflown>>,
         \A s \in Subscriber :
            /\ hub'[s] = hub[s]
            /\ Listens(s)' <=> Listens(s)
            /\ pc'[s] \in {"request", "accepted", "call"} =>
                 pc[s] \in {"request", "accepted", "call"}
            /\ pc'[s] \in {"call", "listening"} => pc'[s] = pc[s],
         \A q \in Publisher :
            pc'[q] = "publishing" => pc[q] = "publishing" /\ hub'[q] = hub[q]
  PROVE  StreamInv'
<1>1. StreamTypes'
  BY DEF StreamInv, StreamTypes
<1>2. Entered'
  BY DEF StreamInv, Entered
<1>3. OneSource'
  <2> SUFFICES ASSUME NEW h \in Hub
               PROVE  /\ \E p \in Publisher : Source(h, p)'
                      /\ h \notin publish' =>
                           /\ \A q \in Publisher : pc'[q] = "publishing" => hub'[q] # h
                           /\ incoming'[h] = <<>>
                           /\ \A s \in Subscriber :
                                hub'[s] = h => got'[s] = <<>> /\ queue'[s] = <<>>
    BY DEF OneSource
  <2>1. PICK p \in Publisher : Source(h, p)
    BY DEF StreamInv, OneSource
  <2>2. Source(h, p)'
    BY <2>1 DEF Source
  <2>3. QED
    BY <2>2 DEF StreamInv, OneSource
<1>4. InOrder'
  BY DEF StreamInv, InOrder
<1>5. Heard'
  BY DEF StreamInv, Heard
<1>6. QED
  BY <1>1, <1>2, <1>3, <1>4, <1>5 DEF StreamInv

(* Publish begins: the flag was not set, so nobody else's packets are in   *)
(* the service or behind it.                                               *)
LEMMA PublishBeginsStep ==
  ASSUME Inv, StreamInv, NEW p \in Publisher, hub[p] \in Hub,
         Goes(p, "call", "publishing"), PublishBegins(hub[p], p),
         UNCHANGED <<app, query, channel, hub, gone, sent, got>>
  PROVE  StreamInv'
<1>1. /\ UNCHANGED <<incoming, listeners, queue, got, aired, sent, overflown, hub>>
      /\ hub[p] \notin publish /\ publish' = publish \cup {hub[p]}
      /\ pc' = [pc EXCEPT ![p] = "publishing"]
  BY DEF PublishBegins, Goes
<1>2. /\ \A s \in Subscriber : pc'[s] = pc[s]
      /\ \A q \in Publisher : q # p => pc'[q] = pc[q]
  BY <1>1, PubSubAssumption DEF Inv, PublisherTypes, Conn
<1>3. StreamTypes' /\ Entered'
  BY <1>1, <1>2 DEF StreamInv, StreamTypes, Entered, Listens
<1>4. OneSource'
  <2> SUFFICES ASSUME NEW h \in Hub
               PROVE  /\ \E r \in Publisher : Source(h, r)'
                      /\ h \notin publish' =>
                           /\ \A q \in Publisher : pc'[q] = "publishing" => hub'[q] # h
                           /\ incoming'[h] = <<>>
                           /\ \A s \in Subscriber :
                                hub'[s] = h => got'[s] = <<>> /\ queue'[s] = <<>>
    BY DEF OneSource
  <2>1. CASE h = hub[p]
    <3>1. /\ \A q \in Publisher : pc[q] = "publishing" => hub[q] # h
          /\ incoming[h] = <<>>
          /\ \A s \in Subscriber : hub[s] = h => got[s] = <<>> /\ queue[s] = <<>>
      BY <1>1, <2>1 DEF StreamInv, OneSource
    <3>2. Source(h, p)'
      BY <1>1, <1>2, <3>1 DEF Source, Of
    <3>3. QED
      BY <1>1, <2>1, <3>2, Zenon
  <2>2. CASE h # hub[p]
    <3>1. PICK r \in Publisher : Source(h, r)
      BY Zenon DEF StreamInv, OneSource
    <3>2. Source(h, r)'
      BY <1>1, <1>2, <2>2, <3>1 DEF Source
    <3>3. QED
      BY <1>1, <1>2, <2>2, <3>2 DEF StreamInv, OneSource
  <2>3. QED
    BY <2>1, <2>2
<1>5. InOrder' /\ Heard'
  BY <1>1, <1>2 DEF StreamInv, InOrder, Heard, Listens
<1>6. QED
  BY <1>3, <1>4, <1>5 DEF StreamInv

(* A packet read from the publisher is newer than everything of that       *)
(* service, and follows it in order if the channel has room for it.        *)
LEMMA ReadPacketStep ==
  ASSUME Inv, StreamInv, NEW p \in Publisher, ReadPacket(p)
  PROVE  StreamInv'
<1> PICK e : e = [from |-> p, n |-> sent + 1]
  BY Zenon
<1> PICK g : g = hub[p]
  BY Zenon
<1>1. /\ pc[p] = "publishing" /\ sent < MaxPacket /\ sent' = sent + 1
      /\ UNCHANGED <<listeners, queue, got, aired, publish, overflown, pc, hub>>
      /\ incoming' = [incoming EXCEPT ![g] = IF Len(@) < IncomingSize THEN Append(@, e) ELSE @]
  BY DEF ReadPacket, PublishPacket
<1>2. g \in Hub
  BY <1>1, HandlingKnowsHub, Zenon DEF Handling
<1>3. e \in Packet /\ sent \in Nat /\ sent' \in 0..MaxPacket /\ sent' \in Nat
  BY <1>1, PubSubAssumption DEF StreamInv, StreamTypes, Packet
<1>4. Source(g, p)
  BY <1>1, <1>2 DEF StreamInv, OneSource, Source
<1>5. \A q \in Seq(Packet) : Of(q, p, sent) => \A i \in 1..Len(q) : Follows(q[i], e)
  <2> SUFFICES ASSUME NEW q \in Seq(Packet), Of(q, p, sent), NEW i \in 1..Len(q)
               PROVE  q[i].from = e.from /\ q[i].n < e.n
    BY DEF Follows
  <2>1. q[i].n \in Nat
    <3>1. q[i] \in Packet
      OBVIOUS
    <3>2. QED
      BY <3>1 DEF Packet
  <2>2. QED
    BY <1>3, <2>1 DEF Of
<1>6. \A q \in Seq(Packet), r \in Publisher : Of(q, r, sent) => Of(q, r, sent')
  <2> SUFFICES ASSUME NEW q \in Seq(Packet), NEW r \in Publisher, Of(q, r, sent),
                      NEW i \in 1..Len(q)
               PROVE  q[i].from = r /\ q[i].n <= sent'
    BY Zenon DEF Of
  <2>1. q[i] \in Packet
    OBVIOUS
  <2>2. QED
    BY <1>1, <1>3, <2>1 DEF Of, Packet
<1>7. /\ \A h \in Hub : h # g => incoming'[h] = incoming[h]
      /\ incoming'[g] = incoming[g] \/ incoming'[g] = Append(incoming[g], e)
  BY <1>1, <1>2 DEF StreamInv, StreamTypes
<1>8. /\ incoming[g] \in Seq(Packet)
      /\ \A s \in Subscriber : got[s] \in Seq(Packet) /\ queue[s] \in Seq(Packet)
  BY <1>2, Zenon DEF StreamInv, StreamTypes
<1>9. StreamTypes'
  <2>1. incoming' \in [Hub -> Seq(Packet)]
    BY <1>1, <1>2, <1>3 DEF StreamInv, StreamTypes
  <2>2. QED
    BY <1>1, <1>3, <2>1, Zenon DEF StreamInv, StreamTypes
<1>10. Entered'
  BY <1>1, Zenon DEF StreamInv, Entered, Listens
<1>11. OneSource'
  <2> SUFFICES ASSUME NEW h \in Hub
               PROVE  /\ \E r \in Publisher : Source(h, r)'
                      /\ h \notin publish' =>
                           /\ \A q \in Publisher : pc'[q] = "publishing" => hub'[q] # h
                           /\ incoming'[h] = <<>>
                           /\ \A s \in Subscriber :
                                hub'[s] = h => got'[s] = <<>> /\ queue'[s] = <<>>
    BY Zenon DEF OneSource
  <2>1. CASE h = g
    <3>1. Of(incoming[g], p, sent')
      BY <1>4, <1>6, <1>8, Zenon DEF Source
    <3>2. e.from = p /\ e.n <= sent'
      BY <1>1, <1>3
    <3>3. Of(incoming'[g], p, sent')
      <4>1. Of(Append(incoming[g], e), p, sent')
        BY <1>3, <1>8, <3>1, <3>2, AppendOf, Zenon
      <4>2. QED
        BY <1>7, <3>1, <4>1, Zenon
    <3>4. Source(g, p)'
      BY <1>1, <1>4, <1>6, <1>8, <3>3 DEF Source
    <3>5. h \in publish
      BY <1>1, <2>1, Zenon DEF StreamInv, OneSource
    <3>6. QED
      BY <1>1, <2>1, <3>4, <3>5
  <2>2. CASE h # g
    <3>1. PICK r \in Publisher : Source(h, r)
      BY Zenon DEF StreamInv, OneSource
    <3>2. Of(incoming'[h], r, sent')
      BY <1>6, <1>7, <2>2, <3>1, Zenon DEF Source, StreamInv, StreamTypes
    <3>3. Source(h, r)'
      BY <1>1, <1>6, <1>8, <3>1, <3>2, Zenon DEF Source
    <3>4. QED
      BY <1>1, <1>7, <2>2, <3>3, Zenon DEF StreamInv, OneSource
  <2>3. QED
    BY <2>1, <2>2, Zenon
<1>12. InOrder'
  <2>1. \A i \in 1..Len(incoming[g]) : Follows(incoming[g][i], e)
    BY <1>4, <1>5, <1>8 DEF Source
  <2>2. Sorted(incoming'[g])
    <3>1. Sorted(incoming[g])
      BY <1>2, Zenon DEF StreamInv, InOrder
    <3>2. Sorted(Append(incoming[g], e))
      BY <1>3, <1>8, <2>1, <3>1, AppendSorted, Zenon
    <3>3. QED
      BY <1>7, <3>1, <3>2, Zenon
  <2>3. ASSUME NEW s \in Subscriber, Listens(s)
        PROVE  Before(got[s], incoming'[hub[s]]) /\ Before(queue[s], incoming'[hub[s]])
    <3>1. Before(got[s], incoming[hub[s]]) /\ Before(queue[s], incoming[hub[s]]) /\ hub[s] \in Hub
      BY <2>3, Zenon DEF StreamInv, InOrder, Entered
    <3>2. CASE hub[s] # g
      BY <1>7, <3>1, <3>2
    <3>3. CASE hub[s] = g
      <4>1. Of(got[s], p, sent) /\ Of(queue[s], p, sent)
        BY <1>4, <3>3, Zenon DEF Source
      <4>2. /\ \A i \in 1..Len(got[s]) : Follows(got[s][i], e)
            /\ \A i \in 1..Len(queue[s]) : Follows(queue[s][i], e)
        BY <1>5, <1>8, <4>1
      <4>3. Before(got[s], incoming'[g])
        <5>1. Before(got[s], Append(incoming[g], e))
          BY <1>3, <1>8, <3>1, <3>3, <4>2, BeforeAppend, Zenon
        <5>2. QED
          BY <1>7, <3>1, <3>3, <5>1, Zenon
      <4>4. Before(queue[s], incoming'[g])
        <5>1. Before(queue[s], Append(incoming[g], e))
          BY <1>3, <1>8, <3>1, <3>3, <4>2, BeforeAppend
        <5>2. QED
          BY <1>7, <3>1, <3>3, <5>1, Zenon
      <4>5. QED
        BY <3>3, <4>3, <4>4
    <3>4. QED
      BY <3>2, <3>3, Zenon
  <2>4. QED
    BY <1>1, <1>7, <2>2, <2>3 DEF StreamInv, InOrder, Listens
<1>13. Heard'
  BY <1>1 DEF StreamInv, Heard
<1>14. QED
  BY <1>9, <1>10, <1>11, <1>12, <1>13 DEF StreamInv

(* The broadcast loop moves a packet from the channel of the service to    *)
(* those of its listeners, where there is room.                            *)
LEMMA BroadcastStep ==
  ASSUME Inv, StreamInv, NEW h \in Hub, Broadcast(h), UNCHANGED relayVars
  PROVE  StreamInv'
<1> PICK e : e = Head(incoming[h])
  BY Zenon
<1>1. /\ incoming[h] # <<>>
      /\ incoming' = [incoming EXCEPT ![h] = Tail(@)]
      /\ aired' = [aired EXCEPT ![h] = Append(@, e)]
      /\ overflown' = overflown \cup {s \in listeners[h] : Full(s)}
      /\ queue' = [s \in Subscriber |-> IF s \in listeners[h] /\ ~Full(s)
                                        THEN Append(queue[s], e) ELSE queue[s]]
      /\ UNCHANGED <<listeners, publish, pc, hub, sent, got>>
  BY Zenon DEF Broadcast, relayVars
<1>2. /\ incoming[h] \in Seq(Packet) /\ Sorted(incoming[h]) /\ sent \in Nat
      /\ \A s \in Subscriber : got[s] \in Seq(Packet) /\ queue[s] \in Seq(Packet)
      /\ \A k \in Hub : aired[k] \in Seq(Packet)
  BY DEF StreamInv, StreamTypes, InOrder
<1>3. /\ e \in Packet /\ Tail(incoming[h]) \in Seq(Packet)
      /\ Sorted(Tail(incoming[h]))
      /\ \A j \in 1..Len(Tail(incoming[h])) : Follows(e, Tail(incoming[h])[j])
  BY <1>1, <1>2, SortedTail, Zenon
<1>4. /\ incoming'[h] = Tail(incoming[h])
      /\ \A k \in Hub : k # h => incoming'[k] = incoming[k] /\ aired'[k] = aired[k]
      /\ aired'[h] = Append(aired[h], e)
  BY <1>1 DEF StreamInv, StreamTypes
<1>5. ASSUME NEW s \in Subscriber
      PROVE  \/ /\ s \in listeners[h] /\ Listens(s) /\ hub[s] = h /\ ~Full(s)
                /\ queue'[s] = Append(queue[s], e)
             \/ /\ queue'[s] = queue[s]
                /\ Listens(s) /\ hub[s] = h => s \in overflown'
  BY <1>1, Zenon DEF StreamInv, Entered
<1>6. ASSUME NEW s \in Subscriber, Listens(s), hub[s] = h
      PROVE  /\ Before(got[s], Tail(incoming[h])) /\ Before(queue[s], Tail(incoming[h]))
             /\ \A i \in 1..Len(got[s]) : Follows(got[s][i], e)
             /\ \A i \in 1..Len(queue[s]) : Follows(queue[s][i], e)
  <2>1. Before(got[s], incoming[h]) /\ Before(queue[s], incoming[h])
    BY <1>6 DEF StreamInv, InOrder
  <2>2. QED
    BY <1>1, <1>2, <2>1, TailKeeps, Zenon
<1>7. StreamTypes'
  <2>1. incoming' \in [Hub -> Seq(Packet)]
    BY <1>1, <1>3, Zenon DEF StreamInv, StreamTypes
  <2>2. aired' \in [Hub -> Seq(Packet)]
    BY <1>1, <1>3, AppendPlaces, Zenon DEF StreamInv, StreamTypes
  <2>3. queue' \in [Subscriber -> Seq(Packet)]
    BY <1>1, <1>2, <1>3, AppendPlaces, Zenon
  <2>4. QED
    BY <1>1, <2>1, <2>2, <2>3 DEF StreamInv, StreamTypes
<1>8. Entered'
  <2>1. ASSUME NEW s \in Subscriber, pc[s] \in {"request", "accepted", "call"}
        PROVE  queue'[s] = queue[s]
    BY <1>5, <2>1, Zenon DEF Listens
  <2>2. QED
    BY <1>1, <2>1 DEF StreamInv, Entered, Listens
<1>9. OneSource'
  <2> SUFFICES ASSUME NEW k \in Hub
               PROVE  /\ \E p \in Publisher : Source(k, p)'
                      /\ k \notin publish' =>
                           /\ \A q \in Publisher : pc'[q] = "publishing" => hub'[q] # k
                           /\ incoming'[k] = <<>>
                           /\ \A s \in Subscriber :
                                hub'[s] = k => got'[s] = <<>> /\ queue'[s] = <<>>
    BY DEF OneSource
  <2>1. PICK p \in Publisher : Source(k, p)
    BY Zenon DEF StreamInv, OneSource
  <2>2. CASE k = h
    <3>1. Of(Tail(incoming[h]), p, sent) /\ e.from = p /\ e.n <= sent
      BY <1>1, <1>2, <2>1, <2>2, TailKeeps DEF Source
    <3>2. ASSUME NEW s \in Subscriber, hub[s] = h PROVE Of(queue'[s], p, sent)
      <4>1. Of(queue[s], p, sent)
        BY <2>1, <2>2, <3>2 DEF Source
      <4>2. Of(Append(queue[s], e), p, sent)
        BY <1>2, <1>3, <3>1, <4>1, AppendOf, Zenon
      <4>3. QED
        BY <1>5, <4>1, <4>2, Zenon
    <3>3. Source(k, p)'
      BY <1>1, <1>4, <2>1, <2>2, <3>1, <3>2, Zenon DEF Source
    <3>4. k \in publish
      BY <1>1, <2>2 DEF StreamInv, OneSource
    <3>5. QED
      BY <1>1, <3>3, <3>4, Zenon
  <2>3. CASE k # h
    <3>1. \A s \in Subscriber : hub[s] = k => queue'[s] = queue[s]
      BY <1>5, <2>3, Zenon
    <3>2. Source(k, p)'
      BY <1>1, <1>4, <2>1, <2>3, <3>1, Zenon DEF Source
    <3>3. k \notin publish =>
            /\ \A q \in Publisher : pc[q] = "publishing" => hub[q] # k
            /\ incoming[k] = <<>>
            /\ \A s \in Subscriber : hub[s] = k => got[s] = <<>> /\ queue[s] = <<>>
      BY DEF StreamInv, OneSource
    <3>4. incoming'[k] = incoming[k]
      BY <1>4, <2>3
    <3>5. QED
      BY <1>1, <3>1, <3>2, <3>3, <3>4, Zenon
  <2>4. QED
    BY <2>2, <2>3, Zenon
<1>10. InOrder'
  <2>1. \A k \in Hub : Sorted(incoming'[k])
    BY <1>3, <1>4, Zenon DEF StreamInv, InOrder
  <2>2. ASSUME NEW s \in Subscriber
        PROVE  /\ Sorted(got[s]) /\ Sorted(queue'[s]) /\ Before(got[s], queue'[s])
               /\ Listens(s) => /\ Before(got[s], incoming'[hub[s]])
                                /\ Before(queue'[s], incoming'[hub[s]])
    <3>1. Sorted(got[s]) /\ Sorted(queue[s]) /\ Before(got[s], queue[s])
      BY Zenon DEF StreamInv, InOrder
    <3>2. CASE /\ Listens(s) /\ hub[s] = h
               /\ queue'[s] = Append(queue[s], e)
      <4>1. Sorted(Append(queue[s], e))
        BY <1>2, <1>3, <1>6, <3>1, <3>2, AppendSorted, Zenon
      <4>2. Before(got[s], Append(queue[s], e))
        BY <1>2, <1>3, <1>6, <3>1, <3>2, BeforeAppend, Zenon
      <4>3. Before(Append(queue[s], e), Tail(incoming[h]))
        <5>1. Before(queue[s], Tail(incoming[h]))
          BY <1>6, <3>2, Zenon
        <5>2. QED
          BY <1>2, <1>3, <5>1, AppendBefore, Zenon
      <4>4. QED
        BY <1>4, <1>6, <3>1, <3>2, <4>1, <4>2, <4>3, Zenon
    <3>3. CASE queue'[s] = queue[s]
      <4>1. CASE Listens(s) /\ hub[s] = h
        BY <1>4, <1>6, <3>1, <3>3, <4>1, Zenon
      <4>2. CASE Listens(s) /\ hub[s] # h
        <5>1. incoming'[hub[s]] = incoming[hub[s]]
          BY <1>4, <4>2, Zenon DEF StreamInv, Entered
        <5>2. QED
          BY <3>1, <3>3, <4>2, <5>1, Zenon DEF StreamInv, InOrder
      <4>3. CASE ~Listens(s)
        BY <3>1, <3>3, <4>3
      <4>4. QED
        BY <4>1, <4>2, <4>3, Zenon
    <3>4. QED
      BY <1>5, <3>2, <3>3, Zenon
  <2>3. QED
    BY <1>1, <2>1, <2>2, Zenon DEF InOrder, Listens
<1>11. Heard'
  <2> SUFFICES ASSUME NEW s \in Subscriber, s \notin overflown', pc[s] = "listening"
               PROVE  EndOf(got[s] \o queue'[s], aired'[hub[s]])
    BY <1>1, Zenon DEF Heard
  <2>1. Listens(s) /\ hub[s] \in Hub /\ EndOf(got[s] \o queue[s], aired[hub[s]])
    BY <1>1 DEF StreamInv, Heard, Entered, Listens
  <2>2. CASE hub[s] = h
    <3>1. queue'[s] = Append(queue[s], e)
      BY <1>5, <2>1, <2>2
    <3>2. EndOf(got[s] \o Append(queue[s], e), Append(aired[h], e))
      BY <1>2, <1>3, <2>1, <2>2, EndAppend, Zenon
    <3>3. QED
      BY <1>4, <2>2, <3>1, <3>2, Zenon
  <2>3. CASE hub[s] # h
    BY <1>4, <1>5, <2>1, <2>3, Zenon
  <2>4. QED
    BY <2>2, <2>3, Zenon
<1>12. QED
  BY <1>7, <1>8, <1>9, <1>10, <1>11 DEF StreamInv

(* handleSubscribe has found a service: nothing was relayed yet.           *)
LEMMA LookUpStep ==
  ASSUME Inv, StreamInv, NEW s \in Subscriber, NEW h \in Hub,
         Goes(s, "accepted", "call"), hub' = [hub EXCEPT ![s] = h],
         UNCHANGED <<incoming, listeners, queue, got, aired, sent, publish, overflown>>
  PROVE  StreamInv'
<1>1. /\ pc[s] = "accepted" /\ pc'[s] = "call" /\ hub'[s] = h
      /\ \A c \in Conn : c # s => pc'[c] = pc[c] /\ hub'[c] = hub[c]
      /\ s \in Conn /\ s \notin Publisher /\ Publisher \subseteq Conn /\ Subscriber \subseteq Conn
  BY PubSubAssumption, Zenon DEF Inv, PublisherTypes, Conn, Goes
<1>2. got[s] = <<>> /\ queue[s] = <<>>
  BY <1>1, Zenon DEF StreamInv, Entered
<1>3. StreamTypes'
  BY Zenon DEF StreamInv, StreamTypes
<1>4. Entered'
  <2>1. ~Listens(s) /\ ~Listens(s)' /\ \A r \in Subscriber : r # s => (Listens(r)' <=> Listens(r))
    BY <1>1 DEF Listens
  <2>2. \A r \in Subscriber : r # s => pc'[r] = pc[r] /\ hub'[r] = hub[r]
    BY <1>1
  <2>3. ASSUME NEW r \in Subscriber
        PROVE  /\ \A k \in Hub : r \in listeners'[k] <=> Listens(r)' /\ hub'[r] = k
               /\ pc'[r] = "call" \/ Listens(r)' => hub'[r] \in Hub
               /\ pc'[r] \in {"request", "accepted", "call"} => got'[r] = <<>> /\ queue'[r] = <<>>
    <3>1. CASE r = s
      BY <1>1, <1>2, <2>1, <3>1, Zenon DEF StreamInv, Entered
    <3>2. CASE r # s
      BY <2>1, <2>2, <3>2, Zenon DEF StreamInv, Entered
    <3>3. QED
      BY <3>1, <3>2, Zenon
  <2>4. QED
    BY <2>3 DEF Entered
<1>5. OneSource'
  <2> SUFFICES ASSUME NEW k \in Hub
               PROVE  /\ \E p \in Publisher : Source(k, p)'
                      /\ k \notin publish' =>
                           /\ \A q \in Publisher : pc'[q] = "publishing" => hub'[q] # k
                           /\ incoming'[k] = <<>>
                           /\ \A r \in Subscriber :
                                hub'[r] = k => got'[r] = <<>> /\ queue'[r] = <<>>
    BY DEF OneSource
  <2>1. PICK p \in Publisher : Source(k, p)
    BY DEF StreamInv, OneSource
  <2>2. k \notin publish =>
          /\ \A q \in Publisher : pc[q] = "publishing" => hub[q] # k
          /\ incoming[k] = <<>>
          /\ \A r \in Subscriber : hub[r] = k => got[r] = <<>> /\ queue[r] = <<>>
    BY Zenon DEF StreamInv, OneSource
  <2>3. Source(k, p)'
    <3>1. Of(got[s], p, sent) /\ Of(queue[s], p, sent)
      BY <1>2 DEF Of
    <3>2. \A r \in Subscriber : r # s => hub'[r] = hub[r]
      BY <1>1
    <3>3. \A q \in Publisher : pc'[q] = pc[q] /\ hub'[q] = hub[q]
      BY <1>1, Zenon
    <3>4. QED
      BY <2>1, <3>1, <3>2, <3>3, Zenon DEF Source
  <2>4. QED
    BY <1>1, <1>2, <2>2, <2>3
<1>6. InOrder'
  BY <1>1 DEF StreamInv, InOrder, Listens
<1>7. Heard'
  BY <1>1 DEF StreamInv, Heard
<1>8. QED
  BY <1>3, <1>4, <1>5, <1>6, <1>7 DEF StreamInv

(* Subscribe begins with an empty channel.                                 *)
LEMMA SubscribeStep ==
  ASSUME Inv, StreamInv, NEW s \in Subscriber, Subscribe(s)
  PROVE  StreamInv'
<1>1. /\ pc[s] = "call" /\ pc'[s] = "listening"
      /\ \A c \in Conn : c # s => pc'[c] = pc[c]
      /\ s \in Conn /\ s \notin Publisher /\ Publisher \subseteq Conn /\ Subscriber \subseteq Conn
  BY PubSubAssumption DEF Inv, PublisherTypes, Conn, Goes, Subscribe
<1>2. /\ listeners' = [listeners EXCEPT ![hub[s]] = @ \cup {s}]
      /\ queue' = [queue EXCEPT ![s] = <<>>]
      /\ UNCHANGED <<hub, incoming, got, aired, sent, publish, overflown>>
  BY DEF Subscribe, SubscribeBegins
<1>3. got[s] = <<>> /\ queue[s] = <<>> /\ hub[s] \in Hub
  BY <1>1 DEF StreamInv, Entered
<1>4. queue' = queue
  <2>1. queue \in [Subscriber -> Seq(Packet)]
    BY DEF StreamInv, StreamTypes
  <2>2. QED
    BY <1>2, <1>3, <2>1, Zenon
<1>5. StreamTypes'
  <2>1. listeners' \in [Hub -> SUBSET Subscriber]
    BY <1>2, <1>3 DEF StreamInv, StreamTypes
  <2>2. QED
    BY <1>2, <1>4, <2>1 DEF StreamInv, StreamTypes
<1>6. /\ ~Listens(s) /\ Listens(s)'
      /\ \A r \in Subscriber : r # s => (Listens(r)' <=> Listens(r))
  BY <1>1, Zenon DEF Listens
<1>7. Entered'
  <2>1. \A r \in Subscriber, k \in Hub :
           r \in listeners'[k] <=> r \in listeners[k] \/ (r = s /\ k = hub[s])
    BY <1>2, <1>3, Zenon DEF StreamInv, StreamTypes
  <2>2. QED
    BY <1>1, <1>2, <1>3, <1>4, <1>6, <2>1 DEF StreamInv, Entered
<1>8. OneSource'
  <2> SUFFICES ASSUME NEW k \in Hub
               PROVE  /\ \E p \in Publisher : Source(k, p)'
                      /\ k \notin publish' =>
                           /\ \A q \in Publisher : pc'[q] = "publishing" => hub'[q] # k
                           /\ incoming'[k] = <<>>
                           /\ \A r \in Subscriber :
                                hub'[r] = k => got'[r] = <<>> /\ queue'[r] = <<>>
    BY Zenon DEF OneSource
  <2>1. PICK p \in Publisher : Source(k, p)
    BY DEF StreamInv, OneSource
  <2>2. k \notin publish =>
          /\ \A q \in Publisher : pc[q] = "publishing" => hub[q] # k
          /\ incoming[k] = <<>>
          /\ \A r \in Subscriber : hub[r] = k => got[r] = <<>> /\ queue[r] = <<>>
    BY Zenon DEF StreamInv, OneSource
  <2>3. Source(k, p)'
    BY <1>1, <1>2, <1>4, <2>1, Zenon DEF Source
  <2>4. QED
    BY <1>1, <1>2, <1>4, <2>2, <2>3, Zenon
<1>9. InOrder'
  <2>1. \A q \in Seq(Packet) : Before(<<>>, q)
    BY DEF Before
  <2>2. Before(got[s], incoming[hub[s]]) /\ Before(queue[s], incoming[hub[s]])
    BY <1>3, <2>1, Zenon DEF StreamInv, StreamTypes
  <2>3. QED
    BY <1>2, <1>4, <1>6, <2>2, Zenon DEF StreamInv, InOrder
<1>10. Heard'
  <2>1. EndOf(got[s] \o queue[s], aired[hub[s]])
    <3>1. aired[hub[s]] \in Seq(Packet) /\ <<>> \in Seq(Packet) /\ Len(aired[hub[s]]) \in Nat
      BY <1>3 DEF StreamInv, StreamTypes
    <3>2. Len(<<>>) <= Len(aired[hub[s]]) /\ 1..Len(<<>>) = {}
      BY <3>1
    <3>3. EndOf(<<>>, aired[hub[s]])
      BY <3>1, <3>2, EndByPlace, Zenon
    <3>4. got[s] \o queue[s] = <<>>
      BY <1>3
    <3>5. QED
      BY <3>3, <3>4, Zenon
  <2>2. QED
    BY <1>1, <1>2, <1>4, <2>1 DEF StreamInv, Heard
<1>11. QED
  BY <1>5, <1>7, <1>8, <1>9, <1>10 DEF StreamInv

(* A subscriber takes a packet from its channel and writes it, or fails to *)
(* and leaves.                                                             *)
LEMMA TakeStep ==
  ASSUME Inv, StreamInv, NEW s \in Subscriber, WritePacket(s) \/ WriteFails(s)
  PROVE  StreamInv'
<1> PICK e : e = Head(queue[s])
  BY Zenon
<1>1. /\ pc[s] = "listening" /\ Listens(s) /\ Listens(s)' /\ queue[s] # <<>>
      /\ pc'[s] \notin {"request", "accepted", "call"}
      /\ \A c \in Conn : c # s => pc'[c] = pc[c]
      /\ s \in Conn /\ s \notin Publisher /\ Publisher \subseteq Conn /\ Subscriber \subseteq Conn
  BY PubSubAssumption
     DEF Inv, PublisherTypes, Conn, Goes, WritePacket, WriteFails, SubscribeTakes, Listens
<1>2. /\ queue' = [queue EXCEPT ![s] = Tail(@)]
      /\ \/ got' = [got EXCEPT ![s] = Append(@, e)]
         \/ got' = got /\ pc'[s] = "leaving"
      /\ UNCHANGED <<hub, incoming, listeners, aired, sent, publish, overflown>>
  BY Zenon DEF Inv, PublisherTypes, Conn, Goes, WritePacket, WriteFails, SubscribeTakes
<1>3. /\ got[s] \in Seq(Packet) /\ queue[s] \in Seq(Packet) /\ hub[s] \in Hub
      /\ incoming[hub[s]] \in Seq(Packet) /\ sent \in Nat
      /\ Sorted(got[s]) /\ Sorted(queue[s]) /\ Before(got[s], queue[s])
      /\ Before(got[s], incoming[hub[s]]) /\ Before(queue[s], incoming[hub[s]])
  <2>1. hub[s] \in Hub
    BY <1>1, Zenon DEF StreamInv, Entered
  <2>2. /\ got[s] \in Seq(Packet) /\ queue[s] \in Seq(Packet)
        /\ incoming[hub[s]] \in Seq(Packet) /\ sent \in Nat
    BY <2>1 DEF StreamInv, StreamTypes
  <2>3. /\ Sorted(got[s]) /\ Sorted(queue[s]) /\ Before(got[s], queue[s])
        /\ Before(got[s], incoming[hub[s]]) /\ Before(queue[s], incoming[hub[s]])
    BY <1>1, Zenon DEF StreamInv, InOrder
  <2>4. QED
    BY <2>1, <2>2, <2>3, Zenon
<1>4. /\ e \in Packet /\ Tail(queue[s]) \in Seq(Packet) /\ Sorted(Tail(queue[s]))
      /\ \A j \in 1..Len(Tail(queue[s])) : Follows(e, Tail(queue[s])[j])
  BY <1>1, <1>3, SortedTail
<1>5. /\ Before(got[s], Tail(queue[s])) /\ \A i \in 1..Len(got[s]) : Follows(got[s][i], e)
      /\ Before(Tail(queue[s]), incoming[hub[s]])
      /\ \A i \in 1..Len(incoming[hub[s]]) : Follows(e, incoming[hub[s]][i])
      /\ \A p \in Publisher : Of(queue[s], p, sent) =>
            Of(Tail(queue[s]), p, sent) /\ e.from = p /\ e.n <= sent
  BY <1>1, <1>3, TailKeeps, Zenon
<1>6. /\ queue'[s] = Tail(queue[s])
      /\ got'[s] = Append(got[s], e) \/ (got'[s] = got[s] /\ pc'[s] = "leaving")
      /\ \A r \in Subscriber : r # s => queue'[r] = queue[r] /\ got'[r] = got[r]
  BY <1>2 DEF StreamInv, StreamTypes
<1>7. \A r \in Subscriber : Listens(r)' <=> Listens(r)
  BY <1>1 DEF Listens
<1>8. StreamTypes'
  <2>1. queue' \in [Subscriber -> Seq(Packet)]
    BY <1>2, <1>4 DEF StreamInv, StreamTypes
  <2>2. got' \in [Subscriber -> Seq(Packet)]
    <3>1. Append(got[s], e) \in Seq(Packet) /\ got \in [Subscriber -> Seq(Packet)]
      BY <1>3, <1>4, AppendPlaces, Zenon DEF StreamInv, StreamTypes
    <3>2. QED
      BY <1>2, <3>1, Zenon
  <2>3. QED
    BY <1>2, <2>1, <2>2 DEF StreamInv, StreamTypes
<1>9. Entered'
  BY <1>1, <1>2, <1>6, <1>7, Zenon DEF StreamInv, Entered
<1>10. OneSource'
  <2> SUFFICES ASSUME NEW k \in Hub
               PROVE  /\ \E p \in Publisher : Source(k, p)'
                      /\ k \notin publish' =>
                           /\ \A q \in Publisher : pc'[q] = "publishing" => hub'[q] # k
                           /\ incoming'[k] = <<>>
                           /\ \A r \in Subscriber :
                                hub'[r] = k => got'[r] = <<>> /\ queue'[r] = <<>>
    BY Zenon DEF OneSource
  <2>1. PICK p \in Publisher : Source(k, p)
    BY Zenon DEF StreamInv, OneSource
  <2>2. k \notin publish =>
          /\ \A q \in Publisher : pc[q] = "publishing" => hub[q] # k
          /\ incoming[k] = <<>>
          /\ \A r \in Subscriber : hub[r] = k => got[r] = <<>> /\ queue[r] = <<>>
    BY DEF StreamInv, OneSource
  <2>3. ASSUME hub[s] = k PROVE Of(got'[s], p, sent) /\ Of(queue'[s], p, sent)
    <3>1. Of(got[s], p, sent) /\ Of(queue[s], p, sent)
      BY <2>1, <2>3 DEF Source
    <3>2. Of(Tail(queue[s]), p, sent) /\ e.from = p /\ e.n <= sent
      BY <1>5, <3>1
    <3>3. Of(Append(got[s], e), p, sent)
      BY <1>3, <1>4, <3>1, <3>2, AppendOf, Zenon
    <3>4. QED
      BY <1>6, <3>1, <3>2, <3>3, Zenon
  <2>4. Source(k, p)'
    BY <1>1, <1>2, <1>6, <2>1, <2>3, Zenon DEF Source
  <2>5. k \notin publish => hub[s] # k
    BY <1>1, <2>2, Zenon
  <2>6. QED
    BY <1>1, <1>2, <1>6, <2>2, <2>4, <2>5, Zenon
<1>11. InOrder'
  <2>1. /\ Sorted(Append(got[s], e))
        /\ Before(Append(got[s], e), Tail(queue[s]))
        /\ Before(Append(got[s], e), incoming[hub[s]])
    BY <1>3, <1>4, <1>5, AppendSorted, AppendBefore, Zenon
  <2>2. /\ Sorted(got'[s]) /\ Sorted(queue'[s]) /\ Before(got'[s], queue'[s])
        /\ Before(got'[s], incoming[hub[s]]) /\ Before(queue'[s], incoming[hub[s]])
    BY <1>3, <1>4, <1>5, <1>6, <2>1, Zenon
  <2>3. QED
    BY <1>2, <1>6, <1>7, <2>2, Zenon DEF StreamInv, InOrder
<1>12. Heard'
  <2>1. ASSUME pc'[s] = "listening", s \notin overflown
        PROVE  EndOf(got'[s] \o queue'[s], aired[hub[s]])
    <3>1. got'[s] \o queue'[s] = got[s] \o queue[s]
      <4>1. got'[s] = Append(got[s], Head(queue[s])) /\ queue'[s] = Tail(queue[s])
        BY <1>6, <2>1
      <4>2. QED
        BY <1>1, <1>3, <4>1, TakenIsKept, Zenon
    <3>2. EndOf(got[s] \o queue[s], aired[hub[s]])
      BY <1>1, <2>1, Zenon DEF StreamInv, Heard
    <3>3. QED
      BY <3>1, <3>2, Zenon
  <2>2. QED
    BY <1>1, <1>2, <1>6, <2>1, Zenon DEF StreamInv, Heard
<1>13. QED
  BY <1>8, <1>9, <1>10, <1>11, <1>12 DEF StreamInv

(* The deferred function of Subscribe removes the channel.                 *)
LEMMA UnsubscribeStep ==
  ASSUME Inv, StreamInv, NEW s \in Subscriber, Unsubscribe(s)
  PROVE  StreamInv'
<1>1. /\ pc[s] = "leaving" /\ pc'[s] = "closed"
      /\ \A c \in Conn : c # s => pc'[c] = pc[c]
      /\ s \in Conn /\ s \notin Publisher /\ Publisher \subseteq Conn /\ Subscriber \subseteq Conn
  BY PubSubAssumption DEF Inv, PublisherTypes, Conn, Goes, Unsubscribe
<1>2. /\ listeners' = [listeners EXCEPT ![hub[s]] = @ \ {s}]
      /\ UNCHANGED <<hub, incoming, got, queue, aired, sent, publish, overflown>>
  BY DEF Unsubscribe, SubscribeEnds
<1>3. /\ Listens(s) /\ ~Listens(s)' /\ hub[s] \in Hub
      /\ \A r \in Subscriber : r # s => (Listens(r)' <=> Listens(r))
  BY <1>1 DEF Listens, StreamInv, Entered
<1>4. StreamTypes'
  <2>1. listeners' \in [Hub -> SUBSET Subscriber]
    BY <1>2, <1>3, Zenon DEF StreamInv, StreamTypes
  <2>2. QED
    BY <1>2, <2>1 DEF StreamInv, StreamTypes
<1>5. Entered'
  <2>1. \A r \in Subscriber, k \in Hub :
           r \in listeners'[k] <=> r \in listeners[k] /\ ~(r = s /\ k = hub[s])
    BY <1>2, <1>3, Zenon DEF StreamInv, StreamTypes
  <2>2. QED
    BY <1>1, <1>2, <1>3, <2>1 DEF StreamInv, Entered
<1>6. OneSource'
  <2> SUFFICES ASSUME NEW k \in Hub
               PROVE  /\ \E p \in Publisher : Source(k, p)'
                      /\ k \notin publish' =>
                           /\ \A q \in Publisher : pc'[q] = "publishing" => hub'[q] # k
                           /\ incoming'[k] = <<>>
                           /\ \A r \in Subscriber :
                                hub'[r] = k => got'[r] = <<>> /\ queue'[r] = <<>>
    BY DEF OneSource
  <2>1. PICK p \in Publisher : Source(k, p)
    BY DEF StreamInv, OneSource
  <2>2. k \notin publish =>
          /\ \A q \in Publisher : pc[q] = "publishing" => hub[q] # k
          /\ incoming[k] = <<>>
          /\ \A r \in Subscriber : hub[r] = k => got[r] = <<>> /\ queue[r] = <<>>
    BY DEF StreamInv, OneSource
  <2>3. Source(k, p)'
    BY <1>1, <1>2, <2>1, Zenon DEF Source
  <2>4. QED
    BY <1>1, <1>2, <2>2, <2>3, Zenon
<1>7. InOrder'
  BY <1>2, <1>3, Zenon DEF StreamInv, InOrder
<1>8. Heard'
  BY <1>1, <1>2, Zenon DEF StreamInv, Heard
<1>9. QED
  BY <1>4, <1>5, <1>6, <1>7, <1>8 DEF StreamInv

(* A step of a publisher that only moves it, anywhere but into Publish.    *)
LEMMA PublisherMoves ==
  ASSUME Inv, StreamInv, NEW p \in Publisher, NEW to, to # "publishing",
         pc' = [pc EXCEPT ![p] = to],
         hub' = hub \/ \E h : hub' = [hub EXCEPT ![p] = h],
         UNCHANGED <<incoming, listeners, queue, got, aired, sent, publish, overflown>>
  PROVE  StreamInv'
<1>1. /\ \A c \in Conn : c # p => pc'[c] = pc[c] /\ hub'[c] = hub[c]
      /\ pc'[p] # "publishing"
      /\ p \notin Subscriber /\ Publisher \subseteq Conn /\ Subscriber \subseteq Conn
  BY PubSubAssumption DEF Inv, PublisherTypes, Conn
<1>2. \A s \in Subscriber : pc'[s] = pc[s] /\ hub'[s] = hub[s]
  BY <1>1
<1>3. \A q \in Publisher : pc'[q] = "publishing" => pc[q] = "publishing" /\ hub'[q] = hub[q]
  BY <1>1
<1>4. \A s \in Subscriber : Listens(s)' <=> Listens(s)
  BY <1>2, Zenon DEF Listens
<1>5. QED
  BY <1>2, <1>3, <1>4, QuietStep, Zenon

(* A step of a subscriber that only moves it, not through Subscribe.       *)
LEMMA SubscriberIdles ==
  ASSUME Inv, StreamInv, NEW s \in Subscriber, NEW to,
         \/ pc[s] = "request" /\ to \in {"accepted", "closed"}
         \/ pc[s] = "accepted" /\ to = "closed"
         \/ pc[s] = "listening" /\ to = "leaving",
         pc' = [pc EXCEPT ![s] = to], hub' = hub,
         UNCHANGED <<incoming, listeners, queue, got, aired, sent, publish, overflown>>
  PROVE  StreamInv'
<1>1. /\ \A c \in Conn : c # s => pc'[c] = pc[c]
      /\ pc'[s] = to
      /\ s \notin Publisher /\ Publisher \subseteq Conn /\ Subscriber \subseteq Conn
  BY PubSubAssumption DEF Inv, PublisherTypes, Conn
<1>2. ASSUME NEW r \in Subscriber
      PROVE  /\ Listens(r)' <=> Listens(r)
             /\ pc'[r] \in {"request", "accepted", "call"} =>
                  pc[r] \in {"request", "accepted", "call"}
             /\ pc'[r] \in {"call", "listening"} => pc'[r] = pc[r]
  BY <1>1 DEF Listens
<1>3. \A q \in Publisher : pc'[q] = "publishing" => pc[q] = "publishing" /\ hub'[q] = hub[q]
  BY <1>1
<1>4. QED
  BY <1>2, <1>3, QuietStep

(* Every step of the relay keeps the order of its streams.                 *)
LEMMA StreamStep ==
  ASSUME Inv, StreamInv, [Next]_vars
  PROVE  StreamInv'
<1>1. ASSUME NEW h \in Hub, Loop(h) PROVE StreamInv'
  <2>1. CASE Broadcast(h)
    BY <1>1, <2>1, BroadcastStep, Zenon DEF Loop
  <2>2. CASE BroadcastEnds(h)
    <3>1. UNCHANGED <<incoming, listeners, queue, got, aired, sent, publish, overflown, pc, hub>>
      BY <1>1, <2>2 DEF Loop, BroadcastEnds, relayVars
    <3>2. QED
      BY <3>1, QuietStep DEF Listens
  <2>3. QED
    BY <1>1, <2>1, <2>2 DEF Loop
<1>2. ASSUME NEW p \in Publisher, PublisherStep(p) PROVE StreamInv'
  <2>1. CASE HandleConnect(p)
    <3>1. /\ \E to \in {"accepted", "closed"} : pc' = [pc EXCEPT ![p] = to]
          /\ UNCHANGED <<incoming, listeners, queue, got, aired, sent, publish, overflown, hub>>
      BY <2>1 DEF HandleConnect, Goes, hubVars
    <3>2. QED
      BY <3>1, PublisherMoves, Zenon
  <2>2. CASE HandlePublish(p)
    <3>1. /\ \E to \in {"call", "closed"} : pc' = [pc EXCEPT ![p] = to]
          /\ hub' = hub \/ \E h : hub' = [hub EXCEPT ![p] = h]
          /\ UNCHANGED <<incoming, listeners, queue, got, aired, sent, publish, overflown>>
      BY <2>2 DEF HandlePublish, Goes, hubVars, NewPubSub
    <3>2. QED
      BY <3>1, PublisherMoves, Zenon
  <2>3. CASE Publish(p)
    <3>1. CASE Goes(p, "call", "publishing") /\ PublishBegins(hub[p], p)
      <4>1. hub[p] \in Hub
        BY <3>1, HandlingKnowsHub DEF Goes, Handling
      <4>2. QED
        BY <2>3, <3>1, <4>1, PublishBeginsStep DEF Publish
    <3>2. CASE Goes(p, "call", "returned") /\ PublishRefused(hub[p])
      <4>1. /\ pc' = [pc EXCEPT ![p] = "returned"]
            /\ UNCHANGED <<incoming, listeners, queue, got, aired, sent, publish, overflown, hub>>
        BY <2>3, <3>2, Zenon DEF Publish, Goes, PublishRefused, hubVars
      <4>2. QED
        BY <4>1, PublisherMoves, Zenon
    <3>3. QED
      BY <2>3, <3>1, <3>2 DEF Publish
  <2>4. CASE ReadFails(p)
    <3>1. /\ pc' = [pc EXCEPT ![p] = "returned"]
          /\ UNCHANGED <<incoming, listeners, queue, got, aired, sent, publish, overflown, hub>>
      BY <2>4, Zenon DEF ReadFails, Goes, PublishEnds
    <3>2. QED
      BY <3>1, PublisherMoves, Zenon
  <2>5. CASE Unlist(p)
    <3>1. /\ pc' = [pc EXCEPT ![p] = "closed"]
          /\ UNCHANGED <<incoming, listeners, queue, got, aired, sent, publish, overflown, hub>>
      BY <2>5 DEF Unlist, Goes, hubVars
    <3>2. QED
      BY <3>1, PublisherMoves, Zenon
  <2>6. QED
    BY <1>2, <2>1, <2>2, <2>3, <2>4, <2>5 DEF PublisherStep
<1>3. ASSUME NEW p \in Publisher, ReadPacket(p) PROVE StreamInv'
  BY <1>3, ReadPacketStep
<1>4. ASSUME NEW p \in Publisher, PeerLeaves(p) PROVE StreamInv'
  <2>1. UNCHANGED <<incoming, listeners, queue, got, aired, sent, publish, overflown, pc, hub>>
    BY <1>4 DEF PeerLeaves, hubVars
  <2>2. QED
    BY <2>1, QuietStep, Zenon DEF Listens
<1>5. ASSUME NEW s \in Subscriber, SubscriberStep(s) PROVE StreamInv'
  <2>1. CASE HandleConnect(s)
    <3>1. /\ pc[s] = "request"
          /\ \E to \in {"accepted", "closed"} : pc' = [pc EXCEPT ![s] = to]
          /\ UNCHANGED <<incoming, listeners, queue, got, aired, sent, publish, overflown, hub>>
      BY <2>1 DEF HandleConnect, Goes, hubVars
    <3>2. QED
      BY <3>1, SubscriberIdles, Zenon
  <2>2. CASE HandleSubscribe(s)
    <3> PICK h : h = IF app = "shared" THEN Shared ELSE channel
      BY Zenon
    <3>1. UNCHANGED <<incoming, listeners, queue, got, aired, sent, publish, overflown>>
      BY <2>2 DEF HandleSubscribe, hubVars
    <3>2. \/ h # None /\ Goes(s, "accepted", "call") /\ hub' = [hub EXCEPT ![s] = h]
          \/ Goes(s, "accepted", "closed") /\ hub' = hub
      BY <2>2 DEF HandleSubscribe
    <3>3. CASE h # None /\ Goes(s, "accepted", "call") /\ hub' = [hub EXCEPT ![s] = h]
      <4>1. h \in Hub
        BY <3>3, SharedIsHub DEF Inv, PublisherTypes
      <4>2. QED
        BY <3>1, <3>3, <4>1, LookUpStep, Zenon
    <3>4. CASE Goes(s, "accepted", "closed") /\ hub' = hub
      BY <3>1, <3>4, SubscriberIdles, Zenon DEF Goes
    <3>5. QED
      BY <3>2, <3>3, <3>4
  <2>3. CASE Subscribe(s)
    BY <2>3, SubscribeStep
  <2>4. CASE WritePacket(s) \/ WriteFails(s)
    BY <2>4, TakeStep
  <2>5. CASE EOF(s)
    <3>1. /\ pc[s] = "listening" /\ pc' = [pc EXCEPT ![s] = "leaving"]
          /\ UNCHANGED <<incoming, listeners, queue, got, aired, sent, publish, overflown, hub>>
      BY <2>5 DEF EOF, SubscribeEOF, Goes, hubVars
    <3>2. QED
      BY <3>1, SubscriberIdles, Zenon
  <2>6. CASE Unsubscribe(s)
    BY <2>6, UnsubscribeStep
  <2>7. QED
    BY <1>5, <2>1, <2>2, <2>3, <2>4, <2>5, <2>6 DEF SubscriberStep
<1>6. CASE UNCHANGED vars
  <2>1. UNCHANGED <<incoming, listeners, queue, got, aired, sent, publish, overflown, pc, hub>>
    BY <1>6 DEF vars, hubVars, relayVars
  <2>2. QED
    BY <2>1, QuietStep DEF Listens
<1>7. QED
  BY <1>1, <1>2, <1>3, <1>4, <1>5, <1>6 DEF Next

(* The invariant of the streams, on top of the one of the publishers.      *)
THEOREM StreamInvHolds == Spec => []StreamInv
<1>1. Init => StreamInv
  BY StreamInit
<1>2. Inv /\ StreamInv /\ [Next]_vars => StreamInv'
  BY StreamStep
<1>3. QED
  BY <1>1, <1>2, InvHolds, PTL DEF Spec

(* Whatever a subscriber was sent, has in its channel and is about to be   *)
(* sent comes from one publisher, in the order in which the packets were   *)
(* read and none twice, although publishers of the same name come and go   *)
(* (Publish refuses a second one, broadcast and Subscribe only pass on).   *)
THEOREM RelayStaysInOrder == Spec => []RelayedInOrder
<1>1. StreamInv => RelayedInOrder
  <2> SUFFICES ASSUME StreamInv, NEW s \in Subscriber, hub[s] # None
               PROVE  LET all == got[s] \o queue[s] \o (IF pc[s] = "listening"
                                                       THEN incoming[hub[s]] ELSE <<>>)
                      IN  Sorted(all)
    BY Zenon DEF RelayedInOrder, Sorted, Follows
  <2>1. /\ got[s] \in Seq(Packet) /\ queue[s] \in Seq(Packet)
        /\ Sorted(got[s]) /\ Sorted(queue[s]) /\ Before(got[s], queue[s])
    BY Zenon DEF StreamInv, StreamTypes, InOrder
  <2>2. Sorted(got[s] \o queue[s]) /\ got[s] \o queue[s] \in Seq(Packet)
    BY <2>1, SortedConcat
  <2>3. CASE pc[s] = "listening"
    <3>1. /\ incoming[hub[s]] \in Seq(Packet) /\ Sorted(incoming[hub[s]])
          /\ Before(got[s], incoming[hub[s]]) /\ Before(queue[s], incoming[hub[s]])
      BY <2>3, Zenon DEF StreamInv, StreamTypes, InOrder, Entered, Listens
    <3>2. Before(got[s] \o queue[s], incoming[hub[s]])
      BY <2>1, <3>1, SortedConcat, Zenon
    <3>3. Sorted((got[s] \o queue[s]) \o incoming[hub[s]])
      BY <2>2, <3>1, <3>2, SortedConcat, Zenon
    <3>4. QED
      BY <2>3, <3>3, Zenon
  <2>4. CASE pc[s] # "listening"
    <3>1. (got[s] \o queue[s]) \o <<>> = got[s] \o queue[s]
      BY <2>2
    <3>2. QED
      BY <2>2, <2>4, <3>1, Zenon
  <2>5. QED
    BY <2>3, <2>4
<1>2. QED
  BY <1>1, StreamInvHolds, PTL

(* A subscriber whose channel was never full has been sent, or has in its  *)
(* channel, everything that was broadcast since it came, however slow the  *)
(* other subscribers are (broadcast skips a full channel and goes on).     *)
THEOREM NothingIsMissed == Spec => []NothingMissed
<1>1. StreamInv => NothingMissed
  BY Zenon DEF StreamInv, Heard, NothingMissed, EndOf
<1>2. QED
  BY <1>1, StreamInvHolds, PTL

=============================================================================
