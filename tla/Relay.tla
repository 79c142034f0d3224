------------------------------- MODULE Relay --------------------------------
(***************************************************************************)
(* The server that relays streams: the handlers of contrib/server/main.go  *)
(* on top of the accept loop of server.go, which runs a goroutine for      *)
(* every request, and the publish/subscribe services they make.  The       *)
(* handlers look a stream up twice, when the peer asks to connect and when *)
(* its connection is made, and other handlers run in between.              *)
(*                                                                         *)
(* The other way to use the service is modelled too: an application with   *)
(* one service for everybody (TestPubSub), where two publishers can meet   *)
(* inside Publish.                                                         *)
(*                                                                         *)
(* All connections name the same stream; others are independent of it.     *)
(* handleConnect looks up the path of the stream id, the other handlers    *)
(* the whole id, so that the first look-up misses a stream whose id has a  *)
(* query.  The checks of the token, the app and the passphrase refuse a    *)
(* connection before anything is looked up and are left out.               *)
(***************************************************************************)
EXTENDS PubSub

VARIABLES
  app,                       \* "server", or "shared": one service for all
  query,                     \* whether the stream id has a query
  channel,                   \* the stream's entry in channels: a hub or None
  pc,                        \* where the goroutine of a connection is
  hub,                       \* the local variable pubsub
  gone,                      \* publishers whose connection has ended
  sent,                      \* packets read from publishers so far
  got                        \* packets written to a subscriber

relayVars == <<app, query, channel, pc, hub, gone, sent, got>>
vars == <<hubVars, relayVars>>

Conn == Publisher \cup Subscriber

\* The hub of the application with one service.
Shared == CHOOSE h \in Hub : TRUE

TypeOK ==
  /\ HubTypeOK
  /\ app \in {"server", "shared"} /\ query \in BOOLEAN
  /\ channel \in Hub \cup {None}
  /\ pc \in [Conn -> {"request", "accepted", "call", "publishing",
                      "listening", "leaving", "returned", "closed"}]
  /\ hub \in [Conn -> Hub \cup {None}]
  /\ gone \subseteq Publisher
  /\ sent \in 0..MaxPacket
  /\ got \in [Subscriber -> Seq(Packet)]

Init ==
  /\ \/ app = "server" /\ query \in BOOLEAN
     \/ app = "shared" /\ query = FALSE
  /\ HubInit(IF app = "shared" THEN {Shared} ELSE {})
  /\ channel = None
  /\ pc = [c \in Conn |-> "request"]
  /\ hub = [c \in Conn |-> None]
  /\ gone = {}
  /\ sent = 0
  /\ got = [s \in Subscriber |-> <<>>]

Goes(c, from, to) == pc[c] = from /\ pc' = [pc EXCEPT ![c] = to]

-----------------------------------------------------------------------------
(* handleConnect, and Serve's answer to it.                                *)

\* The stream as handleConnect finds it.
Requested == IF query THEN None ELSE channel

HandleConnect(c) ==
  /\ \/ /\ app = "shared" \/ (c \in Publisher <=> Requested = None)
        /\ Goes(c, "request", "accepted")
     \/ /\ app = "server" /\ ~(c \in Publisher <=> Requested = None)
        /\ Goes(c, "request", "closed")
  /\ UNCHANGED <<hubVars, app, query, channel, hub, gone, sent, got>>

-----------------------------------------------------------------------------
(* handlePublish, which ends by closing the connection.                    *)

\* Mutant: the stream found free by handleConnect is taken without looking.
HandlePublishBlindly(p) ==
  \/ /\ app = "server" /\ Goes(p, "accepted", "call")
     /\ NewPubSub(p)
     /\ channel' = p
     /\ hub' = [hub EXCEPT ![p] = p]
     /\ UNCHANGED <<app, query, gone, sent, got>>
  \/ /\ app = "shared" /\ Goes(p, "accepted", "call")
     /\ hub' = [hub EXCEPT ![p] = Shared]
     /\ UNCHANGED <<hubVars, app, query, channel, gone, sent, got>>

HandlePublish(p) ==
  \/ /\ app = "server" /\ channel = None /\ Goes(p, "accepted", "call")
     /\ NewPubSub(p)
     /\ channel' = p
     /\ hub' = [hub EXCEPT ![p] = p]
     /\ UNCHANGED <<app, query, gone, sent, got>>
  \/ /\ app = "server" /\ channel # None /\ Goes(p, "accepted", "closed")
     /\ UNCHANGED <<hubVars, app, query, channel, hub, gone, sent, got>>
  \/ /\ app = "shared" /\ Goes(p, "accepted", "call")
     /\ hub' = [hub EXCEPT ![p] = Shared]
     /\ UNCHANGED <<hubVars, app, query, channel, gone, sent, got>>

Publish(p) ==
  /\ \/ Goes(p, "call", "publishing") /\ PublishBegins(hub[p], p)
     \/ Goes(p, "call", "returned") /\ PublishRefused(hub[p])
  /\ UNCHANGED <<app, query, channel, hub, gone, sent, got>>

ReadPacket(p) ==
  /\ pc[p] = "publishing" /\ p \notin gone /\ sent < MaxPacket
  /\ sent' = sent + 1
  /\ PublishPacket(hub[p], [from |-> p, n |-> sent + 1])
  /\ UNCHANGED <<app, query, channel, pc, hub, gone, got>>

ReadFails(p) ==
  /\ Goes(p, "publishing", "returned") /\ p \in gone
  /\ PublishEnds(hub[p])
  /\ UNCHANGED <<app, query, channel, hub, gone, sent, got>>

\* delete(s.channels, channel), and Close.
Unlist(p) ==
  /\ Goes(p, "returned", "closed")
  /\ channel' = IF app = "server" THEN None ELSE channel
  /\ UNCHANGED <<hubVars, app, query, hub, gone, sent, got>>

-----------------------------------------------------------------------------
(* handleSubscribe, which ends by closing the connection.                  *)

HandleSubscribe(s) ==
  LET h == IF app = "shared" THEN Shared ELSE channel
  IN  /\ \/ h # None /\ Goes(s, "accepted", "call") /\ hub' = [hub EXCEPT ![s] = h]
         \/ h = None /\ Goes(s, "accepted", "closed") /\ UNCHANGED hub
      /\ UNCHANGED <<hubVars, app, query, channel, gone, sent, got>>

Subscribe(s) ==
  /\ Goes(s, "call", "listening")
  /\ SubscribeBegins(hub[s], s)
  /\ UNCHANGED <<app, query, channel, hub, gone, sent, got>>

WritePacket(s) ==
  /\ pc[s] = "listening"
  /\ SubscribeTakes(s)
  /\ got' = [got EXCEPT ![s] = Append(@, Head(queue[s]))]
  /\ UNCHANGED <<app, query, channel, pc, hub, gone, sent>>

\* The connection has ended, or its write queue is full.
WriteFails(s) ==
  /\ Goes(s, "listening", "leaving")
  /\ SubscribeTakes(s)
  /\ UNCHANGED <<app, query, channel, hub, gone, sent, got>>

EOF(s) ==
  /\ Goes(s, "listening", "leaving")
  /\ SubscribeEOF(hub[s])
  /\ UNCHANGED <<app, query, channel, hub, gone, sent, got>>

Unsubscribe(s) ==
  /\ Goes(s, "leaving", "closed")
  /\ SubscribeEnds(hub[s], s)
  /\ UNCHANGED <<app, query, channel, hub, gone, sent, got>>

-----------------------------------------------------------------------------

\* A publisher says goodbye, or is silent for too long.
PeerLeaves(p) ==
  /\ pc[p] = "publishing" /\ p \notin gone
  /\ gone' = gone \cup {p}
  /\ UNCHANGED <<hubVars, app, query, channel, pc, hub, sent, got>>

Loop(h) ==
  /\ Broadcast(h) \/ BroadcastEnds(h)
  /\ UNCHANGED relayVars

PublisherStep(p) ==
  HandleConnect(p) \/ HandlePublish(p) \/ Publish(p) \/ ReadFails(p) \/ Unlist(p)

SubscriberStep(s) ==
  \/ HandleConnect(s) \/ HandleSubscribe(s) \/ Subscribe(s)
  \/ WritePacket(s) \/ WriteFails(s) \/ EOF(s) \/ Unsubscribe(s)

Next ==
  \/ \E h \in Hub : Loop(h)
  \/ \E p \in Publisher : PublisherStep(p) \/ ReadPacket(p) \/ PeerLeaves(p)
  \/ \E s \in Subscriber : SubscriberStep(s)

Spec == Init /\ [][Next]_vars

\* Every goroutine keeps running.  A request may come at any time or never,
\* a peer may stay as long as it likes.
FairSpec ==
  /\ Spec
  /\ \A h \in Hub : WF_vars(Loop(h))
  /\ \A p \in Publisher : WF_vars(pc[p] # "request" /\ PublisherStep(p))
  /\ \A s \in Subscriber : WF_vars(pc[s] # "request" /\ SubscriberStep(s))

-----------------------------------------------------------------------------

(* A stream that is being published is found in channels: between the two  *)
(* look-ups of a handler, and however the end of one publisher overlaps    *)
(* with the start of the next, no publisher takes over or deletes the      *)
(* entry of another (handlePublish), and at most one connection at a time  *)
(* feeds a service (Publish).                                              *)
OnePublisher ==
  /\ app = "server" =>
       /\ \A p \in Publisher : pc[p] \in {"call", "publishing", "returned"} =>
             channel = p /\ hub[p] = p
       /\ channel # None => pc[channel] \in {"call", "publishing", "returned"}
  /\ \A p \in Publisher : pc[p] = "publishing" => publishLock[hub[p]] = p

(* What a subscriber is sent comes from one publisher, in the order in     *)
(* which that publisher was read and without repetition, also when the     *)
(* stream has ended and begun again under the same name.                   *)
RelayedInOrder ==
  \A s \in Subscriber : hub[s] # None =>
    LET all == got[s] \o queue[s] \o (IF pc[s] = "listening" THEN incoming[hub[s]] ELSE <<>>)
    IN  \A i, j \in 1..Len(all) : i < j => /\ all[i].from = all[j].from
                                           /\ all[i].n < all[j].n

(* A subscriber whose own channel never overflows misses nothing that is   *)
(* broadcast from the moment it came: a slow subscriber costs the others   *)
(* nothing (broadcast).                                                    *)
NothingMissed ==
  \A s \in Subscriber \ overflown :
    pc[s] = "listening" =>
      LET all == aired[hub[s]]
      IN  \E n \in 0..Len(all) : got[s] \o queue[s] = SubSeq(all, n + 1, Len(all))

(* PubSub says of Subscribe "If the publisher disconnects, io.EOF is       *)
(* returned" (pubsub.go:20).  Once a publisher's connection has ended, its *)
(* stream becomes free again, its broadcast goroutine ends and every       *)
(* subscriber of its service is let go and closed, the one included that   *)
(* found the service just before the entry was deleted.                    *)
StreamEnds ==
  (gone # {}) ~>
     \A p \in gone :
        /\ channel # p
        /\ \A h \in Hub : hub[p] = h => broadcast[h] = "off"
        /\ \A s \in Subscriber : hub[s] = hub[p] => pc[s] = "closed"

=============================================================================
