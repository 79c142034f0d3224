------------------------------ MODULE Listener ------------------------------
(***************************************************************************)
(* The listener (listen.go), its connection requests (conn_request.go),    *)
(* the SYN cookie (net/syncookie.go) and the accept loop of the server     *)
(* (server.go).                                                            *)
(*                                                                         *)
(* The goroutines are the one that reads the socket, the reader that sorts *)
(* the packets, the accept loop, one handler for every request, whoever    *)
(* closes a connection, the goroutine in which that connection calls       *)
(* handleShutdown, and whoever closes the listener.  A critical section of *)
(* listener.lock is one action.                                            *)
(*                                                                         *)
(* A handshake packet is its type, the peer (its address and socket id;    *)
(* two peers differ in both, as connsByPeer knows only the socket id),     *)
(* its cookie, what is wrong with it and whether it asks for encryption.   *)
(* The many checks of newConnRequest that answer with a rejection and      *)
(* return are one kind of fault, "rogue".  A cookie is the counter it was  *)
(* made with: the hash is taken to be injective.                           *)
(***************************************************************************)
EXTENDS Integers, Sequences

CONSTANTS
  Peer,
  SocketId,
  Faults,               \* a subset of {"none", "rogue", "payload"}
  Crypt,                \* a subset of {"clear", "locked"}: without, with SRTKM
  RcvQueueSize,         \* 2048 in the code
  BacklogSize,          \* 128 in the code
  MaxReq,               \* bound on the number of requests
  MaxArrivals,          \* bound on the packets that arrive
  MaxCounter            \* bound on the counter of the SYN cookie

ASSUME ListenerAssumption ==
  /\ Faults \subseteq {"none", "rogue", "payload"}
  /\ Crypt \subseteq {"clear", "locked"}
  /\ RcvQueueSize \in Nat \ {0} /\ BacklogSize \in Nat \ {0}
  /\ MaxReq \in Nat /\ MaxArrivals \in Nat /\ MaxCounter \in Nat

VARIABLES
  conns,                \* socket id -> connection, Nil if reserved, Absent
  connsByPeer,          \* peer -> connection, Nil if reserved, Absent
  rcvQueue, backlog,
  shutdown, doneErr,
  socket,               \* the goroutine that reads the socket: "on" or "off"
  reader,               \* "on", "stopped" (ctx cancelled) or "off"
  serve,                \* the accept loop: "call", "select" or "returned"
  closer,               \* Close: "no", "conns", "stop" or "done"
  counter,              \* of the SYN cookie: it moves on every 64 seconds
  request,              \* what a request holds, in the order they are made
  passphrase,           \* the requests SetPassphrase has succeeded for
  phase,                \* where the handler of a request is
  conn,                 \* "none", or the state of the request's connection
  arrivals,             \* packets that have arrived
  given,                \* the cookies sent to each peer
  told,                 \* <<peer, socket id>> of the acceptances sent
  left,                 \* <<peer, socket id>> of the goodbyes sent
  asked,                \* connections that were handed a shutdown message
  starved               \* peers for which no socket id was found

tables  == <<conns, connsByPeer>>
queues  == <<rcvQueue, backlog>>
closing == <<shutdown, doneErr, socket, reader, serve, closer>>
reqs    == <<request, passphrase, phase, conn>>
peers   == <<arrivals, given, told, left>>
vars == <<tables, queues, closing, reqs, peers, counter, asked, starved>>

Req    == 1..MaxReq
Nil    == 0
Absent == -1

Cookie == 0..MaxCounter
Handshake ==
  [type : {"induction"}, peer : Peer]
    \cup [type : {"conclusion"}, peer : Peer, cookie : Cookie,
          fault : Faults, crypt : Crypt]
Shutdown  == [type : {"shutdown"}, peer : Peer, to : SocketId]

Request == [peer : Peer, sid : SocketId, fault : Faults, crypt : Crypt]

\* The type invariant, as far as the other properties rest on it.
TypeOK ==
  /\ conns \in [SocketId -> Req \cup {Nil, Absent}]
  /\ connsByPeer \in [Peer -> Req \cup {Nil, Absent}]
  /\ rcvQueue \in Seq(Handshake \cup Shutdown)
  /\ backlog \in Seq(Handshake)
  /\ request \in Seq(Request)
  /\ phase \in [Req -> {"none", "handling", "accepted", "rejected", "failed"}]
  /\ conn \in [Req -> {"none", "open", "closing", "gone"}]

\* Listen
Init ==
  /\ conns = [s \in SocketId |-> Absent]
  /\ connsByPeer = [p \in Peer |-> Absent]
  /\ rcvQueue = <<>> /\ backlog = <<>>
  /\ shutdown = "no" /\ doneErr = "nil"
  /\ socket = "on" /\ reader = "on" /\ serve = "call" /\ closer = "no"
  /\ counter = 0
  /\ request = <<>> /\ passphrase = {}
  /\ phase = [r \in Req |-> "none"]
  /\ conn = [r \in Req |-> "none"]
  /\ arrivals = 0
  /\ given = [p \in Peer |-> {}]
  /\ told = {} /\ left = {} /\ asked = {} /\ starved = {}

-----------------------------------------------------------------------------
(* The socket.  A full queue drops the packet.                             *)

Arrive(pkt) ==
  /\ socket = "on" /\ closer # "done"
  /\ arrivals < MaxArrivals
  /\ arrivals' = arrivals + 1
  /\ rcvQueue' = IF Len(rcvQueue) < RcvQueueSize THEN Append(rcvQueue, pkt)
                                                 ELSE rcvQueue
  /\ UNCHANGED <<tables, backlog, closing, reqs, given, told, counter, asked, starved>>

\* Mutant: the loop leaves without markDone.
SocketEndsSilently ==
  /\ socket = "on"
  /\ socket' = "off"
  /\ UNCHANGED <<tables, queues, shutdown, doneErr, reader, serve, closer, reqs, peers,
                 counter, asked, starved>>

\* The loop ends when it sees the flag, or when reading fails; pc.Close makes
\* it fail.  markDone releases Accept2.
SocketEnds ==
  /\ socket = "on"
  /\ socket' = "off"
  /\ doneErr' = IF shutdown = "yes" THEN "closed" ELSE "error"
  /\ UNCHANGED <<tables, queues, shutdown, reader, serve, closer, reqs, peers,
                 counter, asked, starved>>

-----------------------------------------------------------------------------
(* The reader.                                                             *)

\* A packet with a destination goes to that connection, if it comes from the
\* connection's peer (AllowPeerIpChange is off).
Routes(pkt) ==
  /\ conns[pkt.to] \in Req
  /\ request[conns[pkt.to]].peer = pkt.peer

Read ==
  /\ reader # "off" /\ rcvQueue # <<>>
  /\ rcvQueue' = Tail(rcvQueue)
  /\ LET pkt == Head(rcvQueue)
     IN  \/ /\ shutdown = "yes"
            /\ UNCHANGED <<backlog, asked>>
         \/ /\ shutdown = "no" /\ pkt.type # "shutdown"
            /\ backlog' = IF Len(backlog) < BacklogSize THEN Append(backlog, pkt)
                                                        ELSE backlog
            /\ UNCHANGED asked
         \/ /\ shutdown = "no" /\ pkt.type = "shutdown"
            /\ asked' = IF Routes(pkt) THEN asked \cup {conns[pkt.to]} ELSE asked
            /\ UNCHANGED backlog
  /\ UNCHANGED <<tables, closing, reqs, peers, counter, starved>>

ReaderLeaves ==
  /\ reader = "stopped"
  /\ reader' = "off"
  /\ UNCHANGED <<tables, queues, shutdown, doneErr, socket, serve, closer, reqs, peers,
                 counter, asked, starved>>

-----------------------------------------------------------------------------
(* The accept loop: Accept2 and newConnRequest.                            *)

Call ==
  /\ serve = "call"
  /\ serve' = IF shutdown = "yes" THEN "returned" ELSE "select"
  /\ UNCHANGED <<tables, queues, shutdown, doneErr, socket, reader, closer, reqs, peers,
                 counter, asked, starved>>

Done ==
  /\ serve = "select" /\ doneErr # "nil"
  /\ serve' = "returned"
  /\ UNCHANGED <<tables, queues, shutdown, doneErr, socket, reader, closer, reqs, peers,
                 counter, asked, starved>>

\* A packet is taken out of the backlog.
Takes(type) ==
  /\ serve = "select" /\ backlog # <<>>
  /\ Head(backlog).type = type
  /\ backlog' = Tail(backlog)

\* What is sent once the socket is closed is lost.
Answered == closer # "done"

Induction ==
  /\ Takes("induction")
  /\ LET p == Head(backlog).peer
     IN  given' = IF Answered THEN [given EXCEPT ![p] = @ \cup {counter}] ELSE given
  /\ UNCHANGED <<tables, rcvQueue, closing, reqs, arrivals, told, left, counter,
                 asked, starved>>

\* Mutant: a cookie never gets too old.
VerifyEver(cookie) == cookie \in 0..counter

Verify(cookie) == cookie \in {counter, counter - 1}

\* Everything newConnRequest refuses before it looks at the tables.
Refused ==
  /\ Takes("conclusion")
  /\ ~Verify(Head(backlog).cookie) \/ Head(backlog).fault = "rogue"
  /\ UNCHANGED <<tables, rcvQueue, closing, reqs, peers, counter, asked, starved>>

\* The packet passes the checks.  A payload that is too small is answered with
\* a rejection as well, but the request is made.
Passes ==
  /\ Takes("conclusion")
  /\ Verify(Head(backlog).cookie) /\ Head(backlog).fault # "rogue"

Duplicate ==
  /\ Passes
  /\ connsByPeer[Head(backlog).peer] # Absent
  /\ UNCHANGED <<tables, rcvQueue, closing, reqs, peers, counter, asked, starved>>

\* generateSocketId has met ids in use ten times: the entry of the peer stays.
NoSocketId ==
  /\ Passes
  /\ connsByPeer[Head(backlog).peer] = Absent
  /\ \E s \in SocketId : conns[s] # Absent
  /\ connsByPeer' = [connsByPeer EXCEPT ![Head(backlog).peer] = Nil]
  /\ starved' = starved \cup {Head(backlog).peer}
  /\ UNCHANGED <<conns, rcvQueue, closing, reqs, peers, counter, asked>>

NewRequest ==
  /\ Passes
  /\ connsByPeer[Head(backlog).peer] = Absent
  /\ Len(request) < MaxReq
  /\ \E s \in SocketId :
        LET hs == Head(backlog)
            r  == Len(request) + 1
        IN  /\ conns[s] = Absent
            /\ conns' = [conns EXCEPT ![s] = Nil]
            /\ connsByPeer' = [connsByPeer EXCEPT ![hs.peer] = Nil]
            /\ request' = Append(request, [peer |-> hs.peer, sid |-> s,
                                           fault |-> hs.fault, crypt |-> hs.crypt])
            /\ phase' = [phase EXCEPT ![r] = "handling"]
  /\ serve' = "call"
  /\ UNCHANGED <<rcvQueue, shutdown, doneErr, socket, reader, closer, passphrase, conn,
                 peers, counter, asked, starved>>

-----------------------------------------------------------------------------
(* The handler of a request.                                               *)

\* The peer's entry is a reservation, which is all that Reject and Accept look
\* at.
Waits(r) == connsByPeer[request[r].peer] = Nil

\* Mutant: the socket id stays reserved.
RejectsHalf(r) ==
  IF Waits(r)
  THEN /\ connsByPeer' = [connsByPeer EXCEPT ![request[r].peer] = Absent]
       /\ UNCHANGED conns
  ELSE UNCHANGED tables

\* What Reject does to the tables.
Rejects(r) ==
  IF Waits(r)
  THEN /\ conns' = [conns EXCEPT ![request[r].sid] = Absent]
       /\ connsByPeer' = [connsByPeer EXCEPT ![request[r].peer] = Absent]
  ELSE UNCHANGED tables

\* SetPassphrase succeeds; when it fails nothing changes.
SetPassphrase(r) ==
  /\ phase[r] = "handling" /\ request[r].crypt = "locked"
  /\ passphrase' = passphrase \cup {r}
  /\ UNCHANGED <<tables, queues, closing, request, phase, conn, peers, counter,
                 asked, starved>>

\* The accept loop rejects what the handler does not want.
Reject(r) ==
  /\ phase[r] = "handling"
  /\ Rejects(r)
  /\ phase' = [phase EXCEPT ![r] = "rejected"]
  /\ UNCHANGED <<queues, closing, request, passphrase, conn, peers, counter, asked,
                 starved>>

Locked(r) == request[r].crypt = "locked" /\ r \notin passphrase

\* Accept without a passphrase rejects.
AcceptLocked(r) ==
  /\ phase[r] = "handling" /\ Locked(r)
  /\ Rejects(r)
  /\ phase' = [phase EXCEPT ![r] = "rejected"]
  /\ UNCHANGED <<queues, closing, request, passphrase, conn, peers, counter, asked,
                 starved>>

\* The response carries the verdict of newConnRequest, so that after a payload
\* that is too small the peer reads a rejection.
Accepts(r) ==
  /\ conns' = [conns EXCEPT ![request[r].sid] = r]
  /\ connsByPeer' = [connsByPeer EXCEPT ![request[r].peer] = r]
  /\ phase' = [phase EXCEPT ![r] = "accepted"]
  /\ conn' = [conn EXCEPT ![r] = "open"]
  /\ told' = IF Answered /\ request[r].fault = "none"
             THEN told \cup {<<request[r].peer, request[r].sid>>} ELSE told

Accept(r) ==
  /\ phase[r] = "handling" /\ ~Locked(r)
  /\ IF Waits(r)
     THEN Accepts(r)
     ELSE phase' = [phase EXCEPT ![r] = "failed"] /\ UNCHANGED <<tables, conn, told>>
  /\ UNCHANGED <<queues, closing, request, passphrase, arrivals, given, left,
                 counter, asked, starved>>

-----------------------------------------------------------------------------
(* Closing.                                                                *)

\* close of a connection, by the application, the idle timeout or on a shutdown
\* message: the first call starts the goroutine for handleShutdown.
CloseConn(r) ==
  /\ conn[r] = "open"
  /\ conn' = [conn EXCEPT ![r] = "closing"]
  /\ UNCHANGED <<tables, queues, closing, request, passphrase, phase, peers, counter,
                 asked, starved>>

\* Mutant: the peer's entry is kept.
HandleShutdownForgets(r) ==
  /\ conn[r] = "closing"
  /\ conn' = [conn EXCEPT ![r] = "gone"]
  /\ conns' = [conns EXCEPT ![request[r].sid] = Absent]
  /\ UNCHANGED <<connsByPeer, queues, closing, request, passphrase, phase, peers,
                 counter, asked, starved>>

HandleShutdown(r) ==
  /\ conn[r] = "closing"
  /\ conn' = [conn EXCEPT ![r] = "gone"]
  /\ conns' = [conns EXCEPT ![request[r].sid] = Absent]
  /\ connsByPeer' = [connsByPeer EXCEPT ![request[r].peer] = Absent]
  /\ UNCHANGED <<queues, closing, request, passphrase, phase, peers, counter, asked,
                 starved>>

Close ==
  /\ closer = "no"
  /\ closer' = "conns"
  /\ shutdown' = "yes"
  /\ UNCHANGED <<tables, queues, doneErr, socket, reader, serve, reqs, peers, counter,
                 asked, starved>>

\* The loop over the connections, under the lock.
CloseConns ==
  /\ closer = "conns"
  /\ closer' = "stop"
  /\ conn' = [r \in Req |->
                IF conn[r] = "open" /\ (\E s \in SocketId : conns[s] = r)
                THEN "closing" ELSE conn[r]]
  /\ UNCHANGED <<tables, queues, shutdown, doneErr, socket, reader, serve, request,
                 passphrase, phase, peers, counter, asked, starved>>

\* stopReader and pc.Close.
CloseSocket ==
  /\ closer = "stop"
  /\ closer' = "done"
  /\ reader' = "stopped"
  /\ UNCHANGED <<tables, queues, shutdown, doneErr, socket, serve, reqs, peers, counter,
                 asked, starved>>

-----------------------------------------------------------------------------
(* The peers.  A peer concludes with a cookie it was given, however late,  *)
(* and says goodbye to the socket id it was told.                          *)

Send ==
  \E p \in Peer :
    \/ /\ Arrive([type |-> "induction", peer |-> p])
       /\ UNCHANGED left
    \/ \E cookie \in given[p], f \in Faults, c \in Crypt :
          /\ Arrive([type |-> "conclusion", peer |-> p, cookie |-> cookie,
                     fault |-> f, crypt |-> c])
          /\ UNCHANGED left
    \/ \E s \in SocketId :
          /\ <<p, s>> \in told
          /\ Arrive([type |-> "shutdown", peer |-> p, to |-> s])
          /\ left' = left \cup {<<p, s>>}

TimePasses ==
  /\ counter < MaxCounter
  /\ counter' = counter + 1
  /\ UNCHANGED <<tables, queues, closing, reqs, peers, asked, starved>>

Serve == Call \/ Done \/ Induction \/ Refused \/ Duplicate \/ NoSocketId \/ NewRequest

Handler(r) == Reject(r) \/ AcceptLocked(r) \/ Accept(r)

Closer == CloseConns \/ CloseSocket

Next ==
  \/ Send
  \/ SocketEnds
  \/ Read \/ ReaderLeaves
  \/ Serve
  \/ \E r \in Req : SetPassphrase(r) \/ Handler(r) \/ CloseConn(r) \/ HandleShutdown(r)
  \/ Close \/ Closer
  \/ TimePasses

Spec == Init /\ [][Next]_vars

\* The goroutines keep running; a handler decides in the end (what the server
\* asks of HandleConnect); once the reader has left, nothing resets the idle
\* timeout of a connection any more.
FairSpec ==
  /\ Spec
  /\ WF_vars(shutdown = "yes" /\ SocketEnds)
  /\ WF_vars(ReaderLeaves)
  /\ WF_vars(Serve)
  /\ WF_vars(Closer)
  /\ \A r \in Req : /\ WF_vars(Handler(r))
                    /\ WF_vars(HandleShutdown(r))
                    /\ WF_vars(reader = "off" /\ CloseConn(r))

-----------------------------------------------------------------------------

(* A connection that lives is found under its socket id and its peer, so   *)
(* that its packets reach it and its peer's repeated handshakes do not     *)
(* make a second one; and no table names a connection that is gone.  Other *)
(* requests, Reject and the late handleShutdown of earlier connections     *)
(* never take its entries away, also when a socket id is used again.       *)
TablesAgree ==
  /\ \A r \in Req : conn[r] \in {"open", "closing"} =>
        conns[request[r].sid] = r /\ connsByPeer[request[r].peer] = r
  /\ \A s \in SocketId : conns[s] \in Req =>
        conn[conns[s]] \in {"open", "closing"} /\ request[conns[s]].sid = s
  /\ \A p \in Peer : connsByPeer[p] \in Req =>
        conn[connsByPeer[p]] \in {"open", "closing"} /\ request[connsByPeer[p]].peer = p

(* newConnRequest says "Already reserve a socketId for this connection"    *)
(* (conn_request.go:280): until its handler decides, a request holds a     *)
(* socket id and its peer's entry, and every reserved socket id belongs to *)
(* such a request, so no id leaks.                                         *)
ReservationHeld ==
  /\ \A r \in Req : phase[r] = "handling" =>
        conns[request[r].sid] = Nil /\ connsByPeer[request[r].peer] = Nil
  /\ \A s \in SocketId : conns[s] = Nil =>
        \E r \in Req : phase[r] = "handling" /\ request[r].sid = s
  /\ \A p \in Peer : connsByPeer[p] = Nil =>
        p \in starved \/ \E r \in Req : phase[r] = "handling" /\ request[r].peer = p

(* A shutdown message reaches only a connection of the peer that sent it, *)
(* even when it is older than the connection that has its socket id now.   *)
ShutdownIsOwn ==
  \A r \in asked : <<request[r].peer, request[r].sid>> \in left

(* A request is made only for a peer that was answered an induction in the *)
(* same or the previous period of the cookie's counter, whatever old       *)
(* handshakes arrive late.                                                 *)
CookieIsRecent ==
  [][Len(request') > Len(request) =>
       \E c \in given[request'[Len(request')].peer] : counter - c <= 1]_vars

(* After Close the accept loop returns, and every connection and every     *)
(* reservation leaves the tables, those included that a handler accepts    *)
(* too late.                                                               *)
CloseCompletes ==
  (shutdown = "yes") ~>
     /\ closer = "done" /\ serve = "returned"
     /\ \A s \in SocketId : conns[s] = Absent
     /\ \A p \in Peer : connsByPeer[p] = Absent \/ p \in starved

=============================================================================
