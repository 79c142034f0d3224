------------------------------- MODULE Dialer -------------------------------
(***************************************************************************)
(* The dialer (dial.go).                                                   *)
(*                                                                         *)
(* The goroutines are DialWithContext, the one that reads the socket, the  *)
(* reader, an application that calls Read and Write and another that calls *)
(* Close, the idle timer of every connection and the goroutine in which a  *)
(* closed connection calls onShutdown, which is Close again.               *)
(*                                                                         *)
(* A packet is its kind: "induction" and "conclusion" are acceptable       *)
(* answers of the peer, "refusal" stands for every handshake that is an    *)
(* error without further ado (rejection, unknown type or version, wrong    *)
(* magic number, missing extension), "unfit" for a conclusion the dialer   *)
(* turns down with a shutdown message (SRT version, flags, MTU).  What is  *)
(* dropped unread (another socket id, no valid handshake) does not arrive. *)
(* A connection is open or closed; module Connection looks inside one.     *)
(* The keys and parameters a handshake carries are left out.               *)
(***************************************************************************)
EXTENDS Integers, Sequences, FiniteSets

CONSTANTS
  RcvQueueSize,         \* 2048 in the code
  MaxHandshakes         \* bound on the handshakes that arrive

ASSUME DialerAssumption ==
  /\ RcvQueueSize \in Nat \ {0}
  /\ MaxHandshakes \in Nat

VARIABLES
  dial,                 \* "waiting" or "cancelled" (in its select, with the
                        \* context of the caller cancelled or not), "failing",
                        \* "ok" or "failed"
  socket,               \* its goroutine: "on", "done" (offers doneChan), "off"
  pc,                   \* the socket itself: "open" or "closed"
  rcvQueue,
  dialReader,           \* "on", "blocked" (on connChan) or "off"
  dialPacket,           \* the packet the reader is at, or "none"
  response,             \* what the reader is blocked with, or Nil
  stopped,              \* stopReader was called
  connChan,             \* the responses in it: there is room for one
  conn,                 \* dl.conn
  conns,                \* the connections made, each "open" or "closed"
  timer,                \* of each connection: "armed" or "ripe"
  calls,                \* connections that are about to call onShutdown
  shutdown,
  dialClose,            \* the next step of Close: see Close
  app,                  \* the application: "idle", "closing" or "reading"
  readable,             \* the connection has data to be read
  handshakes,           \* how many have arrived
  dialAsked,            \* a conclusion was sent
  told,                 \* connections whose peer was sent a shutdown message,
                        \* and Err for a conclusion that was turned down
  closedBy              \* who runs Close: "user", "failed" (the dialing),
                        \* "check" or "conn" (a connection that ended)

peerVars == <<handshakes, dialAsked>>
dialReadVars == <<rcvQueue, dialReader, dialPacket, response>>
connVars == <<conns, timer, calls, told>>
dialCloseVars == <<shutdown, dialClose, closedBy>>
appVars == <<app, readable>>
dialVars == <<dial, socket, pc, stopped, connChan, conn, peerVars, dialReadVars,
              connVars, dialCloseVars, appVars>>

NoConn == 0
Err == -1               \* the connResponse that holds an error
Handshakes  == {"induction", "conclusion", "refusal", "unfit"}
PeerPackets == Handshakes \union {"data", "goodbye"}
ConnIds     == 1..Len(conns)

DialInit ==
  /\ dial = "waiting" /\ socket = "on" /\ pc = "open"
  /\ rcvQueue = <<>> /\ dialReader = "on" /\ dialPacket = "none" /\ response = NoConn
  /\ stopped = FALSE /\ connChan = <<>> /\ conn = NoConn
  /\ conns = <<>> /\ timer = <<>> /\ calls = {} /\ told = {}
  /\ shutdown = FALSE /\ dialClose = "no" /\ closedBy = "no"
  /\ app = "idle" /\ readable = FALSE
  /\ handshakes = 0 /\ dialAsked = FALSE

-----------------------------------------------------------------------------
(* A call of Close, by `who`: shutdownOnce lets the first one in and makes  *)
(* the others wait until it is done.                                       *)
EnterClose(who) ==
  IF dialClose = "no"
  THEN dialClose' = "flag" /\ closedBy' = who /\ UNCHANGED shutdown
  ELSE UNCHANGED dialCloseVars

(* srtConn.close, once: it tells the peer, over a socket that may be       *)
(* closed by now, and has onShutdown called in a goroutine.                *)
CloseConn(c) ==
  IF c = NoConn \/ conns[c] = "closed" THEN UNCHANGED connVars
  ELSE /\ conns' = [conns EXCEPT ![c] = "closed"]
       /\ told' = IF pc = "open" THEN told \union {c} ELSE told
       /\ calls' = calls \union {c}
       /\ UNCHANGED timer

CloseFlag ==
  /\ dialClose = "flag"
  /\ shutdown' = TRUE /\ dialClose' = "conn"
  /\ UNCHANGED <<dial, socket, pc, stopped, connChan, conn, closedBy>>
  /\ UNCHANGED <<peerVars, dialReadVars, connVars, appVars>>

\* Mutant: the socket is closed before the connection.
CloseOwnConnLast ==
  /\ dialClose = "conn"
  /\ pc' = "closed" /\ dialClose' = "stop"
  /\ UNCHANGED <<dial, socket, stopped, connChan, conn, shutdown, closedBy>>
  /\ UNCHANGED <<peerVars, dialReadVars, connVars, appVars>>

CloseOwnConn ==
  /\ dialClose = "conn"
  /\ CloseConn(conn) /\ dialClose' = "stop"
  /\ UNCHANGED <<dial, socket, pc, stopped, connChan, conn, shutdown, closedBy>>
  /\ UNCHANGED <<peerVars, dialReadVars, appVars>>

CloseStopReader ==
  /\ dialClose = "stop"
  /\ stopped' = TRUE /\ dialClose' = "socket"
  /\ UNCHANGED <<dial, socket, pc, connChan, conn, shutdown, closedBy>>
  /\ UNCHANGED <<peerVars, dialReadVars, connVars, appVars>>

CloseSocket ==
  /\ dialClose = "socket"
  /\ pc' = "closed" /\ dialClose' = "chan"
  /\ UNCHANGED <<dial, socket, stopped, connChan, conn, shutdown, closedBy>>
  /\ UNCHANGED <<peerVars, dialReadVars, connVars, appVars>>

CloseDoneChan ==        \* the receive does not block
  /\ dialClose = "chan"
  /\ socket' = IF socket = "done" THEN "off" ELSE socket
  /\ dialClose' = "done"
  /\ UNCHANGED <<dial, pc, stopped, connChan, conn, shutdown, closedBy>>
  /\ UNCHANGED <<peerVars, dialReadVars, connVars, appVars>>

Close == CloseFlag \/ CloseOwnConn \/ CloseStopReader \/ CloseSocket
           \/ CloseDoneChan

-----------------------------------------------------------------------------
(* The goroutine of the socket.  A packet of the peer arrives; conclusions *)
(* answer a conclusion, and the network may repeat what the peer sends.    *)

Arrive(k) ==
  /\ socket = "on" /\ pc = "open"
  /\ k \in Handshakes => handshakes < MaxHandshakes
  /\ k \in {"conclusion", "unfit", "data", "goodbye"} => dialAsked
  /\ handshakes' = handshakes + (IF k \in Handshakes THEN 1 ELSE 0)
  /\ rcvQueue' = IF Len(rcvQueue) < RcvQueueSize THEN Append(rcvQueue, k)
                                                 ELSE rcvQueue
  /\ UNCHANGED <<dial, socket, pc, dialReader, dialPacket, response, stopped>>
  /\ UNCHANGED <<connChan, conn, dialAsked, connVars, dialCloseVars, appVars>>

SocketFails ==          \* an error of ReadFrom other than the deadline
  /\ socket = "on" /\ ~shutdown
  /\ socket' = "done"
  /\ UNCHANGED <<dial, pc, stopped, connChan, conn, peerVars, dialReadVars>>
  /\ UNCHANGED <<connVars, dialCloseVars, appVars>>

SocketEnds ==           \* at the latest when the deadline has passed
  /\ socket = "on" /\ shutdown
  /\ socket' = "done"
  /\ UNCHANGED <<dial, pc, stopped, connChan, conn, peerVars, dialReadVars>>
  /\ UNCHANGED <<connVars, dialCloseVars, appVars>>

-----------------------------------------------------------------------------
(* The reader takes a packet and looks at the shutdown flag; what it does  *)
(* with the packet is a step of its own, since Close may run in between.   *)

Take ==
  /\ dialReader = "on" /\ dialPacket = "none" /\ rcvQueue # <<>>
  /\ dialPacket' = IF shutdown THEN "none" ELSE Head(rcvQueue)
  /\ rcvQueue' = Tail(rcvQueue)
  /\ UNCHANGED <<dial, socket, pc, dialReader, response, stopped, connChan, conn>>
  /\ UNCHANGED <<peerVars, connVars, dialCloseVars, appVars>>

ReaderLeaves ==
  /\ dialReader = "on" /\ dialPacket = "none" /\ stopped
  /\ dialReader' = "off"
  /\ UNCHANGED <<dial, socket, pc, rcvQueue, dialPacket, response, stopped>>
  /\ UNCHANGED <<connChan, conn, peerVars, connVars, dialCloseVars, appVars>>

(* The end of handleHandshake: the send on connChan, which may block.      *)
Respond(r) ==
  IF connChan = <<>>
  THEN connChan' = <<r>> /\ UNCHANGED <<dialReader, response>>
  ELSE dialReader' = "blocked" /\ response' = r /\ UNCHANGED connChan

Induct ==               \* answers with a conclusion
  /\ dialPacket = "induction"
  /\ dialAsked' = TRUE
  /\ UNCHANGED <<connVars, connChan, dialReader, response>>

Conclude ==             \* every acceptable conclusion makes a connection
  /\ dialPacket = "conclusion"
  /\ conns' = Append(conns, "open")
  /\ timer' = Append(timer, "armed")
  /\ Respond(Len(conns) + 1)
  /\ UNCHANGED <<calls, told, dialAsked>>

TurnDown ==             \* dialer.sendShutdown, then the error
  /\ dialPacket = "unfit"
  /\ told' = IF pc = "open" THEN told \union {Err} ELSE told
  /\ Respond(Err)
  /\ UNCHANGED <<conns, timer, calls, dialAsked>>

Refuse ==
  /\ dialPacket = "refusal"
  /\ Respond(Err)
  /\ UNCHANGED <<connVars, dialAsked>>

HandleHandshake ==
  /\ dialPacket \in Handshakes
  /\ dialPacket' = "none"
  /\ Induct \/ Conclude \/ TurnDown \/ Refuse
  /\ UNCHANGED <<dial, socket, pc, rcvQueue, stopped, conn, handshakes>>
  /\ UNCHANGED <<dialCloseVars, appVars>>

Push ==                 \* dl.conn.push
  /\ dialPacket \in {"data", "goodbye"}
  /\ dialPacket' = "none"
  /\ IF conn = NoConn \/ conns[conn] = "closed"
     THEN UNCHANGED <<connVars, readable>>
     ELSE IF dialPacket = "goodbye"
     THEN CloseConn(conn) /\ UNCHANGED readable
     ELSE /\ readable' = TRUE
          /\ timer' = [timer EXCEPT ![conn] = "armed"]
          /\ UNCHANGED <<conns, calls, told>>
  /\ UNCHANGED <<dial, socket, pc, rcvQueue, dialReader, response, stopped>>
  /\ UNCHANGED <<connChan, conn, peerVars, dialCloseVars, app>>


Unblock ==
  /\ dialReader = "blocked" /\ connChan = <<>>
  /\ connChan' = <<response>> /\ response' = NoConn /\ dialReader' = "on"
  /\ UNCHANGED <<dial, socket, pc, rcvQueue, dialPacket, stopped, conn>>
  /\ UNCHANGED <<peerVars, connVars, dialCloseVars, appVars>>

-----------------------------------------------------------------------------
(* DialWithContext, from its select on.                                    *)

Fail ==
  /\ dial' = "failing"
  /\ EnterClose("failed")

TakeResponse ==
  /\ dial \in {"waiting", "cancelled"} /\ connChan # <<>>
  /\ connChan' = <<>>
  /\ IF dial = "cancelled" \/ connChan[1] = Err
     THEN Fail /\ UNCHANGED conn
     ELSE dial' = "ok" /\ conn' = connChan[1] /\ UNCHANGED dialCloseVars
  /\ UNCHANGED <<socket, pc, stopped, peerVars, dialReadVars, connVars, appVars>>

ContextDone ==
  /\ dial = "cancelled"
  /\ Fail
  /\ UNCHANGED <<socket, pc, stopped, connChan, conn, peerVars, dialReadVars>>
  /\ UNCHANGED <<connVars, appVars>>

ConnectionTimeout ==    \* whether the context was cancelled or not
  /\ dial \in {"waiting", "cancelled"}
  /\ Fail
  /\ UNCHANGED <<socket, pc, stopped, connChan, conn, peerVars, dialReadVars>>
  /\ UNCHANGED <<connVars, appVars>>

DialFails ==            \* Close has returned
  /\ dial = "failing" /\ dialClose = "done"
  /\ dial' = "failed"
  /\ UNCHANGED <<socket, pc, stopped, connChan, conn, peerVars, dialReadVars>>
  /\ UNCHANGED <<connVars, dialCloseVars, appVars>>

Cancel ==
  /\ dial = "waiting"
  /\ dial' = "cancelled"
  /\ UNCHANGED <<socket, pc, stopped, connChan, conn, peerVars>>
  /\ UNCHANGED <<dialReadVars, connVars, dialCloseVars, appVars>>

-----------------------------------------------------------------------------
(* The application.  Read and Write begin with checkConnection; a Write    *)
(* that finds nothing there does not block and leaves the dialer alone.    *)

Check ==
  /\ dial = "ok" /\ app = "idle"
  /\ socket = "done"
  /\ socket' = "off"
  /\ app' = "closing" /\ EnterClose("check")
  /\ UNCHANGED <<dial, pc, stopped, connChan, conn, readable>>
  /\ UNCHANGED <<peerVars, dialReadVars, connVars>>

CheckReturns ==
  /\ app = "closing" /\ dialClose = "done"
  /\ app' = "idle"
  /\ UNCHANGED <<dial, socket, pc, stopped, connChan, conn, readable>>
  /\ UNCHANGED <<peerVars, dialReadVars, connVars, dialCloseVars>>

Read ==
  /\ dial = "ok" /\ app = "idle"
  /\ socket # "done"
  /\ app' = "reading"
  /\ UNCHANGED <<dial, socket, pc, stopped, connChan, conn, readable>>
  /\ UNCHANGED <<peerVars, dialReadVars, connVars, dialCloseVars>>

DialReadReturns ==      \* with data or, from a closed connection, an error
  /\ app = "reading"
  /\ app' = "idle"
  /\ \/ readable /\ readable' = FALSE
     \/ conns[conn] = "closed" /\ UNCHANGED readable
  /\ UNCHANGED <<dial, socket, pc, stopped, connChan, conn>>
  /\ UNCHANGED <<peerVars, dialReadVars, connVars, dialCloseVars>>

DialUserCloses ==
  /\ dial = "ok" /\ dialClose = "no"
  /\ EnterClose("user")
  /\ UNCHANGED <<dial, socket, pc, stopped, connChan, conn, peerVars, dialReadVars>>
  /\ UNCHANGED <<connVars, appVars>>

-----------------------------------------------------------------------------
(* The connections.                                                        *)

ConnAges(c) ==          \* PeerIdleTimeout goes by without a packet
  /\ conns[c] = "open" /\ timer[c] = "armed"
  /\ timer' = [timer EXCEPT ![c] = "ripe"]
  /\ UNCHANGED <<dial, socket, pc, stopped, connChan, conn, conns, calls, told>>
  /\ UNCHANGED <<peerVars, dialReadVars, dialCloseVars, appVars>>

\* Mutant: only the connection in use is looked after.
ConnIdlesOwn(c) ==
  /\ c = conn /\ conns[c] = "open" /\ timer[c] = "ripe"
  /\ CloseConn(c)
  /\ UNCHANGED <<dial, socket, pc, stopped, connChan, conn>>
  /\ UNCHANGED <<peerVars, dialReadVars, dialCloseVars, appVars>>

ConnIdles(c) ==
  /\ conns[c] = "open" /\ timer[c] = "ripe"
  /\ CloseConn(c)
  /\ UNCHANGED <<dial, socket, pc, stopped, connChan, conn>>
  /\ UNCHANGED <<peerVars, dialReadVars, dialCloseVars, appVars>>

\* Mutant: the dialer is not closed.
ConnShutdownNever(c) ==
  /\ c \in calls
  /\ calls' = calls \ {c}
  /\ UNCHANGED <<dial, socket, pc, stopped, connChan, conn, conns, timer, told>>
  /\ UNCHANGED <<peerVars, dialReadVars, dialCloseVars, appVars>>

ConnShutdown(c) ==
  /\ c \in calls
  /\ calls' = calls \ {c}
  /\ EnterClose("conn")
  /\ UNCHANGED <<dial, socket, pc, stopped, connChan, conn, conns, timer, told>>
  /\ UNCHANGED <<peerVars, dialReadVars, appVars>>

-----------------------------------------------------------------------------
Connection(c) == ConnAges(c) \/ ConnIdles(c) \/ ConnShutdown(c)

Main   == TakeResponse \/ ContextDone \/ ConnectionTimeout \/ DialFails
Reader == Take \/ ReaderLeaves \/ HandleHandshake \/ Push \/ Unblock
Returns == CheckReturns \/ DialReadReturns
Env    == (\E k \in PeerPackets : Arrive(k)) \/ SocketFails \/ Cancel
App    == Check \/ Read \/ DialUserCloses

DialNext ==
  \/ Main \/ Reader \/ Close \/ SocketEnds
  \/ Returns
  \/ \E c \in ConnIds : Connection(c)
  \/ Env \/ App

(* The runtime runs every goroutine that can run and fires every timer.    *)
(* Nothing is promised of the peer, the network and the application, and   *)
(* nothing here needs the goroutine of the socket to end.  The first       *)
(* handshake is an induction: every other one may make a connection.       *)
DialFairness ==
  /\ WF_dialVars(Main) /\ WF_dialVars(Reader)
  /\ WF_dialVars(Close) /\ WF_dialVars(Returns)
  /\ \A c \in 1..(MaxHandshakes - 1) : WF_dialVars(c \in ConnIds /\ Connection(c))

DialSpec == DialInit /\ [][DialNext]_dialVars /\ DialFairness

-----------------------------------------------------------------------------
(* When the application closes the dialer, the peer of its connection is   *)
(* sent a shutdown message while the socket still is open (Close closes    *)
(* the connection before the socket).                                      *)
PeerIsTold ==
  pc = "closed" /\ closedBy = "user" => conn \in told

(* No connection outlives the dialer for good: neither one that was made   *)
(* by a repeated handshake, nor one whose dialing was given up, nor one    *)
(* the reader makes while Close is running.                                *)
NoConnectionLeaks ==
  shutdown ~> [](\A c \in ConnIds : conns[c] = "closed")

(* When the connection of the dialer is closed (by its peer, its idle      *)
(* timer or the application), the dialer comes to be closed with it.       *)
ClosedWithItsConnection ==
  (conn # NoConn /\ conns[conn] = "closed") ~> (dialClose = "done")


=============================================================================
