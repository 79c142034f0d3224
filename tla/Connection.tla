----------------------------- MODULE Connection -----------------------------
(***************************************************************************)
(* The life of a connection (connection.go): its queues, the goroutines    *)
(* that empty them, Read and Write, the idle timer and close.              *)
(*                                                                         *)
(* The goroutines are the readers of the networkQueue and the writeQueue,  *)
(* the ticker, an application that reads and one that writes, the idle     *)
(* timer and whoever runs close.  No put to a queue blocks: what does not  *)
(* fit is dropped.  Where a Go select finds the context done and a queue   *)
(* ready it takes either.                                                  *)
(*                                                                         *)
(* A data packet is its sequence number (without wrap: module Circular has *)
(* that).  The receiver is what module LiveReceive shows of it: packets    *)
(* come out in increasing order, each once, and what is missing may be     *)
(* skipped.  The sender is the bytes it was given.  The application reads  *)
(* or writes: the two directions share nothing but the context, so a       *)
(* connection that does both adds no case to what is shown here.           *)
(***************************************************************************)
EXTENDS Integers, Sequences, FiniteSets

CONSTANTS
  NetworkQueueSize,     \* 1024 in the code
  ReadQueueSize,        \* 1024
  WriteQueueSize,       \* 1024
  PayloadSize,          \* len(writeData)
  Lengths,              \* of the slices given to Write
  MaxPkt,               \* bound on the sequence numbers
  MaxByte               \* bound on the bytes written

ASSUME ConnectionAssumption ==
  /\ NetworkQueueSize \in Nat \ {0} /\ ReadQueueSize \in Nat \ {0}
  /\ WriteQueueSize \in Nat \ {0} /\ PayloadSize \in Nat \ {0}
  /\ Lengths \subseteq Nat \ {0} /\ MaxPkt \in Nat /\ MaxByte \in Nat

VARIABLES
  ctx,                  \* "live" or "done"
  peerIdleTimeout,      \* the timer: "armed", "ripe" or "stopped"
  close,                \* the next step of close: see CloseStart
  asked,                \* somebody is about to call close
  shutdowns,            \* calls of onShutdown
  goodbyes,             \* shutdown messages sent
  loops,                \* the loops that are running
  networkQueue,
  packet,               \* the packet networkQueueReader is at, or Nil
  recv,                 \* the packets in the receiver
  delivered,            \* the number of the last packet the receiver gave out
  readQueue,
  expected,             \* debug.expectedReadPacketSequenceNumber
  reading,              \* the application is in ReadPacket: "no" or "yes";
                        \* "never" if it writes
  disorder,             \* a ReadPacket found a packet out of order
  writeBuffer,          \* the bytes in it, numbered as they were written
  writeQueue,           \* the packets in it: sequences of bytes
  writing,              \* the bytes of the Write that is running
  written,              \* how many bytes were given to Write
  promised,             \* the bytes of the Writes that returned no error
  snd                   \* the bytes given to the sender

closeVars == <<ctx, close, shutdowns, goodbyes>>
netVars   == <<networkQueue, packet>>
readVars  == <<readQueue, expected, reading, disorder>>
writeVars == <<writeBuffer, writing, written, promised>>
sendVars  == <<writeQueue, snd>>
vars == <<closeVars, peerIdleTimeout, asked, loops, netVars, recv, delivered,
          readVars, writeVars, sendVars>>

Nil       == 0
Keepalive == -1
Shutdown  == -2
Packets   == 1..MaxPkt \union {Keepalive, Shutdown}
Loops     == {"network", "write", "tick"}

Init ==
  /\ ctx = "live" /\ peerIdleTimeout = "armed" /\ close = "no"
  /\ asked = FALSE /\ shutdowns = 0 /\ goodbyes = 0 /\ loops = Loops
  /\ networkQueue = <<>> /\ packet = Nil /\ recv = {} /\ delivered = 0
  /\ readQueue = <<>> /\ expected = 1
  /\ reading \in {"no", "never"} /\ disorder = FALSE
  /\ writeBuffer = <<>> /\ writeQueue = <<>> /\ writing = {} /\ written = 0
  /\ promised = {} /\ snd = {}

Bytes(s) == {s[i] : i \in DOMAIN s}

-----------------------------------------------------------------------------
(* The network side.                                                       *)

push(p) ==              \* the peer of a writer sends no data
  /\ reading = "never" => p < 0
  /\ \/ /\ Len(networkQueue) < NetworkQueueSize
        /\ networkQueue' = Append(networkQueue, p)
     \/ /\ ctx = "done" \/ Len(networkQueue) = NetworkQueueSize
        /\ UNCHANGED networkQueue
  /\ UNCHANGED <<closeVars, peerIdleTimeout, asked, loops, packet, recv>>
  /\ UNCHANGED <<delivered, readVars, writeVars, sendVars>>

networkQueueReader ==
  /\ "network" \in loops /\ packet = Nil /\ networkQueue # <<>>
  /\ packet' = Head(networkQueue) /\ networkQueue' = Tail(networkQueue)
  /\ UNCHANGED <<closeVars, peerIdleTimeout, asked, loops, recv, delivered>>
  /\ UNCHANGED <<readVars, writeVars, sendVars>>

\* Mutant: the timer is stopped and not reset.
handlePacketStops ==
  /\ packet # Nil
  /\ packet' = Nil
  /\ peerIdleTimeout' = "stopped"
  /\ asked' = (asked \/ packet = Shutdown)
  /\ recv' = IF packet > delivered THEN recv \union {packet} ELSE recv
  /\ UNCHANGED <<closeVars, loops, networkQueue, delivered, readVars>>
  /\ UNCHANGED <<writeVars, sendVars>>

(* It resets the timer, stopped or not; a shutdown message has a goroutine *)
(* call close; the receiver takes data it has not given out yet.           *)
handlePacket ==
  /\ packet # Nil
  /\ packet' = Nil
  /\ peerIdleTimeout' = "armed"
  /\ asked' = (asked \/ packet = Shutdown)
  /\ recv' = IF packet > delivered THEN recv \union {packet} ELSE recv
  /\ UNCHANGED <<closeVars, loops, networkQueue, delivered, readVars>>
  /\ UNCHANGED <<writeVars, sendVars>>

Age ==                  \* PeerIdleTimeout goes by
  /\ peerIdleTimeout = "armed"
  /\ peerIdleTimeout' = "ripe"
  /\ UNCHANGED <<closeVars, asked, loops, netVars, recv, delivered>>
  /\ UNCHANGED <<readVars, writeVars, sendVars>>

IdleTimeout ==          \* the function of the AfterFunc
  /\ peerIdleTimeout = "ripe"
  /\ peerIdleTimeout' = "stopped" /\ asked' = TRUE
  /\ UNCHANGED <<closeVars, loops, netVars, recv, delivered>>
  /\ UNCHANGED <<readVars, writeVars, sendVars>>

-----------------------------------------------------------------------------
(* Reading.                                                                *)

\* Mutant: the newest packet is read first.
deliverFirst(p) ==
  \/ Len(readQueue) < ReadQueueSize /\ readQueue' = <<p>> \o readQueue
  \/ (ctx = "done" \/ Len(readQueue) = ReadQueueSize) /\ UNCHANGED readQueue

deliver(p) ==
  \/ Len(readQueue) < ReadQueueSize /\ readQueue' = Append(readQueue, p)
  \/ (ctx = "done" \/ Len(readQueue) = ReadQueueSize) /\ UNCHANGED readQueue

Tick ==                 \* ticker: the receiver gives out its next packet
  /\ "tick" \in loops
  /\ \E p \in recv :
       /\ \A q \in recv : p <= q
       /\ recv' = recv \ {p} /\ delivered' = p /\ deliver(p)
  /\ UNCHANGED <<closeVars, peerIdleTimeout, asked, loops, netVars, expected>>
  /\ UNCHANGED <<reading, disorder, writeVars, sendVars>>

ReadPacket ==
  /\ reading = "no"
  /\ reading' = "yes"
  /\ UNCHANGED <<closeVars, peerIdleTimeout, asked, loops, netVars, recv>>
  /\ UNCHANGED <<delivered, readQueue, expected, disorder, writeVars, sendVars>>

ReadPacketTakes ==
  /\ reading = "yes" /\ readQueue # <<>>
  /\ reading' = "no" /\ readQueue' = Tail(readQueue)
  /\ LET p == Head(readQueue) IN
       IF p < expected THEN disorder' = TRUE /\ UNCHANGED expected
                       ELSE expected' = p + 1 /\ UNCHANGED disorder
  /\ UNCHANGED <<closeVars, peerIdleTimeout, asked, loops, netVars, recv>>
  /\ UNCHANGED <<delivered, writeVars, sendVars>>

ReadPacketEnds ==       \* io.EOF
  /\ reading = "yes" /\ ctx = "done"
  /\ reading' = "no"
  /\ UNCHANGED <<closeVars, peerIdleTimeout, asked, loops, netVars, recv>>
  /\ UNCHANGED <<delivered, readQueue, expected, disorder, writeVars, sendVars>>

-----------------------------------------------------------------------------
(* Writing.  A Write puts its bytes into the writeBuffer and takes them    *)
(* out in packets until it is empty.  The packet that finds the writeQueue *)
(* full is lost; what is behind it stays for the next Write.               *)

Write(n) ==
  /\ reading = "never" /\ writing = {} /\ written + n <= MaxByte
  /\ writing' = (written + 1)..(written + n)
  /\ written' = written + n
  /\ writeBuffer' = writeBuffer \o [i \in 1..n |-> written + i]
  /\ UNCHANGED <<closeVars, peerIdleTimeout, asked, loops, netVars, recv>>
  /\ UNCHANGED <<delivered, readVars, promised, sendVars>>

Chunk == SubSeq(writeBuffer, 1, IF PayloadSize < Len(writeBuffer)
                                THEN PayloadSize ELSE Len(writeBuffer))

\* Mutant: the last byte of the packet stays in the buffer.
RestOverlaps == SubSeq(writeBuffer, PayloadSize, Len(writeBuffer))

Rest == SubSeq(writeBuffer, PayloadSize + 1, Len(writeBuffer))

WriteChunk ==
  /\ writing # {} /\ Len(writeQueue) < WriteQueueSize
  /\ writeQueue' = Append(writeQueue, Chunk) /\ writeBuffer' = Rest
  /\ IF Rest = <<>> THEN writing' = {} /\ promised' = promised \union writing
                    ELSE UNCHANGED <<writing, promised>>
  /\ UNCHANGED <<closeVars, peerIdleTimeout, asked, loops, netVars, recv>>
  /\ UNCHANGED <<delivered, readVars, written, snd>>

\* Mutant: goes on with the next packet.
WriteFailsQuietly ==
  /\ writing # {} /\ (ctx = "done" \/ Len(writeQueue) = WriteQueueSize)
  /\ writeBuffer' = Rest
  /\ IF Rest = <<>> THEN writing' = {} /\ promised' = promised \union writing
                    ELSE UNCHANGED <<writing, promised>>
  /\ UNCHANGED <<closeVars, peerIdleTimeout, asked, loops, netVars, recv>>
  /\ UNCHANGED <<delivered, readVars, written, sendVars>>

WriteFails ==
  /\ writing # {} /\ (ctx = "done" \/ Len(writeQueue) = WriteQueueSize)
  /\ writeBuffer' = Rest /\ writing' = {}
  /\ UNCHANGED <<closeVars, peerIdleTimeout, asked, loops, netVars, recv>>
  /\ UNCHANGED <<delivered, readVars, written, promised, sendVars>>

writeQueueReader ==     \* snd.Push
  /\ "write" \in loops /\ writeQueue # <<>>
  /\ writeQueue' = Tail(writeQueue)
  /\ snd' = snd \union Bytes(Head(writeQueue))
  /\ UNCHANGED <<closeVars, peerIdleTimeout, asked, loops, netVars, recv>>
  /\ UNCHANGED <<delivered, readVars, writeVars>>

-----------------------------------------------------------------------------
(* close, with shutdownOnce: the steps of the one call that gets in.       *)

UserCloses ==
  /\ ~asked /\ close = "no"
  /\ asked' = TRUE
  /\ UNCHANGED <<closeVars, peerIdleTimeout, loops, netVars, recv, delivered>>
  /\ UNCHANGED <<readVars, writeVars, sendVars>>

CloseStart ==           \* peerIdleTimeout.Stop; a later call returns at once
  /\ asked
  /\ asked' = FALSE
  /\ IF close = "no" THEN close' = "tell" /\ peerIdleTimeout' = "stopped"
                     ELSE UNCHANGED <<close, peerIdleTimeout>>
  /\ UNCHANGED <<ctx, shutdowns, goodbyes, loops, netVars, recv, delivered>>
  /\ UNCHANGED <<readVars, writeVars, sendVars>>

CloseTell ==            \* sendShutdown
  /\ close = "tell"
  /\ goodbyes' = goodbyes + 1 /\ close' = "cancel"
  /\ UNCHANGED <<ctx, shutdowns, peerIdleTimeout, asked, loops, netVars, recv>>
  /\ UNCHANGED <<delivered, readVars, writeVars, sendVars>>

CloseCancel ==          \* cancelCtx
  /\ close = "cancel"
  /\ ctx' = "done" /\ close' = "flush"
  /\ UNCHANGED <<shutdowns, goodbyes, peerIdleTimeout, asked, loops, netVars>>
  /\ UNCHANGED <<recv, delivered, readVars, writeVars, sendVars>>

CloseFlush ==           \* snd.Flush, recv.Flush and go onShutdown
  /\ close = "flush"
  /\ recv' = {} /\ close' = "call"
  /\ UNCHANGED <<ctx, shutdowns, goodbyes, peerIdleTimeout, asked, loops>>
  /\ UNCHANGED <<netVars, delivered, readVars, writeVars, sendVars>>

OnShutdown ==
  /\ close = "call"
  /\ shutdowns' = shutdowns + 1 /\ close' = "over"
  /\ UNCHANGED <<ctx, goodbyes, peerIdleTimeout, asked, loops, netVars, recv>>
  /\ UNCHANGED <<delivered, readVars, writeVars, sendVars>>

Leave(l) ==             \* the loop l finds the context done
  /\ l \in loops /\ ctx = "done"
  /\ l = "network" => packet = Nil
  /\ loops' = loops \ {l}
  /\ UNCHANGED <<closeVars, peerIdleTimeout, asked, netVars, recv, delivered>>
  /\ UNCHANGED <<readVars, writeVars, sendVars>>

CloseGoesOn == CloseTell \/ CloseCancel \/ CloseFlush \/ OnShutdown

-----------------------------------------------------------------------------
ReadReturns == ReadPacketTakes \/ ReadPacketEnds
WriteGoesOn == WriteChunk \/ WriteFails
Timer       == Age \/ IdleTimeout
Work        == networkQueueReader \/ handlePacket \/ Tick \/ writeQueueReader

Next ==
  \/ \E p \in Packets : push(p)
  \/ \E n \in Lengths : Write(n)
  \/ ReadPacket \/ UserCloses
  \/ Work \/ Timer \/ ReadReturns \/ WriteGoesOn
  \/ CloseStart \/ CloseGoesOn
  \/ \E l \in Loops : Leave(l)

(* The runtime runs the goroutines and fires the timer; a loop that finds  *)
(* the context done and its queue not empty, again and again, chooses at   *)
(* random and leaves in the end.                                           *)
Fairness ==
  /\ WF_vars(Timer) /\ WF_vars(CloseStart) /\ WF_vars(CloseGoesOn)
  /\ WF_vars(\E l \in Loops : Leave(l))

Spec == Init /\ [][Next]_vars /\ Fairness

-----------------------------------------------------------------------------
(* ReadPacket returns the packets in the order of their numbers, whatever  *)
(* the full queues drop: its "packet out of order" branch is not reached.  *)
ReadInOrder ==
  ~disorder

(* What a Write without an error was given is on its way to the sender, in *)
(* the writeQueue or there, as long as the connection lives; also when an  *)
(* earlier Write failed and left bytes behind in the writeBuffer.          *)
NoSilentLoss ==
  ctx = "live" =>
    promised \subseteq snd \union UNION {Bytes(writeQueue[i]) :
                                            i \in DOMAIN writeQueue}

(* The sender is given the bytes in the order they were written, none      *)
(* twice, also the ones a failed Write left behind.                        *)
WrittenInOrder ==
  [][Len(writeQueue') < Len(writeQueue) =>
       \A b \in snd, d \in Bytes(Head(writeQueue)) : b < d]_vars

(* A connection whose peer falls silent is closed, also when the shutdown  *)
(* message of the peer was dropped at a full networkQueue: the peer is     *)
(* told once, the owner is called back once and all loops have ended,      *)
(* however many of the application, the peer and the idle timer (which     *)
(* handlePacket may arm again after it was stopped) ask for it.            *)
SilentPeerIsNoticed ==
  <>[](packet = Nil) => <>[](shutdowns = 1 /\ goodbyes = 1 /\ loops = {})
=============================================================================
