------------------------------ MODULE LiveSend ------------------------------
(***************************************************************************)
(* The sender of the live congestion control (congestion/live/send.go).    *)
(* Push runs on the goroutine that reads the write queue, Tick on the      *)
(* ticker goroutine, ACK and NAK on the goroutine that reads the network   *)
(* queue, Flush on the one that closes the connection.  Every critical     *)
(* section of sender.lock is one action, except that Tick removes the      *)
(* packets that are too late one at a time while it holds the lock.        *)
(*                                                                         *)
(* A packet is its sequence number, its Timestamp, the PktTsbpdTime by     *)
(* which it is scheduled, and the retransmission flag.  Payload sizes, the *)
(* byte counters and the bandwidth estimates are left out.                 *)
(***************************************************************************)
EXTENDS Circular, Sequences, FiniteSets

CONSTANTS
  InitialSequenceNumber,
  ProbeInterval,        \* 16 in the code
  DropThresholds,       \* the values SetDropThreshold may be called with
  MaxTime,              \* bound on the time Tick is called with
  LastWrite,            \* bound on the time at which packets are written
  MaxPush,              \* bound on the number of packets written
  MaxRetrans            \* bound on the number of retransmissions

ASSUME SendAssumption ==
  /\ InitialSequenceNumber \in Number
  /\ ProbeInterval \in Nat /\ ProbeInterval >= 2
  /\ DropThresholds \subseteq Nat /\ DropThresholds # {}
  /\ MaxTime \in Nat
  /\ LastWrite \in Nat
  /\ MaxPush \in Nat
  /\ MaxRetrans \in Nat

VARIABLES
  nextSequenceNumber,
  packetList,           \* packets waiting for their time to be sent
  lossList,             \* packets sent, kept for retransmission
  dropThreshold,
  probeTime,
  statistics,
  pc,                   \* where the ticker is inside Tick
  now,                  \* the argument of the current, or last, Tick
  written,              \* the time of the latest packet written
  outbox,               \* data packets handed out by the latest step
  phase                 \* history: "open", or "flushed" once Flush was called

listVars == <<nextSequenceNumber, packetList, lossList>>
vars == <<listVars, dropThreshold, probeTime, statistics, pc, now, written,
          outbox, phase>>

Packet == [seq : Number, ts : Nat, tsbpd : Nat, retrans : {"no", "yes"}]

Counters == {"Pkt", "PktUnique", "PktRetrans", "PktLoss", "PktDrop", "PktBuf",
             "PktFlightSize"}

TypeOK ==
  /\ nextSequenceNumber \in Number
  /\ packetList \in Seq(Packet)
  /\ lossList \in Seq(Packet)
  /\ dropThreshold \in Nat
  /\ probeTime \in Nat
  /\ statistics \in [Counters -> Nat]
  /\ pc \in {"idle", "drop", "dropping"}
  /\ now \in Nat
  /\ written \in Nat
  /\ outbox \subseteq Packet
  /\ phase \in {"open", "flushed"}

-----------------------------------------------------------------------------

\* NewSender
Init ==
  /\ nextSequenceNumber = InitialSequenceNumber
  /\ packetList = <<>>
  /\ lossList = <<>>
  /\ dropThreshold \in DropThresholds
  /\ probeTime = 0
  /\ statistics = [c \in Counters |-> 0]
  /\ pc = "idle"
  /\ now = 0
  /\ written = 0
  /\ outbox = {}
  /\ phase = "open"

\* The second packet of a probe pair is scheduled together with the first.
Scheduled(t) == IF nextSequenceNumber % ProbeInterval = 1 THEN probeTime ELSE t

\* Mutant: the timestamp is taken from the scheduled time.
PushRestamped(t) ==
  /\ pc # "dropping"
  /\ packetList' = Append(packetList, [seq |-> nextSequenceNumber, ts |-> Scheduled(t),
                                       tsbpd |-> Scheduled(t), retrans |-> "no"])
  /\ nextSequenceNumber' = Inc(nextSequenceNumber)
  /\ probeTime' = IF nextSequenceNumber % ProbeInterval = 0 THEN t ELSE probeTime
  /\ statistics' = [statistics EXCEPT !.PktBuf = @ + 1,
                                      !.PktFlightSize = Len(packetList) + 1]
  /\ written' = t
  /\ outbox' = {}
  /\ UNCHANGED <<lossList, dropThreshold, pc, now, phase>>

\* A packet written at time t.
Push(t) ==
  /\ pc # "dropping"
  /\ packetList' = Append(packetList, [seq |-> nextSequenceNumber, ts |-> t,
                                       tsbpd |-> Scheduled(t), retrans |-> "no"])
  /\ nextSequenceNumber' = Inc(nextSequenceNumber)
  /\ probeTime' = IF nextSequenceNumber % ProbeInterval = 0 THEN t ELSE probeTime
  /\ statistics' = [statistics EXCEPT !.PktBuf = @ + 1,
                                      !.PktFlightSize = Len(packetList) + 1]
  /\ written' = t
  /\ outbox' = {}
  /\ UNCHANGED <<lossList, dropThreshold, pc, now, phase>>

-----------------------------------------------------------------------------
(* Tick.                                                                   *)

\* The loop over a list stops after k packets that satisfy Test.
StopsAfter(list, k, Test(_)) ==
  /\ \A i \in 1..k : Test(list[i])
  /\ k < Len(list) => ~Test(list[k + 1])

\* Mutant: packets are sent but not kept for retransmission in a row.
TickSendReversed(t) ==
  /\ pc = "idle"
  /\ \E k \in 0..Len(packetList) :
        /\ StopsAfter(packetList, k, LAMBDA p : p.tsbpd <= t)
        /\ outbox' = {packetList[i] : i \in 1..k}
        /\ lossList' = SubSeq(packetList, 1, k) \o lossList
        /\ packetList' = SubSeq(packetList, k + 1, Len(packetList))
        /\ statistics' = [statistics EXCEPT !.Pkt = @ + k, !.PktUnique = @ + k]
  /\ pc' = "drop"
  /\ now' = t
  /\ UNCHANGED <<nextSequenceNumber, dropThreshold, probeTime, written, phase>>

\* Send the packets whose time has come, up to the first one that has to wait.
TickSend(t) ==
  /\ pc = "idle"
  /\ \E k \in 0..Len(packetList) :
        /\ StopsAfter(packetList, k, LAMBDA p : p.tsbpd <= t)
        /\ outbox' = {packetList[i] : i \in 1..k}
        /\ lossList' = lossList \o SubSeq(packetList, 1, k)
        /\ packetList' = SubSeq(packetList, k + 1, Len(packetList))
        /\ statistics' = [statistics EXCEPT !.Pkt = @ + k, !.PktUnique = @ + k]
  /\ pc' = "drop"
  /\ now' = t
  /\ UNCHANGED <<nextSequenceNumber, dropThreshold, probeTime, written, phase>>

Without(s, i) == SubSeq(s, 1, i - 1) \o SubSeq(s, i + 1, Len(s))

\* Mutant: a packet is never too late.
TooLateNever(p) == FALSE

TooLate(p) == p.tsbpd + dropThreshold <= now

\* Give up the first packet that is too late, wherever it is in the list.
TickDrop ==
  /\ pc \in {"drop", "dropping"}
  /\ \E i \in 1..Len(lossList) :
        /\ TooLate(lossList[i])
        /\ \A j \in 1..(i - 1) : ~TooLate(lossList[j])
        /\ lossList' = Without(lossList, i)
  /\ statistics' = [statistics EXCEPT !.PktDrop = @ + 1, !.PktLoss = @ + 1,
                                      !.PktBuf = @ - 1]
  /\ pc' = "dropping"
  /\ outbox' = {}
  /\ UNCHANGED <<nextSequenceNumber, packetList, dropThreshold, probeTime, now,
                 written, phase>>

TickDone ==
  /\ pc \in {"drop", "dropping"}
  /\ \A i \in 1..Len(lossList) : ~TooLate(lossList[i])
  /\ pc' = "idle"
  /\ outbox' = {}
  /\ UNCHANGED <<listVars, dropThreshold, probeTime, statistics, now, written, phase>>

-----------------------------------------------------------------------------
(* The peer's reports.                                                     *)

\* Mutant: the removed packets are not taken off the buffer counter.
ACKUncounted(sequenceNumber) ==
  /\ pc # "dropping"
  /\ \E k \in 0..Len(lossList) :
        /\ StopsAfter(lossList, k, LAMBDA p : Lt(p.seq, sequenceNumber))
        /\ lossList' = SubSeq(lossList, k + 1, Len(lossList))
  /\ outbox' = {}
  /\ UNCHANGED <<nextSequenceNumber, packetList, dropThreshold, probeTime, statistics,
                 pc, now, written, phase>>

\* Mutant: the packet the peer expects next is taken for acknowledged.
ACKInclusive(sequenceNumber) ==
  /\ pc # "dropping"
  /\ \E k \in 0..Len(lossList) :
        /\ StopsAfter(lossList, k, LAMBDA p : Lte(p.seq, sequenceNumber))
        /\ lossList' = SubSeq(lossList, k + 1, Len(lossList))
        /\ statistics' = [statistics EXCEPT !.PktBuf = @ - k]
  /\ outbox' = {}
  /\ UNCHANGED <<nextSequenceNumber, packetList, dropThreshold, probeTime, pc, now,
                 written, phase>>

\* The peer expects sequenceNumber next; release everything before it.
ACK(sequenceNumber) ==
  /\ pc # "dropping"
  /\ \E k \in 0..Len(lossList) :
        /\ StopsAfter(lossList, k, LAMBDA p : Lt(p.seq, sequenceNumber))
        /\ lossList' = SubSeq(lossList, k + 1, Len(lossList))
        /\ statistics' = [statistics EXCEPT !.PktBuf = @ - k]
  /\ outbox' = {}
  /\ UNCHANGED <<nextSequenceNumber, packetList, dropThreshold, probeTime, pc, now,
                 written, phase>>

Requested(p, range) == Gte(p.seq, range[1]) /\ Lte(p.seq, range[2])

\* Resend the packets of each range in the list that are still there.
NAK(list) ==
  /\ pc # "dropping"
  /\ list # {}
  /\ LET Hit(i) == \E r \in list : Requested(lossList[i], r)
         again(i) == [lossList[i] EXCEPT !.retrans = "yes"]
         n == Cardinality({h \in (1..Len(lossList)) \X list :
                             Requested(lossList[h[1]], h[2])})
     IN  /\ n \in Nat      \* a list is finite
         /\ outbox' = {again(i) : i \in {j \in 1..Len(lossList) : Hit(j)}}
         /\ lossList' = [i \in 1..Len(lossList) |-> IF Hit(i) THEN again(i) ELSE lossList[i]]
         /\ statistics' = [statistics EXCEPT !.Pkt = @ + n, !.PktRetrans = @ + n,
                                             !.PktLoss = @ + n]
  /\ UNCHANGED <<nextSequenceNumber, packetList, dropThreshold, probeTime, pc, now,
                 written, phase>>

SetDropThreshold(threshold_) ==
  /\ pc # "dropping"
  /\ dropThreshold' = threshold_
  /\ outbox' = {}
  /\ UNCHANGED <<listVars, probeTime, statistics, pc, now, written, phase>>

\* close calls it once.
Flush ==
  /\ pc # "dropping"
  /\ phase = "open"
  /\ packetList' = <<>>
  /\ lossList' = <<>>
  /\ phase' = "flushed"
  /\ outbox' = {}
  /\ UNCHANGED <<nextSequenceNumber, dropThreshold, probeTime, statistics, pc, now, written>>

-----------------------------------------------------------------------------
(* The environment.  A number is at its place counted back from the one    *)
(* that is assigned next; what is in flight, and what the peer reports     *)
(* about, stays within half of the circle.                                 *)
Back(seq) == Fwd(seq, nextSequenceNumber)

InFlight == lossList \o packetList

Pushed == statistics.PktUnique + Len(packetList)

Write ==
  /\ Pushed < MaxPush
  /\ InFlight # <<>> => Back(Head(InFlight).seq) < threshold - 1
  /\ \E t \in written..LastWrite : Push(t)

Report ==
  \/ \E seq \in Number : Back(seq) < threshold /\ ACK(seq)
  \/ /\ statistics.PktRetrans < MaxRetrans
     /\ \E lo, hi \in Number : /\ 0 < Back(hi) /\ Back(hi) <= Back(lo)
                               /\ Back(lo) < threshold
                               /\ NAK({<<lo, hi>>})

Later == IF now < MaxTime THEN (now + 1)..MaxTime ELSE {now}

Tick ==
  \/ \E t \in Later : TickSend(t)
  \/ TickDrop
  \/ TickDone

Next ==
  \/ Write
  \/ Report
  \/ Tick
  \/ \E d \in DropThresholds : SetDropThreshold(d)
  \/ Flush

Spec == Init /\ [][Next]_vars

\* time.Ticker keeps calling Tick and the runtime keeps running it.
FairSpec == Spec /\ WF_vars(Tick)

-----------------------------------------------------------------------------

(* What was sent and is kept comes before what waits, both in the order of *)
(* the numbers; what waits is a gapless run up to the number assigned last,*)
(* whatever ACK, NAK and the dropping of late packets take out before it.  *)
QueuesInOrder ==
  /\ \A i, j \in 1..Len(InFlight) :
        i < j => Back(InFlight[i].seq) > Back(InFlight[j].seq)
  /\ \A i \in 1..Len(packetList) : Back(packetList[i].seq) = Len(packetList) - i + 1
  /\ \A i \in 1..Len(InFlight) : Back(InFlight[i].seq) < threshold

(* The packet counters add up: PktBuf, which is unsigned, covers the two   *)
(* lists exactly until Flush and never less, every transmission is a first *)
(* one or a repeated one, and every loss was resent or given up.           *)
SendAccounted ==
  /\ statistics.PktBuf >= Len(InFlight)
  /\ (phase = "open") => statistics.PktBuf = Len(InFlight)
  /\ statistics.Pkt = statistics.PktUnique + statistics.PktRetrans
  /\ statistics.PktLoss = statistics.PktDrop + statistics.PktRetrans

(* No packet is kept forever: with no report from the peer it is sent when *)
(* its time has come and given up when it is too late.                     *)
EventuallyReleased ==
  \A seq \in {Add(InitialSequenceNumber, n) : n \in 0..(MaxPush - 1)} :
    (\E i \in 1..Len(InFlight) : InFlight[i].seq = seq)
      ~> ~(\E i \in 1..Len(InFlight) : InFlight[i].seq = seq)

=============================================================================
