----------------------------- MODULE LiveReceive -----------------------------
(***************************************************************************)
(* The receiver of the live congestion control                             *)
(* (congestion/live/receive.go).  Push runs on the goroutine that reads    *)
(* the network queue, Tick on the ticker goroutine, Flush on the goroutine *)
(* that closes the connection.  Every critical section of receiver.lock is *)
(* one action, except that the delivery loop of Tick takes one packet at a *)
(* time while it holds the lock; pc is the place the ticker has reached.   *)
(*                                                                         *)
(* A packet is its sequence number and the time it is to be delivered.     *)
(* Payload sizes, the byte counters, the link probe and the rate estimate  *)
(* (the floating point statistics) are left out.                           *)
(***************************************************************************)
EXTENDS Circular, Sequences

CONSTANTS
  InitialSequenceNumber,
  PeriodicACKInterval,
  NAKIntervals,         \* the values SetNAKInterval may be called with
  LightACKPackets,      \* 64 in the code
  DeliveryTimes,        \* the PktTsbpdTime a packet may carry
  MaxTime,              \* bound on the time Tick is called with
  LastArrival,          \* bound on the time at which packets arrive
  MaxPkt                \* bound on the number of packets that arrive

ASSUME ReceiveAssumption ==
  /\ InitialSequenceNumber \in Number
  /\ PeriodicACKInterval \in Nat
  /\ NAKIntervals \subseteq Nat /\ NAKIntervals # {}
  /\ LightACKPackets \in Nat
  /\ DeliveryTimes \subseteq Nat
  /\ MaxTime \in Nat
  /\ LastArrival \in Nat
  /\ MaxPkt \in Nat

VARIABLES
  maxSeen,              \* maxSeenSequenceNumber
  lastACK,              \* lastACKSequenceNumber
  lastDelivered,        \* lastDeliveredSequenceNumber
  packetList,           \* packets received and not yet delivered
  nPackets,             \* packets since the last ACK
  lastPeriodicACK,
  lastPeriodicNAK,
  periodicNAKInterval,
  statistics,
  pc,                   \* where the ticker is inside Tick
  now,                  \* the argument of the current, or last, Tick
  unsent,               \* what periodicACK or periodicNAK returned to Tick
  outbox,               \* control packets handed out by the latest step
  delivered,            \* history: every packet handed to the application
  phase                 \* history: "open", or "flushed" once Flush was called

seqVars  == <<maxSeen, lastACK, lastDelivered, packetList>>
timeVars == <<lastPeriodicACK, lastPeriodicNAK, periodicNAKInterval>>
tickVars == <<pc, now, unsent>>
vars == <<seqVars, nPackets, timeVars, statistics, tickVars, outbox,
          delivered, phase>>

Packet == [seq : Number, tsbpd : Nat]

Ranges == SUBSET (Number \X Number)

ACK == [type : {"ACK"}, seq : Number, lite : BOOLEAN]
NAK == [type : {"NAK"}, list : Ranges]

Counters == {"Pkt", "PktBelated", "PktDrop", "PktBuf", "PktUnique", "PktLate",
             "PktLoss", "PktLost"}

TypeOK ==
  /\ maxSeen \in Number
  /\ lastACK \in Number
  /\ lastDelivered \in Number
  /\ packetList \in Seq(Packet)
  /\ nPackets \in Nat
  /\ lastPeriodicACK \in Nat
  /\ lastPeriodicNAK \in Nat
  /\ periodicNAKInterval \in Nat
  /\ statistics \in [Counters -> Nat]
  /\ pc \in {"idle", "sendACK", "nak", "sendNAK", "deliver", "delivering"}
  /\ now \in Nat
  /\ unsent \subseteq ACK \cup NAK
  /\ outbox \subseteq ACK \cup NAK
  /\ delivered \in Seq(Packet)
  /\ phase \in {"open", "flushed"}

-----------------------------------------------------------------------------

\* NewReceiver
Init ==
  /\ maxSeen = Dec(InitialSequenceNumber)
  /\ lastACK = Dec(InitialSequenceNumber)
  /\ lastDelivered = Dec(InitialSequenceNumber)
  /\ packetList = <<>>
  /\ nPackets = 0
  /\ lastPeriodicACK = 0
  /\ lastPeriodicNAK = 0
  /\ periodicNAKInterval \in NAKIntervals
  /\ statistics = [c \in Counters |-> 0]
  /\ pc = "idle"
  /\ now = 0
  /\ unsent = {}
  /\ outbox = {}
  /\ delivered = <<>>
  /\ phase = "open"

Count(counters) ==
  [c \in Counters |-> IF c \in counters THEN statistics[c] + 1 ELSE statistics[c]]

-----------------------------------------------------------------------------
(* Push: a data packet from the network.                                   *)

\* Everything up to lastDelivered has been delivered already.
PushBelated(pkt) ==
  /\ Lte(pkt.seq, lastDelivered)
  /\ statistics' = Count({"Pkt", "PktBelated", "PktDrop"})
  /\ outbox' = {}
  /\ UNCHANGED <<maxSeen, packetList>>

\* Acknowledged without having been received, because it was overdue.
PushAcknowledged(pkt) ==
  /\ ~Lte(pkt.seq, lastDelivered)
  /\ Lt(pkt.seq, lastACK)
  /\ statistics' = Count({"Pkt", "PktDrop"})
  /\ outbox' = {}
  /\ UNCHANGED <<maxSeen, packetList>>

\* The packet is neither delivered nor acknowledged yet.
Expected(pkt) == ~Lte(pkt.seq, lastDelivered) /\ ~Lt(pkt.seq, lastACK)

PushInOrder(pkt) ==
  /\ Expected(pkt)
  /\ pkt.seq = Inc(maxSeen)
  /\ maxSeen' = pkt.seq
  /\ packetList' = Append(packetList, pkt)
  /\ statistics' = Count({"Pkt", "PktBuf", "PktUnique"})
  /\ outbox' = {}

OutOfOrder(pkt) ==
  /\ Expected(pkt)
  /\ pkt.seq # Inc(maxSeen)
  /\ Lte(pkt.seq, maxSeen)

\* The loop over the list passes packet e on its way to pkt's place.
Passes(e, pkt) == e.seq # pkt.seq /\ ~Gt(e.seq, pkt.seq)

StopsAt(i, pkt) ==
  /\ ~Passes(packetList[i], pkt)
  /\ \A j \in 1..(i - 1) : Passes(packetList[j], pkt)

InsertBefore(list, i, pkt) ==
  SubSeq(list, 1, i - 1) \o <<pkt>> \o SubSeq(list, i, Len(list))

\* Mutant: a duplicate is ignored without being counted.
PushDuplicateUncounted(pkt) ==
  /\ OutOfOrder(pkt)
  /\ \E i \in 1..Len(packetList) :
        StopsAt(i, pkt) /\ packetList[i].seq = pkt.seq
  /\ statistics' = Count({"Pkt"})
  /\ outbox' = {}
  /\ UNCHANGED <<maxSeen, packetList>>

\* Already in the list.
PushDuplicate(pkt) ==
  /\ OutOfOrder(pkt)
  /\ \E i \in 1..Len(packetList) :
        StopsAt(i, pkt) /\ packetList[i].seq = pkt.seq
  /\ statistics' = Count({"Pkt", "PktDrop"})
  /\ outbox' = {}
  /\ UNCHANGED <<maxSeen, packetList>>

\* Mutant: the late packet goes behind the first greater one.
PushLateBehind(pkt) ==
  /\ OutOfOrder(pkt)
  /\ \E i \in 1..Len(packetList) :
        /\ StopsAt(i, pkt)
        /\ packetList[i].seq # pkt.seq
        /\ packetList' = InsertBefore(packetList, i + 1, pkt)
  /\ statistics' = Count({"Pkt", "PktBuf", "PktUnique", "PktLate"})
  /\ outbox' = {}
  /\ UNCHANGED maxSeen

\* A late packet fills a gap.
PushLate(pkt) ==
  /\ OutOfOrder(pkt)
  /\ \E i \in 1..Len(packetList) :
        /\ StopsAt(i, pkt)
        /\ packetList[i].seq # pkt.seq
        /\ packetList' = InsertBefore(packetList, i, pkt)
  /\ statistics' = Count({"Pkt", "PktBuf", "PktUnique", "PktLate"})
  /\ outbox' = {}
  /\ UNCHANGED maxSeen

\* The loop runs off the end of the list: the packet is neither kept nor
\* counted as dropped.
PushNowhere(pkt) ==
  /\ OutOfOrder(pkt)
  /\ \A i \in 1..Len(packetList) : Passes(packetList[i], pkt)
  /\ statistics' = Count({"Pkt"})
  /\ outbox' = {}
  /\ UNCHANGED <<maxSeen, packetList>>

\* Some packets before this one are missing: report them at once.
PushAhead(pkt) ==
  /\ Expected(pkt)
  /\ pkt.seq # Inc(maxSeen)
  /\ ~Lte(pkt.seq, maxSeen)
  /\ outbox' = {[type |-> "NAK", list |-> {<<Inc(maxSeen), Dec(pkt.seq)>>}]}
  /\ statistics' = [Count({"Pkt", "PktBuf", "PktUnique"}) EXCEPT
                      !.PktLoss = @ + Distance(pkt.seq, maxSeen) - 1]
  /\ maxSeen' = pkt.seq
  /\ packetList' = Append(packetList, pkt)

Push(pkt) ==
  /\ pc # "delivering"
  /\ nPackets' = nPackets + 1
  /\ \/ PushBelated(pkt)
     \/ PushAcknowledged(pkt)
     \/ PushInOrder(pkt)
     \/ PushDuplicate(pkt)
     \/ PushLate(pkt)
     \/ PushNowhere(pkt)
     \/ PushAhead(pkt)
  /\ UNCHANGED <<lastACK, lastDelivered, timeVars, tickVars, delivered, phase>>

-----------------------------------------------------------------------------
(* Tick: acknowledge, report losses, deliver.                              *)

\* The sequence number the scan of the list has reached after k packets: the
\* ones up to lastACK are skipped.
AckAfter(k) ==
  IF k = 0 \/ Lte(packetList[k].seq, lastACK) THEN lastACK ELSE packetList[k].seq

\* Mutant: a missing packet is waited for however late it is.
MovesInRow(i, t) ==
  \/ Lte(packetList[i].seq, AckAfter(i - 1))
  \/ packetList[i].seq = Inc(AckAfter(i - 1))

\* The scan moves past packet i: acknowledged before, overdue, or next in row.
Moves(i, t) ==
  \/ Lte(packetList[i].seq, AckAfter(i - 1))
  \/ packetList[i].tsbpd <= t
  \/ packetList[i].seq = Inc(AckAfter(i - 1))

\* Mutant: the scan takes in the packet it stops at.
ScansPastGap(k, t) ==
  /\ \A i \in 1..(k - 1) : Moves(i, t)
  /\ k < Len(packetList) => ~Moves(k + 1, t)

Scans(k, t) ==
  /\ \A i \in 1..k : Moves(i, t)
  /\ k < Len(packetList) => ~Moves(k + 1, t)

ACKDue(t) == t - lastPeriodicACK >= PeriodicACKInterval

\* periodicACK has nothing to send.
TickNoACK(t) ==
  /\ pc = "idle"
  /\ ~ACKDue(t) /\ nPackets < LightACKPackets
  /\ pc' = "nak"
  /\ now' = t
  /\ outbox' = {}
  /\ UNCHANGED <<seqVars, nPackets, timeVars, statistics, unsent, delivered, phase>>

TickACK(t) ==
  /\ pc = "idle"
  /\ ACKDue(t) \/ nPackets >= LightACKPackets
  /\ \E k \in 0..Len(packetList) :
        /\ Scans(k, t)
        /\ lastACK' = AckAfter(k)
        /\ unsent' = {[type |-> "ACK", seq |-> Inc(AckAfter(k)), lite |-> ~ACKDue(t)]}
  /\ lastPeriodicACK' = t
  /\ nPackets' = 0
  /\ pc' = "sendACK"
  /\ now' = t
  /\ outbox' = {}
  /\ UNCHANGED <<maxSeen, lastDelivered, packetList, lastPeriodicNAK,
                 periodicNAKInterval, statistics, delivered, phase>>

\* The gaps between lastACK and the packets of the list.
Gaps ==
  {<<Inc(AckAfter(i - 1)), Dec(packetList[i].seq)>> :
     i \in {j \in 1..Len(packetList) :
              /\ ~Lte(packetList[j].seq, AckAfter(j - 1))
              /\ packetList[j].seq # Inc(AckAfter(j - 1))}}

NAKDue == now - lastPeriodicNAK >= periodicNAKInterval

TickNoNAK ==
  /\ pc = "nak"
  /\ ~NAKDue
  /\ pc' = "deliver"
  /\ outbox' = {}
  /\ UNCHANGED <<seqVars, nPackets, timeVars, statistics, now, unsent, delivered, phase>>

TickNAK ==
  /\ pc = "nak"
  /\ NAKDue
  /\ IF Gaps = {}
     THEN pc' = "deliver" /\ UNCHANGED unsent
     ELSE pc' = "sendNAK" /\ unsent' = {[type |-> "NAK", list |-> Gaps]}
  /\ lastPeriodicNAK' = now
  /\ outbox' = {}
  /\ UNCHANGED <<seqVars, nPackets, lastPeriodicACK, periodicNAKInterval, statistics,
                 now, delivered, phase>>

\* Tick hands on what the critical section before has returned, unlocked.
TickSend ==
  /\ pc \in {"sendACK", "sendNAK"}
  /\ pc' = IF pc = "sendACK" THEN "nak" ELSE "deliver"
  /\ outbox' = unsent
  /\ unsent' = {}
  /\ UNCHANGED <<seqVars, nPackets, timeVars, statistics, now, delivered, phase>>

\* Mutant: the delivery loop does not stop at what is not acknowledged.
RipeUnacknowledged(pkt) == pkt.tsbpd <= now

Ripe(pkt) == Lte(pkt.seq, lastACK) /\ pkt.tsbpd <= now

\* One turn of the delivery loop; the numbers jumped over are lost for good.
TickDeliver ==
  /\ pc \in {"deliver", "delivering"}
  /\ packetList # <<>> /\ Ripe(Head(packetList))
  /\ delivered' = Append(delivered, Head(packetList))
  /\ lastDelivered' = Head(packetList).seq
  /\ packetList' = Tail(packetList)
  /\ LET distance == Distance(lastDelivered, Head(packetList).seq)
     IN  statistics' = [statistics EXCEPT
                          !.PktBuf = @ - 1,
                          !.PktLost = IF distance > 1 THEN @ + distance - 1 ELSE @]
  /\ pc' = "delivering"
  /\ outbox' = {}
  /\ UNCHANGED <<maxSeen, lastACK, nPackets, timeVars, now, unsent, phase>>

TickDone ==
  /\ pc \in {"deliver", "delivering"}
  /\ packetList # <<>> => ~Ripe(Head(packetList))
  /\ pc' = "idle"
  /\ outbox' = {}
  /\ UNCHANGED <<seqVars, nPackets, timeVars, statistics, now, unsent, delivered, phase>>

-----------------------------------------------------------------------------

SetNAKInterval(nakInterval) ==
  /\ pc # "delivering"
  /\ periodicNAKInterval' = nakInterval
  /\ outbox' = {}
  /\ UNCHANGED <<seqVars, nPackets, lastPeriodicACK, lastPeriodicNAK, statistics,
                 tickVars, delivered, phase>>

\* close calls it once.
Flush ==
  /\ pc # "delivering"
  /\ phase = "open"
  /\ packetList' = <<>>
  /\ phase' = "flushed"
  /\ outbox' = {}
  /\ UNCHANGED <<maxSeen, lastACK, lastDelivered, nPackets, timeVars, statistics,
                 tickVars, delivered>>

-----------------------------------------------------------------------------
(* The environment.  The peer's packets stay within half of the circle     *)
(* around lastDelivered, the premise of circular numbers.                  *)
InWindow(seq) ==
  Fwd(lastDelivered, seq) < threshold \/ Fwd(seq, lastDelivered) < threshold

Receive ==
  /\ statistics.Pkt < MaxPkt
  /\ now <= LastArrival
  /\ \E seq \in Number, tsbpd \in DeliveryTimes :
        InWindow(seq) /\ Push([seq |-> seq, tsbpd |-> tsbpd])

\* The ticker's time goes on from tick to tick; at the bound it stands still.
Later == IF now < MaxTime THEN (now + 1)..MaxTime ELSE {now}

Tick ==
  \/ \E t \in Later : TickNoACK(t) \/ TickACK(t)
  \/ TickNoNAK
  \/ TickNAK
  \/ TickSend
  \/ TickDeliver
  \/ TickDone

Next ==
  \/ Receive
  \/ Tick
  \/ \E i \in NAKIntervals : SetNAKInterval(i)
  \/ Flush

Spec == Init /\ [][Next]_vars

\* time.Ticker keeps calling Tick and the runtime keeps running it.
FairSpec == Spec /\ WF_vars(Tick)

-----------------------------------------------------------------------------

(* Places on the circle, counted from the last delivered packet.           *)
Place(seq) == Fwd(lastDelivered, seq)

(* The buffer is sorted without duplicates, lies ahead of what has been    *)
(* delivered, and lastDelivered, lastACK and maxSeen never overtake each   *)
(* other, whatever Push, the sections of Tick and Flush do in between.     *)
BufferOrder ==
  /\ Place(lastACK) <= Place(maxSeen)
  /\ Place(maxSeen) < threshold
  /\ \A i \in 1..Len(packetList) :
        Place(packetList[i].seq) \in 1..Place(maxSeen)
  /\ \A i, j \in 1..Len(packetList) :
        i < j => Place(packetList[i].seq) < Place(packetList[j].seq)

(* Until Flush, the greatest number seen is in the buffer or is the last   *)
(* one delivered: the loop of Push that looks for the place of a late      *)
(* packet never runs off the list, so no packet vanishes uncounted.        *)
MaxSeenIsHeld ==
  (phase = "open") =>
    maxSeen = IF packetList = <<>> THEN lastDelivered
                                   ELSE packetList[Len(packetList)].seq

(* The packet counters add up: every packet that arrived was kept once or  *)
(* dropped, and what was kept is buffered or delivered.  PktBuf, which is  *)
(* unsigned, is never decremented below the buffer's length.               *)
PacketsAccounted ==
  /\ statistics.PktUnique = statistics.PktBuf + Len(delivered)
  /\ statistics.PktBuf >= Len(packetList)
  /\ statistics.PktBelated <= statistics.PktDrop
  /\ (phase = "open") => /\ statistics.PktBuf = Len(packetList)
                         /\ statistics.Pkt = statistics.PktDrop + statistics.PktUnique

(* PktLost counts exactly the numbers that delivery has jumped over.       *)
LostAreTheGaps ==
  (Len(delivered) + statistics.PktLost) % (MAX + 1)
    = Fwd(Dec(InitialSequenceNumber), lastDelivered)

(* Packets are handed to the application in the order of their sequence    *)
(* numbers, none twice, none before its time, none unacknowledged.         *)
DeliveredInOrder ==
  [][delivered' # delivered =>
       LET pkt == delivered'[Len(delivered')]
       IN  /\ Len(delivered') = Len(delivered) + 1
           /\ Place(pkt.seq) \in 1..Place(lastACK)
           /\ pkt.tsbpd <= now]_vars

(* An acknowledgement never goes back, and each number it newly covers has *)
(* been received, or a later packet within its reach is already due, so    *)
(* that waiting for the missing one is over.                               *)
ACKIsHonest ==
  [][lastACK' # lastACK =>
       /\ Place(lastACK) < Place(lastACK')
       /\ \A seq \in Number :
            Place(seq) \in (Place(lastACK) + 1)..Place(lastACK') =>
              \/ \E i \in 1..Len(packetList) : packetList[i].seq = seq
              \/ \E i \in 1..Len(packetList) :
                   /\ Place(packetList[i].seq) \in Place(seq)..Place(lastACK')
                   /\ packetList[i].tsbpd <= now']_vars

(* The numbers a NAK should report, and those a list of ranges reports.    *)
Missing(seq) ==
  /\ Place(seq) > Place(lastACK)
  /\ \A i \in 1..Len(packetList) : packetList[i].seq # seq
  /\ \E i \in 1..Len(packetList) : Place(packetList[i].seq) > Place(seq)

Covers(list, seq) == \E r \in list : Fwd(r[1], seq) <= Fwd(r[1], r[2])

(* No packet is stuck in the buffer: a gap before it delays it only until  *)
(* it is due itself, then it is acknowledged and delivered.  Arrivals end  *)
(* (LastArrival, MaxPkt), so every packet leaves just if the list drains.  *)
EventuallyLeavesBuffer == packetList # <<>> ~> packetList = <<>>

=============================================================================
