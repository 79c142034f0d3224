--------------------------- MODULE LiveLinkProofs ---------------------------
(***************************************************************************)
(* The invariant of a live stream, why the sender's steps preserve it, and *)
(* what a packet does to the receiver's buffer; LiveChannelProofs has the  *)
(* receiver's steps and what follows.                                      *)
(*                                                                         *)
(* The invariant LinkInv speaks of the packets by the order in which they  *)
(* were written.  The n-th has number Nth(n); what the sender keeps, what  *)
(* the network holds and what the receiver buffers is the n-th packet for  *)
(* some n, with the time it was written; the receiver's numbers lie in     *)
(* their order between the first and the last one written; and no ACK      *)
(* under way names more than the receiver has acknowledged.                *)
(***************************************************************************)
EXTENDS LiveLink, CircularProofs

\* The provers, in this order, for the leaves that name none.
USE SMTT(30), Zenon

\* The network keeps every message, so a stream that came round the circle
\* would meet its own first packets: it has to end before.
ShortStream == MaxPush < threshold

\* Numbers are counted from the one before the first.
Base == Dec(InitialSequenceNumber)
Idx(seq) == Fwd(Base, seq)

\* The number of the n-th packet, and what the receiver makes of it.
Nth(n) == Add(InitialSequenceNumber, n - 1)
Due(n) == [seq |-> Nth(n), tsbpd |-> writtenAt[n] + Latency]

\* The packets that have been sent.
Unique == sndStatistics.PktUnique

WrittenInv ==
  /\ writtenAt \in Seq(Nat)
  /\ "PktUnique" \in DOMAIN sndStatistics /\ Unique \in Nat
  /\ Len(writtenAt) = Unique + Len(sndPacketList)
  /\ Len(writtenAt) <= MaxPush
  /\ nextSequenceNumber = Nth(Len(writtenAt) + 1)
  /\ probeTime \in Nat /\ written \in Nat

\* p is the n-th packet as the sender keeps it.
IsNth(p, n) == p.seq = Nth(n) /\ p.ts = writtenAt[n]

SenderInv ==
  /\ sndPacketList \in Seq(snd!Packet) /\ lossList \in Seq(snd!Packet)
  /\ \A i \in 1..Len(sndPacketList) :
        IsNth(sndPacketList[i], Unique + i)
  /\ \A i \in 1..Len(lossList) :
        \E n \in 1..Len(writtenAt) : IsNth(lossList[i], n)

\* An ACK names at most the number after lastACK.
IsCovered(m) == m.type = "ACK" => m.seq \in Number /\ Idx(m.seq) \in 1..(Idx(lastACK) + 1)

NetInv ==
  /\ \A m \in net : m.type = "data" => \E n \in 1..Len(writtenAt) : IsNth(m, n)
  /\ \A m \in net : IsCovered(m)
  /\ \A m \in unsent : IsCovered(m)

NumbersInv ==
  /\ maxSeen \in Number /\ lastACK \in Number /\ lastDelivered \in Number
  /\ Idx(lastACK) <= Idx(maxSeen)
  /\ Idx(lastDelivered) <= Idx(maxSeen)
  /\ Idx(maxSeen) <= Len(writtenAt)

BufferInv ==
  /\ rcvPacketList \in Seq(recv!Packet)
  /\ \A i \in 1..Len(rcvPacketList) :
        /\ \E n \in 1..Len(writtenAt) : rcvPacketList[i] = Due(n)
        /\ Idx(rcvPacketList[i].seq) \in (Idx(lastDelivered) + 1)..Idx(maxSeen)
  /\ \A i, j \in 1..Len(rcvPacketList) :
        i < j => Idx(rcvPacketList[i].seq) < Idx(rcvPacketList[j].seq)

DeliveredInv ==
  /\ delivered \in Seq(recv!Packet) /\ rcvNow \in Nat
  /\ \A i \in 1..Len(delivered) : Idx(delivered[i].seq) \in 1..Idx(lastDelivered)

LinkInv == /\ WrittenInv /\ SenderInv /\ NetInv /\ NumbersInv /\ BufferInv /\ DeliveredInv
           /\ NoPrematureRelease

-----------------------------------------------------------------------------
(* Numbers and places.                                                     *)

(* The numbers of a short stream do not come round the circle.             *)
LEMMA StreamFits ==
  ASSUME ShortStream
  PROVE  /\ InitialSequenceNumber \in Number /\ Base \in Number
         /\ Inc(Base) = InitialSequenceNumber
         /\ MaxPush \in Nat /\ threshold \in Nat /\ MAX \in Nat
         /\ MaxPush < threshold /\ 2 * threshold <= MAX
<1>1. InitialSequenceNumber \in Number /\ MaxPush \in Nat
  BY LinkAssumption
<1>2. QED
  BY <1>1, OnCircle, ThresholdIsHalf, MaxAssumption DEF Base, ShortStream

(* The place of a number of the circle.                                    *)
LEMMA IdxNat ==
  ASSUME NEW seq \in Number
  PROVE  Idx(seq) \in Nat /\ Idx(seq) \in 0..MAX
<1>1. Base \in Number
  BY LinkAssumption, OnCircle DEF Base
<1>2. Fwd(Base, seq) \in 0..MAX /\ MAX \in Nat
  BY <1>1, OnCircle, MaxAssumption, Zenon
<1>3. QED
  BY <1>2 DEF Idx

(* The n-th number is at place n, and only this one.                       *)
LEMMA NthIdx ==
  ASSUME NEW n \in 1..MAX
  PROVE  Nth(n) \in Number /\ Idx(Nth(n)) = n
BY LinkAssumption, MaxAssumption DEF Nth, Idx, Base, Number, Add, Dec, Fwd

LEMMA IdxNth ==
  ASSUME NEW seq \in Number, Idx(seq) >= 1
  PROVE  /\ seq = Nth(Idx(seq))
         /\ Idx(seq) = Fwd(InitialSequenceNumber, seq) + 1
BY LinkAssumption, MaxAssumption DEF Nth, Idx, Base, Number, Add, Dec, Fwd

(* Inc leads to the next one.                                              *)
LEMMA IncNth ==
  ASSUME NEW n \in 1..(MAX - 1)
  PROVE  Inc(Nth(n)) = Nth(n + 1)
BY LinkAssumption, MaxAssumption DEF Nth, Number, Add, Inc

LEMMA IdxInc ==
  ASSUME NEW seq \in Number, Idx(seq) < MAX
  PROVE  Inc(seq) \in Number /\ Idx(Inc(seq)) = Idx(seq) + 1
BY LinkAssumption, MaxAssumption DEF Idx, Base, Number, Inc, Dec, Fwd

(* The comparisons of the code are those of the places.                    *)
LEMMA IdxOrder ==
  ASSUME NEW a \in Number, NEW b \in Number, Idx(a) < threshold, Idx(b) < threshold
  PROVE  /\ Lt(a, b) <=> Idx(a) < Idx(b)
         /\ Lte(a, b) <=> Idx(a) <= Idx(b)
         /\ Gt(a, b) <=> Idx(a) > Idx(b)
         /\ a = b <=> Idx(a) = Idx(b)
<1>1. Base \in Number
  BY LinkAssumption, OnCircle DEF Base
<1>2. QED
  BY <1>1, LtIsPlaceOrder DEF Idx

(* One place more does no harm behind the first number.                    *)
LEMMA LtIdx ==
  ASSUME NEW a \in Number, NEW b \in Number, Idx(a) \in 1..threshold,
         Idx(b) \in 1..threshold, Lt(a, b)
  PROVE  Idx(a) < Idx(b)
<1>1. /\ Idx(a) = Fwd(InitialSequenceNumber, a) + 1
      /\ Idx(b) = Fwd(InitialSequenceNumber, b) + 1
  BY IdxNth, IdxNat
<1>2. InitialSequenceNumber \in Number /\ threshold \in Nat
  BY LinkAssumption, ThresholdIsHalf
<1>3. Fwd(InitialSequenceNumber, a) \in Int /\ Fwd(InitialSequenceNumber, b) \in Int
  BY <1>2, OnCircle, MaxAssumption
<1>4. Lt(a, b) <=> Fwd(InitialSequenceNumber, a) < Fwd(InitialSequenceNumber, b)
  BY <1>1, <1>2, <1>3, LtIsPlaceOrder
<1>5. QED
  BY <1>1, <1>3, <1>4

(* The first n numbers are those at the places up to n.                    *)
LEMMA NumbersByPlace ==
  ASSUME NEW n \in 0..MAX
  PROVE  Numbers(n) = {Nth(i) : i \in 1..n}
<1>1. \A i \in 0..(n - 1) : i + 1 \in 1..n /\ Add(InitialSequenceNumber, i) = Nth(i + 1)
  BY DEF Nth
<1>2. \A i \in 1..n : i - 1 \in 0..(n - 1) /\ Nth(i) = Add(InitialSequenceNumber, i - 1)
  BY DEF Nth
<1>3. QED
  BY <1>1, <1>2 DEF Numbers

(* What is acknowledged are the numbers up to lastACK.                     *)
LEMMA AcknowledgedByPlace ==
  ASSUME lastACK \in Number, Idx(lastACK) < MAX
  PROVE  Acknowledged = {Nth(i) : i \in 1..Idx(lastACK)}
<1>1. Fwd(InitialSequenceNumber, Inc(lastACK)) = Idx(lastACK)
  BY LinkAssumption, MaxAssumption DEF Idx, Base, Number, Inc, Dec, Fwd
<1>2. Idx(lastACK) \in 0..MAX
  BY IdxNat
<1>3. QED
  BY <1>1, <1>2, NumbersByPlace DEF Acknowledged

-----------------------------------------------------------------------------
(* The two ends count on the same circle.                                  *)
LEMMA SameCircle ==
  /\ snd!Number = Number /\ recv!Number = Number
  /\ \A a : snd!Inc(a) = Inc(a) /\ recv!Inc(a) = Inc(a)
  /\ \A a, b : snd!Lt(a, b) <=> Lt(a, b)
  /\ \A a, b : recv!Lt(a, b) <=> Lt(a, b)
  /\ \A a, b : recv!Lte(a, b) <=> Lte(a, b)
  /\ \A a, b : recv!Gt(a, b) <=> Gt(a, b)
<1>1. snd!Number = Number /\ recv!Number = Number
  BY DEF Number, snd!Number, recv!Number
<1>2. \A a : snd!Inc(a) = Inc(a) /\ recv!Inc(a) = Inc(a)
  BY DEF Inc, snd!Inc, recv!Inc
<1>3. /\ \A a, b : snd!AbsDiff(a, b) = AbsDiff(a, b) /\ recv!AbsDiff(a, b) = AbsDiff(a, b)
      /\ snd!threshold = threshold /\ recv!threshold = threshold
  BY DEF AbsDiff, snd!AbsDiff, recv!AbsDiff, threshold, snd!threshold, recv!threshold
<1>4. \A a, b : snd!Lt(a, b) <=> Lt(a, b)
  BY <1>3, Zenon DEF Lt, snd!Lt
<1>5. \A a, b : recv!Lt(a, b) <=> Lt(a, b)
  BY <1>3, Zenon DEF Lt, recv!Lt
<1>6. \A a, b : recv!Lte(a, b) <=> Lte(a, b)
  BY <1>5, Zenon DEF Lte, recv!Lte
<1>7. \A a, b : recv!Gt(a, b) <=> Gt(a, b)
  BY <1>3, Zenon DEF Gt, recv!Gt
<1>8. QED
  BY <1>1, <1>2, <1>4, <1>5, <1>6, <1>7, Zenon

-----------------------------------------------------------------------------
(* The receiver's buffer, when a packet arrives.                           *)

(* What the sender is sure of does not depend on the rest.                 *)
LEMMA SenderKeeps ==
  ASSUME LinkInv, UNCHANGED <<sndVars, writtenAt>>
  PROVE  /\ WrittenInv' /\ SenderInv' /\ Sent' = Sent /\ lossList' = lossList
         /\ \A m, n : IsNth(m, n) => IsNth(m, n)'
         /\ \A n : Due(n)' = Due(n)
<1>1. UNCHANGED <<nextSequenceNumber, sndPacketList, lossList, probeTime, sndStatistics,
                  written, writtenAt>>
  BY DEF sndVars
<1>2. Unique' = Unique
  BY <1>1 DEF Unique
<1>3. WrittenInv'
  BY <1>1, <1>2 DEF LinkInv, WrittenInv, Nth
<1>4. SenderInv'
  BY <1>1, <1>2 DEF LinkInv, SenderInv, IsNth, Nth
<1>5. \A m, n : IsNth(m, n) => IsNth(m, n)'
  BY <1>1 DEF IsNth, Nth
<1>6. \A n : Due(n)' = Due(n)
  BY <1>1 DEF Due, Nth
<1>7. QED
  BY <1>1, <1>3, <1>4, <1>5, <1>6, Zenon DEF Sent

(* The places of the receiver lie within the stream.                       *)
LEMMA Places ==
  ASSUME LinkInv, ShortStream
  PROVE  /\ maxSeen \in Number /\ lastACK \in Number /\ lastDelivered \in Number
         /\ Idx(maxSeen) \in Nat /\ Idx(lastACK) \in Nat /\ Idx(lastDelivered) \in Nat
         /\ Idx(maxSeen) < threshold /\ Idx(lastACK) < threshold
         /\ Idx(lastDelivered) < threshold
         /\ Idx(lastACK) <= Idx(maxSeen) /\ Idx(lastDelivered) <= Idx(maxSeen)
         /\ Len(writtenAt) \in Nat /\ Len(writtenAt) <= MaxPush
         /\ rcvPacketList \in Seq(recv!Packet) /\ Len(rcvPacketList) \in Nat
         /\ \A i \in 1..Len(rcvPacketList) :
              /\ rcvPacketList[i].seq \in Number
              /\ Idx(rcvPacketList[i].seq) \in Nat
              /\ Idx(rcvPacketList[i].seq) < threshold
<1>1. /\ maxSeen \in Number /\ lastACK \in Number /\ lastDelivered \in Number
      /\ Idx(lastACK) <= Idx(maxSeen) /\ Idx(lastDelivered) <= Idx(maxSeen)
      /\ Idx(maxSeen) <= Len(writtenAt)
  BY DEF LinkInv, NumbersInv
<1>2. Idx(maxSeen) \in Nat /\ Idx(lastACK) \in Nat /\ Idx(lastDelivered) \in Nat
  BY <1>1, IdxNat
<1>3. Len(writtenAt) \in Nat /\ Len(writtenAt) <= MaxPush
  BY DEF LinkInv, WrittenInv
<1>4. /\ Idx(maxSeen) < threshold /\ Idx(lastACK) < threshold
      /\ Idx(lastDelivered) < threshold
  BY <1>1, <1>2, <1>3, StreamFits
<1>5. rcvPacketList \in Seq(recv!Packet) /\ Len(rcvPacketList) \in Nat
  BY DEF LinkInv, BufferInv
<1>6. ASSUME NEW i \in 1..Len(rcvPacketList)
      PROVE  /\ rcvPacketList[i].seq \in Number
             /\ Idx(rcvPacketList[i].seq) \in Nat
             /\ Idx(rcvPacketList[i].seq) < threshold
  <2>1. rcvPacketList[i] \in recv!Packet
    BY <1>5
  <2>2. rcvPacketList[i].seq \in Number
    BY <2>1, SameCircle DEF recv!Packet
  <2>3. Idx(rcvPacketList[i].seq) \in (Idx(lastDelivered) + 1)..Idx(maxSeen)
    BY DEF LinkInv, BufferInv
  <2>4. QED
    BY <1>2, <1>4, <2>2, <2>3, StreamFits
<1>7. QED
  BY <1>1, <1>2, <1>3, <1>4, <1>5, <1>6, Zenon

\* The n-th packet is put before the i-th of the buffer, and belongs there.
Placed(n, i) ==
  /\ rcvPacketList' \in Seq(recv!Packet)
  /\ IsWith(rcvPacketList, i, Due(n), rcvPacketList')

Between(n, i) ==
  /\ \A j \in 1..(i - 1) : Idx(rcvPacketList[j].seq) < n
  /\ \A j \in i..Len(rcvPacketList) : n < Idx(rcvPacketList[j].seq)

(* A packet that is put where it belongs leaves the buffer in order.       *)
LEMMA PlacedStep ==
  ASSUME LinkInv, ShortStream, UNCHANGED <<sndVars, writtenAt, lastACK, lastDelivered>>,
         NEW n \in 1..Len(writtenAt), NEW i \in 1..(Len(rcvPacketList) + 1),
         Placed(n, i), Between(n, i), n > Idx(lastDelivered),
         maxSeen' \in Number, Idx(maxSeen') >= Idx(maxSeen), Idx(maxSeen') >= n,
         Idx(maxSeen') <= Len(writtenAt)
  PROVE  NumbersInv' /\ BufferInv'
<1>1. Nth(n) \in Number /\ Idx(Nth(n)) = n /\ n \in Nat /\ Idx(maxSeen') \in Nat
  BY Places, NthIdx, IdxNat, StreamFits
<1>2. NumbersInv'
  BY Places, <1>1 DEF NumbersInv, Idx, Base
<1>3. ASSUME NEW j \in 1..(Len(rcvPacketList) + 1)
      PROVE  /\ \E l \in 1..Len(writtenAt) : rcvPacketList'[j] = Due(l)
             /\ Idx(rcvPacketList'[j].seq) \in (Idx(lastDelivered) + 1)..Idx(maxSeen')
  <2>1. CASE rcvPacketList'[j] = Due(n)
    <3>1. Idx(rcvPacketList'[j].seq) = n
      BY <1>1, <2>1 DEF Due
    <3>2. QED
      BY <1>1, <2>1, <3>1, Places
  <2>2. CASE \E h \in 1..Len(rcvPacketList) : rcvPacketList'[j] = rcvPacketList[h]
    <3>1. PICK h \in 1..Len(rcvPacketList) : rcvPacketList'[j] = rcvPacketList[h]
      BY <2>2
    <3>2. /\ \E l \in 1..Len(writtenAt) : rcvPacketList[h] = Due(l)
          /\ Idx(rcvPacketList[h].seq) \in (Idx(lastDelivered) + 1)..Idx(maxSeen)
      BY DEF LinkInv, BufferInv
    <3>3. QED
      BY <1>1, <3>1, <3>2, Places
  <2>3. CASE j = i
    BY <2>1, <2>3 DEF Placed, IsWith
  <2>4. CASE j \in 1..(i - 1)
    <3>1. j \in 1..Len(rcvPacketList) /\ rcvPacketList'[j] = rcvPacketList[j]
      BY <2>4, Places DEF Placed, IsWith
    <3>2. QED
      BY <2>2, <3>1
  <2>5. CASE j \in (i + 1)..(Len(rcvPacketList) + 1)
    <3>1. j - 1 \in 1..Len(rcvPacketList) /\ rcvPacketList'[j] = rcvPacketList[j - 1]
      BY <2>5, Places DEF Placed, IsWith
    <3>2. QED
      BY <2>2, <3>1, Zenon
  <2>6. QED
    BY <2>3, <2>4, <2>5, Places
<1> DEFINE P == [j \in 1..Len(rcvPacketList) |-> Idx(rcvPacketList[j].seq)]
           Q == [j \in 1..(Len(rcvPacketList) + 1) |-> Idx(rcvPacketList'[j].seq)]
<1>4. InOrder(Len(rcvPacketList) + 1, Q)
  <2>1. /\ Len(rcvPacketList) \in Nat
        /\ P \in [1..Len(rcvPacketList) -> Nat]
        /\ Q \in [1..(Len(rcvPacketList) + 1) -> Nat]
    <3>1. Len(rcvPacketList) \in Nat /\ P \in [1..Len(rcvPacketList) -> Nat]
      BY Places, Zenon
    <3>2. Idx(lastDelivered) + 1 \in Nat
      BY Places
    <3>3. Q \in [1..(Len(rcvPacketList) + 1) -> Nat]
      BY <1>1, <1>3, <3>2
    <3>4. QED
      BY <3>1, <3>3, Zenon
  <2>2. InOrder(Len(rcvPacketList), P)
    BY DEF LinkInv, BufferInv, InOrder
  <2>3. Q[i] = n
    BY <1>1 DEF Placed, IsWith, Due
  <2>4. /\ \A j \in 1..(i - 1) : P[j] < n
        /\ \A j \in i..Len(rcvPacketList) : n < P[j]
    BY <2>1 DEF Between
  <2>5. \A j \in 1..(i - 1) : Q[j] = P[j]
    BY <2>1 DEF Placed, IsWith
  <2>6. \A j \in (i + 1)..(Len(rcvPacketList) + 1) : Q[j] = P[j - 1]
    BY <2>1 DEF Placed, IsWith
  <2> HIDE DEF P, Q
  <2>7. IsPut(Len(rcvPacketList), i, n, P, Q)
    BY <2>3, <2>4, <2>5, <2>6, Zenon DEF IsPut
  <2>8. QED
    BY <1>1, <2>1, <2>2, <2>7, PutInOrder, Zenon
<1>5. BufferInv'
  <2>1. \A l : Due(l)' = Due(l)
    BY SenderKeeps
  <2>2. /\ Idx(maxSeen)' = Idx(maxSeen') /\ Idx(lastDelivered)' = Idx(lastDelivered)
        /\ \A j : Idx(rcvPacketList[j].seq)' = Idx(rcvPacketList'[j].seq)
    BY DEF Idx, Base
  <2>3. rcvPacketList' \in Seq(recv!Packet)
        /\ Len(rcvPacketList') = Len(rcvPacketList) + 1
    BY DEF Placed, IsWith
  <2>4. \A j, k \in 1..Len(rcvPacketList') :
          j < k => Idx(rcvPacketList'[j].seq) < Idx(rcvPacketList'[k].seq)
    BY <1>4, <2>3 DEF InOrder
  <2>5. QED
    BY <1>3, <2>1, <2>2, <2>3, <2>4, Zenon DEF BufferInv
<1>6. QED
  BY <1>2, <1>5, Zenon

(* A packet behind all others goes to the end.                             *)
LEMMA PushBehind ==
  ASSUME LinkInv, ShortStream, UNCHANGED <<sndVars, writtenAt, lastACK, lastDelivered>>,
         NEW n \in 1..Len(writtenAt), NEW pkt, pkt = Due(n), pkt.seq = Nth(n), n > Idx(maxSeen),
         maxSeen' = pkt.seq, rcvPacketList' = Append(rcvPacketList, pkt), pkt \in recv!Packet
  PROVE  NumbersInv' /\ BufferInv'
<1>1. Nth(n) \in Number /\ Idx(Nth(n)) = n
  BY Places, NthIdx, StreamFits
<1>2. Placed(n, Len(rcvPacketList) + 1)
  <2>1. rcvPacketList \in Seq(recv!Packet)
    BY Places, Zenon
  <2>2. QED
    BY <2>1, AppendIsWith, Zenon DEF Placed
<1>3. Between(n, Len(rcvPacketList) + 1)
  <2>1. \A j \in 1..Len(rcvPacketList) : Idx(rcvPacketList[j].seq) <= Idx(maxSeen)
    BY Places DEF LinkInv, BufferInv
  <2>2. QED
    BY <2>1, Places DEF Between
<1>4. /\ n > Idx(lastDelivered) /\ Idx(maxSeen') >= Idx(maxSeen) /\ Idx(maxSeen') >= n
      /\ Idx(maxSeen') <= Len(writtenAt) /\ maxSeen' \in Number
      /\ Len(rcvPacketList) + 1 \in 1..(Len(rcvPacketList) + 1)
  BY <1>1, Places
<1>5. QED
  BY <1>2, <1>3, <1>4, PlacedStep, Zenon

(* A late packet goes to its place.                                        *)
LEMMA PushLateStep ==
  ASSUME LinkInv, ShortStream,
         UNCHANGED <<sndVars, writtenAt, lastACK, lastDelivered>>,
         NEW n \in 1..Len(writtenAt), NEW pkt, pkt = Due(n), pkt.seq = Nth(n),
         pkt \in recv!Packet, recv!PushLate(pkt)
  PROVE  NumbersInv' /\ BufferInv'
<1>1. Nth(n) \in Number /\ Idx(Nth(n)) = n /\ n \in Nat /\ n < threshold
  BY Places, NthIdx, StreamFits
<1>2. PICK i \in 1..Len(rcvPacketList) :
        /\ recv!StopsAt(i, pkt) /\ rcvPacketList[i].seq # pkt.seq
        /\ rcvPacketList' = recv!InsertBefore(rcvPacketList, i, pkt)
  BY Zenon DEF recv!PushLate
<1>3. maxSeen' = maxSeen /\ ~Lte(pkt.seq, lastDelivered) /\ Lte(pkt.seq, maxSeen)
  BY SameCircle, Zenon DEF recv!PushLate, recv!OutOfOrder, recv!Expected
<1>4. /\ n > Idx(lastDelivered) /\ Idx(maxSeen') >= Idx(maxSeen) /\ Idx(maxSeen') >= n
      /\ Idx(maxSeen') <= Len(writtenAt) /\ maxSeen' \in Number
      /\ i \in 1..(Len(rcvPacketList) + 1)
  <2>1. Idx(maxSeen) <= Len(writtenAt)
    BY DEF LinkInv, NumbersInv
  <2>2. QED
    BY <1>1, <1>3, <2>1, IdxOrder, Places
<1>5. Placed(n, i)
  <2>1. rcvPacketList' = Put(rcvPacketList, i, pkt)
    BY <1>2 DEF recv!InsertBefore, Put
  <2>2. rcvPacketList \in Seq(recv!Packet)
    BY Places
  <2>3. /\ Put(rcvPacketList, i, pkt) \in Seq(recv!Packet)
        /\ IsWith(rcvPacketList, i, pkt, Put(rcvPacketList, i, pkt))
    BY <2>2, SeqPut, Zenon
  <2>4. QED
    BY <2>1, <2>3, Zenon DEF Placed
<1>6. Between(n, i)
  <2>1. ASSUME NEW j \in 1..(i - 1)
        PROVE  Idx(rcvPacketList[j].seq) < n
    <3>1. rcvPacketList[j].seq # Nth(n) /\ ~Gt(rcvPacketList[j].seq, Nth(n))
      BY <1>2, SameCircle, Zenon DEF recv!StopsAt, recv!Passes
    <3>2. QED
      BY <1>1, <3>1, IdxOrder, Places
  <2>2. n < Idx(rcvPacketList[i].seq)
    <3>1. Gt(rcvPacketList[i].seq, Nth(n))
      BY <1>2, SameCircle, Zenon DEF recv!StopsAt, recv!Passes
    <3>2. QED
      BY <1>1, <3>1, IdxOrder, Places
  <2>3. ASSUME NEW j \in i..Len(rcvPacketList)
        PROVE  n < Idx(rcvPacketList[j].seq)
    <3>1. j = i \/ Idx(rcvPacketList[i].seq) < Idx(rcvPacketList[j].seq)
      BY Places DEF LinkInv, BufferInv
    <3>2. QED
      BY <1>1, <2>2, <3>1, Places
  <2>4. QED
    BY <2>1, <2>3, Zenon DEF Between
<1>7. QED
  BY <1>4, <1>5, <1>6, PlacedStep, Zenon

-----------------------------------------------------------------------------
(* The sender's steps.                                                     *)

(* What the receiver is sure of does not depend on the rest.               *)
LEMMA ReceiverKeeps ==
  ASSUME LinkInv, UNCHANGED <<rcvVars, writtenAt>>
  PROVE  /\ NumbersInv' /\ BufferInv' /\ DeliveredInv'
         /\ \A m : IsCovered(m) => IsCovered(m)'
         /\ \A m \in unsent' : IsCovered(m)'
         /\ Acknowledged' = Acknowledged
<1>1. UNCHANGED <<maxSeen, lastACK, lastDelivered, rcvPacketList, delivered, rcvNow, unsent,
                  writtenAt>>
  BY DEF rcvVars
<1>2. NumbersInv'
  BY <1>1, Zenon DEF LinkInv, NumbersInv, Idx, Base
<1>3. BufferInv'
  <2>1. \A n : Due(n)' = Due(n)
    BY <1>1, Zenon DEF Due, Nth
  <2>2. QED
    BY <1>1, <2>1 DEF LinkInv, BufferInv, Idx, Base
<1>4. DeliveredInv'
  BY <1>1 DEF LinkInv, DeliveredInv, Idx, Base
<1>5. \A m : IsCovered(m) => IsCovered(m)'
  BY <1>1 DEF IsCovered, Idx, Base
<1>6. \A m \in unsent' : IsCovered(m)'
  BY <1>1, <1>5 DEF LinkInv, NetInv
<1>7. Acknowledged' = Acknowledged
  BY <1>1 DEF Acknowledged
<1>8. QED
  BY <1>2, <1>3, <1>4, <1>5, <1>6, <1>7, Zenon

(* Packets that were written remain what they are when another is.         *)
LEMMA WrittenGrows ==
  ASSUME writtenAt \in Seq(Nat), NEW t \in Nat, writtenAt' = Append(writtenAt, t)
  PROVE  /\ writtenAt' \in Seq(Nat) /\ Len(writtenAt') = Len(writtenAt) + 1
         /\ Len(writtenAt) \in Nat
         /\ 1..Len(writtenAt) \subseteq 1..Len(writtenAt')
         /\ writtenAt'[Len(writtenAt) + 1] = t
         /\ \A n \in 1..Len(writtenAt) :
              /\ writtenAt'[n] = writtenAt[n]
              /\ \A p : IsNth(p, n) => IsNth(p, n)'
              /\ Due(n)' = Due(n)
<1>1. /\ writtenAt' \in Seq(Nat) /\ Len(writtenAt') = Len(writtenAt) + 1
      /\ Len(writtenAt) \in Nat
      /\ writtenAt'[Len(writtenAt) + 1] = t
      /\ \A n \in 1..Len(writtenAt) : writtenAt'[n] = writtenAt[n]
  OBVIOUS
<1>2. \A n \in 1..Len(writtenAt) : /\ \A p : IsNth(p, n) => IsNth(p, n)'
                                   /\ Due(n)' = Due(n)
  BY <1>1 DEF IsNth, Due, Nth
<1>3. 1..Len(writtenAt) \subseteq 1..Len(writtenAt')
  BY <1>1
<1>4. QED
  BY <1>1, <1>2, <1>3

(* Push gives the packet its number and the time it was written.           *)
LEMMA WriteStep ==
  ASSUME LinkInv, ShortStream, Write
  PROVE  LinkInv'
<1>1. PICK t \in written..LastWrite : snd!Push(t)
  BY DEF Write, snd!Write
<1>2. /\ Unique + Len(sndPacketList) < MaxPush
      /\ writtenAt' = Append(writtenAt, written')
      /\ UNCHANGED <<rcvVars, net, givenUp>>
  BY DEF Write, snd!Write, snd!Pushed, Unique
<1> DEFINE pkt == [seq |-> nextSequenceNumber, ts |-> t, tsbpd |-> snd!Scheduled(t),
                   retrans |-> "no"]
<1>3. /\ sndPacketList' = Append(sndPacketList, pkt)
      /\ nextSequenceNumber' = Inc(nextSequenceNumber)
      /\ probeTime' = IF nextSequenceNumber % ProbeInterval = 0 THEN t ELSE probeTime
      /\ sndStatistics' = [sndStatistics EXCEPT !.PktBuf = @ + 1,
                                               !.PktFlightSize = Len(sndPacketList) + 1]
      /\ written' = t /\ lossList' = lossList
  BY <1>1, SameCircle, Zenon DEF snd!Push
<1>4. /\ writtenAt \in Seq(Nat) /\ sndPacketList \in Seq(snd!Packet)
      /\ "PktUnique" \in DOMAIN sndStatistics /\ Unique \in Nat
      /\ Len(writtenAt) = Unique + Len(sndPacketList)
      /\ nextSequenceNumber = Nth(Len(writtenAt) + 1)
      /\ probeTime \in Nat /\ written \in Nat
  BY DEF LinkInv, WrittenInv, SenderInv
<1>5. t \in Nat
  BY <1>4, LinkAssumption
<1>6. /\ writtenAt' \in Seq(Nat) /\ Len(writtenAt') = Len(writtenAt) + 1
      /\ Len(writtenAt) \in Nat
      /\ 1..Len(writtenAt) \subseteq 1..Len(writtenAt')
      /\ writtenAt'[Len(writtenAt) + 1] = t
      /\ \A n \in 1..Len(writtenAt) :
           /\ writtenAt'[n] = writtenAt[n]
           /\ \A p : IsNth(p, n) => IsNth(p, n)'
           /\ Due(n)' = Due(n)
  BY <1>2, <1>3, <1>4, <1>5, WrittenGrows, Zenon
<1>7. Len(writtenAt) + 1 \in 1..MaxPush /\ Len(writtenAt) + 1 \in 1..(MAX - 1)
  <2>1. Len(sndPacketList) \in Nat
    BY <1>4
  <2>2. QED
    BY <1>2, <1>4, <1>6, <2>1, StreamFits
<1>8. pkt \in snd!Packet
  <2>1. nextSequenceNumber \in Number
    BY <1>4, <1>7, NthIdx, StreamFits
  <2>2. snd!Scheduled(t) \in Nat
    BY <1>4, <1>5 DEF snd!Scheduled
  <2>3. QED
    BY <1>5, <2>1, <2>2, SameCircle DEF snd!Packet
<1>9. Unique' = Unique /\ "PktUnique" \in DOMAIN sndStatistics'
  BY <1>3, <1>4, Zenon DEF Unique
<1> HIDE DEF pkt
<1>10. /\ sndPacketList' \in Seq(snd!Packet)
       /\ Len(sndPacketList') = Len(sndPacketList) + 1 /\ Len(sndPacketList) \in Nat
       /\ sndPacketList'[Len(sndPacketList) + 1] = pkt
       /\ \A i \in 1..Len(sndPacketList) : sndPacketList'[i] = sndPacketList[i]
  BY <1>3, <1>4, <1>8
<1>11. WrittenInv'
  <2>1. nextSequenceNumber' = Nth(Len(writtenAt') + 1)
    BY <1>3, <1>4, <1>6, <1>7, IncNth, Zenon
  <2>2. probeTime' \in Nat /\ written' \in Nat
    BY <1>3, <1>4, <1>5, Zenon
  <2>3. Len(writtenAt') = Unique' + Len(sndPacketList')
    BY <1>4, <1>6, <1>9, <1>10
  <2>4. Len(writtenAt') <= MaxPush
    BY <1>6, <1>7
  <2>5. (nextSequenceNumber = Nth(Len(writtenAt) + 1))'
    BY <2>1 DEF Nth
  <2>6. QED
    BY <1>4, <1>6, <1>9, <2>2, <2>3, <2>4, <2>5, Zenon DEF WrittenInv
<1>12. SenderInv'
  <2>1. \A i \in 1..Len(sndPacketList') :
          IsNth(sndPacketList[i], Unique + i)'
    <3> SUFFICES ASSUME NEW i \in 1..Len(sndPacketList')
                 PROVE  IsNth(sndPacketList[i], Unique + i)'
      OBVIOUS
    <3>1. CASE i \in 1..Len(sndPacketList)
      <4>1. Unique + i \in 1..Len(writtenAt)
        BY <1>4, <1>10, <3>1
      <4>2. IsNth(sndPacketList[i], Unique + i)
        BY <3>1 DEF LinkInv, SenderInv
      <4>3. /\ sndPacketList[i].seq = Nth(Unique + i)
            /\ sndPacketList[i].ts = writtenAt'[Unique + i]
        BY <1>6, <4>1, <4>2 DEF IsNth
      <4>4. QED
        BY <1>9, <1>10, <3>1, <4>3, Zenon DEF IsNth, Nth
    <3>2. CASE i = Len(sndPacketList) + 1
      <4>1. Unique' + i = Len(writtenAt) + 1
        <5>1. Unique \in Nat /\ Len(sndPacketList) \in Nat
          BY <1>4, <1>10
        <5>2. QED
          BY <1>4, <1>9, <3>2, <5>1
      <4>2. sndPacketList'[i].seq = Nth(Len(writtenAt) + 1) /\ sndPacketList'[i].ts = t
        <5>1. pkt.seq = nextSequenceNumber /\ pkt.ts = t
          BY Zenon DEF pkt
        <5>2. QED
          BY <1>4, <1>10, <3>2, <5>1, Zenon
      <4>3. QED
        BY <1>6, <4>1, <4>2, Zenon DEF IsNth, Nth
    <3>3. QED
      BY <1>10, <3>1, <3>2
  <2>2. \A i \in 1..Len(lossList') :
          (\E n \in 1..Len(writtenAt) : IsNth(lossList[i], n))'
    <3> SUFFICES ASSUME NEW i \in 1..Len(lossList)
                 PROVE  \E n \in 1..Len(writtenAt') : IsNth(lossList[i], n)'
      BY <1>3
    <3>1. PICK n \in 1..Len(writtenAt) : IsNth(lossList[i], n)
      BY Zenon DEF LinkInv, SenderInv
    <3>2. n \in 1..Len(writtenAt') /\ writtenAt'[n] = writtenAt[n] /\ lossList' = lossList
      BY <1>3, <1>6, Zenon
    <3>3. IsNth(lossList[i], n)'
      BY <3>1, <3>2 DEF IsNth, Nth
    <3>4. QED
      BY <3>2, <3>3
  <2>3. QED
    BY <1>3, <1>10, <2>1, <2>2, Zenon DEF LinkInv, SenderInv
<1>13. NetInv'
  <2>1. UNCHANGED <<net, unsent, lastACK>>
    BY <1>2 DEF rcvVars
  <2>2. ASSUME NEW m \in net, m.type = "data"
        PROVE  (\E n \in 1..Len(writtenAt) : IsNth(m, n))'
    <3>1. PICK n \in 1..Len(writtenAt) : IsNth(m, n)
      BY <2>2 DEF LinkInv, NetInv
    <3>2. IsNth(m, n)' /\ n \in 1..Len(writtenAt')
      BY <1>6, <3>1
    <3>3. QED
      BY <3>2
  <2>3. \A m : IsCovered(m) => IsCovered(m)'
    BY <2>1 DEF IsCovered, Idx, Base
  <2>4. QED
    BY <2>1, <2>2, <2>3 DEF LinkInv, NetInv
<1>14. NumbersInv' /\ BufferInv' /\ DeliveredInv'
  <2>1. UNCHANGED <<maxSeen, lastACK, lastDelivered, rcvPacketList, delivered, rcvNow>>
    BY <1>2 DEF rcvVars
  <2>2. NumbersInv'
    <3>1. maxSeen \in Number /\ Idx(maxSeen) \in Nat /\ Idx(maxSeen) <= Len(writtenAt)
      BY IdxNat, Zenon DEF LinkInv, NumbersInv
    <3>2. Idx(maxSeen) <= Len(writtenAt')
      BY <1>6, <3>1
    <3>3. Idx(maxSeen)' = Idx(maxSeen) /\ Idx(lastACK)' = Idx(lastACK)
          /\ Idx(lastDelivered)' = Idx(lastDelivered)
      BY <2>1, Zenon DEF Idx, Base
    <3>4. QED
      BY <2>1, <3>2, <3>3 DEF LinkInv, NumbersInv
  <2>3. BufferInv'
    <3>1. ASSUME NEW i \in 1..Len(rcvPacketList)
          PROVE  (\E n \in 1..Len(writtenAt) : rcvPacketList[i] = Due(n))'
      <4>1. PICK n \in 1..Len(writtenAt) : rcvPacketList[i] = Due(n)
        BY DEF LinkInv, BufferInv
      <4>2. rcvPacketList'[i] = Due(n)' /\ n \in 1..Len(writtenAt')
        BY <1>6, <2>1, <4>1, Zenon
      <4>3. QED
        BY <4>2
    <3>2. \A seq : Idx(seq)' = Idx(seq)
      BY DEF Idx, Base
    <3>3. QED
      BY <2>1, <3>1, Zenon DEF LinkInv, BufferInv, Idx, Base
  <2>4. DeliveredInv'
    BY <2>1, Zenon DEF LinkInv, DeliveredInv, Idx, Base
  <2>5. QED
    BY <2>2, <2>3, <2>4, Zenon
<1>15. NoPrematureRelease'
  <2>1. UNCHANGED <<lastACK, lossList, givenUp>>
    BY <1>2, <1>3 DEF rcvVars
  <2>2. QED
    BY <1>9, <2>1 DEF LinkInv, NoPrematureRelease, Sent, Unique, Numbers, Acknowledged, Kept
<1>16. QED
  BY <1>11, <1>12, <1>13, <1>14, <1>15, Zenon DEF LinkInv

(* Taking one element out leaves only others.                              *)
LEMMA WithoutElements ==
  ASSUME NEW S, NEW s \in Seq(S), NEW i \in 1..Len(s)
  PROVE  /\ snd!Without(s, i) \in Seq(S)
         /\ \A j \in 1..Len(snd!Without(s, i)) :
              \E l \in 1..Len(s) : snd!Without(s, i)[j] = s[l]
<1>1. snd!Without(s, i) = Cut(s, i)
  BY DEF snd!Without, Cut
<1>2. /\ Cut(s, i) \in Seq(S) /\ Len(Cut(s, i)) = Len(s) - 1
      /\ \A j \in 1..(Len(s) - 1) : Cut(s, i)[j] = IF j < i THEN s[j] ELSE s[j + 1]
  BY SeqCut, Zenon
<1>3. Len(s) \in Nat
  OBVIOUS
<1>4. \A j \in 1..Len(Cut(s, i)) : \E l \in 1..Len(s) : Cut(s, i)[j] = s[l]
  BY <1>2, <1>3
<1>5. QED
  BY <1>1, <1>2, <1>4, Zenon

(* What pop hands to the network are packets that were written.            *)
LEMMA NetGrows ==
  ASSUME LinkInv, UNCHANGED <<rcvVars, writtenAt>>, NEW packets,
         \A p \in packets : \E n \in 1..Len(writtenAt) : IsNth(p, n),
         net' = net \cup onSend(packets)
  PROVE  NetInv'
<1>1. \A m : IsCovered(m) => IsCovered(m)'
  BY ReceiverKeeps
<1>2. \A m \in unsent' : IsCovered(m)'
  BY ReceiverKeeps, Zenon
<1>3. \A m, n : IsNth(m, n) => IsNth(m, n)'
  BY DEF IsNth, Nth
<1>4. ASSUME NEW m \in onSend(packets)
      PROVE  m.type = "data" /\ \E n \in 1..Len(writtenAt) : IsNth(m, n)
  <2>1. PICK p \in packets : m = [type |-> "data", seq |-> p.seq, ts |-> p.ts]
    BY DEF onSend
  <2>2. m.type = "data" /\ m.seq = p.seq /\ m.ts = p.ts
    BY <2>1
  <2>3. QED
    BY <2>2, Zenon DEF IsNth
<1>5. ASSUME NEW m \in net', m.type = "data"
      PROVE  (\E n \in 1..Len(writtenAt) : IsNth(m, n))'
  <2>1. \E n \in 1..Len(writtenAt) : IsNth(m, n)
    BY <1>4, <1>5 DEF LinkInv, NetInv
  <2>2. QED
    BY <1>3, <2>1, Zenon
<1>6. ASSUME NEW m \in net'
      PROVE  IsCovered(m)'
  <2>1. IsCovered(m)
    BY <1>4, <1>6, Zenon DEF LinkInv, NetInv, IsCovered
  <2>2. QED
    BY <1>1, <2>1, Zenon
<1>7. QED
  BY <1>2, <1>5, <1>6, Zenon DEF NetInv

(* An action of the sender that only touches the lossList, and leaves no   *)
(* packet in it that was not there.                                        *)
LEMMA LossListStep ==
  ASSUME LinkInv,
         UNCHANGED <<rcvVars, writtenAt, nextSequenceNumber, sndPacketList, probeTime, written>>,
         Unique' = Unique, "PktUnique" \in DOMAIN sndStatistics',
         lossList' \in Seq(snd!Packet),
         \A i \in 1..Len(lossList') : \E j \in 1..Len(lossList) :
           lossList'[i].seq = lossList[j].seq /\ lossList'[i].ts = lossList[j].ts
  PROVE  WrittenInv' /\ SenderInv'
<1>1. WrittenInv'
  BY Zenon DEF LinkInv, WrittenInv, Nth
<1>2. \A m, n : IsNth(m, n) => IsNth(m, n)'
  BY DEF IsNth, Nth
<1>3. \A i \in 1..Len(sndPacketList') : IsNth(sndPacketList[i], Unique + i)'
  BY DEF LinkInv, SenderInv, IsNth, Nth
<1>4. ASSUME NEW i \in 1..Len(lossList')
      PROVE  (\E n \in 1..Len(writtenAt) : IsNth(lossList[i], n))'
  <2>1. PICK j \in 1..Len(lossList) :
          lossList'[i].seq = lossList[j].seq /\ lossList'[i].ts = lossList[j].ts
    BY <1>4, Zenon
  <2>2. PICK n \in 1..Len(writtenAt) : IsNth(lossList[j], n)
    BY Zenon DEF LinkInv, SenderInv
  <2>3. (IsNth(lossList[i], n))'
    BY <2>1, <2>2, Zenon DEF IsNth, Nth
  <2>4. QED
    BY <2>3, Zenon
<1>5. QED
  BY <1>1, <1>3, <1>4, Zenon DEF LinkInv, SenderInv

(* The first packets that wait become packets that are kept.               *)
LEMMA TickSendStep ==
  ASSUME LinkInv, ShortStream, UNCHANGED <<rcvVars, writtenAt>>,
         NEW t, snd!TickSend(t), net' = net \cup onSend(sndOutbox'), givenUp' = givenUp
  PROVE  LinkInv'
<1>1. PICK k \in 0..Len(sndPacketList) :
        /\ sndOutbox' = {sndPacketList[i] : i \in 1..k}
        /\ lossList' = lossList \o SubSeq(sndPacketList, 1, k)
        /\ sndPacketList' = SubSeq(sndPacketList, k + 1, Len(sndPacketList))
        /\ sndStatistics' = [sndStatistics EXCEPT !.Pkt = @ + k, !.PktUnique = @ + k]
  BY Zenon DEF snd!TickSend
<1>2. UNCHANGED <<nextSequenceNumber, probeTime, written>>
  BY Zenon DEF snd!TickSend
<1>3. /\ sndPacketList \in Seq(snd!Packet) /\ lossList \in Seq(snd!Packet)
      /\ Len(sndPacketList) \in Nat /\ Len(lossList) \in Nat /\ k \in Nat
      /\ Len(writtenAt) = Unique + Len(sndPacketList) /\ Unique \in Nat
      /\ "PktUnique" \in DOMAIN sndStatistics
  BY DEF LinkInv, SenderInv, WrittenInv
<1>4. Unique' = Unique + k /\ "PktUnique" \in DOMAIN sndStatistics'
  BY <1>1, <1>3, Zenon DEF Unique
<1> DEFINE front == SubSeq(sndPacketList, 1, k)
<1>5. /\ front \in Seq(snd!Packet) /\ Len(front) = k
      /\ \A j \in 1..k : front[j] = sndPacketList[j]
  BY <1>3, SeqPrefix, Zenon
<1>6. /\ sndPacketList' \in Seq(snd!Packet)
      /\ Len(sndPacketList') = Len(sndPacketList) - k
      /\ \A j \in 1..(Len(sndPacketList) - k) : sndPacketList'[j] = sndPacketList[k + j]
  BY <1>1, <1>3, SeqSuffix, Zenon
<1>7. /\ lossList' \in Seq(snd!Packet)
      /\ Len(lossList') = Len(lossList) + k
      /\ \A j \in 1..Len(lossList) : lossList'[j] = lossList[j]
      /\ \A j \in (Len(lossList) + 1)..(Len(lossList) + k) :
            lossList'[j] = front[j - Len(lossList)]
  <2> HIDE DEF front
  <2>1. lossList' = lossList \o front
    BY <1>1 DEF front
  <2>2. lossList \in Seq(snd!Packet) /\ front \in Seq(snd!Packet)
    BY <1>3, <1>5
  <2>3. /\ lossList \o front \in Seq(snd!Packet)
        /\ Len(lossList \o front) = Len(lossList) + Len(front)
        /\ \A j \in 1..(Len(lossList) + Len(front)) :
             (lossList \o front)[j] = IF j <= Len(lossList) THEN lossList[j]
                                      ELSE front[j - Len(lossList)]
    BY <2>2, SeqConcat, Zenon
  <2>4. /\ lossList' \in Seq(snd!Packet)
        /\ Len(lossList') = Len(lossList) + k
        /\ \A j \in 1..(Len(lossList) + k) :
             lossList'[j] = IF j <= Len(lossList) THEN lossList[j]
                            ELSE front[j - Len(lossList)]
    BY <1>5, <2>1, <2>3, Zenon
  <2>5. /\ \A j \in 1..Len(lossList) :
             j \in 1..(Len(lossList) + k) /\ j <= Len(lossList)
        /\ \A j \in (Len(lossList) + 1)..(Len(lossList) + k) :
             j \in 1..(Len(lossList) + k) /\ ~(j <= Len(lossList))
    BY <1>3
  <2>6. QED
    BY <2>4, <2>5, Zenon
<1> HIDE DEF front
<1>8. \A i \in 1..k : /\ Unique + i \in 1..Len(writtenAt)
                      /\ IsNth(sndPacketList[i], Unique + i)
  BY <1>3 DEF LinkInv, SenderInv
<1>9. \A m, n : IsNth(m, n) => IsNth(m, n)'
  BY DEF IsNth, Nth
<1>10. WrittenInv'
  <2>1. Unique' \in Nat /\ Len(writtenAt) = Unique' + Len(sndPacketList')
    BY <1>3, <1>4, <1>6
  <2>2. QED
    BY <1>2, <1>4, <2>1, Zenon DEF LinkInv, WrittenInv, Nth
<1>11. SenderInv'
  <2>1. ASSUME NEW i \in 1..Len(sndPacketList')
        PROVE  IsNth(sndPacketList[i], Unique + i)'
    <3>1. k + i \in 1..Len(sndPacketList) /\ sndPacketList'[i] = sndPacketList[k + i]
          /\ Unique' + i = Unique + (k + i)
      BY <1>3, <1>4, <1>6
    <3>2. IsNth(sndPacketList[k + i], Unique + (k + i))
      BY <3>1, Zenon DEF LinkInv, SenderInv
    <3>3. QED
      BY <3>1, <3>2, Zenon DEF IsNth, Nth
  <2>2. ASSUME NEW i \in 1..Len(lossList')
        PROVE  (\E n \in 1..Len(writtenAt) : IsNth(lossList[i], n))'
    <3>1. CASE i \in 1..Len(lossList)
      <4>1. PICK n \in 1..Len(writtenAt) : IsNth(lossList[i], n)
        BY <3>1, Zenon DEF LinkInv, SenderInv
      <4>2. IsNth(lossList[i], n)'
        BY <1>7, <3>1, <4>1, Zenon DEF IsNth, Nth
      <4>3. QED
        BY <4>2, Zenon
    <3>2. CASE i \in (Len(lossList) + 1)..(Len(lossList) + k)
      <4>1. /\ i - Len(lossList) \in 1..k
            /\ lossList'[i] = sndPacketList[i - Len(lossList)]
        BY <1>3, <1>5, <1>7, <3>2
      <4>2. IsNth(lossList[i], Unique + (i - Len(lossList)))'
              <=> IsNth(sndPacketList[i - Len(lossList)], (Unique + (i - Len(lossList)))')
        BY <4>1, Zenon DEF IsNth, Nth
      <4>3. PICK n \in 1..Len(writtenAt) : IsNth(sndPacketList[i - Len(lossList)], n)
        BY <1>8, <4>1, Zenon
      <4>4. IsNth(lossList[i], n)'
        BY <4>1, <4>3, Zenon DEF IsNth, Nth
      <4>5. QED
        BY <4>4
    <3>3. QED
      BY <1>3, <1>7, <3>1, <3>2
  <2>3. QED
    BY <1>6, <1>7, <2>1, <2>2, Zenon DEF SenderInv
<1>12. NetInv'
  <2>1. \A p \in sndOutbox' : \E n \in 1..Len(writtenAt) : IsNth(p, n)
    BY <1>1, <1>8, Zenon
  <2>2. QED
    BY <2>1, NetGrows
<1>13. NumbersInv' /\ BufferInv' /\ DeliveredInv' /\ Acknowledged' = Acknowledged
  BY ReceiverKeeps
<1>14. NoPrematureRelease'
  <2>1. Unique \in 0..MAX /\ Unique + k \in 0..MAX
    BY <1>3, StreamFits DEF LinkInv, WrittenInv
  <2>2. /\ Sent = {Nth(i) : i \in 1..Unique}
        /\ Sent' = {Nth(i) : i \in 1..(Unique + k)}
    <3>1. Sent = Numbers(Unique) /\ Sent' = Numbers(Unique')
      BY DEF Sent, Unique, Numbers
    <3>2. QED
      BY <1>4, <2>1, <3>1, NumbersByPlace, Zenon
  <2>3. Kept(lossList) \subseteq Kept(lossList')
    BY <1>3, <1>7 DEF Kept
  <2>4. ASSUME NEW i \in 1..(Unique + k)
        PROVE  Nth(i) \in Kept(lossList') \cup Acknowledged' \cup givenUp'
    <3>1. CASE i \in 1..Unique
      BY <1>13, <2>2, <2>3, <3>1, Zenon DEF LinkInv, NoPrematureRelease
    <3>2. CASE i \in (Unique + 1)..(Unique + k)
      <4>1. i - Unique \in 1..k /\ Unique + (i - Unique) = i
            /\ Len(lossList) + (i - Unique) \in (Len(lossList) + 1)..(Len(lossList) + k)
            /\ (Len(lossList) + (i - Unique)) - Len(lossList) = i - Unique
        BY <1>3, <3>2
      <4>2. lossList'[Len(lossList) + (i - Unique)] = sndPacketList[i - Unique]
        BY <1>5, <1>7, <4>1, Zenon
      <4>3. sndPacketList[i - Unique].seq = Nth(i)
        BY <1>8, <4>1, Zenon DEF IsNth
      <4>4. Len(lossList) + (i - Unique) \in 1..Len(lossList')
        BY <1>3, <1>7, <4>1
      <4>5. QED
        BY <4>2, <4>3, <4>4, Zenon DEF Kept
    <3>3. QED
      BY <1>3, <3>1, <3>2
  <2>5. QED
    BY <2>2, <2>4, Zenon DEF NoPrematureRelease
<1>15. QED
  BY <1>10, <1>11, <1>12, <1>13, <1>14, Zenon DEF LinkInv

(* What TickDrop takes out of the lossList is counted as given up.         *)
LEMMA SendTickStep ==
  ASSUME LinkInv, ShortStream, SendTick
  PROVE  LinkInv'
<1>1. /\ net' = net \cup onSend(sndOutbox')
      /\ givenUp' = IF sndPc' = "dropping" THEN givenUp \cup (Kept(lossList) \ Kept(lossList'))
                                           ELSE givenUp
      /\ UNCHANGED <<rcvVars, writtenAt>>
  BY DEF SendTick
<1>2. /\ NumbersInv' /\ BufferInv' /\ DeliveredInv' /\ Acknowledged' = Acknowledged
  BY <1>1, ReceiverKeeps
<1>3. ASSUME NEW t, snd!TickSend(t)
      PROVE  LinkInv'
  <2>1. sndPc' = "drop"
    BY <1>3 DEF snd!TickSend
  <2>2. givenUp' = givenUp
    BY <1>1, <2>1, Zenon
  <2>3. QED
    BY <1>1, <1>3, <2>2, TickSendStep, Zenon
<1>4. ASSUME sndOutbox' = {}
      PROVE  NetInv'
  BY <1>1, <1>4, NetGrows
<1>5. ASSUME Sent' = Sent, WrittenInv', SenderInv', NetInv',
             Kept(lossList) \subseteq Kept(lossList') \cup givenUp', givenUp \subseteq givenUp'
      PROVE  LinkInv'
  <2>1. NoPrematureRelease'
    BY <1>2, <1>5 DEF LinkInv, NoPrematureRelease
  <2>2. QED
    BY <1>2, <1>5, <2>1, Zenon DEF LinkInv
<1>6. CASE snd!TickDrop
  <2>1. /\ UNCHANGED <<nextSequenceNumber, sndPacketList, probeTime, written>>
        /\ sndOutbox' = {} /\ sndPc' = "dropping"
        /\ sndStatistics' = [sndStatistics EXCEPT !.PktDrop = @ + 1, !.PktLoss = @ + 1,
                                                 !.PktBuf = @ - 1]
    BY <1>6 DEF snd!TickDrop
  <2>2. PICK i \in 1..Len(lossList) : lossList' = snd!Without(lossList, i)
    BY <1>6, Zenon DEF snd!TickDrop
  <2>3. Unique' = Unique /\ "PktUnique" \in DOMAIN sndStatistics'
    BY <2>1, Zenon DEF LinkInv, WrittenInv, Unique
  <2>4. lossList \in Seq(snd!Packet) /\ Len(lossList) \in Nat
    BY DEF LinkInv, SenderInv
  <2>5. /\ lossList' \in Seq(snd!Packet)
        /\ \A j \in 1..Len(lossList') : \E l \in 1..Len(lossList) : lossList'[j] = lossList[l]
    BY <2>2, <2>4, WithoutElements
  <2>6. WrittenInv' /\ SenderInv'
    BY <1>1, <2>1, <2>3, <2>5, LossListStep, Zenon
  <2>7. Sent' = Sent
    BY <2>3 DEF Sent, Unique, Numbers
  <2>8. QED
    BY <1>1, <1>4, <1>5, <2>1, <2>6, <2>7, Zenon
<1>7. CASE snd!TickDone
  <2>1. /\ UNCHANGED <<nextSequenceNumber, sndPacketList, lossList, probeTime, written,
                       sndStatistics>>
        /\ sndOutbox' = {} /\ sndPc' = "idle"
    BY <1>7, Zenon DEF snd!TickDone, snd!listVars
  <2>2. Unique' = Unique /\ "PktUnique" \in DOMAIN sndStatistics'
    BY <2>1, Zenon DEF LinkInv, WrittenInv, Unique
  <2>3. WrittenInv' /\ SenderInv'
    BY <1>1, <2>1, <2>2, LossListStep DEF LinkInv, SenderInv
  <2>4. Sent' = Sent
    BY <2>1 DEF Sent
  <2>5. QED
    BY <1>1, <1>4, <1>5, <2>1, <2>3, <2>4, Zenon
<1>8. QED
  BY <1>3, <1>6, <1>7, Zenon DEF SendTick, snd!Tick

(* handleACK releases only what lies before the number of the ACK, which   *)
(* the receiver has acknowledged.                                          *)
LEMMA HandleACKStep ==
  ASSUME LinkInv, ShortStream, HandleACK
  PROVE  LinkInv'
<1>1. PICK m \in net : m.type = "ACK" /\ snd!ACK(m.seq)
  BY DEF HandleACK
<1>2. UNCHANGED <<rcvVars, net, writtenAt, givenUp>>
  BY DEF HandleACK
<1>3. PICK k \in 0..Len(lossList) :
        /\ \A i \in 1..k : Lt(lossList[i].seq, m.seq)
        /\ lossList' = SubSeq(lossList, k + 1, Len(lossList))
        /\ sndStatistics' = [sndStatistics EXCEPT !.PktBuf = @ - k]
  BY <1>1, SameCircle, Zenon DEF snd!ACK, snd!StopsAfter
<1>4. UNCHANGED <<nextSequenceNumber, sndPacketList, probeTime, written>>
  BY <1>1 DEF snd!ACK
<1>5. Unique' = Unique /\ "PktUnique" \in DOMAIN sndStatistics'
  BY <1>3, Zenon DEF LinkInv, WrittenInv, Unique
<1>6. lossList \in Seq(snd!Packet) /\ Len(lossList) \in Nat
  BY DEF LinkInv, SenderInv
<1>7. /\ lossList' \in Seq(snd!Packet)
      /\ Len(lossList') = Len(lossList) - k
      /\ \A j \in 1..(Len(lossList) - k) : lossList'[j] = lossList[k + j]
  BY <1>3, <1>6, SeqSuffix, Zenon
<1>8. WrittenInv' /\ SenderInv'
  <2>1. \A j \in 1..Len(lossList') : \E l \in 1..Len(lossList) : lossList'[j] = lossList[l]
    BY <1>6, <1>7
  <2>2. \A j \in 1..Len(lossList') : \E l \in 1..Len(lossList) :
          lossList'[j].seq = lossList[l].seq /\ lossList'[j].ts = lossList[l].ts
    BY <2>1, Zenon
  <2>3. UNCHANGED <<rcvVars, writtenAt, nextSequenceNumber, sndPacketList, probeTime, written>>
    BY <1>2, <1>4, Zenon
  <2>4. QED
    BY <1>5, <1>7, <2>2, <2>3, LossListStep, Zenon
<1>9. NumbersInv' /\ BufferInv' /\ DeliveredInv' /\ Acknowledged' = Acknowledged
  BY <1>2, ReceiverKeeps, Zenon
<1>10. NetInv'
  BY <1>2, NetGrows DEF onSend
<1>11. Sent' = Sent
  BY <1>5, Zenon DEF Sent, Unique, Numbers
<1>12. ASSUME NEW i \in 1..k
       PROVE  lossList[i].seq \in Acknowledged
  <2>1. /\ lastACK \in Number /\ Idx(lastACK) \in Nat /\ Idx(lastACK) <= MaxPush
    <3>1. lastACK \in Number /\ maxSeen \in Number /\ Idx(lastACK) <= Idx(maxSeen)
          /\ Idx(maxSeen) <= Len(writtenAt) /\ Len(writtenAt) <= MaxPush
          /\ Len(writtenAt) \in Nat
      BY DEF LinkInv, NumbersInv, WrittenInv
    <3>2. QED
      BY <3>1, IdxNat, StreamFits
  <2>2. m.seq \in Number /\ Idx(m.seq) \in 1..(Idx(lastACK) + 1)
    BY <1>1, Zenon DEF LinkInv, NetInv, IsCovered
  <2>3. PICK n \in 1..Len(writtenAt) : lossList[i].seq = Nth(n)
    <3>1. i \in 1..Len(lossList)
      BY <1>3, <1>6, <1>12
    <3>2. QED
      BY <3>1 DEF LinkInv, SenderInv, IsNth
  <2>4. n \in 1..MaxPush
    BY <2>3, StreamFits DEF LinkInv, WrittenInv
  <2>5. Nth(n) \in Number /\ Idx(Nth(n)) = n
    BY <2>4, NthIdx, StreamFits
  <2>6. n < Idx(m.seq)
    <3>1. Lt(Nth(n), m.seq)
      BY <1>3, <1>12, <2>3, Zenon
    <3>2. Idx(Nth(n)) \in 1..threshold /\ Idx(m.seq) \in 1..threshold
      BY <2>1, <2>2, <2>4, <2>5, StreamFits
    <3>3. Idx(Nth(n)) < Idx(m.seq)
      BY <2>2, <2>5, <3>1, <3>2, LtIdx, Zenon
    <3>4. QED
      BY <2>5, <3>3, Zenon
  <2>7. n \in 1..Idx(lastACK)
    BY <2>1, <2>2, <2>4, <2>6
  <2>8. QED
    BY <2>1, <2>3, <2>7, AcknowledgedByPlace, StreamFits
<1>13. Kept(lossList) \subseteq Kept(lossList') \cup Acknowledged
  <2> SUFFICES ASSUME NEW i \in 1..Len(lossList)
               PROVE  lossList[i].seq \in Kept(lossList') \cup Acknowledged
    BY DEF Kept
  <2>1. CASE i \in 1..k
    BY <1>12, <2>1, Zenon
  <2>2. CASE i \in (k + 1)..Len(lossList)
    <3>1. i - k \in 1..Len(lossList') /\ lossList'[i - k] = lossList[i]
      BY <1>6, <1>7, <2>2
    <3>2. QED
      BY <3>1, Zenon DEF Kept
  <2>3. QED
    BY <1>6, <2>1, <2>2
<1>14. NoPrematureRelease'
  BY <1>2, <1>9, <1>11, <1>13, Zenon DEF LinkInv, NoPrematureRelease
<1>15. QED
  BY <1>8, <1>9, <1>10, <1>14, Zenon DEF LinkInv

(* handleNAK marks packets of the lossList and sends them again.           *)
LEMMA HandleNAKStep ==
  ASSUME LinkInv, ShortStream, HandleNAK
  PROVE  LinkInv'
<1>1. PICK m \in net : snd!NAK(UnmarshalNAK(m.words))
  BY DEF HandleNAK
<1>2. net' = net \cup onSend(sndOutbox') /\ UNCHANGED <<rcvVars, writtenAt, givenUp>>
  BY DEF HandleNAK
<1> DEFINE Hit(i) == \E r \in UnmarshalNAK(m.words) : snd!Requested(lossList[i], r)
           again(i) == [lossList[i] EXCEPT !.retrans = "yes"]
<1>3. PICK n : sndStatistics' = [sndStatistics EXCEPT !.Pkt = @ + n, !.PktRetrans = @ + n,
                                                    !.PktLoss = @ + n]
  BY <1>1, Zenon DEF snd!NAK
<1>4. /\ sndOutbox' = {again(i) : i \in {j \in 1..Len(lossList) : Hit(j)}}
      /\ lossList' = [i \in 1..Len(lossList) |-> IF Hit(i) THEN again(i) ELSE lossList[i]]
      /\ UNCHANGED <<nextSequenceNumber, sndPacketList, probeTime, written>>
  BY <1>1, Zenon DEF snd!NAK
<1>5. Unique' = Unique /\ "PktUnique" \in DOMAIN sndStatistics'
  BY <1>3, Zenon DEF LinkInv, WrittenInv, Unique
<1>6. lossList \in Seq(snd!Packet) /\ Len(lossList) \in Nat
  BY DEF LinkInv, SenderInv
<1>7. ASSUME NEW i \in 1..Len(lossList)
      PROVE  /\ again(i) \in snd!Packet /\ lossList[i] \in snd!Packet
             /\ again(i).seq = lossList[i].seq /\ again(i).ts = lossList[i].ts
  <2>1. lossList[i] \in snd!Packet
    BY <1>6, <1>7
  <2>2. QED
    BY <2>1 DEF snd!Packet
<1> HIDE DEF Hit, again
<1>8. /\ lossList' \in Seq(snd!Packet) /\ Len(lossList') = Len(lossList)
      /\ \A i \in 1..Len(lossList) : lossList'[i].seq = lossList[i].seq
                                   /\ lossList'[i].ts = lossList[i].ts
  <2>1. \A i \in 1..Len(lossList) : lossList'[i] = IF Hit(i) THEN again(i) ELSE lossList[i]
    BY <1>4, Zenon
  <2>2. \A i \in 1..Len(lossList) : lossList'[i] \in snd!Packet
    BY <1>7, <2>1, Zenon
  <2>3. lossList' \in [1..Len(lossList) -> snd!Packet]
    BY <1>4, <2>2, Zenon
  <2>4. lossList' \in Seq(snd!Packet) /\ Len(lossList') = Len(lossList)
    BY <1>6, <2>3
  <2>5. QED
    BY <1>7, <2>1, <2>4, Zenon
<1>9. WrittenInv' /\ SenderInv'
  BY <1>2, <1>4, <1>5, <1>8, LossListStep, Zenon
<1>10. NumbersInv' /\ BufferInv' /\ DeliveredInv' /\ Acknowledged' = Acknowledged
  BY <1>2, ReceiverKeeps, Zenon
<1>11. NetInv'
  <2>1. ASSUME NEW p \in sndOutbox'
        PROVE  \E l \in 1..Len(writtenAt) : IsNth(p, l)
    <3>1. PICK i \in 1..Len(lossList) : p = again(i)
      BY <1>4, Zenon
    <3>2. PICK l \in 1..Len(writtenAt) : IsNth(lossList[i], l)
      BY Zenon DEF LinkInv, SenderInv
    <3>3. QED
      BY <1>7, <3>1, <3>2, Zenon DEF IsNth
  <2>2. QED
    BY <1>2, <2>1, NetGrows, Zenon
<1>12. NoPrematureRelease'
  <2>1. Sent' = Sent
    BY <1>5, Zenon DEF Sent, Unique, Numbers
  <2>2. Kept(lossList') = Kept(lossList)
    BY <1>8 DEF Kept
  <2>3. QED
    BY <1>2, <1>10, <2>1, <2>2, Zenon DEF LinkInv, NoPrematureRelease
<1>13. QED
  BY <1>9, <1>10, <1>11, <1>12, Zenon DEF LinkInv

=============================================================================
