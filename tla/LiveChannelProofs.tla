------------------------- MODULE LiveChannelProofs -------------------------
(***************************************************************************)
(* The two ends of a live stream and the network between them implement    *)
(* LiveChannel, and the sender releases nothing too early, for every       *)
(* circle, initial sequence number, latency, drop threshold, probe         *)
(* interval and time of the tickers: the invariant of LiveLinkProofs is    *)
(* preserved by the receiver's steps too, and every step that the channel  *)
(* sees is one of its own.                                                 *)
(***************************************************************************)
EXTENDS LiveLinkProofs

\* The provers, in this order, for the leaves that name none.
USE SMTT(30), Zenon

-----------------------------------------------------------------------------
(* The receiver's steps.                                                   *)

(* sendACK and sendNAK leave an ACK as it is.                              *)
LEMMA ControlCovered ==
  ASSUME LinkInv, UNCHANGED <<sndVars, writtenAt>>, NEW messages,
         net' = net \cup onSendControl(messages),
         \A m : IsCovered(m) => IsCovered(m)',
         \A m \in messages : IsCovered(m)',
         \A m \in unsent' : IsCovered(m)'
  PROVE  NetInv'
<1>1. ASSUME NEW m \in onSendControl(messages)
      PROVE  IsCovered(m)' /\ (m.type = "data" => m \in messages /\ m.type = "ACK")
  <2>1. PICK c \in messages :
          m = IF c.type = "ACK" THEN c ELSE [type |-> "NAK", words |-> MarshalNAK(c.list)]
    BY Zenon DEF onSendControl
  <2>2. CASE c.type = "ACK"
    BY <2>1, <2>2
  <2>3. CASE c.type # "ACK"
    <3>1. m.type = "NAK"
      BY <2>1, <2>3
    <3>2. QED
      BY <3>1 DEF IsCovered
  <2>4. QED
    BY <2>2, <2>3
<1>2. \A m \in net' : IsCovered(m)'
  BY <1>1 DEF LinkInv, NetInv
<1>3. ASSUME NEW m \in net', m.type = "data"
      PROVE  (\E n \in 1..Len(writtenAt) : IsNth(m, n))'
  <2>1. m \in net
    BY <1>1, <1>3
  <2>2. PICK n \in 1..Len(writtenAt) : IsNth(m, n)
    BY <1>3, <2>1 DEF LinkInv, NetInv
  <2>3. IsNth(m, n)'
    BY <2>2, SenderKeeps
  <2>4. QED
    BY <2>3
<1>4. QED
  BY <1>2, <1>3 DEF NetInv

(* Push keeps what the peer has written, in its place.                     *)
LEMMA HandlePacketStep ==
  ASSUME LinkInv, ShortStream, HandlePacket
  PROVE  LinkInv'
<1>1. PICK m \in net : m.type = "data" /\ recv!Push([seq |-> m.seq, tsbpd |-> m.ts + Latency])
  BY DEF HandlePacket
<1>2. net' = net \cup onSendControl(rcvOutbox') /\ UNCHANGED <<sndVars, writtenAt, givenUp>>
  BY DEF HandlePacket
<1>3. PICK n \in 1..Len(writtenAt) : m.seq = Nth(n) /\ m.ts = writtenAt[n]
  BY <1>1 DEF LinkInv, NetInv, IsNth
<1>4. PICK pkt : pkt = [seq |-> m.seq, tsbpd |-> m.ts + Latency]
  BY Zenon
<1>5. pkt = Due(n) /\ pkt.seq = Nth(n)
  BY <1>3, <1>4 DEF Due
<1>6. Nth(n) \in Number /\ Idx(Nth(n)) = n /\ n \in Nat /\ n < threshold
  BY Places, NthIdx, StreamFits
<1>7. pkt \in recv!Packet
  <2>1. writtenAt[n] \in Nat
    BY DEF LinkInv, WrittenInv
  <2>2. m.ts + Latency \in Nat
    BY <1>3, <2>1, LinkAssumption
  <2>3. m.seq \in recv!Number
    BY <1>3, <1>6, SameCircle
  <2>4. QED
    BY <1>4, <2>2, <2>3 DEF recv!Packet
<1>8. recv!Push(pkt)
  BY <1>1, <1>4
<1>9. UNCHANGED <<lastACK, lastDelivered, delivered, rcvNow, unsent>>
  BY <1>8 DEF recv!Push, recv!tickVars
<1>10. UNCHANGED <<sndVars, writtenAt, lastACK, lastDelivered>>
  BY <1>2, <1>9
<1>11. ASSUME UNCHANGED <<maxSeen, rcvPacketList>>
       PROVE  NumbersInv' /\ BufferInv'
  <2>1. NumbersInv'
    BY <1>10, <1>11 DEF LinkInv, NumbersInv, Idx, Base
  <2>2. \A l : Due(l)' = Due(l)
    BY <1>2, SenderKeeps, Zenon
  <2>3. BufferInv'
    BY <1>10, <1>11, <2>2, Zenon DEF LinkInv, BufferInv, Idx, Base
  <2>4. QED
    BY <2>1, <2>3
<1>12. NumbersInv' /\ BufferInv' /\ \A c \in rcvOutbox' : c.type = "NAK"
  <2>1. CASE recv!PushBelated(pkt) \/ recv!PushAcknowledged(pkt) \/ recv!PushDuplicate(pkt)
             \/ recv!PushNowhere(pkt)
    <3>1. UNCHANGED <<maxSeen, rcvPacketList>> /\ rcvOutbox' = {}
      BY <2>1 DEF recv!PushBelated, recv!PushAcknowledged, recv!PushDuplicate, recv!PushNowhere
    <3>2. QED
      BY <1>11, <3>1, Zenon
  <2>2. CASE recv!PushInOrder(pkt)
    <3>1. /\ pkt.seq = Inc(maxSeen) /\ maxSeen' = pkt.seq /\ rcvOutbox' = {}
          /\ rcvPacketList' = Append(rcvPacketList, pkt)
      BY <2>2, SameCircle, Zenon DEF recv!PushInOrder
    <3>2. n = Idx(maxSeen) + 1
      BY <1>5, <1>6, <3>1, IdxInc, Places, StreamFits
    <3>3. n > Idx(maxSeen)
      BY <3>2, Places
    <3>4. maxSeen' = pkt.seq /\ rcvPacketList' = Append(rcvPacketList, pkt)
      BY <3>1, Zenon
    <3>5. NumbersInv' /\ BufferInv'
      BY <1>5, <1>7, <1>10, <3>3, <3>4, PushBehind, Zenon
    <3>6. QED
      BY <3>1, <3>5
  <2>3. CASE recv!PushAhead(pkt)
    <3>1. /\ ~Lte(pkt.seq, maxSeen) /\ maxSeen' = pkt.seq
          /\ \E list : rcvOutbox' = {[type |-> "NAK", list |-> list]}
          /\ rcvPacketList' = Append(rcvPacketList, pkt)
      BY <2>3, SameCircle, Zenon DEF recv!PushAhead
    <3>2. n > Idx(maxSeen)
      BY <1>5, <1>6, <3>1, IdxOrder, Places
    <3>3. NumbersInv' /\ BufferInv'
      BY <1>5, <1>7, <1>10, <3>1, <3>2, PushBehind, Zenon
    <3>4. QED
      BY <3>1, <3>3
  <2>4. CASE recv!PushLate(pkt)
    <3>1. NumbersInv' /\ BufferInv'
      BY <1>5, <1>7, <1>10, <2>4, PushLateStep, Zenon
    <3>2. rcvOutbox' = {}
      BY <2>4 DEF recv!PushLate
    <3>3. QED
      BY <3>1, <3>2
  <2>5. QED
    BY <1>8, <2>1, <2>2, <2>3, <2>4, Zenon DEF recv!Push
<1>13. NetInv'
  <2>1. \A c : IsCovered(c) => IsCovered(c)'
    BY <1>9 DEF IsCovered, Idx, Base
  <2>2. \A c \in rcvOutbox' : IsCovered(c)'
    BY <1>12 DEF IsCovered
  <2>3. \A c \in unsent' : IsCovered(c)'
    BY <1>9, <2>1 DEF LinkInv, NetInv
  <2>4. QED
    BY <1>2, <2>1, <2>2, <2>3, ControlCovered, Zenon
<1>14. DeliveredInv'
  BY <1>9 DEF LinkInv, DeliveredInv, Idx, Base
<1>15. WrittenInv' /\ SenderInv' /\ Sent' = Sent /\ lossList' = lossList
  BY <1>2, SenderKeeps
<1>16. NoPrematureRelease'
  BY <1>2, <1>9, <1>15, Zenon DEF LinkInv, NoPrematureRelease, Acknowledged
<1>17. QED
  BY <1>12, <1>13, <1>14, <1>15, <1>16, Zenon DEF LinkInv

-----------------------------------------------------------------------------
(* The receiver's ticker.                                                  *)

(* The scan for the ACK goes forward, and not beyond maxSeen.              *)
LEMMA ScanPlace ==
  ASSUME LinkInv, ShortStream, NEW k \in 0..Len(rcvPacketList)
  PROVE  /\ recv!AckAfter(k) \in Number
         /\ Idx(recv!AckAfter(k)) \in Idx(lastACK)..Idx(maxSeen)
<1>1. CASE recv!AckAfter(k) = lastACK
  BY <1>1, Places
<1>2. CASE recv!AckAfter(k) # lastACK
  <2>1. k # 0 /\ ~recv!Lte(rcvPacketList[k].seq, lastACK)
        /\ recv!AckAfter(k) = rcvPacketList[k].seq
    BY <1>2 DEF recv!AckAfter
  <2>2. k \in 1..Len(rcvPacketList)
    BY <2>1, Places
  <2>3. /\ rcvPacketList[k].seq \in Number /\ Idx(rcvPacketList[k].seq) \in Nat
        /\ Idx(rcvPacketList[k].seq) < threshold
    BY <2>2, Places, Zenon
  <2>4. Idx(rcvPacketList[k].seq) > Idx(lastACK)
    BY <2>1, <2>3, IdxOrder, SameCircle, Places
  <2>5. Idx(rcvPacketList[k].seq) \in (Idx(lastDelivered) + 1)..Idx(maxSeen)
    BY <2>2 DEF LinkInv, BufferInv
  <2>6. QED
    BY <2>1, <2>3, <2>4, <2>5, Places
<1>3. QED
  BY <1>1, <1>2, Zenon

(* periodicACK acknowledges more, and says no more than that.              *)
LEMMA TickACKStep ==
  ASSUME LinkInv, ShortStream, UNCHANGED <<sndVars, writtenAt, givenUp>>,
         net' = net \cup onSendControl(rcvOutbox'), NEW t \in Nat, recv!TickACK(t)
  PROVE  LinkInv'
<1>1. PICK k \in 0..Len(rcvPacketList) :
        /\ lastACK' = recv!AckAfter(k)
        /\ unsent' = {[type |-> "ACK", seq |-> recv!Inc(recv!AckAfter(k)),
                       lite |-> ~recv!ACKDue(t)]}
  BY Zenon DEF recv!TickACK
<1>2. /\ UNCHANGED <<maxSeen, lastDelivered, rcvPacketList, delivered>>
      /\ rcvNow' = t /\ rcvOutbox' = {}
  BY DEF recv!TickACK
<1>3. /\ lastACK' \in Number /\ Idx(lastACK') \in Idx(lastACK)..Idx(maxSeen)
      /\ Idx(lastACK') \in Nat /\ Idx(lastACK') < threshold
  <2>1. lastACK' \in Number /\ Idx(lastACK') \in Idx(lastACK)..Idx(maxSeen)
    BY <1>1, ScanPlace
  <2>2. Idx(lastACK') \in Nat
    BY <2>1, IdxNat, Zenon
  <2>3. Idx(lastACK') < threshold
    BY <2>1, <2>2, Places, ThresholdIsHalf
  <2>4. QED
    BY <2>1, <2>2, <2>3, Zenon
<1>4. /\ Idx(lastACK)' = Idx(lastACK') /\ Idx(maxSeen)' = Idx(maxSeen)
      /\ Idx(lastDelivered)' = Idx(lastDelivered)
  BY <1>2, Zenon DEF Idx, Base
<1>5. NumbersInv'
  BY <1>2, <1>3, <1>4, Places DEF LinkInv, NumbersInv
<1>6. BufferInv'
  <2>1. \A l : Due(l)' = Due(l)
    BY SenderKeeps
  <2>2. QED
    BY <1>2, <2>1 DEF LinkInv, BufferInv, Idx, Base
<1>7. DeliveredInv'
  BY <1>2 DEF LinkInv, DeliveredInv, Idx, Base
<1>8. NetInv'
  <2>1. ASSUME NEW m, IsCovered(m)
        PROVE  IsCovered(m)'
    <3>1. CASE m.type = "ACK"
      <4>1. m.seq \in Number /\ Idx(m.seq) \in 1..(Idx(lastACK) + 1)
        BY <2>1, <3>1, Zenon DEF IsCovered
      <4>2. Idx(m.seq) \in 1..(Idx(lastACK') + 1)
        BY <1>3, <4>1, Places
      <4>3. QED
        BY <4>1, <4>2 DEF IsCovered, Idx, Base
    <3>2. QED
      BY <3>1 DEF IsCovered
  <2>2. \A m \in unsent' : m.seq = Inc(lastACK')
    BY <1>1, SameCircle
  <2>3. Inc(lastACK') \in Number /\ Idx(Inc(lastACK')) = Idx(lastACK') + 1
    BY <1>3, IdxInc, StreamFits
  <2>4. \A m \in unsent' : IsCovered(m)'
    BY <1>3, <2>2, <2>3 DEF IsCovered, Idx, Base
  <2>5. \A m \in rcvOutbox' : IsCovered(m)'
    BY <1>2
  <2>6. QED
    BY <2>1, <2>4, <2>5, ControlCovered, Zenon
<1>9. WrittenInv' /\ SenderInv' /\ Sent' = Sent /\ lossList' = lossList
  BY SenderKeeps
<1>10. Acknowledged \subseteq Acknowledged'
  <2>1. Acknowledged = {Nth(i) : i \in 1..Idx(lastACK)}
    BY AcknowledgedByPlace, Places, StreamFits
  <2>2. Acknowledged' = {Nth(i) : i \in 1..Idx(lastACK')}
    <3>1. Acknowledged' = Numbers(Fwd(InitialSequenceNumber, Inc(lastACK')))
      BY DEF Acknowledged, Numbers
    <3>2. Fwd(InitialSequenceNumber, Inc(lastACK')) = Idx(lastACK')
      <4>1. Inc(lastACK') \in Number /\ Idx(Inc(lastACK')) = Idx(lastACK') + 1
        BY <1>3, IdxInc, StreamFits
      <4>2. Idx(Inc(lastACK')) = Fwd(InitialSequenceNumber, Inc(lastACK')) + 1
        BY <1>3, <4>1, IdxNth
      <4>3. Fwd(InitialSequenceNumber, Inc(lastACK')) \in 0..MAX /\ MAX \in Nat
        <5>1. InitialSequenceNumber \in Number /\ MAX \in Nat
          BY StreamFits
        <5>2. Inc(lastACK') \in Number
          BY <4>1
        <5>3. QED
          BY <5>1, <5>2, OnCircle, Zenon
      <4>4. Idx(lastACK') \in Nat
        BY <1>3
      <4>5. QED
        BY <4>1, <4>2, <4>3, <4>4
    <3>3. Idx(lastACK') \in 0..MAX
      BY <1>3, IdxNat, Zenon
    <3>4. QED
      BY <3>1, <3>2, <3>3, NumbersByPlace, Zenon
  <2>3. 1..Idx(lastACK) \subseteq 1..Idx(lastACK')
    BY <1>3, Places
  <2>4. QED
    BY <2>1, <2>2, <2>3, Zenon
<1>11. NoPrematureRelease'
  BY <1>9, <1>10, Zenon DEF LinkInv, NoPrematureRelease
<1>12. QED
  BY <1>5, <1>6, <1>7, <1>8, <1>9, <1>11, Zenon DEF LinkInv

(* Tick hands over the packets in the order of their places.               *)
LEMMA TickDeliverStep ==
  ASSUME LinkInv, ShortStream, UNCHANGED <<sndVars, writtenAt, givenUp>>,
         net' = net \cup onSendControl(rcvOutbox'), recv!TickDeliver
  PROVE  LinkInv'
<1>1. /\ rcvPacketList # <<>> /\ delivered' = Append(delivered, Head(rcvPacketList))
      /\ lastDelivered' = Head(rcvPacketList).seq /\ rcvPacketList' = Tail(rcvPacketList)
      /\ rcvOutbox' = {} /\ UNCHANGED <<maxSeen, lastACK, rcvNow, unsent>>
  BY DEF recv!TickDeliver
<1>2. rcvPacketList \in Seq(recv!Packet) /\ Len(rcvPacketList) \in Nat
  BY Places, Zenon
<1>3. /\ 1 \in 1..Len(rcvPacketList) /\ Head(rcvPacketList) = rcvPacketList[1]
      /\ rcvPacketList' \in Seq(recv!Packet)
      /\ Len(rcvPacketList') = Len(rcvPacketList) - 1
      /\ \A i \in 1..Len(rcvPacketList') :
            i + 1 \in 1..Len(rcvPacketList) /\ rcvPacketList'[i] = rcvPacketList[i + 1]
  BY <1>1, <1>2
<1>4. /\ lastDelivered' \in Number /\ lastDelivered' = rcvPacketList[1].seq
      /\ Idx(lastDelivered') \in Nat
      /\ Idx(lastDelivered') \in (Idx(lastDelivered) + 1)..Idx(maxSeen)
  <2>1. lastDelivered' = rcvPacketList[1].seq
    BY <1>1, <1>3, Zenon
  <2>2. rcvPacketList[1].seq \in Number /\ Idx(rcvPacketList[1].seq) \in Nat
    BY <1>3, Places, Zenon
  <2>3. Idx(rcvPacketList[1].seq) \in (Idx(lastDelivered) + 1)..Idx(maxSeen)
    BY <1>3, Zenon DEF LinkInv, BufferInv
  <2>4. QED
    BY <2>1, <2>2, <2>3, Zenon
<1>5. /\ Idx(lastDelivered)' = Idx(lastDelivered') /\ Idx(maxSeen)' = Idx(maxSeen)
      /\ Idx(lastACK)' = Idx(lastACK)
      /\ \A i : Idx(rcvPacketList[i].seq)' = Idx(rcvPacketList'[i].seq)
      /\ \A i : Idx(delivered[i].seq)' = Idx(delivered'[i].seq)
      /\ \A l : Due(l)' = Due(l)
  BY <1>1, SenderKeeps, Zenon DEF Idx, Base
<1>6. NumbersInv'
  BY <1>1, <1>4, <1>5, Places DEF LinkInv, NumbersInv
<1>7. BufferInv'
  <2>1. ASSUME NEW i \in 1..Len(rcvPacketList')
        PROVE  /\ \E l \in 1..Len(writtenAt) : rcvPacketList'[i] = Due(l)
               /\ Idx(rcvPacketList'[i].seq) \in (Idx(lastDelivered') + 1)..Idx(maxSeen)
    <3>1. i + 1 \in 1..Len(rcvPacketList) /\ rcvPacketList'[i] = rcvPacketList[i + 1]
      BY <1>3, Zenon
    <3>2. /\ \E l \in 1..Len(writtenAt) : rcvPacketList[i + 1] = Due(l)
          /\ Idx(rcvPacketList[i + 1].seq) \in (Idx(lastDelivered) + 1)..Idx(maxSeen)
          /\ 1 < i + 1 => Idx(rcvPacketList[1].seq) < Idx(rcvPacketList[i + 1].seq)
      BY <1>3, <3>1, Zenon DEF LinkInv, BufferInv
    <3>3. Idx(rcvPacketList[i + 1].seq) \in Nat
      BY <3>1, Places, Zenon
    <3>4. 1 < i + 1
      BY <1>2, <1>3
    <3>5. Idx(rcvPacketList[1].seq) = Idx(lastDelivered')
      BY <1>4, Zenon
    <3>6. Idx(rcvPacketList[i + 1].seq) \in (Idx(lastDelivered') + 1)..Idx(maxSeen)
      BY <1>4, <3>2, <3>3, <3>4, <3>5
    <3>7. QED
      BY <3>1, <3>2, <3>6, Zenon
  <2>2. ASSUME NEW i \in 1..Len(rcvPacketList'), NEW j \in 1..Len(rcvPacketList'), i < j
        PROVE  Idx(rcvPacketList'[i].seq) < Idx(rcvPacketList'[j].seq)
    <3>1. /\ i + 1 \in 1..Len(rcvPacketList) /\ rcvPacketList'[i] = rcvPacketList[i + 1]
          /\ j + 1 \in 1..Len(rcvPacketList) /\ rcvPacketList'[j] = rcvPacketList[j + 1]
      BY <1>3, Zenon
    <3>2. i + 1 < j + 1
      BY <1>2, <1>3, <2>2
    <3>3. Idx(rcvPacketList[i + 1].seq) < Idx(rcvPacketList[j + 1].seq)
      BY <3>1, <3>2, Zenon DEF LinkInv, BufferInv
    <3>4. QED
      BY <3>1, <3>3, Zenon
  <2>3. \A i \in 1..Len(rcvPacketList') :
          /\ (\E l \in 1..Len(writtenAt) : rcvPacketList[i] = Due(l))'
          /\ (Idx(rcvPacketList[i].seq) \in (Idx(lastDelivered) + 1)..Idx(maxSeen))'
    BY <1>5, <2>1, Zenon
  <2>4. \A i, j \in 1..Len(rcvPacketList') :
          i < j => Idx(rcvPacketList[i].seq)' < Idx(rcvPacketList[j].seq)'
    BY <1>5, <2>2, Zenon
  <2>5. QED
    BY <1>3, <2>3, <2>4, Zenon DEF BufferInv
<1>8. DeliveredInv'
  <2>1. delivered \in Seq(recv!Packet) /\ rcvNow \in Nat
    BY Zenon DEF LinkInv, DeliveredInv
  <2>2. Head(rcvPacketList) \in recv!Packet
    BY <1>2, <1>3
  <2>3. /\ delivered' \in Seq(recv!Packet) /\ Len(delivered') = Len(delivered) + 1
        /\ Len(delivered) \in Nat
        /\ delivered'[Len(delivered) + 1] = Head(rcvPacketList)
        /\ \A i \in 1..Len(delivered) : delivered'[i] = delivered[i]
    BY <1>1, <2>1, <2>2
  <2>4. ASSUME NEW i \in 1..Len(delivered')
        PROVE  Idx(delivered'[i].seq) \in 1..Idx(lastDelivered')
    <3>1. CASE i \in 1..Len(delivered)
      <4>1. delivered'[i] = delivered[i] /\ delivered[i] \in recv!Packet
        BY <2>1, <2>3, <3>1
      <4>2. delivered[i].seq \in Number
        BY <4>1, SameCircle, Zenon DEF recv!Packet
      <4>3. Idx(delivered[i].seq) \in Nat
        BY <4>2, IdxNat, Zenon
      <4>4. Idx(delivered[i].seq) \in 1..Idx(lastDelivered)
        BY <3>1, Zenon DEF LinkInv, DeliveredInv
      <4>5. QED
        BY <1>4, <4>1, <4>3, <4>4, Places
    <3>2. CASE i = Len(delivered) + 1
      <4>1. delivered'[i].seq = lastDelivered'
        BY <1>1, <2>3, <3>2, Zenon
      <4>2. QED
        BY <1>4, <4>1, Places
    <3>3. QED
      BY <2>3, <3>1, <3>2
  <2>5. QED
    BY <1>1, <1>5, <2>1, <2>3, <2>4, Zenon DEF DeliveredInv
<1>9. NetInv'
  <2>1. \A m : IsCovered(m) => IsCovered(m)'
    BY <1>1 DEF IsCovered, Idx, Base
  <2>2. \A m \in unsent' : IsCovered(m)'
    BY <1>1, <2>1, Zenon DEF LinkInv, NetInv
  <2>3. \A m \in rcvOutbox' : IsCovered(m)'
    BY <1>1
  <2>4. QED
    BY <2>1, <2>2, <2>3, ControlCovered, Zenon
<1>10. WrittenInv' /\ SenderInv' /\ Sent' = Sent /\ lossList' = lossList
  BY SenderKeeps, Zenon
<1>11. NoPrematureRelease'
  BY <1>1, <1>10 DEF LinkInv, NoPrematureRelease, Acknowledged
<1>12. QED
  BY <1>6, <1>7, <1>8, <1>9, <1>10, <1>11, Zenon DEF LinkInv

(* The other sections of Tick leave the buffer and the numbers alone.      *)
LEMMA TickRestStep ==
  ASSUME LinkInv, ShortStream, UNCHANGED <<sndVars, writtenAt, givenUp>>,
         net' = net \cup onSendControl(rcvOutbox'),
         UNCHANGED <<maxSeen, lastACK, lastDelivered, rcvPacketList, delivered>>,
         rcvNow' \in Nat,
         \A m \in rcvOutbox' : m.type = "NAK" \/ m \in unsent,
         \A m \in unsent' : m.type = "NAK" \/ m \in unsent
  PROVE  LinkInv'
<1>1. NumbersInv'
  BY Zenon DEF LinkInv, NumbersInv, Idx, Base
<1>2. BufferInv'
  <2>1. \A l : Due(l)' = Due(l)
    BY SenderKeeps
  <2>2. QED
    BY <2>1 DEF LinkInv, BufferInv, Idx, Base
<1>3. DeliveredInv'
  BY Zenon DEF LinkInv, DeliveredInv, Idx, Base
<1>4. \A m : IsCovered(m) => IsCovered(m)'
  BY DEF IsCovered, Idx, Base
<1>5. \A m : m.type = "NAK" \/ m \in unsent => IsCovered(m)'
  <2>1. \A m : m.type = "NAK" => IsCovered(m)'
    BY DEF IsCovered
  <2>2. \A m \in unsent : IsCovered(m)'
    BY <1>4 DEF LinkInv, NetInv
  <2>3. QED
    BY <2>1, <2>2, Zenon
<1>6. NetInv'
  <2>1. \A m \in rcvOutbox' : IsCovered(m)'
    BY <1>5
  <2>2. \A m \in unsent' : IsCovered(m)'
    BY <1>5
  <2>3. QED
    BY <1>4, <2>1, <2>2, ControlCovered, Zenon
<1>7. WrittenInv' /\ SenderInv' /\ Sent' = Sent /\ lossList' = lossList
  BY SenderKeeps
<1>8. NoPrematureRelease'
  BY <1>7 DEF LinkInv, NoPrematureRelease, Acknowledged
<1>9. QED
  BY <1>1, <1>2, <1>3, <1>6, <1>7, <1>8, Zenon DEF LinkInv

(* The receiver's ticker waits for a later time.                           *)
LEMMA LaterTimes ==
  ASSUME LinkInv, NEW t \in recv!Later
  PROVE  t \in Nat /\ (t > rcvNow \/ t = rcvNow)
<1>1. rcvNow \in Nat /\ ReceiveMaxTime \in Nat
  BY LinkAssumption DEF LinkInv, DeliveredInv
<1>2. QED
  BY <1>1 DEF recv!Later

LEMMA ReceiveTickStep ==
  ASSUME LinkInv, ShortStream, ReceiveTick
  PROVE  LinkInv'
<1>1. /\ recv!Tick /\ net' = net \cup onSendControl(rcvOutbox')
      /\ UNCHANGED <<sndVars, writtenAt, givenUp>>
  BY DEF ReceiveTick
<1>2. rcvNow \in Nat
  BY DEF LinkInv, DeliveredInv
<1>3. ASSUME NEW t \in recv!Later, recv!TickNoACK(t)
      PROVE  LinkInv'
  <2>1. /\ UNCHANGED <<maxSeen, lastACK, lastDelivered, rcvPacketList, delivered, unsent>>
        /\ rcvOutbox' = {} /\ rcvNow' = t
    BY <1>3 DEF recv!TickNoACK, recv!seqVars
  <2>2. rcvNow' \in Nat
    BY <2>1, LaterTimes, Zenon
  <2>3. QED
    BY <1>1, <2>1, <2>2, TickRestStep, Zenon
<1>4. ASSUME NEW t \in recv!Later, recv!TickACK(t)
      PROVE  LinkInv'
  BY <1>1, <1>4, LaterTimes, TickACKStep, Zenon
<1>5. CASE recv!TickNoNAK
  <2>1. /\ UNCHANGED <<maxSeen, lastACK, lastDelivered, rcvPacketList, delivered, unsent>>
        /\ rcvOutbox' = {} /\ rcvNow' = rcvNow
    BY <1>5, Zenon DEF recv!TickNoNAK, recv!seqVars
  <2>2. QED
    BY <1>1, <1>2, <2>1, TickRestStep, Zenon
<1>6. CASE recv!TickNAK
  <2>1. /\ UNCHANGED <<maxSeen, lastACK, lastDelivered, rcvPacketList, delivered>>
        /\ rcvOutbox' = {} /\ rcvNow' = rcvNow
    BY <1>6, Zenon DEF recv!TickNAK, recv!seqVars
  <2>2. \A m \in unsent' : m.type = "NAK" \/ m \in unsent
    BY <1>6 DEF recv!TickNAK
  <2>3. QED
    BY <1>1, <1>2, <2>1, <2>2, TickRestStep, Zenon
<1>7. CASE recv!TickSend
  <2>1. /\ UNCHANGED <<maxSeen, lastACK, lastDelivered, rcvPacketList, delivered>>
        /\ rcvOutbox' = unsent /\ unsent' = {} /\ rcvNow' = rcvNow
    BY <1>7 DEF recv!TickSend, recv!seqVars
  <2>2. QED
    BY <1>1, <1>2, <2>1, TickRestStep, Zenon
<1>8. CASE recv!TickDeliver
  BY <1>1, <1>8, TickDeliverStep, Zenon
<1>9. CASE recv!TickDone
  <2>1. /\ UNCHANGED <<maxSeen, lastACK, lastDelivered, rcvPacketList, delivered, unsent>>
        /\ rcvOutbox' = {} /\ rcvNow' = rcvNow
    BY <1>9 DEF recv!TickDone, recv!seqVars
  <2>2. QED
    BY <1>1, <1>2, <2>1, TickRestStep, Zenon
<1>10. QED
  BY <1>1, <1>3, <1>4, <1>5, <1>6, <1>7, <1>8, <1>9, Zenon DEF recv!Tick

-----------------------------------------------------------------------------
(* The invariant.                                                          *)

LEMMA LinkInit ==
  ASSUME Init, ShortStream
  PROVE  LinkInv
<1>1. /\ nextSequenceNumber = InitialSequenceNumber
      /\ sndPacketList = <<>> /\ lossList = <<>> /\ probeTime = 0 /\ written = 0
      /\ sndStatistics = [c \in snd!Counters |-> 0]
  BY DEF Init, snd!Init
<1>2. /\ maxSeen = recv!Dec(InitialSequenceNumber)
      /\ lastACK = recv!Dec(InitialSequenceNumber)
      /\ lastDelivered = recv!Dec(InitialSequenceNumber)
      /\ rcvPacketList = <<>> /\ rcvNow = 0 /\ unsent = {} /\ delivered = <<>>
  BY DEF Init, recv!Init
<1>3. net = {} /\ writtenAt = <<>> /\ givenUp = {}
  BY DEF Init
<1>4. maxSeen = Base /\ lastACK = Base /\ lastDelivered = Base
  BY <1>2 DEF Base, Dec, recv!Dec
<1>5. Base \in Number /\ InitialSequenceNumber \in Number /\ MaxPush \in Nat
  BY StreamFits
<1>6. Idx(Base) = 0
  <2>1. \A a, b \in Number : Fwd(a, b) = 0 <=> a = b
    BY OnCircle
  <2>2. QED
    BY <1>5, <2>1, Zenon DEF Idx
<1>7. "PktUnique" \in DOMAIN sndStatistics /\ Unique = 0
  BY <1>1 DEF Unique, snd!Counters
<1>8. WrittenInv
  <2>1. Nth(1) = InitialSequenceNumber
    BY <1>5, MaxAssumption DEF Nth, Add, Number
  <2>2. Len(writtenAt) = 0 /\ Len(sndPacketList) = 0 /\ writtenAt \in Seq(Nat)
    BY <1>1, <1>3
  <2>3. nextSequenceNumber = Nth(Len(writtenAt) + 1)
    BY <1>1, <2>1, <2>2
  <2>4. QED
    BY <1>1, <1>5, <1>7, <2>2, <2>3 DEF WrittenInv
<1>9. SenderInv
  BY <1>1 DEF SenderInv
<1>10. NetInv
  BY <1>2, <1>3 DEF NetInv
<1>11. NumbersInv
  BY <1>3, <1>4, <1>5, <1>6 DEF NumbersInv
<1>12. BufferInv /\ DeliveredInv
  BY <1>2 DEF BufferInv, DeliveredInv
<1>13. NoPrematureRelease
  <2>1. Sent = {}
    BY <1>7 DEF Sent, Numbers, Unique
  <2>2. QED
    BY <2>1 DEF NoPrematureRelease
<1>14. QED
  BY <1>8, <1>9, <1>10, <1>11, <1>12, <1>13, Zenon DEF LinkInv

LEMMA LinkStep ==
  ASSUME LinkInv, ShortStream, [Next]_vars
  PROVE  LinkInv'
<1>1. CASE Write
  BY <1>1, WriteStep
<1>2. CASE SendTick
  BY <1>2, SendTickStep, Zenon
<1>3. CASE HandleACK
  BY <1>3, HandleACKStep
<1>4. CASE HandleNAK
  BY <1>4, HandleNAKStep
<1>5. CASE HandlePacket
  BY <1>5, HandlePacketStep
<1>6. CASE ReceiveTick
  BY <1>6, ReceiveTickStep
<1>7. CASE UNCHANGED vars
  <2>1. UNCHANGED <<sndVars, rcvVars, net, writtenAt, givenUp>>
    BY <1>7 DEF vars
  <2>2. UNCHANGED <<maxSeen, lastACK, lastDelivered, rcvPacketList, delivered, rcvNow, unsent>>
    BY <2>1 DEF rcvVars
  <2>3. NumbersInv' /\ BufferInv' /\ DeliveredInv' /\ Acknowledged' = Acknowledged
    BY <2>1, ReceiverKeeps, Zenon
  <2>4. WrittenInv' /\ SenderInv' /\ Sent' = Sent /\ lossList' = lossList
    BY <2>1, SenderKeeps, Zenon
  <2>5. NetInv'
    BY <2>1, <2>2, SenderKeeps, Zenon DEF LinkInv, NetInv, IsCovered, Idx, Base
  <2>6. NoPrematureRelease'
    BY <2>1, <2>3, <2>4, Zenon DEF LinkInv, NoPrematureRelease
  <2>7. QED
    BY <2>3, <2>4, <2>5, <2>6, Zenon DEF LinkInv
<1>8. QED
  BY <1>1, <1>2, <1>3, <1>4, <1>5, <1>6, <1>7, Zenon DEF Next

LEMMA LinkInvariant ==
  ASSUME ShortStream
  PROVE  Spec => []LinkInv
<1>1. Init => LinkInv
  BY LinkInit
<1>2. LinkInv /\ [Next]_vars => LinkInv'
  BY LinkStep
<1>3. QED
  BY <1>1, <1>2, PTL DEF Spec

(* Whatever ACKs are lost, repeated or overtake each other, ACK and the    *)
(* drop loop of Tick (send.go) release no packet that the receiver has not *)
(* acknowledged and that is not too late.                                  *)
THEOREM NothingIsReleasedEarly ==
  ASSUME ShortStream
  PROVE  Spec => []NoPrematureRelease
<1>1. LinkInv => NoPrematureRelease
  BY DEF LinkInv
<1>2. QED
  BY <1>1, LinkInvariant, PTL

-----------------------------------------------------------------------------
(* The refinement.                                                         *)

(* The abstract channel counts on the same circle.                         *)
LEMMA ChannelCircle ==
  /\ \A a, n : channel!Add(a, n) = Add(a, n)
  /\ \A a, b : channel!Fwd(a, b) = Fwd(a, b)
BY DEF Add, Fwd, channel!Add, channel!Fwd

(* What Tick hands over is the next packet the channel lets be read.       *)
LEMMA DeliverReads ==
  ASSUME LinkInv, ShortStream, UNCHANGED writtenAt, recv!TickDeliver
  PROVE  \E n \in 1..Len(writtenAt) : channel!Read(n)
<1>1. /\ rcvPacketList # <<>> /\ delivered' = Append(delivered, Head(rcvPacketList))
      /\ Head(rcvPacketList).tsbpd <= rcvNow /\ rcvNow' = rcvNow
  BY DEF recv!TickDeliver, recv!Ripe
<1>2. 1 \in 1..Len(rcvPacketList) /\ Head(rcvPacketList) = rcvPacketList[1]
  BY <1>1, Places
<1>3. PICK n \in 1..Len(writtenAt) : rcvPacketList[1] = Due(n)
  BY <1>2 DEF LinkInv, BufferInv
<1>4. Idx(rcvPacketList[1].seq) \in (Idx(lastDelivered) + 1)..Idx(maxSeen)
  BY <1>2, Zenon DEF LinkInv, BufferInv
<1>5. rcvPacketList[1].seq = Nth(n) /\ rcvPacketList[1].tsbpd = writtenAt[n] + Latency
  BY <1>3 DEF Due
<1>6. n \in Nat /\ Idx(Nth(n)) = n
  BY Places, NthIdx, StreamFits
<1>7. Idx(lastDelivered) < n
  BY <1>4, <1>5, <1>6, Places
<1>8. ASSUME NEW i \in 1..Len(delivered)
      PROVE  channel!Place(delivered[i].seq) < n
  <2>1. delivered[i] \in recv!Packet
    BY DEF LinkInv, DeliveredInv
  <2>2. delivered[i].seq \in Number
    BY <2>1, SameCircle, Zenon DEF recv!Packet
  <2>3. Idx(delivered[i].seq) \in 1..Idx(lastDelivered)
    BY Zenon DEF LinkInv, DeliveredInv
  <2>4. Idx(delivered[i].seq) \in Nat /\ Idx(delivered[i].seq) >= 1
    BY <2>2, <2>3, IdxNat, Places
  <2>5. Idx(delivered[i].seq) = Fwd(InitialSequenceNumber, delivered[i].seq) + 1
    BY <2>2, <2>4, IdxNth, Zenon
  <2>6. channel!Place(delivered[i].seq) = Idx(delivered[i].seq)
    BY <2>5, ChannelCircle, Zenon DEF channel!Place
  <2>7. QED
    BY <1>6, <1>7, <2>3, <2>4, <2>6, Places
<1>9. writtenAt[n] + Latency <= rcvNow
  BY <1>1, <1>2, <1>5, Zenon
<1>10. delivered' = Append(delivered, [seq   |-> channel!Add(InitialSequenceNumber, n - 1),
                                       tsbpd |-> writtenAt[n] + Latency])
  <2>1. Due(n) = [seq   |-> channel!Add(InitialSequenceNumber, n - 1),
                  tsbpd |-> writtenAt[n] + Latency]
    BY ChannelCircle, Zenon DEF Due, Nth
  <2>2. QED
    BY <1>1, <1>2, <1>3, <2>1, Zenon
<1>11. channel!Read(n)
  BY <1>1, <1>8, <1>9, <1>10, Zenon DEF channel!Read
<1>12. QED
  BY <1>11

LEMMA LinkRefines ==
  ASSUME LinkInv, ShortStream, [Next]_vars
  PROVE  [channel!Next]_<<writtenAt, delivered, rcvNow>>
<1>1. CASE Write
  <2>1. PICK t \in written..LastWrite : written' = t
    BY <1>1, Zenon DEF Write, snd!Write, snd!Push
  <2>2. t \in 0..LastWrite
    BY <2>1, LinkAssumption DEF LinkInv, WrittenInv
  <2>3. writtenAt' = Append(writtenAt, t) /\ UNCHANGED <<delivered, rcvNow>>
    BY <1>1, <2>1, Zenon DEF Write, rcvVars
  <2>4. QED
    BY <2>2, <2>3, Zenon DEF channel!Next, channel!Write
<1>2. CASE SendTick \/ HandleACK \/ HandleNAK
  BY <1>2, Zenon DEF SendTick, HandleACK, HandleNAK, rcvVars
<1>3. CASE HandlePacket
  BY <1>3 DEF HandlePacket, recv!Push, recv!tickVars
<1>4. CASE ReceiveTick
  <2>1. recv!Tick /\ UNCHANGED writtenAt
    BY <1>4 DEF ReceiveTick
  <2>2. ASSUME NEW t \in recv!Later, recv!TickNoACK(t) \/ recv!TickACK(t)
        PROVE  [channel!Next]_<<writtenAt, delivered, rcvNow>>
    <3>1. rcvNow' = t /\ UNCHANGED delivered
      BY <2>2 DEF recv!TickNoACK, recv!TickACK
    <3>2. t > rcvNow \/ t = rcvNow
      BY LaterTimes, Zenon
    <3>3. QED
      BY <2>1, <3>1, <3>2, Zenon DEF channel!Next, channel!TimePasses
  <2>3. CASE recv!TickNoNAK \/ recv!TickNAK \/ recv!TickSend \/ recv!TickDone
    BY <2>1, <2>3, Zenon DEF recv!TickNoNAK, recv!TickNAK, recv!TickSend, recv!TickDone
  <2>4. CASE recv!TickDeliver
    BY <2>1, <2>4, DeliverReads, Zenon DEF channel!Next
  <2>5. QED
    BY <2>1, <2>2, <2>3, <2>4, Zenon DEF recv!Tick
<1>5. CASE UNCHANGED vars
  BY <1>5 DEF vars, rcvVars
<1>6. QED
  BY <1>1, <1>2, <1>3, <1>4, <1>5, Zenon DEF Next

(* The link implements the channel: sender, receiver, their tickers and a  *)
(* network that loses, repeats and reorders let the application read       *)
(* exactly what was written, in order, none twice, each packet a constant  *)
(* latency after its Write.                                                *)
THEOREM LinkImplementsChannel ==
  ASSUME ShortStream
  PROVE  Spec => ImplementsChannel
<1>1. Init => channel!Init
  BY Zenon DEF Init, recv!Init, channel!Init
<1>2. LinkInv /\ [Next]_vars => [channel!Next]_<<writtenAt, delivered, rcvNow>>
  BY LinkRefines
<1>3. QED
  BY <1>1, <1>2, LinkInvariant, PTL DEF Spec, ImplementsChannel, channel!Spec

=============================================================================
