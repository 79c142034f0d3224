-------------------------- MODULE LiveReceiveProofs --------------------------
(***************************************************************************)
(* The receiver's invariants, for every circle, every initial sequence     *)
(* number, all intervals and delivery times and any number of packets.     *)
(*                                                                         *)
(* Places are counted from lastDelivered (BufferOrder); from there on Lt   *)
(* and Lte are the order of the places, and Push, the scans of Tick and    *)
(* the delivery loop are shown to keep it.  What is lost, acknowledged and *)
(* reported as a gap follows from where the scans can stop.                *)
(***************************************************************************)
EXTENDS LiveReceive, CircularProofs, WellFoundedInduction

\* The provers, in this order, for the leaves that name none.
USE SMTT(30), Zenon

(* Inserting e at position i keeps what is before it and moves the rest.   *)
LEMMA InsertElements ==
  ASSUME NEW S, NEW s \in Seq(S), NEW i \in 1..Len(s), NEW e \in S
  PROVE  /\ InsertBefore(s, i, e) \in Seq(S)
         /\ Len(InsertBefore(s, i, e)) = Len(s) + 1
         /\ \A j \in 1..(i - 1) : InsertBefore(s, i, e)[j] = s[j]
         /\ InsertBefore(s, i, e)[i] = e
         /\ \A j \in (i + 1)..(Len(s) + 1) : InsertBefore(s, i, e)[j] = s[j - 1]
<1>1. InsertBefore(s, i, e) = Put(s, i, e)
  BY DEF InsertBefore, Put
<1>2. Put(s, i, e) \in Seq(S) /\ IsWith(s, i, e, Put(s, i, e))
  BY SeqPut, Zenon
<1>3. QED
  BY <1>1, <1>2, Zenon DEF IsWith

(* Count adds one to the counters it is given and leaves the others.       *)
LEMMA CountAdds ==
  ASSUME statistics \in [Counters -> Nat], NEW C \in SUBSET Counters
  PROVE  /\ Count(C) \in [Counters -> Nat]
         /\ \A c \in C : Count(C)[c] = statistics[c] + 1
         /\ \A c \in Counters \ C : Count(C)[c] = statistics[c]
BY DEF Count

(* What the list holds are packets with a sequence number of the circle.   *)
LEMMA ListElements ==
  ASSUME TypeOK
  PROVE  /\ Len(packetList) \in Nat
         /\ \A i \in 1..Len(packetList) :
              packetList[i] \in Packet /\ packetList[i].seq \in Number
<1>1. packetList \in Seq(Packet)
  BY DEF TypeOK
<1>2. \A i \in 1..Len(packetList) : packetList[i] \in Packet
  BY <1>1, SeqElements
<1>3. QED
  BY <1>1, <1>2, SeqElements DEF Packet

(* Places are numbers, only lastDelivered is at place 0, and no two        *)
(* sequence numbers share a place.                                         *)
LEMMA PlaceIsNumber ==
  ASSUME lastDelivered \in Number, NEW a \in Number
  PROVE  /\ Place(a) \in 0..MAX
         /\ Place(a) \in Int
         /\ Place(a) = 0 <=> a = lastDelivered
         /\ \A b \in Number : Place(a) = Place(b) <=> a = b
BY MaxAssumption DEF Place, Fwd, Number

Inv == TypeOK /\ BufferOrder /\ MaxSeenIsHeld /\ PacketsAccounted

(* The new receiver is empty and has seen nothing.                         *)
LEMMA InitInv == Init => Inv
<1> SUFFICES ASSUME Init PROVE Inv
  OBVIOUS
<1>1. Dec(InitialSequenceNumber) \in Number
  BY OnCircle, ReceiveAssumption
<1>2. TypeOK
  BY <1>1, ReceiveAssumption DEF Init, TypeOK
<1>3. Fwd(lastDelivered, lastACK) = 0 /\ Fwd(lastDelivered, maxSeen) = 0
  BY <1>1, OnCircle, Zenon DEF Init
<1>4. BufferOrder
  BY <1>3, ThresholdIsHalf DEF Init, BufferOrder, Place
<1>5. MaxSeenIsHeld
  BY DEF Init, MaxSeenIsHeld
<1>6. PacketsAccounted
  BY DEF Init, PacketsAccounted, Counters
<1>7. QED
  BY <1>2, <1>4, <1>5, <1>6 DEF Inv

-----------------------------------------------------------------------------
(* Push.                                                                   *)

(* A packet that is not belated lies ahead of lastDelivered, and the       *)
(* comparisons of Push with lastACK and maxSeen are those of the places.   *)
LEMMA ExpectedPlace ==
  ASSUME Inv, NEW pkt \in Packet, InWindow(pkt.seq), Expected(pkt)
  PROVE  /\ Place(pkt.seq) \in 1..(threshold - 1)
         /\ Place(lastACK) <= Place(pkt.seq)
         /\ Lte(pkt.seq, maxSeen) <=> Place(pkt.seq) <= Place(maxSeen)
         /\ pkt.seq = Inc(maxSeen) <=> Place(pkt.seq) = Place(maxSeen) + 1
<1>1. /\ pkt.seq \in Number /\ maxSeen \in Number
      /\ lastACK \in Number /\ lastDelivered \in Number
  BY DEF Inv, TypeOK, Packet
<1>2. ~(Fwd(pkt.seq, lastDelivered) < threshold)
  BY <1>1, BehindIsLte DEF Expected
<1>3. Place(pkt.seq) < threshold
  BY <1>2 DEF InWindow, Place
<1>4. pkt.seq # lastDelivered
  BY DEF Expected, Lte
<1>5. Place(pkt.seq) \in 0..MAX /\ Place(pkt.seq) # 0
  BY <1>1, <1>4, OnCircle, Zenon DEF Place
<1>6. Place(lastACK) \in 0..MAX /\ Place(maxSeen) \in 0..MAX
  BY <1>1, OnCircle, Zenon DEF Place
<1>7. Place(lastACK) < threshold /\ Place(maxSeen) < threshold
  BY <1>6, ThresholdIsHalf DEF Inv, BufferOrder
<1>8. ~(Place(pkt.seq) < Place(lastACK))
  BY <1>1, <1>3, <1>7, LtIsPlaceOrder DEF Expected, Place
<1>9. Lte(pkt.seq, maxSeen) <=> Place(pkt.seq) <= Place(maxSeen)
  BY <1>1, <1>3, <1>7, LtIsPlaceOrder DEF Place
<1>10. Place(Inc(maxSeen)) = Place(maxSeen) + 1
  BY <1>1, <1>6, <1>7, IncIsNextPlace, ThresholdIsHalf, MaxAssumption DEF Place
<1>11. pkt.seq = Inc(maxSeen) <=> Place(pkt.seq) = Place(Inc(maxSeen))
  BY <1>1, OnCircle, MaxAssumption DEF Place, Fwd, Number
<1>12. QED
  BY <1>3, <1>5, <1>6, <1>8, <1>9, <1>10, <1>11, ThresholdIsHalf, MaxAssumption

(* A packet ahead of maxSeen, next or after a gap, is appended.            *)
LEMMA AppendInv ==
  ASSUME Inv, NEW pkt \in Packet, InWindow(pkt.seq), Expected(pkt),
         ~Lte(pkt.seq, maxSeen),
         maxSeen' = pkt.seq, packetList' = Append(packetList, pkt),
         UNCHANGED <<lastACK, lastDelivered, phase>>
  PROVE  BufferOrder' /\ MaxSeenIsHeld'
<1>1. /\ packetList \in Seq(Packet) /\ lastDelivered \in Number
      /\ pkt.seq \in Number /\ maxSeen \in Number
  BY DEF Inv, TypeOK, Packet
<1>2. \A seq \in Number : Place(seq) \in 0..MAX /\ Place(seq)' = Place(seq)
  BY <1>1, OnCircle, Zenon DEF Place
<1>3. /\ Len(packetList') = Len(packetList) + 1
      /\ \A i \in 1..Len(packetList) : packetList'[i] = packetList[i]
      /\ packetList'[Len(packetList) + 1] = pkt
      /\ packetList' # <<>>
  BY <1>1, SeqAppend
<1>4. \A i \in 1..Len(packetList) : packetList[i].seq \in Number
  BY ListElements DEF Inv
<1>5. Place(maxSeen) < Place(pkt.seq) /\ Place(pkt.seq) < threshold
  BY <1>1, <1>2, ExpectedPlace, ThresholdIsHalf
<1>6. BufferOrder'
  <2>1. (Place(lastACK) <= Place(maxSeen))'
    BY <1>1, <1>2, ExpectedPlace DEF Place
  <2>2. (Place(maxSeen) < threshold)'
    BY <1>5 DEF Place
  <2>3. \A i \in 1..Len(packetList') : Place(packetList'[i].seq) \in 1..Place(pkt.seq)
    BY <1>1, <1>2, <1>3, <1>4, <1>5 DEF Inv, BufferOrder
  <2>4. ASSUME NEW i \in 1..Len(packetList'), NEW j \in 1..Len(packetList'), i < j
        PROVE  Place(packetList'[i].seq) < Place(packetList'[j].seq)
    <3>1. i \in 1..Len(packetList) /\ Len(packetList) \in Nat
      BY <1>1, <1>3, <2>4
    <3>2. CASE j \in 1..Len(packetList)
      BY <1>3, <2>4, <3>1, <3>2 DEF Inv, BufferOrder
    <3>3. CASE j = Len(packetList) + 1
      <4>1. Place(packetList[i].seq) \in 1..Place(maxSeen)
        BY <3>1 DEF Inv, BufferOrder
      <4>2. QED
        BY <1>1, <1>2, <1>3, <1>5, <3>1, <3>3, <4>1
    <3>4. QED
      BY <1>3, <3>1, <3>2, <3>3
  <2>5. QED
    BY <2>1, <2>2, <2>3, <2>4 DEF BufferOrder, Place
<1>7. MaxSeenIsHeld'
  BY <1>3 DEF MaxSeenIsHeld
<1>8. QED
  BY <1>6, <1>7

(* The loop stops at the first packet whose place is not before pkt's.     *)
LEMMA StopIsPlace ==
  ASSUME Inv, NEW pkt \in Packet, InWindow(pkt.seq), OutOfOrder(pkt),
         NEW i \in 1..Len(packetList)
  PROVE  Passes(packetList[i], pkt) <=> Place(packetList[i].seq) < Place(pkt.seq)
<1>1. /\ lastDelivered \in Number /\ maxSeen \in Number /\ pkt.seq \in Number
      /\ packetList[i].seq \in Number
  BY ListElements, Zenon DEF Inv, TypeOK, Packet
<1>2. Place(pkt.seq) < threshold
  BY ExpectedPlace, ThresholdIsHalf DEF OutOfOrder
<1>3. Place(maxSeen) \in Nat /\ Place(packetList[i].seq) \in Nat /\ Place(pkt.seq) \in Nat
  BY <1>1, PlaceIsNumber, MaxAssumption
<1>4. Place(packetList[i].seq) < threshold
  BY <1>3, ThresholdIsHalf DEF Inv, BufferOrder
<1>5. /\ Gt(packetList[i].seq, pkt.seq) <=> Place(packetList[i].seq) > Place(pkt.seq)
      /\ packetList[i].seq = pkt.seq <=> Place(packetList[i].seq) = Place(pkt.seq)
  BY <1>1, <1>2, <1>4, LtIsPlaceOrder DEF Place
<1>6. QED
  BY <1>3, <1>5 DEF Passes

(* A late packet keeps the list sorted.                                    *)
LEMMA InsertInv ==
  ASSUME Inv, NEW pkt \in Packet, InWindow(pkt.seq), OutOfOrder(pkt),
         NEW i \in 1..Len(packetList), StopsAt(i, pkt),
         packetList[i].seq # pkt.seq,
         packetList' = InsertBefore(packetList, i, pkt),
         UNCHANGED <<maxSeen, lastACK, lastDelivered, phase>>
  PROVE  BufferOrder' /\ MaxSeenIsHeld'
<1>1. /\ packetList \in Seq(Packet) /\ lastDelivered \in Number
      /\ pkt.seq \in Number /\ maxSeen \in Number
      /\ Len(packetList) \in Nat
  BY ListElements DEF Inv, TypeOK, Packet
<1>2. /\ Len(packetList') = Len(packetList) + 1
      /\ \A j \in 1..(i - 1) : packetList'[j] = packetList[j]
      /\ packetList'[i] = pkt
      /\ \A j \in (i + 1)..(Len(packetList) + 1) : packetList'[j] = packetList[j - 1]
  BY <1>1, InsertElements
<1> DEFINE place(j) == Place(packetList[j].seq)
<1>3. \A j \in 1..Len(packetList) : place(j) \in Int /\ place(j) \in 1..Place(maxSeen)
  BY ListElements, <1>1, PlaceIsNumber DEF Inv, BufferOrder
<1>4. /\ Place(pkt.seq) \in 1..Place(maxSeen)
      /\ Place(pkt.seq) \in Int /\ Place(maxSeen) \in Int
  BY <1>1, PlaceIsNumber, ExpectedPlace, ThresholdIsHalf DEF OutOfOrder
<1>5. \A j \in 1..(i - 1) : place(j) < Place(pkt.seq)
  BY <1>1, StopIsPlace DEF StopsAt
<1>6. place(i) > Place(pkt.seq)
  <2>1. ~(place(i) < Place(pkt.seq))
    BY StopIsPlace DEF StopsAt
  <2>2. place(i) # Place(pkt.seq)
    BY <1>1, ListElements, PlaceIsNumber DEF Inv
  <2>3. QED
    BY <1>3, <1>4, <2>1, <2>2
<1>7. \A j, k \in 1..Len(packetList) : j < k => place(j) < place(k)
  BY DEF Inv, BufferOrder
<1>8. \A j \in 1..Len(packetList) : j >= i => place(j) > Place(pkt.seq)
  BY <1>1, <1>3, <1>4, <1>6, <1>7
<1> DEFINE place1(j) == Place(packetList'[j].seq)
<1>9. /\ \A j \in 1..(i - 1) : place1(j) = place(j)
      /\ place1(i) = Place(pkt.seq)
      /\ \A j \in (i + 1)..(Len(packetList) + 1) : place1(j) = place(j - 1)
  BY <1>2
<1>10. ASSUME NEW j \in 1..(Len(packetList) + 1)
       PROVE  place1(j) \in 1..Place(maxSeen)
  <2> HIDE DEF place, place1
  <2>1. j \in 1..(i - 1) \/ j = i \/ j \in (i + 1)..(Len(packetList) + 1)
    BY <1>1
  <2>2. CASE j \in 1..(i - 1)
    BY <1>1, <1>3, <1>9, <2>2
  <2>3. CASE j = i
    BY <1>4, <1>9, <2>3
  <2>4. CASE j \in (i + 1)..(Len(packetList) + 1)
    <3>1. j - 1 \in 1..Len(packetList)
      BY <1>1, <2>4
    <3> QED BY <1>3, <1>9, <2>4, <3>1
  <2>5. QED
    BY <2>1, <2>2, <2>3, <2>4
<1>11. ASSUME NEW j \in 1..(Len(packetList) + 1), NEW k \in 1..(Len(packetList) + 1),
              j < k
       PROVE  place1(j) < place1(k)
  <2> HIDE DEF place, place1
  <2>1. CASE k < i
    BY <1>1, <1>7, <1>9, <1>11, <2>1
  <2>2. CASE k = i
    BY <1>1, <1>5, <1>9, <1>11, <2>2
  <2>3. CASE k > i /\ j < i
    BY <1>1, <1>7, <1>9, <1>11, <2>3
  <2>4. CASE k > i /\ j = i
    BY <1>1, <1>4, <1>8, <1>9, <1>11, <2>4
  <2>5. CASE j > i
    BY <1>1, <1>7, <1>9, <1>11, <2>5
  <2>6. QED
    BY <2>1, <2>2, <2>3, <2>4, <2>5
<1>12. BufferOrder'
  BY <1>2, <1>10, <1>11 DEF Inv, BufferOrder, Place
<1>13. packetList'[Len(packetList')] = packetList[Len(packetList)] /\ packetList' # <<>>
  BY <1>1, <1>2
<1>14. packetList # <<>>
  BY <1>1
<1>15. MaxSeenIsHeld'
  BY <1>13, <1>14 DEF Inv, MaxSeenIsHeld
<1>16. QED
  BY <1>12, <1>15

(* Until Flush the loop of Push never runs off the list.                   *)
THEOREM NothingVanishes ==
  ASSUME Inv, NEW pkt \in Packet, InWindow(pkt.seq), phase = "open"
  PROVE  ~PushNowhere(pkt)
<1> SUFFICES ASSUME OutOfOrder(pkt),
                    \A i \in 1..Len(packetList) : Passes(packetList[i], pkt)
             PROVE  FALSE
  BY DEF PushNowhere
<1>1. /\ lastDelivered \in Number /\ maxSeen \in Number /\ pkt.seq \in Number
      /\ packetList \in Seq(Packet) /\ Len(packetList) \in Nat
  BY ListElements DEF Inv, TypeOK, Packet
<1>2. Place(pkt.seq) \in 1..Place(maxSeen) /\ Place(maxSeen) \in Int
  BY <1>1, PlaceIsNumber, ExpectedPlace, ThresholdIsHalf DEF OutOfOrder
<1>3. CASE packetList = <<>>
  BY <1>1, <1>2, <1>3, PlaceIsNumber DEF Inv, MaxSeenIsHeld
<1>4. CASE packetList # <<>>
  <2>1. Len(packetList) \in 1..Len(packetList)
    BY <1>1, <1>4
  <2>2. packetList[Len(packetList)].seq = maxSeen
    BY <1>4 DEF Inv, MaxSeenIsHeld
  <2>3. Place(maxSeen) < Place(pkt.seq)
    BY <2>1, <2>2, StopIsPlace
  <2>4. QED
    BY <1>2, <2>3
<1>5. QED
  BY <1>3, <1>4

-----------------------------------------------------------------------------
(* Tick.                                                                   *)

(* Where the scan of the list stands is never beyond maxSeen.              *)
LEMMA AckAfterPlace ==
  ASSUME Inv, NEW k \in 0..Len(packetList)
  PROVE  /\ AckAfter(k) \in Number
         /\ Place(AckAfter(k)) <= Place(maxSeen)
         /\ Place(lastACK) <= Place(AckAfter(k))
<1>1. /\ lastDelivered \in Number /\ maxSeen \in Number /\ lastACK \in Number
  BY DEF Inv, TypeOK
<1>2. /\ Place(lastACK) \in Int /\ Place(maxSeen) \in Int
      /\ Place(lastACK) <= Place(maxSeen) /\ Place(maxSeen) < threshold
  BY <1>1, PlaceIsNumber DEF Inv, BufferOrder
<1>3. CASE AckAfter(k) = lastACK
  BY <1>1, <1>2, <1>3
<1>4. CASE AckAfter(k) # lastACK
  <2>1. /\ k \in 1..Len(packetList)
        /\ AckAfter(k) = packetList[k].seq
        /\ ~Lte(packetList[k].seq, lastACK)
    BY <1>4, ListElements DEF AckAfter, Inv
  <2>2. packetList[k].seq \in Number
    BY <2>1, ListElements DEF Inv
  <2>3. Place(packetList[k].seq) \in 1..Place(maxSeen) /\ Place(packetList[k].seq) \in Int
    BY <1>1, <2>1, <2>2, PlaceIsNumber DEF Inv, BufferOrder
  <2>4. Place(packetList[k].seq) < threshold /\ Place(lastACK) < threshold
    BY <1>2, <2>3, ThresholdIsHalf
  <2>5. Lte(packetList[k].seq, lastACK) <=> Place(packetList[k].seq) <= Place(lastACK)
    BY <1>1, <2>2, <2>4, LtIsPlaceOrder DEF Place
  <2>6. QED
    BY <1>2, <2>1, <2>2, <2>3, <2>5
<1>5. QED
  BY <1>3, <1>4

(* Acknowledging keeps lastACK between lastDelivered and maxSeen.          *)
LEMMA ACKInv ==
  ASSUME Inv, NEW t \in Nat, TickACK(t)
  PROVE  BufferOrder' /\ MaxSeenIsHeld' /\ PacketsAccounted'
<1>1. PICK k \in 0..Len(packetList) : lastACK' = AckAfter(k)
  BY DEF TickACK
<1>2. UNCHANGED <<maxSeen, lastDelivered, packetList, statistics, delivered, phase>>
  BY DEF TickACK
<1>3. Place(lastACK') <= Place(maxSeen)
  BY <1>1, AckAfterPlace
<1>4. BufferOrder'
  BY <1>2, <1>3 DEF Inv, BufferOrder, Place
<1>5. QED
  BY <1>2, <1>4 DEF Inv, MaxSeenIsHeld, PacketsAccounted

(* Delivering the head moves the point all places are counted from up to   *)
(* the head, which is before everything else in the list.                  *)
LEMMA DeliverInv ==
  ASSUME Inv, TickDeliver
  PROVE  BufferOrder' /\ MaxSeenIsHeld'
<1> DEFINE head == packetList[1].seq
<1>1. /\ lastDelivered \in Number /\ maxSeen \in Number /\ lastACK \in Number
      /\ packetList \in Seq(Packet) /\ packetList # <<>>
      /\ Len(packetList) \in Nat
  BY ListElements DEF Inv, TypeOK, TickDeliver
<1>2. /\ 1 \in 1..Len(packetList) /\ Head(packetList) = packetList[1]
      /\ head \in Number
  BY <1>1, ListElements DEF Inv
<1>3. /\ Len(packetList') = Len(packetList) - 1
      /\ \A i \in 1..(Len(packetList) - 1) : packetList'[i] = packetList[i + 1]
  BY <1>1, SeqTail DEF TickDeliver
<1>4. /\ lastDelivered' = head
      /\ UNCHANGED <<maxSeen, lastACK, phase>>
      /\ Lte(head, lastACK)
  BY <1>2 DEF TickDeliver, Ripe
<1> HIDE DEF head
<1>5. /\ Place(head) \in 1..Place(maxSeen)
      /\ Place(head) \in Int /\ Place(lastACK) \in Int /\ Place(maxSeen) \in Int
      /\ Place(lastACK) <= Place(maxSeen) /\ Place(maxSeen) < threshold
  BY <1>1, <1>2, PlaceIsNumber DEF Inv, BufferOrder, head
<1>6. Place(head) < threshold /\ Place(lastACK) < threshold
  BY <1>5, ThresholdIsHalf
<1>7. Place(head) <= Place(lastACK)
  BY <1>1, <1>2, <1>4, <1>6, LtIsPlaceOrder DEF Place
<1>8. ASSUME NEW a \in Number, Place(head) <= Place(a)
      PROVE  Fwd(head, a) = Place(a) - Place(head)
  BY <1>1, <1>2, <1>8, Rebase DEF Place
<1>9. /\ Fwd(head, lastACK) = Place(lastACK) - Place(head)
      /\ Fwd(head, maxSeen) = Place(maxSeen) - Place(head)
  BY <1>1, <1>5, <1>7, <1>8
<1>10. ASSUME NEW i \in 1..(Len(packetList) - 1)
       PROVE  /\ Fwd(head, packetList'[i].seq)
                   = Place(packetList[i + 1].seq) - Place(head)
              /\ Place(packetList[i + 1].seq) > Place(head)
              /\ Place(packetList[i + 1].seq) <= Place(maxSeen)
              /\ Place(packetList[i + 1].seq) \in Int
  <2>1. i + 1 \in 1..Len(packetList) /\ 1 < i + 1
    BY <1>1
  <2>2. packetList[i + 1].seq \in Number
    BY <2>1, ListElements DEF Inv
  <2>3. /\ Place(packetList[i + 1].seq) \in 1..Place(maxSeen)
        /\ Place(packetList[i + 1].seq) > Place(head)
        /\ Place(packetList[i + 1].seq) \in Int
    BY <1>1, <1>2, <2>1, <2>2, PlaceIsNumber DEF Inv, BufferOrder, head
  <2>4. QED
    BY <1>3, <1>5, <1>8, <2>2, <2>3
<1>11. (Place(lastACK) <= Place(maxSeen) /\ Place(maxSeen) < threshold)'
  BY <1>4, <1>5, <1>9, ThresholdIsHalf DEF Place
<1>12. \A i \in 1..Len(packetList') :
         Fwd(head, packetList'[i].seq) \in 1..Fwd(head, maxSeen)
  BY <1>1, <1>3, <1>5, <1>9, <1>10
<1>13. ASSUME NEW i \in 1..Len(packetList'), NEW j \in 1..Len(packetList'), i < j
       PROVE  Fwd(head, packetList'[i].seq) < Fwd(head, packetList'[j].seq)
  <2>1. /\ i + 1 \in 1..Len(packetList) /\ j + 1 \in 1..Len(packetList) /\ i + 1 < j + 1
        /\ i \in 1..(Len(packetList) - 1) /\ j \in 1..(Len(packetList) - 1)
    BY <1>1, <1>3, <1>13
  <2>2. Place(packetList[i + 1].seq) < Place(packetList[j + 1].seq)
    BY <2>1 DEF Inv, BufferOrder
  <2>3. QED
    BY <1>5, <1>10, <2>1, <2>2
<1>14. BufferOrder'
  BY <1>4, <1>11, <1>12, <1>13 DEF BufferOrder, Place
<1>15. MaxSeenIsHeld'
  <2> SUFFICES ASSUME phase = "open"
               PROVE  maxSeen = IF packetList' = <<>> THEN head
                                ELSE packetList'[Len(packetList')].seq
    BY <1>4 DEF MaxSeenIsHeld
  <2>1. maxSeen = packetList[Len(packetList)].seq
    BY <1>1 DEF Inv, MaxSeenIsHeld
  <2>2. packetList' \in Seq(Packet)
    BY <1>1, SeqTail DEF TickDeliver
  <2>3. CASE packetList' = <<>>
    <3>1. Len(packetList') = 0
      BY <2>3
    <3>2. Len(packetList) = 1
      BY <1>1, <1>3, <3>1
    <3>3. QED
      BY <2>1, <2>3, <3>2 DEF head
  <2>4. CASE packetList' # <<>>
    BY <1>1, <1>3, <2>1, <2>2, <2>4
  <2>5. QED
    BY <2>3, <2>4
<1>16. QED
  BY <1>14, <1>15

-----------------------------------------------------------------------------
(* Types and counters.                                                     *)

(* Different numbers are at least one apart.                               *)
LEMMA DistancePositive ==
  ASSUME NEW a \in Number, NEW b \in Number
  PROVE  Distance(a, b) \in Nat /\ (a # b => Distance(a, b) >= 1)
BY MaxAssumption, ThresholdIsHalf DEF Number, Distance, AbsDiff

(* The gaps are pairs of sequence numbers.                                 *)
LEMMA GapsType ==
  ASSUME Inv
  PROVE  Gaps \in Ranges
<1>1. ASSUME NEW i \in 1..Len(packetList)
      PROVE  <<Inc(AckAfter(i - 1)), Dec(packetList[i].seq)>> \in Number \X Number
  <2>1. i - 1 \in 0..Len(packetList)
    BY ListElements DEF Inv
  <2>2. AckAfter(i - 1) \in Number /\ packetList[i].seq \in Number
    BY <2>1, AckAfterPlace, ListElements DEF Inv
  <2>3. QED
    BY <2>2, OnCircle, Zenon
<1>2. QED
  BY <1>1 DEF Gaps, Ranges

(* The counters are natural numbers.                                       *)
LEMMA CounterTypes ==
  ASSUME statistics \in [Counters -> Nat]
  PROVE  /\ statistics.Pkt \in Nat /\ statistics.PktDrop \in Nat
         /\ statistics.PktBelated \in Nat /\ statistics.PktBuf \in Nat
         /\ statistics.PktUnique \in Nat /\ statistics.PktLost \in Nat
BY DEF Counters

(* A packet that is counted as dropped and not kept.                       *)
LEMMA DropAccounted ==
  ASSUME Inv, NEW C \in SUBSET Counters, statistics' = Count(C),
         "Pkt" \in C, "PktDrop" \in C, "PktBuf" \notin C, "PktUnique" \notin C,
         UNCHANGED <<packetList, delivered, phase>>
  PROVE  statistics' \in [Counters -> Nat] /\ PacketsAccounted'
<1>1. statistics \in [Counters -> Nat] /\ Len(packetList) \in Nat /\ Len(delivered) \in Nat
  BY ListElements, SeqElements DEF Inv, TypeOK
<1>2. /\ statistics' \in [Counters -> Nat]
      /\ \A c \in C : statistics'[c] = statistics[c] + 1
      /\ \A c \in Counters \ C : statistics'[c] = statistics[c]
  BY <1>1, CountAdds
<1>3. /\ statistics'.Pkt = statistics.Pkt + 1
      /\ statistics'.PktDrop = statistics.PktDrop + 1
      /\ statistics'.PktBuf = statistics.PktBuf
      /\ statistics'.PktUnique = statistics.PktUnique
      /\ statistics'.PktBelated \in {statistics.PktBelated, statistics.PktBelated + 1}
  BY <1>2 DEF Counters
<1>4. PacketsAccounted
  BY DEF Inv
<1>5. /\ statistics.Pkt \in Nat /\ statistics.PktDrop \in Nat
      /\ statistics.PktBelated \in Nat /\ statistics.PktBuf \in Nat
      /\ statistics.PktUnique \in Nat
  BY <1>1, CounterTypes
<1>6. packetList' = packetList /\ delivered' = delivered /\ phase' = phase
  OBVIOUS
<1>7. (statistics.PktUnique = statistics.PktBuf + Len(delivered))'
  BY <1>3, <1>4, <1>6 DEF PacketsAccounted
<1>8. (statistics.PktBuf >= Len(packetList))'
  BY <1>3, <1>4, <1>6 DEF PacketsAccounted
<1>9. (statistics.PktBelated <= statistics.PktDrop)'
  BY <1>3, <1>4, <1>5 DEF PacketsAccounted
<1>10. ((phase = "open") => /\ statistics.PktBuf = Len(packetList)
                           /\ statistics.Pkt = statistics.PktDrop + statistics.PktUnique)'
  BY <1>3, <1>4, <1>5, <1>6 DEF PacketsAccounted
<1>11. QED
  BY <1>2, <1>7, <1>8, <1>9, <1>10 DEF PacketsAccounted

(* A packet that is kept and not counted as dropped.                       *)
LEMMA KeepAccounted ==
  ASSUME Inv,
         \A c \in {"Pkt", "PktBuf", "PktUnique"} : statistics'[c] = statistics[c] + 1,
         \A c \in {"PktDrop", "PktBelated"} : statistics'[c] = statistics[c],
         Len(packetList') = Len(packetList) + 1,
         UNCHANGED <<delivered, phase>>
  PROVE  PacketsAccounted'
<1>1. statistics \in [Counters -> Nat] /\ Len(packetList) \in Nat /\ Len(delivered) \in Nat
  BY ListElements, SeqElements DEF Inv, TypeOK
<1>2. /\ statistics'.Pkt = statistics.Pkt + 1
      /\ statistics'.PktBuf = statistics.PktBuf + 1
      /\ statistics'.PktUnique = statistics.PktUnique + 1
      /\ statistics'.PktDrop = statistics.PktDrop
      /\ statistics'.PktBelated = statistics.PktBelated
  OBVIOUS
<1>3. PacketsAccounted
  BY DEF Inv
<1>4. /\ statistics.Pkt \in Nat /\ statistics.PktDrop \in Nat
      /\ statistics.PktBelated \in Nat /\ statistics.PktBuf \in Nat
      /\ statistics.PktUnique \in Nat
  BY <1>1, CounterTypes
<1>5. delivered' = delivered /\ phase' = phase
  OBVIOUS
<1>6. (statistics.PktUnique = statistics.PktBuf + Len(delivered))'
  BY <1>1, <1>2, <1>3, <1>4, <1>5 DEF PacketsAccounted
<1>7. (statistics.PktBuf >= Len(packetList))'
  BY <1>1, <1>2, <1>3, <1>4 DEF PacketsAccounted
<1>8. (statistics.PktBelated <= statistics.PktDrop)'
  BY <1>2, <1>3 DEF PacketsAccounted
<1>9. ASSUME phase' = "open"
      PROVE  (statistics.PktBuf = Len(packetList))'
  <2>1. statistics.PktBuf = Len(packetList)
    BY <1>3, <1>5, <1>9 DEF PacketsAccounted
  <2>2. QED
    BY <1>2, <2>1
<1>10. ASSUME phase' = "open"
       PROVE  (statistics.Pkt = statistics.PktDrop + statistics.PktUnique)'
  <2>1. statistics.Pkt = statistics.PktDrop + statistics.PktUnique
    BY <1>3, <1>5, <1>10 DEF PacketsAccounted
  <2>2. QED
    BY <1>2, <1>4, <2>1
<1>11. QED
  BY <1>6, <1>7, <1>8, <1>9, <1>10 DEF PacketsAccounted

(* Push keeps the invariant.                                               *)
LEMMA PushInv ==
  ASSUME Inv, NEW pkt \in Packet, InWindow(pkt.seq), Push(pkt)
  PROVE  Inv'
<1>1. /\ packetList \in Seq(Packet) /\ statistics \in [Counters -> Nat]
      /\ maxSeen \in Number /\ pkt.seq \in Number
      /\ Len(packetList) \in Nat
      /\ Len(delivered) \in Nat
  BY ListElements, SeqElements DEF Inv, TypeOK, Packet
<1>2. UNCHANGED <<lastACK, lastDelivered, timeVars, tickVars, delivered, phase>>
      /\ nPackets' \in Nat
  BY DEF Push, Inv, TypeOK
<1>3. ASSUME UNCHANGED <<maxSeen, packetList>>
      PROVE  BufferOrder' /\ MaxSeenIsHeld'
  BY <1>2, <1>3 DEF Inv, BufferOrder, MaxSeenIsHeld, Place
<1>4. ASSUME maxSeen' \in Number, packetList' \in Seq(Packet),
             statistics' \in [Counters -> Nat], outbox' \subseteq ACK \cup NAK
      PROVE  TypeOK'
  BY <1>2, <1>4 DEF Inv, TypeOK, timeVars, tickVars
<1>5. {"Pkt", "PktBelated", "PktDrop"} \subseteq Counters
      /\ {"Pkt", "PktDrop"} \subseteq Counters
      /\ {"Pkt", "PktBuf", "PktUnique"} \subseteq Counters
      /\ {"Pkt", "PktBuf", "PktUnique", "PktLate"} \subseteq Counters
      /\ {"Pkt"} \subseteq Counters
  BY DEF Counters
<1>6. CASE PushBelated(pkt)
  <2>1. statistics' \in [Counters -> Nat] /\ PacketsAccounted'
    BY <1>2, <1>6, <1>5, DropAccounted DEF PushBelated
  <2>2. QED
    BY <1>1, <1>3, <1>4, <1>6, <2>1 DEF PushBelated, Inv
<1>7. CASE PushAcknowledged(pkt)
  <2>1. statistics' \in [Counters -> Nat] /\ PacketsAccounted'
    BY <1>2, <1>7, <1>5, DropAccounted DEF PushAcknowledged
  <2>2. QED
    BY <1>1, <1>3, <1>4, <1>7, <2>1 DEF PushAcknowledged, Inv
<1>8. CASE PushInOrder(pkt)
  <2>1. ~Lte(pkt.seq, maxSeen)
    <3>1. Place(pkt.seq) = Place(maxSeen) + 1 /\ Place(maxSeen) \in Int
      BY <1>1, <1>8, ExpectedPlace, PlaceIsNumber DEF PushInOrder, Inv, TypeOK
    <3>2. QED
      BY <1>8, <3>1, ExpectedPlace DEF PushInOrder
  <2>2. BufferOrder' /\ MaxSeenIsHeld'
    BY <1>2, <1>8, <2>1, AppendInv, Zenon DEF PushInOrder
  <2>3. packetList' \in Seq(Packet) /\ Len(packetList') = Len(packetList) + 1
    BY <1>1, <1>8, SeqAppend DEF PushInOrder
  <2>4. statistics' \in [Counters -> Nat] /\ PacketsAccounted'
    <3>1. statistics' = Count({"Pkt", "PktBuf", "PktUnique"})
      BY <1>8 DEF PushInOrder
    <3>2. /\ statistics' \in [Counters -> Nat]
          /\ \A c \in {"Pkt", "PktBuf", "PktUnique"} : statistics'[c] = statistics[c] + 1
          /\ \A c \in {"PktDrop", "PktBelated"} : statistics'[c] = statistics[c]
      <4>1. /\ Count({"Pkt", "PktBuf", "PktUnique"}) \in [Counters -> Nat]
            /\ \A c \in {"Pkt", "PktBuf", "PktUnique"} :
                 Count({"Pkt", "PktBuf", "PktUnique"})[c] = statistics[c] + 1
            /\ \A c \in Counters \ {"Pkt", "PktBuf", "PktUnique"} :
                 Count({"Pkt", "PktBuf", "PktUnique"})[c] = statistics[c]
        BY <1>1, <1>5, CountAdds, Zenon
      <4>2. QED
        BY <3>1, <4>1 DEF Counters
    <3>3. QED
      BY <1>2, <2>3, <3>2, KeepAccounted
  <2>5. QED
    BY <1>1, <1>4, <1>8, <2>2, <2>3, <2>4, Zenon DEF PushInOrder, Inv
<1>9. CASE PushDuplicate(pkt)
  <2>1. statistics' \in [Counters -> Nat] /\ PacketsAccounted'
    <3>1. /\ statistics' = Count({"Pkt", "PktDrop"})
          /\ UNCHANGED packetList
      BY <1>9 DEF PushDuplicate
    <3>2. {"Pkt", "PktDrop"} \in SUBSET Counters
      BY Zenon DEF Counters
    <3> QED BY <1>2, <1>5, <3>1, <3>2, DropAccounted
  <2>2. QED
    BY <1>1, <1>3, <1>4, <1>9, <2>1 DEF PushDuplicate, Inv
<1>10. CASE PushLate(pkt)
  <2>1. PICK i \in 1..Len(packetList) :
          /\ StopsAt(i, pkt)
          /\ packetList[i].seq # pkt.seq
          /\ packetList' = InsertBefore(packetList, i, pkt)
    BY <1>10, Zenon DEF PushLate
  <2>2. BufferOrder' /\ MaxSeenIsHeld'
    BY <1>2, <1>10, <2>1, InsertInv DEF PushLate
  <2>3. packetList' \in Seq(Packet) /\ Len(packetList') = Len(packetList) + 1
    <3>1. packetList \in Seq(Packet) /\ pkt \in Packet
      BY <1>1
    <3>2. /\ InsertBefore(packetList, i, pkt) \in Seq(Packet)
          /\ Len(InsertBefore(packetList, i, pkt)) = Len(packetList) + 1
      <4>1. i \in 1..Len(packetList)
        OBVIOUS
      <4> HIDE DEF Packet
      <4> QED BY <3>1, <4>1, InsertElements
    <3> QED BY <2>1, <3>2
  <2>4. statistics' \in [Counters -> Nat] /\ PacketsAccounted'
    <3>1. statistics' = Count({"Pkt", "PktBuf", "PktUnique", "PktLate"})
      BY <1>10 DEF PushLate
    <3>2. /\ statistics' \in [Counters -> Nat]
          /\ \A c \in {"Pkt", "PktBuf", "PktUnique"} : statistics'[c] = statistics[c] + 1
          /\ \A c \in {"PktDrop", "PktBelated"} : statistics'[c] = statistics[c]
      <4>1. /\ Count({"Pkt", "PktBuf", "PktUnique", "PktLate"}) \in [Counters -> Nat]
            /\ \A c \in {"Pkt", "PktBuf", "PktUnique", "PktLate"} :
                 Count({"Pkt", "PktBuf", "PktUnique", "PktLate"})[c] = statistics[c] + 1
            /\ \A c \in Counters \ {"Pkt", "PktBuf", "PktUnique", "PktLate"} :
                 Count({"Pkt", "PktBuf", "PktUnique", "PktLate"})[c] = statistics[c]
        BY <1>1, <1>5, CountAdds, Zenon
      <4>2. QED
        BY <3>1, <4>1, Zenon DEF Counters
    <3>3. QED
      BY <1>2, <2>3, <3>2, KeepAccounted, Zenon
  <2>5. QED
    BY <1>1, <1>4, <1>10, <2>2, <2>3, <2>4, Zenon DEF PushLate, Inv
<1>11. CASE PushNowhere(pkt)
  <2>1. phase # "open"
    BY <1>11, NothingVanishes
  <2>2. statistics' \in [Counters -> Nat] /\ PacketsAccounted'
    BY <1>1, <1>2, <1>11, <2>1, CountAdds, Zenon
       DEF PushNowhere, Inv, PacketsAccounted, Counters
  <2>3. QED
    BY <1>1, <1>3, <1>4, <1>11, <2>2 DEF PushNowhere, Inv
<1>12. CASE PushAhead(pkt)
  <2>1. BufferOrder' /\ MaxSeenIsHeld'
    BY <1>2, <1>12, AppendInv DEF PushAhead
  <2>2. packetList' \in Seq(Packet) /\ Len(packetList') = Len(packetList) + 1
    BY <1>1, <1>12, SeqAppend DEF PushAhead
  <2> DEFINE counted == Count({"Pkt", "PktBuf", "PktUnique"})
  <2>3. /\ counted \in [Counters -> Nat]
        /\ \A c \in {"Pkt", "PktBuf", "PktUnique"} : counted[c] = statistics[c] + 1
        /\ \A c \in Counters \ {"Pkt", "PktBuf", "PktUnique"} : counted[c] = statistics[c]
    BY <1>1, <1>5, CountAdds, Zenon
  <2>4. Distance(pkt.seq, maxSeen) \in Nat /\ Distance(pkt.seq, maxSeen) >= 1
    BY <1>1, <1>12, DistancePositive DEF PushAhead, Lte
  <2>5. statistics' = [counted EXCEPT !.PktLoss = @ + Distance(pkt.seq, maxSeen) - 1]
    BY <1>12 DEF PushAhead
  <2> HIDE DEF counted
  <2>6. statistics' \in [Counters -> Nat] /\ PacketsAccounted'
    <3>1. /\ statistics' \in [Counters -> Nat]
          /\ \A c \in {"Pkt", "PktBuf", "PktUnique", "PktDrop", "PktBelated"} :
               statistics'[c] = counted[c]
      BY <2>3, <2>4, <2>5 DEF Counters
    <3>2. /\ \A c \in {"Pkt", "PktBuf", "PktUnique"} : statistics'[c] = statistics[c] + 1
          /\ \A c \in {"PktDrop", "PktBelated"} : statistics'[c] = statistics[c]
      BY <2>3, <3>1 DEF Counters
    <3>3. QED
      BY <1>2, <2>2, <3>1, <3>2, KeepAccounted
  <2>7. outbox' \subseteq ACK \cup NAK
    <3>1. <<Inc(maxSeen), Dec(pkt.seq)>> \in Number \X Number
      BY <1>1, OnCircle, Zenon
    <3>2. QED
      BY <1>12, <3>1 DEF PushAhead, NAK, Ranges
  <2>8. maxSeen' \in Number
    BY <1>1, <1>12 DEF PushAhead
  <2>9. QED
    BY <1>4, <2>1, <2>2, <2>6, <2>7, <2>8 DEF Inv
<1>13. QED
  BY <1>6, <1>7, <1>8, <1>9, <1>10, <1>11, <1>12 DEF Push

(* Every section of Tick keeps the invariant.                              *)
LEMMA TickInv ==
  ASSUME Inv, Tick
  PROVE  Inv'
<1>1. /\ packetList \in Seq(Packet) /\ statistics \in [Counters -> Nat]
      /\ Len(packetList) \in Nat /\ Len(delivered) \in Nat
      /\ lastDelivered \in Number /\ now \in Nat /\ delivered \in Seq(Packet)
  BY ListElements, SeqElements DEF Inv, TypeOK
<1>2. ASSUME NEW t \in Later
      PROVE  t \in Nat
  BY <1>1, ReceiveAssumption DEF Later
<1>3. ASSUME UNCHANGED <<seqVars, statistics, delivered, phase>>
      PROVE  BufferOrder' /\ MaxSeenIsHeld' /\ PacketsAccounted'
  BY <1>3 DEF Inv, BufferOrder, MaxSeenIsHeld, PacketsAccounted, Place, seqVars
<1>4. ASSUME NEW t \in Later, TickNoACK(t)
      PROVE  Inv'
  <2>1. TypeOK'
    BY <1>2, <1>4 DEF Inv, TypeOK, TickNoACK, seqVars, timeVars
  <2>2. QED
    BY <1>3, <1>4, <2>1 DEF TickNoACK, Inv
<1>5. ASSUME NEW t \in Later, TickACK(t)
      PROVE  Inv'
  <2>1. BufferOrder' /\ MaxSeenIsHeld' /\ PacketsAccounted'
    BY <1>2, <1>5, ACKInv, Zenon
  <2>2. PICK k \in 0..Len(packetList) :
          /\ lastACK' = AckAfter(k)
          /\ unsent' = {[type |-> "ACK", seq |-> Inc(AckAfter(k)), lite |-> ~ACKDue(t)]}
    BY <1>5 DEF TickACK
  <2>3. AckAfter(k) \in Number /\ Inc(AckAfter(k)) \in Number
    BY AckAfterPlace, OnCircle
  <2>4. (~ACKDue(t)) \in BOOLEAN
    BY Zenon
  <2>5. unsent' \subseteq ACK
    BY <2>2, <2>3, <2>4 DEF ACK
  <2>6. TypeOK'
    BY <1>2, <1>5, <2>2, <2>3, <2>5 DEF Inv, TypeOK, TickACK
  <2>7. QED
    BY <2>1, <2>6 DEF Inv
<1>6. CASE TickNoNAK
  <2>1. TypeOK'
    BY <1>6 DEF Inv, TypeOK, TickNoNAK, seqVars, timeVars
  <2>2. QED
    BY <1>3, <1>6, <2>1 DEF TickNoNAK, Inv
<1>7. CASE TickNAK
  <2>1. unsent' \subseteq ACK \cup NAK /\ pc' \in {"deliver", "sendNAK"}
    BY <1>7, GapsType DEF TickNAK, NAK, Inv, TypeOK
  <2>2. TypeOK'
    BY <1>7, <2>1 DEF Inv, TypeOK, TickNAK, seqVars
  <2>3. QED
    BY <1>3, <1>7, <2>2 DEF TickNAK, Inv
<1>8. CASE TickSend
  <2>1. TypeOK'
    BY <1>8 DEF Inv, TypeOK, TickSend, seqVars, timeVars
  <2>2. QED
    BY <1>3, <1>8, <2>1 DEF TickSend, Inv
<1>9. CASE TickDeliver
  <2>1. BufferOrder' /\ MaxSeenIsHeld'
    BY <1>9, DeliverInv
  <2>2. /\ packetList # <<>> /\ Len(packetList) >= 1
        /\ Head(packetList) \in Packet /\ Tail(packetList) \in Seq(Packet)
        /\ Len(Tail(packetList)) = Len(packetList) - 1
    BY <1>1, <1>9, SeqTail DEF TickDeliver
  <2>3. /\ delivered' \in Seq(Packet)
        /\ Len(delivered') = Len(delivered) + 1
    BY <1>1, <1>9, <2>2, SeqAppend DEF TickDeliver
  <2> DEFINE distance == Distance(lastDelivered, Head(packetList).seq)
  <2>4. distance \in Nat /\ Head(packetList).seq \in Number
    BY <1>1, <2>2, DistancePositive, Zenon DEF Packet
  <2>5. statistics' = [statistics EXCEPT
                         !.PktBuf = @ - 1,
                         !.PktLost = IF distance > 1 THEN @ + distance - 1 ELSE @]
    BY <1>9 DEF TickDeliver
  <2> HIDE DEF distance
  <2>6. /\ statistics.Pkt \in Nat /\ statistics.PktDrop \in Nat
        /\ statistics.PktBelated \in Nat /\ statistics.PktBuf \in Nat
        /\ statistics.PktUnique \in Nat /\ statistics.PktLost \in Nat
    BY <1>1, CounterTypes DEF Counters
  <2>7. statistics.PktBuf >= 1
    BY <1>1, <2>2, <2>6 DEF Inv, PacketsAccounted
  <2>8. /\ statistics'.Pkt = statistics.Pkt
        /\ statistics'.PktDrop = statistics.PktDrop
        /\ statistics'.PktBelated = statistics.PktBelated
        /\ statistics'.PktBuf = statistics.PktBuf - 1
        /\ statistics'.PktUnique = statistics.PktUnique
    BY <1>1, <2>5 DEF Counters
  <2>9. statistics' \in [Counters -> Nat]
    <3>1. (IF distance > 1 THEN statistics.PktLost + distance - 1
                           ELSE statistics.PktLost) \in Nat
      BY <2>4, <2>6
    <3>2. statistics.PktBuf - 1 \in Nat
      BY <2>6, <2>7
    <3>3. QED
      BY <1>1, <2>5, <3>1, <3>2, Zenon
  <2>10. TypeOK'
    BY <1>9, <2>2, <2>3, <2>4, <2>9 DEF Inv, TypeOK, TickDeliver, timeVars
  <2>11. packetList' = Tail(packetList) /\ phase' = phase
    BY <1>9 DEF TickDeliver
  <2>12. (statistics.PktUnique = statistics.PktBuf + Len(delivered))'
    <3>1. statistics.PktUnique = statistics.PktBuf + Len(delivered)
      BY DEF Inv, PacketsAccounted
    <3>2. QED
      BY <1>1, <2>3, <2>6, <2>8, <3>1
  <2>13. (statistics.PktBuf >= Len(packetList))'
    BY <1>1, <2>2, <2>6, <2>8, <2>11 DEF Inv, PacketsAccounted
  <2>14. (statistics.PktBelated <= statistics.PktDrop)'
    BY <2>8 DEF Inv, PacketsAccounted
  <2>15. ((phase = "open") => /\ statistics.PktBuf = Len(packetList)
                              /\ statistics.Pkt = statistics.PktDrop + statistics.PktUnique)'
    BY <1>1, <2>2, <2>6, <2>8, <2>11 DEF Inv, PacketsAccounted
  <2>16. PacketsAccounted'
    BY <2>12, <2>13, <2>14, <2>15 DEF PacketsAccounted
  <2>17. QED
    BY <2>1, <2>10, <2>16 DEF Inv
<1>10. CASE TickDone
  <2>1. TypeOK'
    BY <1>10 DEF Inv, TypeOK, TickDone, seqVars, timeVars
  <2>2. QED
    BY <1>3, <1>10, <2>1 DEF TickDone, Inv
<1>11. QED
  BY <1>4, <1>5, <1>6, <1>7, <1>8, <1>9, <1>10, Zenon DEF Tick

(* Flush empties the buffer and nothing else.                              *)
LEMMA FlushInv ==
  ASSUME Inv, Flush
  PROVE  Inv'
<1>1. /\ statistics \in [Counters -> Nat] /\ Len(packetList) \in Nat
      /\ packetList' = <<>> /\ packetList' \in Seq(Packet) /\ Len(packetList') = 0
      /\ phase' = "flushed"
  BY ListElements DEF Inv, TypeOK, Flush
<1>2. TypeOK'
  BY <1>1, Zenon DEF Inv, TypeOK, Flush, timeVars, tickVars
<1>3. BufferOrder'
  <2>1. UNCHANGED <<lastACK, maxSeen, lastDelivered>>
    BY DEF Flush
  <2>2. BufferOrder
    BY DEF Inv
  <2> QED BY <1>1, <2>1, <2>2 DEF BufferOrder, Place
<1>4. MaxSeenIsHeld'
  BY <1>1 DEF MaxSeenIsHeld
<1>5. statistics' = statistics /\ delivered' = delivered
  BY DEF Flush
<1>6. statistics.PktBuf >= 0
  BY <1>1, CounterTypes
<1>7. PacketsAccounted'
  BY <1>1, <1>5, <1>6 DEF Inv, PacketsAccounted
<1>8. QED
  BY <1>2, <1>3, <1>4, <1>7 DEF Inv

(* A new NAK interval touches nothing the invariant is about.              *)
LEMMA SetNAKIntervalInv ==
  ASSUME Inv, NEW i \in NAKIntervals, SetNAKInterval(i)
  PROVE  Inv'
<1>1. TypeOK'
  BY ReceiveAssumption, Zenon DEF Inv, TypeOK, SetNAKInterval, seqVars, tickVars
<1>2. BufferOrder' /\ MaxSeenIsHeld' /\ PacketsAccounted'
  BY DEF Inv, BufferOrder, MaxSeenIsHeld, PacketsAccounted, SetNAKInterval, seqVars, Place
<1>3. QED
  BY <1>1, <1>2 DEF Inv

(* Every step keeps the invariant.                                         *)
LEMMA NextInv ==
  ASSUME Inv, [Next]_vars
  PROVE  Inv'
<1>1. CASE Receive
  <2>1. PICK seq \in Number, tsbpd \in DeliveryTimes :
          InWindow(seq) /\ Push([seq |-> seq, tsbpd |-> tsbpd])
    BY <1>1 DEF Receive
  <2>2. [seq |-> seq, tsbpd |-> tsbpd] \in Packet
    BY ReceiveAssumption DEF Packet
  <2>3. QED
    BY <2>1, <2>2, PushInv
<1>2. CASE Tick
  BY <1>2, TickInv
<1>3. ASSUME NEW i \in NAKIntervals, SetNAKInterval(i)
      PROVE  Inv'
  BY <1>3, SetNAKIntervalInv, Zenon
<1>4. CASE Flush
  BY <1>4, FlushInv
<1>5. CASE UNCHANGED vars
  BY <1>5 DEF vars, seqVars, timeVars, tickVars, Inv, TypeOK, BufferOrder,
              MaxSeenIsHeld, PacketsAccounted, Place
<1>6. QED
  BY <1>1, <1>2, <1>3, <1>4, <1>5 DEF Next

(* The inductive invariant holds in every reachable state, whatever the    *)
(* circle's size and the intervals are and however Push, the sections of   *)
(* Tick, SetNAKInterval and Flush interleave.                              *)
THEOREM Invariance == Spec => []Inv
<1>1. Init => Inv
  BY InitInv
<1>2. Inv /\ [Next]_vars => Inv'
  BY NextInv
<1>3. QED
  BY <1>1, <1>2, PTL DEF Spec

(* The variables of the receiver keep their types; in particular no        *)
(* sequence number leaves the circle and no counter goes below zero.       *)
THEOREM TypeCorrect == Spec => []TypeOK
<1>1. Inv => TypeOK
  BY DEF Inv
<1>2. QED
  BY <1>1, Invariance, PTL

(* The buffer of receive.go stays sorted, without duplicates and ahead of  *)
(* lastDelivered, and the three sequence numbers never overtake each other. *)
THEOREM BufferStaysOrdered == Spec => []BufferOrder
<1>1. Inv => BufferOrder
  BY DEF Inv
<1>2. QED
  BY <1>1, Invariance, PTL

(* Before Flush, the greatest number seen is in the buffer or delivered:   *)
(* Push always finds a place for a late packet.                            *)
THEOREM MaxSeenStaysHeld == Spec => []MaxSeenIsHeld
<1>1. Inv => MaxSeenIsHeld
  BY DEF Inv
<1>2. QED
  BY <1>1, Invariance, PTL

(* The packet counters of the receiver add up.                             *)
THEOREM CountersAddUp == Spec => []PacketsAccounted
<1>1. Inv => PacketsAccounted
  BY Zenon DEF Inv
<1>2. QED
  BY <1>1, Invariance, PTL

(* The head of the list that a turn of the delivery loop hands out lies    *)
(* ahead of what was delivered before and is acknowledged and due.         *)
LEMMA DeliverHead ==
  ASSUME Inv, TickDeliver
  PROVE  /\ Len(delivered') = Len(delivered) + 1
         /\ delivered'[Len(delivered')] = packetList[1]
         /\ Place(packetList[1].seq) \in 1..Place(lastACK)
         /\ packetList[1].tsbpd <= now
<1>1. /\ lastDelivered \in Number /\ maxSeen \in Number /\ lastACK \in Number
      /\ packetList \in Seq(Packet) /\ packetList # <<>>
      /\ Len(packetList) \in Nat /\ delivered \in Seq(Packet)
  BY ListElements DEF Inv, TypeOK, TickDeliver
<1>2. /\ 1 \in 1..Len(packetList) /\ Head(packetList) = packetList[1]
      /\ packetList[1] \in Packet /\ packetList[1].seq \in Number
  BY <1>1, ListElements DEF Inv
<1>3. delivered' = Append(delivered, packetList[1])
  BY <1>2 DEF TickDeliver
<1>4. /\ Len(delivered') = Len(delivered) + 1
      /\ delivered'[Len(delivered')] = packetList[1]
  BY <1>1, <1>2, <1>3, SeqAppend
<1>5. Lte(packetList[1].seq, lastACK) /\ packetList[1].tsbpd <= now
  BY <1>2 DEF TickDeliver, Ripe
<1>6. /\ Place(packetList[1].seq) \in 1..Place(maxSeen)
      /\ Place(lastACK) <= Place(maxSeen) /\ Place(maxSeen) < threshold
      /\ Place(packetList[1].seq) \in Int /\ Place(lastACK) \in Int
      /\ Place(maxSeen) \in Int
  BY <1>1, <1>2, PlaceIsNumber DEF Inv, BufferOrder
<1>7. Place(packetList[1].seq) < threshold /\ Place(lastACK) < threshold
  BY <1>6, ThresholdIsHalf
<1>8. Place(packetList[1].seq) <= Place(lastACK)
  BY <1>1, <1>2, <1>5, <1>7, LtIsPlaceOrder DEF Place
<1>9. QED
  BY <1>4, <1>5, <1>6, <1>8

(* No other step delivers.                                                 *)
LEMMA OnlyTickDelivers ==
  ASSUME [Next]_vars, delivered' # delivered
  PROVE  TickDeliver
<1>1. CASE Receive \/ Flush \/ (\E i \in NAKIntervals : SetNAKInterval(i))
  BY <1>1, Zenon DEF Receive, Push, SetNAKInterval, Flush
<1>2. CASE \E t \in Later : TickNoACK(t) \/ TickACK(t)
  BY <1>2, Zenon DEF TickNoACK, TickACK
<1>3. CASE TickNoNAK \/ TickNAK \/ TickSend \/ TickDone
  BY <1>3, Zenon DEF TickNoNAK, TickNAK, TickSend, TickDone
<1>4. CASE UNCHANGED vars
  BY <1>4, Zenon DEF vars
<1>5. QED
  BY <1>1, <1>2, <1>3, <1>4, Zenon DEF Next, Tick

(* Packets are handed to the application in the order of their sequence    *)
(* numbers, none twice, none before its time and none unacknowledged:      *)
(* every delivery, from whatever state Push, Tick and Flush have reached,  *)
(* is of a number ahead of the last one delivered.                         *)
THEOREM DeliveryStaysInOrder == Spec => DeliveredInOrder
<1>1. Inv /\ [Next]_vars =>
        [delivered' # delivered =>
           LET pkt == delivered'[Len(delivered')]
           IN  /\ Len(delivered') = Len(delivered) + 1
               /\ Place(pkt.seq) \in 1..Place(lastACK)
               /\ pkt.tsbpd <= now]_vars
  <2> SUFFICES ASSUME Inv, [Next]_vars, delivered' # delivered
               PROVE  /\ Len(delivered') = Len(delivered) + 1
                      /\ Place(delivered'[Len(delivered')].seq) \in 1..Place(lastACK)
                      /\ delivered'[Len(delivered')].tsbpd <= now
    OBVIOUS
  <2>1. TickDeliver
    BY OnlyTickDelivers
  <2>2. QED
    BY <2>1, DeliverHead
<1>2. QED
  BY <1>1, Invariance, PTL DEF Spec, DeliveredInOrder

-----------------------------------------------------------------------------
(* PktLost.                                                                *)

(* A multiple of M that is not zero is at least M.                         *)
LEMMA MultipleIsLarge ==
  ASSUME NEW M \in Nat \ {0}, NEW k \in Int, k >= 1
  PROVE  M * k >= M
OBVIOUS

(* Division leaves one remainder only.                                     *)
LEMMA RemainderUnique ==
  ASSUME NEW M \in Nat \ {0}, NEW p \in Int, NEW q \in Int,
         NEW r \in 0..(M - 1), NEW s \in 0..(M - 1), M * p + r = M * q + s
  PROVE  r = s
<1>1. M * (p - q) = s - r /\ M * (q - p) = r - s
  OBVIOUS
<1>2. ASSUME p - q >= 1 PROVE FALSE
  <2>1. M * (p - q) >= M
    BY <1>2, MultipleIsLarge
  <2>2. s - r < M
    OBVIOUS
  <2>3. QED
    BY <1>1, <2>1, <2>2
<1>3. ASSUME q - p >= 1 PROVE FALSE
  <2>1. M * (q - p) >= M
    BY <1>3, MultipleIsLarge
  <2>2. r - s < M
    OBVIOUS
  <2>3. QED
    BY <1>1, <2>1, <2>2
<1>4. p = q
  BY <1>2, <1>3
<1>5. QED
  BY <1>4

(* Division with remainder.                                                *)
LEMMA DivideNat ==
  ASSUME NEW M \in Nat \ {0}, NEW n \in Nat
  PROVE  \E q \in Int, r \in 0..(M - 1) : n = M * q + r /\ r = n % M
<1>1. n % M \in 0..(M - 1) /\ n \div M \in Int /\ n = M * (n \div M) + (n % M)
  OBVIOUS
<1>2. QED
  BY <1>1, Zenon

(* Less than a lap further on, the remainder is as much greater or has     *)
(* passed the end of the circle once.                                      *)
LEMMA RemainderMoves ==
  ASSUME NEW M \in Nat \ {0}, NEW n \in Nat, NEW d \in 0..(M - 1)
  PROVE  (n + d) % M = IF (n % M) + d < M THEN (n % M) + d ELSE (n % M) + d - M
<1>1. PICK q \in Int, r \in 0..(M - 1) : n = M * q + r /\ r = n % M
  BY DivideNat, Zenon
<1>2. PICK p \in Int, s \in 0..(M - 1) : n + d = M * p + s /\ s = (n + d) % M
  <2>1. n + d \in Nat
    OBVIOUS
  <2>2. QED
    BY <2>1, DivideNat
<1> SUFFICES s = IF r + d < M THEN r + d ELSE r + d - M
  BY <1>1, <1>2, Zenon
<1>3. CASE r + d < M
  <2>1. M * q + (r + d) = M * p + s /\ r + d \in 0..(M - 1)
    BY <1>1, <1>2, <1>3
  <2>2. r + d = s
    BY <2>1, RemainderUnique
  <2>3. QED
    BY <1>3, <2>2
<1>4. CASE r + d >= M
  <2>1. r + d - M \in 0..(M - 1) /\ q + 1 \in Int
    BY <1>4
  <2>2. M * (q + 1) = M * q + M
    OBVIOUS
  <2>3. PICK a, b : a = M * q /\ b = M * p
    OBVIOUS
  <2>4. a \in Int /\ b \in Int
    BY <2>3
  <2>5. (a + M) + (r + d - M) = b + s
    BY <1>1, <1>2, <2>3, <2>4
  <2>6. M * (q + 1) + (r + d - M) = M * p + s
    BY <2>2, <2>3, <2>5, Zenon
  <2>7. r + d - M = s
    BY <2>1, <2>6, RemainderUnique, Zenon
  <2>8. QED
    BY <1>4, <2>7
<1>5. r + d < M \/ r + d >= M
  OBVIOUS
<1>6. QED
  BY <1>3, <1>4, <1>5

(* From c on, the place of b is the place of a plus that of b from a, up   *)
(* to a lap.                                                               *)
LEMMA PlacesAdd ==
  ASSUME NEW a \in Number, NEW b \in Number, NEW c \in Number
  PROVE  Fwd(c, b) = IF Fwd(c, a) + Fwd(a, b) < MAX + 1 THEN Fwd(c, a) + Fwd(a, b)
                                                     ELSE Fwd(c, a) + Fwd(a, b) - (MAX + 1)
BY MaxAssumption DEF Number, Fwd

(* A delivery moves lastDelivered on by the packet delivered and those it  *)
(* counts as lost.                                                         *)
LEMMA DeliverLost ==
  ASSUME Inv, TickDeliver
  PROVE  /\ Len(delivered') + statistics'.PktLost
              = Len(delivered) + statistics.PktLost + Fwd(lastDelivered, lastDelivered')
         /\ lastDelivered' \in Number
<1>1. /\ lastDelivered \in Number /\ maxSeen \in Number /\ lastACK \in Number
      /\ packetList \in Seq(Packet) /\ packetList # <<>> /\ Len(packetList) \in Nat
      /\ statistics \in [Counters -> Nat] /\ delivered \in Seq(Packet)
  BY ListElements DEF Inv, TypeOK, TickDeliver
<1>2. /\ Head(packetList) = packetList[1]
      /\ packetList[1].seq \in Number
  BY <1>1, ListElements DEF Inv
<1>3. PICK d : d = Fwd(lastDelivered, packetList[1].seq)
  OBVIOUS
<1>4. Len(delivered') = Len(delivered) + 1 /\ d \in 1..Place(lastACK)
  BY <1>3, DeliverHead DEF Place
<1>5. Place(lastACK) \in Int /\ Place(maxSeen) \in Int
      /\ Place(lastACK) <= Place(maxSeen) /\ Place(maxSeen) < threshold
  BY <1>1, PlaceIsNumber DEF Inv, BufferOrder
<1>6. d \in Nat /\ d >= 1 /\ d < threshold
  BY <1>4, <1>5, ThresholdIsHalf
<1>7. Distance(lastDelivered, Head(packetList).seq) = d
  BY <1>1, <1>2, <1>3, <1>6, DistanceIsPlace
<1>8. statistics' = [statistics EXCEPT
                       !.PktBuf = @ - 1,
                       !.PktLost = IF d > 1 THEN @ + d - 1 ELSE @]
  BY <1>7, Zenon DEF TickDeliver
<1>9. statistics'.PktLost = statistics.PktLost + d - 1 /\ statistics.PktLost \in Nat
  <2>1. statistics.PktLost \in Nat
    BY <1>1, CounterTypes
  <2>2. statistics'.PktLost = IF d > 1 THEN statistics.PktLost + d - 1 ELSE statistics.PktLost
    BY <1>1, <1>8 DEF Counters
  <2>3. QED
    BY <1>6, <2>1, <2>2
<1>10. lastDelivered' = packetList[1].seq
  BY <1>2 DEF TickDeliver
<1>11. Len(delivered) \in Nat
  BY <1>1, SeqElements
<1>12. QED
  BY <1>2, <1>3, <1>4, <1>6, <1>9, <1>10, <1>11

(* No other step touches lastDelivered or PktLost.                         *)
LEMMA OnlyDeliveryLoses ==
  ASSUME Inv, [Next]_vars, ~TickDeliver
  PROVE  /\ delivered' = delivered /\ lastDelivered' = lastDelivered
         /\ statistics'.PktLost = statistics.PktLost
<1>1. delivered' = delivered
  BY OnlyTickDelivers
<1>2. ASSUME NEW pkt, Push(pkt)
      PROVE  lastDelivered' = lastDelivered /\ statistics'.PktLost = statistics.PktLost
  <2>1. lastDelivered' = lastDelivered
    BY <1>2 DEF Push
  <2>2. statistics \in [Counters -> Nat]
    BY DEF Inv, TypeOK
  <2>3. \A C \in SUBSET Counters : "PktLost" \notin C => Count(C).PktLost = statistics.PktLost
    BY DEF Count, Counters
  <2>4. \/ \E C \in SUBSET Counters : "PktLost" \notin C /\ statistics' = Count(C)
        \/ PushAhead(pkt)
    BY <1>2, Zenon DEF Push, PushBelated, PushAcknowledged, PushInOrder, PushDuplicate, PushLate,
                PushNowhere, Counters
  <2>5. ASSUME PushAhead(pkt)
        PROVE  statistics'.PktLost = statistics.PktLost
    <3>1. statistics'.PktLost = Count({"Pkt", "PktBuf", "PktUnique"}).PktLost
      BY <2>5 DEF PushAhead, Count, Counters
    <3>2. {"Pkt", "PktBuf", "PktUnique"} \in SUBSET Counters
      BY DEF Counters
    <3>3. QED
      BY <2>3, <3>1, <3>2
  <2>6. QED
    BY <2>1, <2>3, <2>4, <2>5
<1>3. CASE Receive
  <2>1. PICK seq \in Number, tsbpd \in DeliveryTimes : Push([seq |-> seq, tsbpd |-> tsbpd])
    BY <1>3 DEF Receive
  <2>2. PICK pkt : pkt = [seq |-> seq, tsbpd |-> tsbpd]
    BY Zenon
  <2>3. Push(pkt)
    BY <2>1, <2>2, Zenon
  <2>4. QED
    BY <1>1, <1>2, <2>3, Zenon
<1>4. CASE Tick
  BY <1>4, Zenon DEF Tick, TickNoACK, TickACK, TickNoNAK, TickNAK, TickSend, TickDone, seqVars
<1>5. CASE Flush \/ (\E i \in NAKIntervals : SetNAKInterval(i))
  BY <1>5 DEF Flush, SetNAKInterval, seqVars
<1>6. CASE UNCHANGED vars
  BY <1>6 DEF vars, seqVars
<1>7. QED
  BY <1>1, <1>3, <1>4, <1>5, <1>6 DEF Next

(* PktLost counts exactly the numbers jumped over, however often the       *)
(* sequence numbers have wrapped.                                          *)
THEOREM LostAreAlwaysTheGaps == Spec => []LostAreTheGaps
<1>1. Init => LostAreTheGaps
  <2> SUFFICES ASSUME Init PROVE LostAreTheGaps
    OBVIOUS
  <2>1. Len(delivered) + statistics.PktLost = 0
    BY DEF Init, Counters
  <2>2. 0 % (MAX + 1) = 0
    BY MaxAssumption
  <2>3. Fwd(Dec(InitialSequenceNumber), lastDelivered) = 0
    BY OnCircle, ReceiveAssumption DEF Init
  <2>4. QED
    BY <2>1, <2>2, <2>3 DEF LostAreTheGaps
<1>2. ASSUME Inv, LostAreTheGaps, [Next]_vars
      PROVE  LostAreTheGaps'
  <2>1. CASE TickDeliver
    <3>1. PICK n, d : /\ n = Len(delivered) + statistics.PktLost
                      /\ d = Fwd(lastDelivered, lastDelivered')
      OBVIOUS
    <3>2. /\ lastDelivered \in Number /\ lastDelivered' \in Number
          /\ Dec(InitialSequenceNumber) \in Number
          /\ Len(delivered') + statistics'.PktLost = n + d
      BY <1>2, <2>1, <3>1, DeliverLost, OnCircle, ReceiveAssumption, Zenon DEF Inv, TypeOK
    <3>3. n \in Nat /\ d \in 0..((MAX + 1) - 1) /\ MAX + 1 \in Nat \ {0}
      <4>1. statistics.PktLost \in Nat /\ Len(delivered) \in Nat
        BY <1>2, CounterTypes, SeqElements DEF Inv, TypeOK
      <4>2. d \in 0..MAX
        BY <3>1, <3>2, OnCircle, Zenon
      <4>3. QED
        BY <3>1, <4>1, <4>2, MaxAssumption
    <3>4. (n + d) % (MAX + 1)
            = IF (n % (MAX + 1)) + d < MAX + 1 THEN (n % (MAX + 1)) + d
                                            ELSE (n % (MAX + 1)) + d - (MAX + 1)
      BY <3>3, RemainderMoves, Zenon
    <3>5. n % (MAX + 1) = Fwd(Dec(InitialSequenceNumber), lastDelivered)
      BY <1>2, <3>1, Zenon DEF LostAreTheGaps
    <3>6. (n + d) % (MAX + 1) = Fwd(Dec(InitialSequenceNumber), lastDelivered')
      BY <3>1, <3>2, <3>4, <3>5, PlacesAdd
    <3>7. QED
      BY <3>2, <3>6 DEF LostAreTheGaps
  <2>2. CASE ~TickDeliver
    BY <1>2, <2>2, OnlyDeliveryLoses DEF LostAreTheGaps
  <2>3. QED
    BY <2>1, <2>2
<1>3. QED
  BY <1>1, <1>2, Invariance, PTL DEF Spec

-----------------------------------------------------------------------------
(* What is acknowledged and what is reported missing.                      *)

(* A set of natural numbers that is not empty has a least element.         *)
LEMMA HasLeast ==
  ASSUME NEW S, S \subseteq Nat, S # {}
  PROVE  \E n \in S : \A m \in S : n <= m
<1>1. PICK n \in S : \A m \in S : ~(<<m, n>> \in OpToRel(<, Nat))
  BY NatLessThanWellFounded, WFMin, Zenon
<1>2. ASSUME NEW m \in S PROVE n <= m
  <2>1. n \in Nat /\ m \in Nat
    OBVIOUS
  <2>2. <<m, n>> \in Nat \X Nat /\ <<m, n>>[1] = m /\ <<m, n>>[2] = n
    BY <2>1
  <2>3. ~(m < n)
    BY <1>1, <2>2 DEF OpToRel
  <2>4. QED
    BY <2>1, <2>3
<1>3. QED
  BY <1>2

(* The places the scan compares: the list increases, and after k packets   *)
(* the scan has reached the greater of lastACK and the k-th.               *)
LEMMA ScanPlaces ==
  ASSUME Inv, NEW k \in 1..Len(packetList)
  PROVE  /\ packetList[k].seq \in Number
         /\ Place(packetList[k].seq) \in 1..(threshold - 1)
         /\ Place(lastACK) \in 0..(threshold - 1)
         /\ AckAfter(k - 1) \in Number
         /\ Place(AckAfter(k - 1)) \in 0..(threshold - 1)
         /\ Place(lastACK) <= Place(AckAfter(k - 1))
         /\ Lte(packetList[k].seq, lastACK) <=> Place(packetList[k].seq) <= Place(lastACK)
         /\ Lte(packetList[k].seq, AckAfter(k - 1))
              <=> Place(packetList[k].seq) <= Place(AckAfter(k - 1))
         /\ packetList[k].seq = Inc(AckAfter(k - 1))
              <=> Place(packetList[k].seq) = Place(AckAfter(k - 1)) + 1
<1>1. /\ lastDelivered \in Number /\ maxSeen \in Number /\ lastACK \in Number
      /\ packetList[k].seq \in Number /\ Len(packetList) \in Nat
  BY ListElements DEF Inv, TypeOK
<1>2. /\ Place(lastACK) \in 0..MAX /\ Place(maxSeen) \in 0..MAX
      /\ Place(lastACK) <= Place(maxSeen) /\ Place(maxSeen) < threshold
      /\ Place(packetList[k].seq) \in 1..Place(maxSeen)
  BY <1>1, PlaceIsNumber DEF Inv, BufferOrder
<1>3. k - 1 \in 0..Len(packetList)
  BY <1>1
<1>4. /\ AckAfter(k - 1) \in Number
      /\ Place(AckAfter(k - 1)) <= Place(maxSeen)
      /\ Place(lastACK) <= Place(AckAfter(k - 1))
  BY <1>3, AckAfterPlace
<1>5. PICK a : a = AckAfter(k - 1)
  OBVIOUS
<1>6. Place(a) \in 0..MAX /\ Place(a) < threshold /\ a \in Number
  BY <1>1, <1>2, <1>4, <1>5, PlaceIsNumber, ThresholdIsHalf, MaxAssumption
<1>7. PICK p : p = packetList[k].seq
  OBVIOUS
<1>8. p \in Number /\ Place(p) < threshold /\ Place(p) \in 0..MAX
  BY <1>1, <1>2, <1>7, ThresholdIsHalf, MaxAssumption
<1>9. Lte(p, lastACK) <=> Place(p) <= Place(lastACK)
  BY <1>1, <1>2, <1>8, LtIsPlaceOrder, ThresholdIsHalf, MaxAssumption DEF Place
<1>10. Lte(p, a) <=> Place(p) <= Place(a)
  BY <1>1, <1>6, <1>8, LtIsPlaceOrder, Zenon DEF Place
<1>11. Place(Inc(a)) = Place(a) + 1 /\ Inc(a) \in Number
  BY <1>1, <1>6, IncIsNextPlace, OnCircle, ThresholdIsHalf, MaxAssumption DEF Place
<1>12. p = Inc(a) <=> Place(p) = Place(Inc(a))
  BY <1>1, <1>8, <1>11, PlaceIsNumber
<1>13. /\ Place(p) \in 1..(threshold - 1) /\ Place(lastACK) \in 0..(threshold - 1)
       /\ Place(a) \in 0..(threshold - 1)
  <2>1. /\ Place(p) \in Int /\ Place(p) >= 1 /\ Place(p) < threshold
        /\ Place(lastACK) \in Int /\ Place(lastACK) >= 0 /\ Place(lastACK) < threshold
        /\ Place(a) \in Int /\ Place(a) >= 0 /\ Place(a) < threshold
    BY <1>2, <1>6, <1>7, <1>8, ThresholdIsHalf, MaxAssumption
  <2>2. QED
    BY <2>1, ThresholdIsHalf
<1>14. p = Inc(a) <=> Place(p) = Place(a) + 1
  BY <1>11, <1>12, Zenon
<1>15. QED
  BY <1>1, <1>4, <1>5, <1>7, <1>9, <1>10, <1>13, <1>14, Zenon

(* The first packet of the list that is not before seq, if seq lies ahead  *)
(* of lastACK: where the scan arrives at it, it stands before seq.         *)
LEMMA FirstAtOrAfter ==
  ASSUME Inv, NEW seq \in Number, Place(seq) > Place(lastACK),
         NEW k \in 1..Len(packetList), Place(packetList[k].seq) >= Place(seq)
  PROVE  \E i \in 1..k : /\ Place(packetList[i].seq) >= Place(seq)
                         /\ Place(AckAfter(i - 1)) < Place(seq)
<1> DEFINE S == {i \in 1..k : Place(packetList[i].seq) >= Place(seq)}
<1>1. Len(packetList) \in Nat /\ lastDelivered \in Number
  BY ListElements DEF Inv, TypeOK
<1>2. S \subseteq Nat /\ k \in S
  BY <1>1
<1>3. PICK i \in S : \A m \in S : i <= m
  BY <1>2, HasLeast, Zenon
<1>4. i \in 1..k /\ i \in 1..Len(packetList) /\ Place(packetList[i].seq) >= Place(seq)
  BY <1>1, <1>3
<1>5. Place(seq) \in Int
  BY <1>1, PlaceIsNumber, Zenon
<1>6. CASE i = 1
  <2>1. AckAfter(i - 1) = lastACK
    BY <1>6 DEF AckAfter
  <2>2. QED
    BY <1>4, <2>1
<1>7. CASE i # 1
  <2>1. i - 1 \in 1..k /\ i - 1 \in 1..Len(packetList) /\ ~(i <= i - 1)
    BY <1>1, <1>4, <1>7
  <2>2. ~(Place(packetList[i - 1].seq) >= Place(seq))
    BY <1>3, <2>1, Zenon
  <2>3. Place(packetList[i - 1].seq) \in Int
    BY <2>1, ScanPlaces
  <2>4. AckAfter(i - 1) \in {lastACK, packetList[i - 1].seq}
    BY Zenon DEF AckAfter
  <2>5. QED
    BY <1>4, <1>5, <2>2, <2>3, <2>4
<1>8. QED
  BY <1>6, <1>7, Zenon

(* The ticker acknowledges a number only when it is in the list or when a  *)
(* later one that is acknowledged with it is due.                          *)
LEMMA ACKCovers ==
  ASSUME Inv, NEW t, NEW k \in 1..Len(packetList), \A i \in 1..k : Moves(i, t),
         NEW seq \in Number,
         Place(seq) \in (Place(lastACK) + 1)..Place(packetList[k].seq)
  PROVE  \/ \E i \in 1..Len(packetList) : packetList[i].seq = seq
         \/ \E i \in 1..Len(packetList) :
              /\ Place(packetList[i].seq) \in Place(seq)..Place(packetList[k].seq)
              /\ packetList[i].tsbpd <= t
<1>1. /\ Len(packetList) \in Nat /\ lastDelivered \in Number
      /\ Place(seq) \in Int /\ Place(lastACK) \in Int /\ Place(packetList[k].seq) \in Int
  BY ListElements, PlaceIsNumber, ScanPlaces, ThresholdIsHalf, Zenon DEF Inv, TypeOK
<1>2. Place(seq) > Place(lastACK) /\ Place(packetList[k].seq) >= Place(seq)
  BY <1>1
<1>3. PICK i \in 1..k : /\ Place(packetList[i].seq) >= Place(seq)
                        /\ Place(AckAfter(i - 1)) < Place(seq)
  BY <1>2, FirstAtOrAfter
<1>4. i \in 1..Len(packetList) /\ (i = k \/ i < k)
  BY <1>1
<1>5. /\ packetList[i].seq \in Number
      /\ Place(packetList[i].seq) \in Int /\ Place(AckAfter(i - 1)) \in Int
      /\ Lte(packetList[i].seq, AckAfter(i - 1))
           <=> Place(packetList[i].seq) <= Place(AckAfter(i - 1))
      /\ packetList[i].seq = Inc(AckAfter(i - 1))
           <=> Place(packetList[i].seq) = Place(AckAfter(i - 1)) + 1
  <2>1. /\ packetList[i].seq \in Number
        /\ Place(packetList[i].seq) \in 1..(threshold - 1)
        /\ Place(AckAfter(i - 1)) \in 0..(threshold - 1)
        /\ Lte(packetList[i].seq, AckAfter(i - 1))
             <=> Place(packetList[i].seq) <= Place(AckAfter(i - 1))
        /\ packetList[i].seq = Inc(AckAfter(i - 1))
             <=> Place(packetList[i].seq) = Place(AckAfter(i - 1)) + 1
    BY <1>4, ScanPlaces, Zenon
  <2>2. Place(packetList[i].seq) \in Int /\ Place(AckAfter(i - 1)) \in Int
    BY <2>1, ThresholdIsHalf
  <2>3. QED
    BY <2>1, <2>2, Zenon
<1>6. Place(packetList[i].seq) <= Place(packetList[k].seq)
  BY <1>1, <1>4 DEF Inv, BufferOrder
<1>7. CASE packetList[i].tsbpd <= t
  <2>1. Place(packetList[i].seq) \in Place(seq)..Place(packetList[k].seq)
    BY <1>1, <1>3, <1>5, <1>6
  <2>2. QED
    BY <1>4, <1>7, <2>1, Zenon
<1>8. CASE packetList[i].seq = Inc(AckAfter(i - 1))
  <2>1. Place(packetList[i].seq) = Place(seq)
    BY <1>1, <1>3, <1>5, <1>8
  <2>2. packetList[i].seq = seq
    BY <1>1, <1>5, <2>1, PlaceIsNumber, Zenon
  <2>3. QED
    BY <1>4, <2>2, Zenon
<1>9. ~Lte(packetList[i].seq, AckAfter(i - 1))
  BY <1>1, <1>3, <1>5
<1>10. QED
  BY <1>7, <1>8, <1>9, Zenon DEF Moves

(* Only the ticker acknowledges.                                           *)
LEMMA OnlyTickAcknowledges ==
  ASSUME [Next]_vars, lastACK' # lastACK
  PROVE  \E t \in Later : TickACK(t)
<1>1. CASE Receive \/ Flush \/ (\E i \in NAKIntervals : SetNAKInterval(i))
  <2>1. ~Receive
    <3>1. ASSUME NEW pkt, Push(pkt) PROVE FALSE
      BY <3>1, Zenon DEF Push
    <3>2. QED
      BY <3>1, Zenon DEF Receive
  <2>2. ~Flush
    BY DEF Flush
  <2>3. \A i : ~SetNAKInterval(i)
    BY DEF SetNAKInterval, seqVars
  <2>4. QED
    BY <1>1, <2>1, <2>2, <2>3, Zenon
<1>2. CASE Tick
  BY <1>2 DEF Tick, TickNoACK, TickNoNAK, TickNAK, TickSend, TickDeliver, TickDone, seqVars
<1>3. CASE UNCHANGED vars
  BY <1>3 DEF vars, seqVars
<1>4. QED
  BY <1>1, <1>2, <1>3 DEF Next

(* An acknowledgement never goes back and covers nothing that was not      *)
(* received, but for what a later packet that is due has made pointless to *)
(* wait for.                                                               *)
THEOREM ACKIsAlwaysHonest == Spec => ACKIsHonest
<1> DEFINE Honest ==
      /\ Place(lastACK) < Place(lastACK')
      /\ \A seq \in Number :
           Place(seq) \in (Place(lastACK) + 1)..Place(lastACK') =>
             \/ \E i \in 1..Len(packetList) : packetList[i].seq = seq
             \/ \E i \in 1..Len(packetList) :
                  /\ Place(packetList[i].seq) \in Place(seq)..Place(lastACK')
                  /\ packetList[i].tsbpd <= now'
<1>1. ASSUME Inv, [Next]_vars, lastACK' # lastACK
      PROVE  Honest
  <2>1. PICK t \in Later : TickACK(t)
    BY <1>1, OnlyTickAcknowledges, Zenon
  <2>2. PICK k \in 0..Len(packetList) : Scans(k, t) /\ lastACK' = AckAfter(k)
    BY <2>1, Zenon DEF TickACK
  <2>3. now' = t /\ Len(packetList) \in Nat
    BY <1>1, <2>1, ListElements, Zenon DEF TickACK, Inv
  <2>4. /\ k \in 1..Len(packetList) /\ ~Lte(packetList[k].seq, lastACK)
        /\ lastACK' = packetList[k].seq
    BY <1>1, <2>2, <2>3 DEF AckAfter
  <2>5. Place(lastACK) < Place(lastACK')
    BY <1>1, <2>4, ScanPlaces, ThresholdIsHalf
  <2>6. \A i \in 1..k : Moves(i, t)
    BY <2>2 DEF Scans
  <2>7. ASSUME NEW seq \in Number, Place(seq) \in (Place(lastACK) + 1)..Place(packetList[k].seq)
        PROVE  \/ \E i \in 1..Len(packetList) : packetList[i].seq = seq
               \/ \E i \in 1..Len(packetList) :
                    /\ Place(packetList[i].seq) \in Place(seq)..Place(packetList[k].seq)
                    /\ packetList[i].tsbpd <= t
    BY <1>1, <2>4, <2>6, <2>7, ACKCovers, Zenon
  <2>8. QED
    BY <2>3, <2>4, <2>5, <2>7, Zenon
<1>2. Inv /\ [Next]_vars => [lastACK' # lastACK => Honest]_vars
  BY <1>1
<1>3. QED
  BY <1>2, Invariance, PTL DEF Spec, ACKIsHonest

(* What periodicNAK reports, before it becomes the words of a NAK, is      *)
(* exactly what is missing between the last acknowledged packet and the    *)
(* newest one of the buffer.                                               *)
GapsExact == \A seq \in Number : Covers(Gaps, seq) <=> Missing(seq)

\* There is a gap before the i-th packet of the list.
GapBefore(i) ==
  /\ ~Lte(packetList[i].seq, AckAfter(i - 1))
  /\ packetList[i].seq # Inc(AckAfter(i - 1))

Gap(i) == <<Inc(AckAfter(i - 1)), Dec(packetList[i].seq)>>

(* A gap before the i-th packet covers the numbers between where the scan  *)
(* stands and the packet.                                                  *)
LEMMA GapCovers ==
  ASSUME Inv, NEW i \in 1..Len(packetList), NEW seq \in Number, GapBefore(i)
  PROVE  Fwd(Gap(i)[1], seq) <= Fwd(Gap(i)[1], Gap(i)[2])
           <=> /\ Place(AckAfter(i - 1)) < Place(seq)
               /\ Place(seq) < Place(packetList[i].seq)
<1>1. PICK a, p : a = AckAfter(i - 1) /\ p = packetList[i].seq
  BY Zenon
<1>2. /\ a \in Number /\ p \in Number /\ lastDelivered \in Number
      /\ Place(a) \in 0..(threshold - 1) /\ Place(p) \in 1..(threshold - 1)
      /\ Place(p) > Place(a) + 1
  <2>1. lastDelivered \in Number
    BY DEF Inv, TypeOK
  <2>2. /\ a \in Number /\ p \in Number
        /\ Place(a) \in 0..(threshold - 1) /\ Place(p) \in 1..(threshold - 1)
        /\ Lte(p, a) <=> Place(p) <= Place(a)
        /\ p = Inc(a) <=> Place(p) = Place(a) + 1
    BY <1>1, ScanPlaces, Zenon
  <2>3. ~Lte(p, a) /\ p # Inc(a)
    BY <1>1, Zenon DEF GapBefore
  <2>4. QED
    BY <2>1, <2>2, <2>3, ThresholdIsHalf
<1>3. Gap(i)[1] = Inc(a) /\ Gap(i)[2] = Dec(p)
  BY <1>1 DEF Gap
<1>4. /\ Inc(a) \in Number /\ Dec(p) \in Number
      /\ Place(Inc(a)) = Place(a) + 1 /\ Place(Dec(p)) = Place(p) - 1
  <2>1. Inc(a) \in Number /\ Dec(p) \in Number
    BY <1>2, OnCircle
  <2>2. Place(a) < MAX /\ Place(p) > 0
    BY <1>2, ThresholdIsHalf, MaxAssumption
  <2>3. Place(Inc(a)) = Place(a) + 1
    BY <1>2, <2>2, IncIsNextPlace DEF Place
  <2>4. Place(Dec(p)) = Place(p) - 1
    BY <1>2, <2>2, DecIsPlaceBefore, Zenon DEF Place
  <2>5. QED
    BY <2>1, <2>3, <2>4, Zenon
<1>5. Fwd(Inc(a), Dec(p)) = Place(p) - Place(a) - 2
  <2>1. Place(Inc(a)) <= Place(Dec(p))
    BY <1>2, <1>4, ThresholdIsHalf
  <2>2. Fwd(Inc(a), Dec(p)) = Place(Dec(p)) - Place(Inc(a))
    BY <1>2, <1>4, <2>1, Rebase DEF Place
  <2>3. QED
    BY <1>2, <1>4, <2>2, ThresholdIsHalf
<1>6. PICK f, s : f = Fwd(Inc(a), seq) /\ s = Place(seq)
  BY Zenon
<1>7. f \in 0..MAX /\ s \in 0..MAX
  BY <1>2, <1>4, <1>6, OnCircle, PlaceIsNumber, Zenon
<1>8. s = IF Place(a) + 1 + f < MAX + 1 THEN Place(a) + 1 + f ELSE Place(a) + 1 + f - (MAX + 1)
  BY <1>2, <1>4, <1>6, PlacesAdd DEF Place
<1>9. f <= Place(p) - Place(a) - 2 <=> Place(a) < s /\ s < Place(p)
  <2>1. PICK x, y : x = Place(a) /\ y = Place(p)
    BY Zenon
  <2>2. /\ x \in Int /\ y \in Int /\ f \in Int /\ s \in Int /\ MAX \in Int
        /\ 0 <= x /\ x + 1 < y /\ y <= MAX /\ 0 <= f /\ f <= MAX /\ s <= MAX
    BY <1>2, <1>7, <2>1, ThresholdIsHalf, MaxAssumption
  <2>3. s = IF x + 1 + f < MAX + 1 THEN x + 1 + f ELSE x + 1 + f - (MAX + 1)
    BY <1>8, <2>1, Zenon
  <2>4. f <= y - x - 2 <=> x < s /\ s < y
    BY <2>2, <2>3
  <2>5. QED
    BY <2>1, <2>4, Zenon
<1>10. QED
  BY <1>1, <1>3, <1>5, <1>6, <1>9, Zenon

(* What a gap covers is missing.                                           *)
LEMMA CoveredIsMissing ==
  ASSUME Inv, NEW i \in 1..Len(packetList), NEW seq \in Number,
         Place(AckAfter(i - 1)) < Place(seq), Place(seq) < Place(packetList[i].seq)
  PROVE  Missing(seq)
<1>1. /\ Len(packetList) \in Nat /\ lastDelivered \in Number /\ Place(seq) \in Int
      /\ Place(lastACK) \in Int /\ Place(AckAfter(i - 1)) \in Int
      /\ Place(lastACK) <= Place(AckAfter(i - 1))
      /\ Place(packetList[i].seq) \in Int
  BY ListElements, PlaceIsNumber, ScanPlaces, ThresholdIsHalf, Zenon DEF Inv, TypeOK
<1>2. Place(seq) > Place(lastACK)
  BY <1>1
<1>3. ASSUME NEW j \in 1..Len(packetList), packetList[j].seq = seq
      PROVE  FALSE
  <2>1. j < i
    <3>1. i < j => Place(packetList[i].seq) < Place(packetList[j].seq)
      BY DEF Inv, BufferOrder
    <3>2. Place(packetList[j].seq) < Place(packetList[i].seq)
      BY <1>3, Zenon
    <3>3. ~(i < j) /\ j # i
      BY <1>1, <1>3, <3>1, <3>2
    <3>4. QED
      BY <1>1, <3>3
  <2>2. i - 1 \in 1..Len(packetList) /\ (j = i - 1 \/ j < i - 1)
    BY <1>1, <2>1
  <2>3. Place(packetList[i - 1].seq) \in Int /\ packetList[i - 1].seq \in Number
    BY <2>2, ScanPlaces
  <2>4. Place(seq) <= Place(packetList[i - 1].seq)
    <3>1. j < i - 1 => Place(packetList[j].seq) < Place(packetList[i - 1].seq)
      BY <2>2 DEF Inv, BufferOrder
    <3>2. QED
      BY <1>1, <1>3, <2>2, <2>3, <3>1
  <2>5. CASE Lte(packetList[i - 1].seq, lastACK)
    <3>1. Place(packetList[i - 1].seq) <= Place(lastACK)
      BY <2>2, <2>5, ScanPlaces, Zenon
    <3>2. Place(seq) <= Place(lastACK)
      BY <1>1, <2>3, <2>4, <3>1
    <3>3. QED
      BY <1>1, <1>2, <3>2
  <2>6. CASE ~Lte(packetList[i - 1].seq, lastACK)
    <3>1. AckAfter(i - 1) = packetList[i - 1].seq
      BY <1>1, <2>2, <2>6 DEF AckAfter
    <3>2. QED
      BY <1>1, <2>3, <2>4, <3>1
  <2>7. QED
    BY <2>5, <2>6
<1>4. QED
  BY <1>2, <1>3, Zenon DEF Missing

(* What is missing is covered by the gap before the first later packet.    *)
LEMMA MissingIsCovered ==
  ASSUME Inv, NEW seq \in Number, Missing(seq)
  PROVE  \E i \in 1..Len(packetList) :
            /\ GapBefore(i)
            /\ Place(AckAfter(i - 1)) < Place(seq) /\ Place(seq) < Place(packetList[i].seq)
<1>1. /\ Len(packetList) \in Nat /\ lastDelivered \in Number /\ Place(seq) \in Int
  BY ListElements, PlaceIsNumber DEF Inv, TypeOK
<1>2. PICK k \in 1..Len(packetList) : Place(packetList[k].seq) > Place(seq)
  BY Zenon DEF Missing
<1>3. Place(packetList[k].seq) \in Int
  BY ScanPlaces
<1>4. PICK i \in 1..k : /\ Place(packetList[i].seq) >= Place(seq)
                        /\ Place(AckAfter(i - 1)) < Place(seq)
  BY <1>1, <1>2, <1>3, FirstAtOrAfter DEF Missing
<1>5. i \in 1..Len(packetList)
  BY <1>1
<1>6. /\ packetList[i].seq \in Number
      /\ Place(packetList[i].seq) \in Int /\ Place(AckAfter(i - 1)) \in Int
      /\ Lte(packetList[i].seq, AckAfter(i - 1))
           <=> Place(packetList[i].seq) <= Place(AckAfter(i - 1))
      /\ packetList[i].seq = Inc(AckAfter(i - 1))
           <=> Place(packetList[i].seq) = Place(AckAfter(i - 1)) + 1
  <2>1. /\ packetList[i].seq \in Number
        /\ Place(packetList[i].seq) \in 1..(threshold - 1)
        /\ Place(AckAfter(i - 1)) \in 0..(threshold - 1)
        /\ Lte(packetList[i].seq, AckAfter(i - 1))
             <=> Place(packetList[i].seq) <= Place(AckAfter(i - 1))
        /\ packetList[i].seq = Inc(AckAfter(i - 1))
             <=> Place(packetList[i].seq) = Place(AckAfter(i - 1)) + 1
    BY <1>5, ScanPlaces, Zenon
  <2>2. Place(packetList[i].seq) \in Int /\ Place(AckAfter(i - 1)) \in Int
    BY <2>1, ThresholdIsHalf
  <2>3. QED
    BY <2>1, <2>2, Zenon
<1>7. Place(packetList[i].seq) # Place(seq)
  BY <1>1, <1>5, <1>6, PlaceIsNumber DEF Missing
<1>8. QED
  BY <1>1, <1>4, <1>5, <1>6, <1>7 DEF GapBefore

(* The gaps that periodicNAK finds are exact in every reachable state.     *)
THEOREM GapsAreExact == Spec => []GapsExact
<1>1. ASSUME Inv, NEW seq \in Number
      PROVE  Covers(Gaps, seq) <=> Missing(seq)
  <2>1. Covers(Gaps, seq) <=>
          \E i \in 1..Len(packetList) :
             GapBefore(i) /\ Fwd(Gap(i)[1], seq) <= Fwd(Gap(i)[1], Gap(i)[2])
    BY Zenon DEF Covers, Gaps, Gap, GapBefore
  <2>2. QED
    BY <1>1, <2>1, GapCovers, CoveredIsMissing, MissingIsCovered
<1>2. Inv => GapsExact
  BY <1>1 DEF GapsExact
<1>3. QED
  BY <1>2, Invariance, PTL

=============================================================================
