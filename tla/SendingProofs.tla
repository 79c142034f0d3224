--------------------------- MODULE SendingProofs ----------------------------
(***************************************************************************)
(* What a connection sends: the lists of the sender, and the keys under    *)
(* which pop encrypts what the sender hands out.                           *)
(*                                                                         *)
(* The lists.  They stay in the order of the sequence numbers and the      *)
(* counters add up, for every circle, every initial sequence number, all   *)
(* times and drop thresholds and any number of packets and reports.  The   *)
(* inductive invariant speaks of the two lists one at a time: what an      *)
(* action takes out of one list, or moves from one to the other, is then a *)
(* statement about indices, and their concatenation appears only in the    *)
(* last step.                                                              *)
(*                                                                         *)
(* The keys.  A confirmed key is shared, and what is sent under a          *)
(* confirmed key can be decrypted in transit, for every refresh rate,      *)
(* pre-announce period and resend interval, under two premises: the        *)
(* pre-announce period is less than half of the refresh period (Validate   *)
(* also admits the half), and a request and its answer together do not     *)
(* outlive the rest of it.  That the key is changed every KMRefreshRate    *)
(* packets, to one drawn since the change before, needs neither premise.   *)
(***************************************************************************)
EXTENDS LiveSend, KeyRefresh, CircularProofs

\* The provers, in this order, for the leaves that name none.
USE SMTT(30), Zenon

-----------------------------------------------------------------------------
(* The lists of the sender.                                                *)

Ordered ==
  /\ \A i, j \in 1..Len(lossList) :
        i < j => Back(lossList[i].seq) > Back(lossList[j].seq)
  /\ \A i \in 1..Len(lossList) :
        Len(packetList) < Back(lossList[i].seq) /\ Back(lossList[i].seq) < threshold
  /\ \A i \in 1..Len(packetList) : Back(packetList[i].seq) = Len(packetList) - i + 1
  /\ Len(packetList) < threshold

Accounted ==
  /\ statistics.PktBuf >= Len(lossList) + Len(packetList)
  /\ phase = "open" => statistics.PktBuf = Len(lossList) + Len(packetList)
  /\ statistics.Pkt = statistics.PktUnique + statistics.PktRetrans
  /\ statistics.PktLoss = statistics.PktDrop + statistics.PktRetrans

Inv == TypeOK /\ Ordered /\ Accounted

-----------------------------------------------------------------------------
(* Lists and places.                                                       *)

(* What the lists hold are packets with a sequence number of the circle,   *)
(* and the places of these, counted back, are natural numbers.             *)
LEMMA ListElements ==
  ASSUME TypeOK
  PROVE  /\ Len(lossList) \in Nat
         /\ Len(packetList) \in Nat
         /\ \A i \in 1..Len(lossList) : /\ lossList[i] \in Packet
                                        /\ lossList[i].seq \in Number
                                        /\ Back(lossList[i].seq) \in 0..MAX
         /\ \A i \in 1..Len(packetList) : /\ packetList[i] \in Packet
                                          /\ packetList[i].seq \in Number
                                          /\ Back(packetList[i].seq) \in 0..MAX
<1>1. lossList \in Seq(Packet) /\ packetList \in Seq(Packet)
  BY DEF TypeOK
<1>2. \A i \in 1..Len(lossList) : lossList[i] \in Packet
  BY <1>1, SeqElements
<1>3. \A i \in 1..Len(packetList) : packetList[i] \in Packet
  BY <1>1, SeqElements
<1>4. \A p \in Packet : p.seq \in Number /\ Back(p.seq) \in 0..MAX
  BY OnCircle, Zenon DEF Packet, Back, TypeOK
<1>5. Len(lossList) \in Nat /\ Len(packetList) \in Nat
  BY <1>1, SeqElements
<1>6. QED
  BY <1>2, <1>3, <1>4, <1>5

(* The numbers in flight are one step further back once the next one has   *)
(* been assigned, and that one is the first.                               *)
LEMMA BackMoves ==
  ASSUME NEW a \in Number, NEW n \in Number, Fwd(a, n) < threshold
  PROVE  Fwd(a, Inc(n)) = Fwd(a, n) + 1
BY MaxAssumption, ThresholdIsHalf DEF Number, Inc, Fwd

(* The newest number lies one step behind the next one.                    *)
LEMMA NewestIsFirst ==
  ASSUME NEW n \in Number
  PROVE  Fwd(n, Inc(n)) = 1
BY MaxAssumption DEF Number, Inc, Fwd

(* Taking one element out moves the ones behind it up.                     *)
LEMMA WithoutElements ==
  ASSUME NEW S, NEW s \in Seq(S), NEW i \in 1..Len(s)
  PROVE  /\ Without(s, i) \in Seq(S)
         /\ Len(Without(s, i)) = Len(s) - 1
         /\ \A j \in 1..(Len(s) - 1) :
              Without(s, i)[j] = IF j < i THEN s[j] ELSE s[j + 1]
<1>1. Without(s, i) = Cut(s, i)
  BY DEF Without, Cut
<1>2. /\ Cut(s, i) \in Seq(S)
      /\ Len(Cut(s, i)) = Len(s) - 1
      /\ \A j \in 1..(Len(s) - 1) :
           Cut(s, i)[j] = IF j < i THEN s[j] ELSE s[j + 1]
  BY SeqCut, Zenon
<1>3. QED
  BY <1>1, <1>2, Zenon

(* A lossList that keeps some of its packets, in their order, and the      *)
(* numbers of those, is still in order.                                    *)
LEMMA ThinnedIsOrdered ==
  ASSUME Inv,
         nextSequenceNumber' = nextSequenceNumber, packetList' = packetList,
         NEW f \in [1..Len(lossList)' -> 1..Len(lossList)],
         \A i, j \in 1..Len(lossList)' : i < j => f[i] < f[j],
         \A i \in 1..Len(lossList)' : lossList'[i].seq = lossList[f[i]].seq
  PROVE  Ordered'
<1>1. \A i \in 1..Len(lossList)' : Back(lossList[i].seq)' = Back(lossList[f[i]].seq)
  BY DEF Back
<1>2. \A i \in 1..Len(packetList)' : Back(packetList[i].seq)' = Back(packetList[i].seq)
  BY DEF Back
<1>3. \A i, j \in 1..Len(lossList)' :
        i < j => Back(lossList[i].seq)' > Back(lossList[j].seq)'
  BY <1>1 DEF Inv, Ordered
<1>4. \A i \in 1..Len(lossList)' : /\ Len(packetList)' < Back(lossList[i].seq)'
                                   /\ Back(lossList[i].seq)' < threshold
  BY <1>1, Zenon DEF Inv, Ordered
<1>5. /\ \A i \in 1..Len(packetList)' :
           Back(packetList[i].seq)' = Len(packetList)' - i + 1
      /\ Len(packetList)' < threshold
  BY <1>2 DEF Inv, Ordered
<1>6. QED
  BY <1>3, <1>4, <1>5 DEF Ordered

-----------------------------------------------------------------------------
(* The initial state and the steps.                                        *)

(* The new sender holds nothing and has counted nothing.                   *)
LEMMA InitInv == Init => Inv
<1> SUFFICES ASSUME Init PROVE Inv
  OBVIOUS
<1>1. <<>> \in Seq(Packet) /\ Len(<<>>) = 0
  OBVIOUS
<1>2. TypeOK
  BY <1>1, SendAssumption DEF Init, TypeOK
<1>3. Ordered
  BY <1>1, ThresholdIsHalf DEF Init, Ordered
<1>4. Accounted
  BY <1>1 DEF Init, Accounted, Counters
<1>5. QED
  BY <1>2, <1>3, <1>4 DEF Inv

(* Push: the packet takes the number after all that are in flight, which   *)
(* the environment keeps within half of the circle.                        *)
LEMMA WriteStep ==
  ASSUME Inv, Write
  PROVE  Inv'
<1>1. TypeOK /\ Ordered /\ Accounted
  BY DEF Inv
<1>len. Len(lossList) \in Nat /\ Len(packetList) \in Nat
  BY <1>1, ListElements
<1>back. \A i \in 1..Len(lossList) : Back(lossList[i].seq) \in Int
  BY <1>1, ListElements, MaxAssumption
<1>2. PICK t \in written..LastWrite : Push(t)
  BY DEF Write
<1>3. t \in Nat /\ Scheduled(t) \in Nat
  BY <1>1, SendAssumption DEF TypeOK, Scheduled
<1> DEFINE pkt == [seq |-> nextSequenceNumber, ts |-> t, tsbpd |-> Scheduled(t),
                   retrans |-> "no"]
<1>4. pkt \in Packet
  BY <1>1, <1>3 DEF Packet, TypeOK
<1>5. packetList' = Append(packetList, pkt) /\ lossList' = lossList
  BY <1>2 DEF Push
<1>6. pkt.seq = nextSequenceNumber
  OBVIOUS
<1> HIDE DEF pkt
<1>7. /\ packetList' \in Seq(Packet)
      /\ Len(packetList') = Len(packetList) + 1
      /\ \A i \in 1..Len(packetList) : packetList'[i] = packetList[i]
      /\ packetList'[Len(packetList) + 1] = pkt
  BY <1>1, <1>4, <1>5, SeqAppend DEF TypeOK
<1>8. nextSequenceNumber' = Inc(nextSequenceNumber) /\ nextSequenceNumber' \in Number
  BY <1>1, <1>2, OnCircle DEF Push, TypeOK
<1>9. TypeOK'
  <2>1. statistics' \in [Counters -> Nat]
    <3>1. Len(packetList) + 1 \in Nat /\ statistics.PktBuf + 1 \in Nat
      BY <1>1, ListElements DEF TypeOK, Counters
    <3>2. QED
      BY <1>1, <1>2, <3>1, Zenon DEF Push, TypeOK
  <2>2. probeTime' \in Nat /\ written' \in Nat /\ outbox' \subseteq Packet
    BY <1>1, <1>2, <1>3 DEF Push, TypeOK
  <2>3. /\ lossList' \in Seq(Packet) /\ dropThreshold' \in Nat /\ now' \in Nat
        /\ pc' \in {"idle", "drop", "dropping"} /\ phase' \in {"open", "flushed"}
    BY <1>1, <1>2 DEF Push, TypeOK
  <2>4. QED
    BY <1>7, <1>8, <2>1, <2>2, <2>3 DEF TypeOK
<1>10. Accounted'
  <2>1. /\ statistics'.PktBuf = statistics.PktBuf + 1
        /\ statistics'.Pkt = statistics.Pkt
        /\ statistics'.PktUnique = statistics.PktUnique
        /\ statistics'.PktRetrans = statistics.PktRetrans
        /\ statistics'.PktLoss = statistics.PktLoss
        /\ statistics'.PktDrop = statistics.PktDrop
        /\ phase' = phase
    BY <1>1, <1>2 DEF Push, TypeOK, Counters
  <2>2. /\ statistics.PktBuf \in Nat
        /\ Len(lossList') = Len(lossList)
    BY <1>1, <1>5 DEF TypeOK, Counters
  <2>3. QED
    BY <1>len, <1>1, <1>7, <2>1, <2>2 DEF Accounted
<1>11. \A i \in 1..Len(lossList) : Back(lossList[i].seq) < threshold - 1
  <2> SUFFICES ASSUME NEW i \in 1..Len(lossList)
               PROVE  Back(lossList[i].seq) < threshold - 1
    OBVIOUS
  <2>1. 1 \in 1..Len(lossList) /\ Len(lossList) > 0
    BY <1>1, ListElements
  <2>2. InFlight # <<>> /\ Head(InFlight) = lossList[1]
    BY <1>1, <2>1 DEF InFlight, TypeOK
  <2>3. Back(lossList[1].seq) < threshold - 1
    BY <2>2 DEF Write
  <2>4. i = 1 \/ Back(lossList[1].seq) > Back(lossList[i].seq)
    BY <1>1, <2>1 DEF Ordered
  <2>5. QED
    BY <1>back, <2>1, <2>3, <2>4, ThresholdIsHalf
<1>12. Len(packetList) < threshold - 1
  <2>1. CASE Len(lossList) > 0
    <3>1. 1 \in 1..Len(lossList)
      BY <1>len, <2>1
    <3>2. Len(packetList) < Back(lossList[1].seq)
      BY <1>1, <3>1 DEF Ordered
    <3>3. QED
      BY <1>len, <1>back, <1>11, <3>1, <3>2, ThresholdIsHalf
  <2>2. CASE Len(lossList) = 0 /\ Len(packetList) > 0
    <3>1. InFlight # <<>> /\ Head(InFlight) = packetList[1]
      BY <1>1, <2>2 DEF InFlight, TypeOK
    <3>2. Back(packetList[1].seq) < threshold - 1
      BY <3>1 DEF Write
    <3>3. Back(packetList[1].seq) = Len(packetList)
      BY <1>len, <1>1, <2>2 DEF Ordered
    <3>4. QED
      BY <3>2, <3>3
  <2>3. CASE Len(packetList) = 0
    BY <2>3, ThresholdIsHalf
  <2>4. QED
    BY <1>len, <2>1, <2>2, <2>3
<1>13. \A i \in 1..Len(lossList) : Back(lossList[i].seq)' = Back(lossList[i].seq) + 1
  <2> SUFFICES ASSUME NEW i \in 1..Len(lossList)
               PROVE  Back(lossList[i].seq)' = Back(lossList[i].seq) + 1
    OBVIOUS
  <2>1. lossList[i].seq \in Number /\ nextSequenceNumber \in Number
    BY <1>1, ListElements DEF TypeOK
  <2>2. Fwd(lossList[i].seq, nextSequenceNumber) < threshold
    BY <1>1 DEF Ordered, Back
  <2>3. QED
    BY <1>5, <1>8, <2>1, <2>2, BackMoves DEF Back
<1>14. \A i \in 1..Len(packetList) :
         Back(packetList[i].seq)' = Back(packetList[i].seq) + 1
  <2> SUFFICES ASSUME NEW i \in 1..Len(packetList)
               PROVE  Back(packetList[i].seq)' = Back(packetList[i].seq) + 1
    OBVIOUS
  <2>1. packetList[i].seq \in Number /\ nextSequenceNumber \in Number
    BY <1>1, ListElements DEF TypeOK
  <2>2. Back(packetList[i].seq) = Len(packetList) - i + 1
    BY <1>1 DEF Ordered
  <2>3. Fwd(packetList[i].seq, nextSequenceNumber) < threshold
    BY <1>len, <1>1, <1>12, <2>2, ThresholdIsHalf DEF Back
  <2>4. QED
    BY <1>7, <1>8, <2>1, <2>3, BackMoves DEF Back
<1>15. Back(packetList[Len(packetList)].seq)' = 1
  <2>1. packetList'[Len(packetList')].seq = nextSequenceNumber
    BY <1>6, <1>7
  <2>2. QED
    BY <1>1, <1>8, <2>1, NewestIsFirst DEF Back, TypeOK
<1>16. Ordered'
  <2>1. \A i, j \in 1..Len(lossList)' :
          i < j => Back(lossList[i].seq)' > Back(lossList[j].seq)'
    BY <1>len, <1>back, <1>1, <1>5, <1>13 DEF Ordered
  <2>2. \A i \in 1..Len(lossList)' : /\ Len(packetList)' < Back(lossList[i].seq)'
                                     /\ Back(lossList[i].seq)' < threshold
    BY <1>len, <1>back, <1>1, <1>5, <1>7, <1>11, <1>13, ThresholdIsHalf DEF Ordered
  <2>3. \A i \in 1..Len(packetList)' :
          Back(packetList[i].seq)' = Len(packetList)' - i + 1
    <3> SUFFICES ASSUME NEW i \in 1..(Len(packetList) + 1)
                 PROVE  Back(packetList[i].seq)' = Len(packetList) + 1 - i + 1
      BY <1>7
    <3>1. CASE i \in 1..Len(packetList)
      <4>1. Back(packetList[i].seq) = Len(packetList) - i + 1
        BY <1>1, <3>1 DEF Ordered
      <4>2. QED
        BY <1>len, <1>14, <3>1, <4>1
    <3>2. CASE i = Len(packetList) + 1
      <4>1. Back(packetList[i].seq)' = 1
        BY <1>7, <1>15, <3>2
      <4>2. QED
        BY <1>len, <3>2, <4>1
    <3>3. QED
      BY <1>len, <3>1, <3>2
  <2>4. Len(packetList)' < threshold
    BY <1>len, <1>7, <1>12, ThresholdIsHalf
  <2>5. QED
    BY <2>1, <2>2, <2>3, <2>4 DEF Ordered
<1>17. QED
  BY <1>9, <1>10, <1>16 DEF Inv

(* Tick, the packets whose time has come: they move, in their order, from  *)
(* the front of one list to the end of the other.                          *)
LEMMA TickSendStep ==
  ASSUME Inv, NEW t \in Later, TickSend(t)
  PROVE  Inv'
<1>1. TypeOK /\ Ordered /\ Accounted
  BY DEF Inv
<1>len. Len(lossList) \in Nat /\ Len(packetList) \in Nat
  BY <1>1, ListElements
<1>back. \A i \in 1..Len(lossList) : Back(lossList[i].seq) \in Int
  BY <1>1, ListElements, MaxAssumption
<1>2. PICK k \in 0..Len(packetList) :
        /\ outbox' = {packetList[i] : i \in 1..k}
        /\ lossList' = lossList \o SubSeq(packetList, 1, k)
        /\ packetList' = SubSeq(packetList, k + 1, Len(packetList))
        /\ statistics' = [statistics EXCEPT !.Pkt = @ + k, !.PktUnique = @ + k]
  BY Zenon DEF TickSend
<1>3. k \in Nat /\ k <= Len(packetList)
  BY <1>1, ListElements
<1> DEFINE front == SubSeq(packetList, 1, k)
<1>4. /\ front \in Seq(Packet)
      /\ Len(front) = k
      /\ \A i \in 1..k : front[i] = packetList[i]
  BY <1>1, SeqPrefix DEF TypeOK
<1>5. lossList' = lossList \o front
  BY <1>2
<1> HIDE DEF front
<1>6. /\ lossList' \in Seq(Packet)
      /\ Len(lossList') = Len(lossList) + k
      /\ \A i \in 1..Len(lossList) : lossList'[i] = lossList[i]
      /\ \A i \in 1..k : lossList'[Len(lossList) + i] = packetList[i]
  <2>1. lossList \in Seq(Packet)
    BY <1>1 DEF TypeOK
  <2>2. /\ lossList' \in Seq(Packet)
        /\ Len(lossList') = Len(lossList) + Len(front)
        /\ \A i \in 1..(Len(lossList) + Len(front)) :
              lossList'[i] = IF i <= Len(lossList) THEN lossList[i]
                             ELSE front[i - Len(lossList)]
    BY <1>4, <1>5, <2>1, SeqConcat, Zenon
  <2>3. /\ \A i \in 1..Len(lossList) :
             i \in 1..(Len(lossList) + k) /\ i <= Len(lossList)
        /\ \A i \in 1..k : /\ Len(lossList) + i \in 1..(Len(lossList) + k)
                          /\ ~(Len(lossList) + i <= Len(lossList))
                          /\ (Len(lossList) + i) - Len(lossList) = i
    BY <1>len, <1>3
  <2>4. QED
    BY <1>4, <2>2, <2>3, Zenon
<1>7. /\ packetList' \in Seq(Packet)
      /\ Len(packetList') = Len(packetList) - k
      /\ \A i \in 1..(Len(packetList) - k) : packetList'[i] = packetList[k + i]
  BY <1>1, <1>2, SeqSuffix, Zenon DEF TypeOK
<1>8. nextSequenceNumber' = nextSequenceNumber
  BY DEF TickSend
<1>9. TypeOK'
  <2>1. statistics' \in [Counters -> Nat]
    <3>1. statistics.Pkt + k \in Nat /\ statistics.PktUnique + k \in Nat
      BY <1>1, <1>3 DEF TypeOK, Counters
    <3>2. QED
      BY <1>1, <1>2, <3>1, Zenon DEF TypeOK
  <2>2. outbox' \subseteq Packet
    <3>1. \A i \in 1..k : packetList[i] \in Packet
      BY <1>1, <1>3, ListElements
    <3>2. QED
      BY <1>2, <3>1
  <2>3. t \in Nat
    BY <1>1, SendAssumption DEF Later, TypeOK
  <2>4. QED
    BY <1>1, <1>6, <1>7, <2>1, <2>2, <2>3, Zenon DEF TickSend, TypeOK
<1>10. Accounted'
  <2>1. /\ statistics'.PktBuf = statistics.PktBuf
        /\ statistics'.Pkt = statistics.Pkt + k
        /\ statistics'.PktUnique = statistics.PktUnique + k
        /\ statistics'.PktRetrans = statistics.PktRetrans
        /\ statistics'.PktLoss = statistics.PktLoss
        /\ statistics'.PktDrop = statistics.PktDrop
    BY <1>1, <1>2 DEF TypeOK, Counters
  <2>2. /\ statistics.PktBuf \in Nat /\ statistics.Pkt \in Nat
        /\ statistics.PktUnique \in Nat /\ statistics.PktRetrans \in Nat
        /\ phase' = phase
    BY <1>1 DEF TypeOK, Counters, TickSend
  <2>3. QED
    BY <1>len, <1>1, <1>3, <1>6, <1>7, <2>1, <2>2 DEF Accounted
<1>11. ASSUME NEW i \in 1..Len(lossList')
       PROVE  \/ /\ i \in 1..Len(lossList)
                 /\ Back(lossList[i].seq)' = Back(lossList[i].seq)
              \/ /\ i \in (Len(lossList) + 1)..(Len(lossList) + k)
                 /\ Back(lossList[i].seq)' = Len(packetList) + Len(lossList) - i + 1
  <2>1. CASE i \in 1..Len(lossList)
    BY <1>6, <1>8, <2>1 DEF Back
  <2>2. CASE i \notin 1..Len(lossList)
    <3>1. PICK j \in 1..k : i = Len(lossList) + j
      <4>1. i - Len(lossList) \in 1..k /\ i = Len(lossList) + (i - Len(lossList))
        BY <1>len, <1>3, <1>6, <2>2
      <4>2. QED
        BY <4>1
    <3>2. lossList'[i] = packetList[j]
      BY <1>6, <3>1
    <3>3. Back(lossList[i].seq)' = Back(packetList[j].seq)
      BY <1>8, <3>2 DEF Back
    <3>4. j \in 1..Len(packetList)
      BY <1>len, <1>3
    <3>5. Back(packetList[j].seq) = Len(packetList) - j + 1
      BY <1>1, <3>4 DEF Ordered
    <3>6. QED
      BY <1>len, <1>3, <3>1, <3>3, <3>5
  <2>3. QED
    BY <2>1, <2>2
<1>12. \A i \in 1..Len(packetList') :
         Back(packetList[i].seq)' = Len(packetList) - k - i + 1
  <2> SUFFICES ASSUME NEW i \in 1..(Len(packetList) - k)
               PROVE  Back(packetList[i].seq)' = Len(packetList) - k - i + 1
    BY <1>7
  <2>1. Back(packetList[i].seq)' = Back(packetList[k + i].seq)
    BY <1>7, <1>8 DEF Back
  <2>2. k + i \in 1..Len(packetList)
    BY <1>len, <1>3
  <2>3. Back(packetList[k + i].seq) = Len(packetList) - (k + i) + 1
    BY <1>1, <2>2 DEF Ordered
  <2>4. QED
    BY <1>len, <1>3, <2>1, <2>3
<1>13. Ordered'
  <2>1. ASSUME NEW i \in 1..Len(lossList'), NEW j \in 1..Len(lossList'), i < j
        PROVE  Back(lossList[i].seq)' > Back(lossList[j].seq)'
    <3>1. CASE j \in 1..Len(lossList)
      <4>1. i \in 1..Len(lossList)
        BY <1>len, <2>1, <3>1
      <4>2. /\ Back(lossList[i].seq)' = Back(lossList[i].seq)
            /\ Back(lossList[j].seq)' = Back(lossList[j].seq)
        BY <1>6, <1>8, <3>1, <4>1 DEF Back
      <4>3. QED
        BY <1>1, <2>1, <3>1, <4>1, <4>2 DEF Ordered
    <3>2. CASE /\ j \in (Len(lossList) + 1)..(Len(lossList) + k)
               /\ Back(lossList[j].seq)' = Len(packetList) + Len(lossList) - j + 1
      <4>1. CASE /\ i \in 1..Len(lossList)
                 /\ Back(lossList[i].seq)' = Back(lossList[i].seq)
        <5>1. Len(packetList) < Back(lossList[i].seq)
          BY <1>1, <4>1 DEF Ordered
        <5>2. QED
          BY <1>len, <1>back, <1>3, <3>2, <4>1, <5>1
      <4>2. CASE /\ i \in (Len(lossList) + 1)..(Len(lossList) + k)
                 /\ Back(lossList[i].seq)' = Len(packetList) + Len(lossList) - i + 1
        BY <1>len, <1>3, <2>1, <3>2, <4>2
      <4>3. QED
        BY <1>11, <4>1, <4>2
    <3>3. QED
      BY <1>11, <3>1, <3>2
  <2>2. ASSUME NEW i \in 1..Len(lossList')
        PROVE  /\ Len(packetList') < Back(lossList[i].seq)'
               /\ Back(lossList[i].seq)' < threshold
    <3>1. CASE /\ i \in 1..Len(lossList)
               /\ Back(lossList[i].seq)' = Back(lossList[i].seq)
      <4>1. Len(packetList) < Back(lossList[i].seq) /\ Back(lossList[i].seq) < threshold
        BY <1>1, <3>1 DEF Ordered
      <4>2. QED
        BY <1>len, <1>back, <1>3, <1>7, <3>1, <4>1
    <3>2. CASE /\ i \in (Len(lossList) + 1)..(Len(lossList) + k)
               /\ Back(lossList[i].seq)' = Len(packetList) + Len(lossList) - i + 1
      <4>1. Len(packetList) < threshold
        BY <1>1 DEF Ordered
      <4>2. QED
        BY <1>len, <1>3, <1>7, <3>2, <4>1, ThresholdIsHalf
    <3>3. QED
      BY <1>11, <3>1, <3>2
  <2>3. Len(packetList') < threshold
    BY <1>len, <1>1, <1>3, <1>7, ThresholdIsHalf DEF Ordered
  <2>4. \A i \in 1..Len(packetList)' :
          Back(packetList[i].seq)' = Len(packetList)' - i + 1
    BY <1>7, <1>12
  <2>5. QED
    BY <2>1, <2>2, <2>3, <2>4 DEF Ordered
<1>14. QED
  BY <1>9, <1>10, <1>13 DEF Inv

(* Tick, a packet that is too late: it leaves the lossList, wherever it is *)
(* in it, and is counted as dropped.                                       *)
LEMMA TickDropStep ==
  ASSUME Inv, TickDrop
  PROVE  Inv'
<1>1. TypeOK /\ Ordered /\ Accounted
  BY DEF Inv
<1>len. Len(lossList) \in Nat /\ Len(packetList) \in Nat
  BY <1>1, ListElements
<1>2. PICK i \in 1..Len(lossList) : lossList' = Without(lossList, i)
  BY DEF TickDrop
<1>3. /\ lossList' \in Seq(Packet)
      /\ Len(lossList') = Len(lossList) - 1
      /\ \A j \in 1..(Len(lossList) - 1) :
           lossList'[j] = IF j < i THEN lossList[j] ELSE lossList[j + 1]
  BY <1>1, <1>2, WithoutElements, Zenon DEF TypeOK
<1>4. Len(lossList) >= 1 /\ statistics.PktBuf - 1 \in Nat
  <2>1. Len(lossList) >= 1
    BY <1>1, ListElements
  <2>2. statistics.PktBuf \in Nat
    BY <1>1 DEF TypeOK, Counters
  <2>3. QED
    BY <1>len, <1>1, <2>1, <2>2 DEF Accounted
<1>5. TypeOK'
  <2>1. statistics' \in [Counters -> Nat]
    <3>1. statistics.PktDrop + 1 \in Nat /\ statistics.PktLoss + 1 \in Nat
      BY <1>1 DEF TypeOK, Counters
    <3>2. QED
      BY <1>1, <1>4, <3>1, Zenon DEF TypeOK, TickDrop, Counters
  <2>2. QED
    BY <1>1, <1>3, <2>1 DEF TypeOK, TickDrop
<1>6. Accounted'
  <2>1. /\ statistics'.PktBuf = statistics.PktBuf - 1
        /\ statistics'.Pkt = statistics.Pkt
        /\ statistics'.PktUnique = statistics.PktUnique
        /\ statistics'.PktRetrans = statistics.PktRetrans
        /\ statistics'.PktLoss = statistics.PktLoss + 1
        /\ statistics'.PktDrop = statistics.PktDrop + 1
    BY <1>1 DEF TypeOK, Counters, TickDrop
  <2>2. /\ statistics.PktBuf \in Nat /\ statistics.PktLoss \in Nat
        /\ statistics.PktDrop \in Nat /\ statistics.PktRetrans \in Nat
        /\ phase' = phase /\ packetList' = packetList
    BY <1>1 DEF TypeOK, Counters, TickDrop
  <2>3. Len(lossList) \in Nat /\ Len(packetList) \in Nat
    BY <1>1, ListElements
  <2>4. /\ statistics'.PktBuf >= Len(lossList') + Len(packetList')
        /\ phase' = "open" => statistics'.PktBuf = Len(lossList') + Len(packetList')
    BY <1>1, <1>3, <2>1, <2>2, <2>3 DEF Accounted
  <2>5. /\ statistics'.Pkt = statistics'.PktUnique + statistics'.PktRetrans
        /\ statistics'.PktLoss = statistics'.PktDrop + statistics'.PktRetrans
    BY <1>1, <2>1, <2>2 DEF Accounted
  <2>6. QED
    BY <2>4, <2>5 DEF Accounted
<1>7. Ordered'
  <2> DEFINE f == [j \in 1..Len(lossList') |-> IF j < i THEN j ELSE j + 1]
  <2>1. f \in [1..Len(lossList') -> 1..Len(lossList)]
    BY <1>len, <1>3
  <2>2. \A j, k \in 1..Len(lossList') : j < k => f[j] < f[k]
    BY <1>len, <1>3
  <2>3. \A j \in 1..Len(lossList') : lossList'[j].seq = lossList[f[j]].seq
    BY <1>3
  <2>4. nextSequenceNumber' = nextSequenceNumber /\ packetList' = packetList
    BY DEF TickDrop
  <2> HIDE DEF f
  <2>5. QED
    BY <2>1, <2>2, <2>3, <2>4, ThinnedIsOrdered
<1>8. QED
  BY <1>5, <1>6, <1>7 DEF Inv

(* ACK: the packets before the acknowledged number are released.           *)
LEMMA ACKStep ==
  ASSUME Inv, NEW seq \in Number, ACK(seq)
  PROVE  Inv'
<1>1. TypeOK /\ Ordered /\ Accounted
  BY DEF Inv
<1>len. Len(lossList) \in Nat /\ Len(packetList) \in Nat
  BY <1>1, ListElements
<1>2. PICK k \in 0..Len(lossList) :
        /\ lossList' = SubSeq(lossList, k + 1, Len(lossList))
        /\ statistics' = [statistics EXCEPT !.PktBuf = @ - k]
  BY Zenon DEF ACK
<1>3. /\ lossList' \in Seq(Packet)
      /\ Len(lossList') = Len(lossList) - k
      /\ \A j \in 1..(Len(lossList) - k) : lossList'[j] = lossList[k + j]
  BY <1>1, <1>2, SeqSuffix, Zenon DEF TypeOK
<1>4. k \in Nat /\ k <= Len(lossList) /\ statistics.PktBuf - k \in Nat
  <2>1. k \in Nat /\ k <= Len(lossList)
    BY <1>1, ListElements
  <2>2. statistics.PktBuf \in Nat
    BY <1>1 DEF TypeOK, Counters
  <2>3. QED
    BY <1>len, <1>1, <2>1, <2>2 DEF Accounted
<1>5. TypeOK'
  <2>1. statistics' \in [Counters -> Nat]
    BY <1>1, <1>2, <1>4, Zenon DEF TypeOK
  <2>2. QED
    BY <1>1, <1>3, <2>1, Zenon DEF TypeOK, ACK
<1>6. Accounted'
  <2>1. /\ statistics'.PktBuf = statistics.PktBuf - k
        /\ statistics'.Pkt = statistics.Pkt
        /\ statistics'.PktUnique = statistics.PktUnique
        /\ statistics'.PktRetrans = statistics.PktRetrans
        /\ statistics'.PktLoss = statistics.PktLoss
        /\ statistics'.PktDrop = statistics.PktDrop
    BY <1>1, <1>2 DEF TypeOK, Counters
  <2>2. /\ statistics.PktBuf \in Nat
        /\ phase' = phase /\ packetList' = packetList
    BY <1>1 DEF TypeOK, Counters, ACK
  <2>3. QED
    BY <1>len, <1>1, <1>3, <1>4, <2>1, <2>2 DEF Accounted
<1>7. Ordered'
  <2> DEFINE f == [j \in 1..Len(lossList') |-> k + j]
  <2>1. f \in [1..Len(lossList') -> 1..Len(lossList)]
    BY <1>len, <1>3, <1>4
  <2>2. \A i, j \in 1..Len(lossList') : i < j => f[i] < f[j]
    BY <1>len, <1>3, <1>4
  <2>3. \A j \in 1..Len(lossList') : lossList'[j].seq = lossList[f[j]].seq
    BY <1>3
  <2>4. nextSequenceNumber' = nextSequenceNumber /\ packetList' = packetList
    BY DEF ACK
  <2> HIDE DEF f
  <2>5. QED
    BY <2>1, <2>2, <2>3, <2>4, ThinnedIsOrdered
<1>8. QED
  BY <1>5, <1>6, <1>7 DEF Inv

(* NAK: the packets resent are flagged; numbers and order stay.            *)
LEMMA NAKStep ==
  ASSUME Inv, NEW list, NAK(list)
  PROVE  Inv'
<1> DEFINE Hit(i) == \E r \in list : Requested(lossList[i], r)
           again(i) == [lossList[i] EXCEPT !.retrans = "yes"]
           hits == {h \in (1..Len(lossList)) \X list : Requested(lossList[h[1]], h[2])}
           n == Cardinality(hits)
<1>1. TypeOK /\ Ordered /\ Accounted
  BY DEF Inv
<1>len. Len(lossList) \in Nat /\ Len(packetList) \in Nat
  BY <1>1, ListElements
<1>2. /\ outbox' = {again(i) : i \in {j \in 1..Len(lossList) : Hit(j)}}
      /\ lossList' = [i \in 1..Len(lossList) |-> IF Hit(i) THEN again(i) ELSE lossList[i]]
      /\ statistics' = [statistics EXCEPT !.Pkt = @ + n, !.PktRetrans = @ + n,
                                          !.PktLoss = @ + n]
  BY DEF NAK
<1>3. n \in Nat
  BY DEF NAK
<1> HIDE DEF hits, n, Hit
<1>4. \A i \in 1..Len(lossList) : again(i) \in Packet /\ again(i).seq = lossList[i].seq
  BY <1>1, ListElements DEF Packet
<1>5. /\ lossList' \in Seq(Packet)
      /\ Len(lossList') = Len(lossList)
      /\ \A i \in 1..Len(lossList) : lossList'[i].seq = lossList[i].seq
  <2>1. \A i \in 1..Len(lossList) : lossList'[i] \in Packet
    BY <1>1, <1>2, <1>4, ListElements
  <2>2. lossList' \in [1..Len(lossList) -> Packet]
    BY <1>2, <2>1
  <2>3. lossList' \in Seq(Packet) /\ Len(lossList') = Len(lossList)
    BY <1>len, <2>2, SeqOfFunction
  <2>4. QED
    BY <1>2, <1>4, <2>3
<1>6. TypeOK'
  <2>1. statistics' \in [Counters -> Nat]
    <3>1. /\ statistics.Pkt + n \in Nat /\ statistics.PktRetrans + n \in Nat
          /\ statistics.PktLoss + n \in Nat
      <4>1. /\ statistics.Pkt \in Nat /\ statistics.PktRetrans \in Nat
            /\ statistics.PktLoss \in Nat
        BY <1>1 DEF TypeOK, Counters
      <4>2. QED
        BY <1>3, <4>1
    <3>2. QED
      BY <1>1, <1>2, <3>1, Zenon DEF TypeOK, Counters
  <2>2. outbox' \subseteq Packet
    BY <1>2, <1>4
  <2>3. QED
    BY <1>1, <1>5, <2>1, <2>2, Zenon DEF TypeOK, NAK
<1>7. Accounted'
  <2>1. /\ statistics'.PktBuf = statistics.PktBuf
        /\ statistics'.Pkt = statistics.Pkt + n
        /\ statistics'.PktUnique = statistics.PktUnique
        /\ statistics'.PktRetrans = statistics.PktRetrans + n
        /\ statistics'.PktLoss = statistics.PktLoss + n
        /\ statistics'.PktDrop = statistics.PktDrop
    BY <1>1, <1>2 DEF TypeOK, Counters
  <2>2. /\ statistics.Pkt \in Nat /\ statistics.PktUnique \in Nat
        /\ statistics.PktRetrans \in Nat /\ statistics.PktLoss \in Nat
        /\ statistics.PktDrop \in Nat
    BY <1>1 DEF TypeOK, Counters
  <2>3. phase' = phase /\ packetList' = packetList
    BY DEF NAK
  <2>4. /\ statistics'.PktBuf >= Len(lossList') + Len(packetList')
        /\ phase' = "open" => statistics'.PktBuf = Len(lossList') + Len(packetList')
    BY <1>1, <1>5, <2>1, <2>3 DEF Accounted
  <2>5. /\ statistics'.Pkt = statistics'.PktUnique + statistics'.PktRetrans
        /\ statistics'.PktLoss = statistics'.PktDrop + statistics'.PktRetrans
    BY <1>1, <1>3, <2>1, <2>2 DEF Accounted
  <2>6. QED
    BY <2>4, <2>5 DEF Accounted
<1>8. Ordered'
  <2> DEFINE f == [j \in 1..Len(lossList') |-> j]
  <2>1. f \in [1..Len(lossList') -> 1..Len(lossList)]
    BY <1>5
  <2>2. \A i, j \in 1..Len(lossList') : i < j => f[i] < f[j]
    OBVIOUS
  <2>3. \A j \in 1..Len(lossList') : lossList'[j].seq = lossList[f[j]].seq
    BY <1>5
  <2>4. nextSequenceNumber' = nextSequenceNumber /\ packetList' = packetList
    BY DEF NAK
  <2> HIDE DEF f
  <2>5. QED
    BY <2>1, <2>2, <2>3, <2>4, ThinnedIsOrdered
<1>9. QED
  BY <1>6, <1>7, <1>8 DEF Inv

(* Flush empties the lists and leaves the counters.                        *)
LEMMA FlushStep ==
  ASSUME Inv, Flush
  PROVE  Inv'
<1>1. TypeOK /\ Ordered /\ Accounted
  BY DEF Inv
<1>2. <<>> \in Seq(Packet) /\ Len(<<>>) = 0
  OBVIOUS
<1>3. /\ lossList' = <<>> /\ packetList' = <<>>
      /\ phase' = "flushed" /\ statistics' = statistics
  BY DEF Flush
<1>4. TypeOK'
  BY <1>1, <1>2, <1>3 DEF Flush, TypeOK
<1>5. Ordered'
  BY <1>2, <1>3, ThresholdIsHalf DEF Ordered
<1>6. Accounted'
  <2>1. statistics.PktBuf \in Nat
    BY <1>1 DEF TypeOK, Counters
  <2>2. QED
    BY <1>1, <1>2, <1>3, <2>1 DEF Accounted
<1>7. QED
  BY <1>4, <1>5, <1>6 DEF Inv

(* A step that leaves the lists, the counters and the phase alone.         *)
LEMMA OtherStep ==
  ASSUME Inv, TypeOK', UNCHANGED <<listVars, statistics, phase>>
  PROVE  Inv'
<1>1. Ordered'
  BY DEF Inv, Ordered, Back, listVars
<1>2. Accounted'
  BY DEF Inv, Accounted, listVars
<1>3. QED
  BY <1>1, <1>2 DEF Inv

(* Every step of the sender preserves the invariant.                       *)
LEMMA NextInv ==
  ASSUME Inv, [Next]_vars
  PROVE  Inv'
<1>1. CASE Write
  BY <1>1, WriteStep
<1>2. CASE Report
  <2>1. ASSUME NEW seq \in Number, ACK(seq)
        PROVE  Inv'
    BY <2>1, ACKStep
  <2>2. ASSUME NEW lo \in Number, NEW hi \in Number, NAK({<<lo, hi>>})
        PROVE  Inv'
    BY <2>2, NAKStep
  <2>3. QED
    BY <1>2, <2>1, <2>2, Zenon DEF Report
<1>3. CASE \E t \in Later : TickSend(t)
  BY <1>3, TickSendStep
<1>4. CASE TickDrop
  BY <1>4, TickDropStep
<1>5. CASE TickDone
  <2>1. TypeOK'
    BY <1>5 DEF Inv, TypeOK, TickDone, listVars
  <2>2. QED
    BY <1>5, <2>1, OtherStep DEF TickDone
<1>6. CASE \E d \in DropThresholds : SetDropThreshold(d)
  <2>1. TypeOK'
    BY <1>6, SendAssumption DEF Inv, TypeOK, SetDropThreshold, listVars
  <2>2. QED
    BY <1>6, <2>1, OtherStep DEF SetDropThreshold
<1>7. CASE Flush
  BY <1>7, FlushStep
<1>8. CASE UNCHANGED vars
  <2>1. TypeOK'
    BY <1>8 DEF Inv, TypeOK, vars, listVars
  <2>2. QED
    BY <1>8, <2>1, OtherStep DEF vars
<1>9. QED
  BY <1>1, <1>2, <1>3, <1>4, <1>5, <1>6, <1>7, <1>8 DEF Next, Tick

(* The inductive invariant of the sender: whatever Push, Tick, ACK, NAK    *)
(* and Flush interleave, the two lists hold each number at most once, in   *)
(* order, and the counters agree with them.                                *)
THEOREM InvHolds == Spec => []Inv
<1>1. Init => Inv
  BY InitInv
<1>2. Inv /\ [Next]_vars => Inv'
  BY NextInv
<1>3. QED
  BY <1>1, <1>2, PTL DEF Spec

-----------------------------------------------------------------------------
(* The results.                                                            *)

(* The variables of the sender keep their types; in particular the         *)
(* unsigned counter PktBuf, from which ACK and Tick subtract, never falls  *)
(* below zero.                                                             *)
THEOREM TypesHold == Spec => []TypeOK
<1>1. Inv => TypeOK
  BY DEF Inv
<1>2. QED
  BY <1>1, InvHolds, PTL

(* The packet at an index of the two lists taken together.                 *)
LEMMA InFlightElements ==
  ASSUME TypeOK
  PROVE  /\ Len(InFlight) = Len(lossList) + Len(packetList)
         /\ \A i \in 1..(Len(lossList) + Len(packetList)) :
              InFlight[i] = IF i <= Len(lossList) THEN lossList[i]
                            ELSE packetList[i - Len(lossList)]
<1>1. lossList \in Seq(Packet) /\ packetList \in Seq(Packet)
  BY DEF TypeOK
<1>2. QED
  BY <1>1, SeqConcat DEF InFlight

(* What was sent and is kept comes before what waits, in the order of the  *)
(* numbers, and what waits is a gapless run: whatever ACK, NAK, Flush and  *)
(* the dropping of late packets take out.                                  *)
THEOREM QueuesStayInOrder == Spec => []QueuesInOrder
<1>1. ASSUME Inv PROVE QueuesInOrder
  <2>1. TypeOK /\ Ordered
    BY <1>1 DEF Inv
  <2>len. Len(lossList) \in Nat /\ Len(packetList) \in Nat
    BY <2>1, ListElements
  <2>2. ASSUME NEW i \in 1..Len(InFlight)
        PROVE  \/ /\ i \in 1..Len(lossList)
                  /\ InFlight[i] = lossList[i]
               \/ /\ i - Len(lossList) \in 1..Len(packetList)
                  /\ Back(InFlight[i].seq) = Len(packetList) - (i - Len(lossList)) + 1
    <3>1. i \in 1..(Len(lossList) + Len(packetList))
      BY <2>1, InFlightElements
    <3>2. CASE i <= Len(lossList)
      BY <2>len, <2>1, <3>1, <3>2, InFlightElements
    <3>3. CASE ~(i <= Len(lossList))
      <4>1. i - Len(lossList) \in 1..Len(packetList)
        BY <2>len, <3>1, <3>3
      <4>2. InFlight[i] = packetList[i - Len(lossList)]
        BY <2>1, <3>1, <3>3, InFlightElements
      <4>3. QED
        BY <2>1, <4>1, <4>2 DEF Ordered
    <3>4. QED
      BY <3>2, <3>3
  <2>3. ASSUME NEW i \in 1..Len(InFlight), NEW j \in 1..Len(InFlight), i < j
        PROVE  Back(InFlight[i].seq) > Back(InFlight[j].seq)
    <3>1. Len(InFlight) = Len(lossList) + Len(packetList)
      BY <2>1, InFlightElements
    <3>2. CASE j \in 1..Len(lossList) /\ InFlight[j] = lossList[j]
      <4>1. i \in 1..Len(lossList) /\ InFlight[i] = lossList[i]
        <5>1. i \in 1..Len(lossList) /\ ~(i - Len(lossList) \in 1..Len(packetList))
          BY <2>len, <2>3, <3>1, <3>2
        <5>2. QED
          BY <2>2, <5>1
      <4>2. QED
        BY <2>1, <2>3, <3>2, <4>1 DEF Ordered
    <3>3. CASE /\ j - Len(lossList) \in 1..Len(packetList)
               /\ Back(InFlight[j].seq) = Len(packetList) - (j - Len(lossList)) + 1
      <4>1. CASE i \in 1..Len(lossList) /\ InFlight[i] = lossList[i]
        <5>1. Back(InFlight[i].seq) > Len(packetList) /\ Back(InFlight[i].seq) \in 0..MAX
          BY <2>1, <4>1, ListElements DEF Ordered
        <5>2. QED
          BY <2>len, <3>1, <3>3, <5>1, MaxAssumption
      <4>2. CASE Back(InFlight[i].seq) = Len(packetList) - (i - Len(lossList)) + 1
        BY <2>len, <2>3, <3>1, <3>3, <4>2
      <4>3. QED
        BY <2>2, <4>1, <4>2
    <3>4. QED
      BY <2>2, <3>2, <3>3
  <2>4. ASSUME NEW i \in 1..Len(InFlight)
        PROVE  Back(InFlight[i].seq) < threshold
    <3>1. CASE i \in 1..Len(lossList) /\ InFlight[i] = lossList[i]
      BY <2>1, <3>1 DEF Ordered
    <3>2. CASE /\ i - Len(lossList) \in 1..Len(packetList)
               /\ Back(InFlight[i].seq) = Len(packetList) - (i - Len(lossList)) + 1
      <4>1. Len(packetList) < threshold
        BY <2>1 DEF Ordered
      <4>2. QED
        BY <2>len, <3>2, <4>1, ThresholdIsHalf
    <3>3. QED
      BY <2>2, <3>1, <3>2
  <2>5. QED
    BY <2>1, <2>3, <2>4 DEF QueuesInOrder, Ordered
<1>2. QED
  BY <1>1, InvHolds, PTL

(* The counters of the sender add up: PktBuf covers the two lists exactly  *)
(* until Flush and never less, and transmissions and losses are accounted  *)
(* for.                                                                    *)
THEOREM SendStaysAccounted == Spec => []SendAccounted
<1>1. ASSUME Inv PROVE SendAccounted
  <2>1. Len(InFlight) = Len(lossList) + Len(packetList)
    BY <1>1, InFlightElements DEF Inv
  <2>2. QED
    BY <1>1, <2>1 DEF Inv, Accounted, SendAccounted
<1>2. QED
  BY <1>1, InvHolds, PTL

-----------------------------------------------------------------------------
(* The keys.  Timely states the two premises.                              *)

Timely ==
  /\ 2 * KMPreAnnounce < KMRefreshRate
  /\ 2 * Lifetime <= KMRefreshRate - 2 * KMPreAnnounce

\* Packets since the last switch, and the number of the last one before it.
Since == KMRefreshRate - kmRefreshCountdown
Start == sent - Since

Other == Opposite(keyBaseEncryption)

Shared(flag) == peerSek[flag] = sek[flag]

\* The next key is announced in the last KMPreAnnounce packets of a period.
AnnouncePeriod == Since >= KMRefreshRate - KMPreAnnounce

CountdownInv ==
  /\ Start >= 0
  /\ ~AnnouncePeriod =>
       kmPreAnnounceCountdown = KMRefreshRate - KMPreAnnounce - Since

\* A request belongs to this period or announced the key now in use.
RequestInv ==
  \A m \in net : m.type = "KMREQ" =>
    /\ m.no <= sent /\ sent - m.no <= Lifetime
    /\ m.no > Start => AnnouncePeriod /\ m.flag = Other /\ m.key = sek[Other]
    /\ m.no <= Start => m.flag = keyBaseEncryption /\ m.key = sek[keyBaseEncryption]

\* The answer to a request of this period means that the key was taken over.
ResponseInv ==
  \A m \in net : m.type = "KMRSP" =>
    /\ m.req <= m.no /\ m.no - m.req <= Lifetime
    /\ m.no <= sent /\ sent - m.no <= Lifetime
    /\ m.req > Start => AnnouncePeriod /\ Shared(Other) /\ peerKeyBase = Other

ConfirmedInv ==
  kmConfirmed = "yes" => AnnouncePeriod /\ Shared(Other) /\ peerKeyBase = Other

TrustedInv == trusted = "yes" => Shared(keyBaseEncryption)

DataInv ==
  \A m \in net : m.type = "data" =>
    /\ m.no <= sent /\ sent - m.no <= Lifetime
    /\ (m.retrans = "no" /\ m.trusted = "yes") =>
         /\ m.no > Start => /\ m.flag = keyBaseEncryption
                            /\ m.key = sek[keyBaseEncryption]
                            /\ trusted = "yes"
         /\ m.no <= Start => m.flag = Other /\ m.key = peerSek[Other]

KInv == /\ KeyTypeOK /\ CountdownInv /\ RequestInv /\ ResponseInv
        /\ ConfirmedInv /\ TrustedInv /\ DataInv

-----------------------------------------------------------------------------

(* Opposite swaps the two keys.                                            *)
LEMMA OppositeSwaps ==
  ASSUME NEW f \in Flag
  PROVE  /\ Opposite(f) \in Flag /\ Opposite(f) # f
         /\ Opposite(Opposite(f)) = f
         /\ \A g \in Flag : g # f => g = Opposite(f)
BY DEF Flag, Opposite

(* The numbers a step reasons about.                                       *)
LEMMA Numbers ==
  ASSUME KInv, Timely
  PROVE  /\ KMRefreshRate \in Nat /\ KMPreAnnounce \in Nat /\ KMPreAnnounce >= 1
         /\ 2 * KMPreAnnounce < KMRefreshRate
         /\ Lifetime \in Nat /\ 2 * Lifetime <= KMRefreshRate - 2 * KMPreAnnounce
         /\ sent \in Nat /\ Since \in 0..(KMRefreshRate - 1) /\ Start \in Nat
         /\ kmRefreshCountdown \in 1..KMRefreshRate
         /\ keyBaseEncryption \in Flag /\ Other \in Flag /\ Other # keyBaseEncryption
         /\ sek \in [Flag -> Int] /\ peerSek \in [Flag -> Int] /\ peerKeyBase \in Flag
<1>1. /\ keyBaseEncryption \in Flag /\ sek \in [Flag -> Int] /\ peerSek \in [Flag -> Int]
      /\ peerKeyBase \in Flag /\ sent \in Nat /\ kmRefreshCountdown \in 1..KMRefreshRate
  BY DEF KInv, KeyTypeOK
<1>2. Other \in Flag /\ Other # keyBaseEncryption
  BY <1>1, OppositeSwaps DEF Other
<1>3. /\ KMRefreshRate \in Nat /\ KMPreAnnounce \in Nat /\ KMPreAnnounce >= 1
      /\ 2 * KMPreAnnounce < KMRefreshRate
      /\ Lifetime \in Nat /\ 2 * Lifetime <= KMRefreshRate - 2 * KMPreAnnounce
  BY KeyAssumption DEF Timely
<1>4. Since \in 0..(KMRefreshRate - 1)
  BY <1>1, <1>3 DEF Since
<1>5. Start >= 0
  BY DEF KInv, CountdownInv
<1>6. Start \in Nat
  BY <1>1, <1>4, <1>5 DEF Start
<1>7. QED
  BY <1>1, <1>2, <1>3, <1>4, <1>6

(* What a message of each type is made of.                                 *)
LEMMA MessageTypes ==
  ASSUME KInv, NEW m \in net
  PROVE  /\ m.type = "KMREQ" => m \in KMReq
         /\ m.type = "KMRSP" => m \in KMRsp
         /\ m.type = "data" => m \in Data
         /\ m.no \in Nat
         /\ m.type \in {"KMREQ", "KMRSP", "data"}
BY DEF KInv, KeyTypeOK, KMReq, KMRsp, Data

(* The key material is announced only late in a period, and then there is  *)
(* no request for the key in use left in the network.                      *)
LEMMA NoOldRequest ==
  ASSUME KInv, Timely, AnnouncePeriod, NEW m \in net, m.type = "KMREQ"
  PROVE  m.no > Start
<1>1. m.no \in Nat /\ m.no <= sent /\ sent - m.no <= Lifetime
  BY MessageTypes DEF KInv, RequestInv
<1>2. Start = sent - Since
  BY DEF Start
<1>3. QED
  BY <1>1, <1>2, Numbers DEF AnnouncePeriod

(* handleKMRequest keeps the invariant.                                    *)
LEMMA RequestStep ==
  ASSUME KInv, Timely, HandleKMRequest
  PROVE  KInv'
<1>1. PICK m \in net :
        /\ m.type = "KMREQ"
        /\ m.flag # peerKeyBase
        /\ peerSek' = [peerSek EXCEPT ![m.flag] = m.key]
        /\ peerKeyBase' = Opposite(peerKeyBase)
        /\ net' = net \cup {[type |-> "KMRSP", req |-> m.no, no |-> sent]}
  BY Zenon DEF HandleKMRequest
<1> DEFINE r == [type |-> "KMRSP", req |-> m.no, no |-> sent]
<1>2. UNCHANGED writer
  BY DEF HandleKMRequest
<1>3. /\ keyBaseEncryption' = keyBaseEncryption /\ sek' = sek /\ sent' = sent
      /\ kmPreAnnounceCountdown' = kmPreAnnounceCountdown
      /\ kmRefreshCountdown' = kmRefreshCountdown
      /\ kmConfirmed' = kmConfirmed /\ trusted' = trusted
  BY <1>2 DEF writer
<1>4. /\ Since' = Since /\ Start' = Start /\ Other' = Other
      /\ AnnouncePeriod' = AnnouncePeriod
  BY <1>3 DEF Since, Start, Other, AnnouncePeriod, Opposite
<1>5. m \in KMReq /\ m.flag \in Flag /\ m.key \in Int /\ m.no \in Nat
  BY <1>1, MessageTypes DEF KMReq
<1>6. /\ m.no <= sent /\ sent - m.no <= Lifetime
      /\ m.no > Start => AnnouncePeriod /\ m.flag = Other /\ m.key = sek[Other]
      /\ m.no <= Start => m.flag = keyBaseEncryption /\ m.key = sek[keyBaseEncryption]
  BY <1>1 DEF KInv, RequestInv
<1>7. peerKeyBase' = m.flag
  BY <1>1, <1>5, Numbers, OppositeSwaps, Zenon
<1>8. /\ peerSek' \in [Flag -> Int] /\ peerSek'[m.flag] = m.key
      /\ \A f \in Flag : f # m.flag => peerSek'[f] = peerSek[f]
  BY <1>1, <1>5, Numbers, Zenon
<1>9. r \in KMRsp /\ r.type = "KMRSP" /\ r.req = m.no /\ r.no = sent
  BY <1>5, Numbers, Zenon DEF KMRsp
<1>10. KeyTypeOK'
  BY <1>1, <1>3, <1>5, <1>7, <1>8, <1>9 DEF KInv, KeyTypeOK
<1>11. CountdownInv'
  BY <1>3, <1>4, Zenon DEF KInv, CountdownInv
<1>12. RequestInv'
  BY <1>1, <1>3, <1>4, <1>9 DEF KInv, RequestInv
<1>13. m.no > Start \/ m.no <= Start
  BY <1>5, Numbers
<1>14. CASE m.no > Start
  <2>1. AnnouncePeriod /\ m.flag = Other /\ m.key = sek[Other]
    BY <1>6, <1>14
  <2>2. Shared(Other)' /\ peerKeyBase' = Other /\ AnnouncePeriod'
    BY <1>3, <1>4, <1>7, <1>8, <2>1 DEF Shared
  <2>3. ResponseInv'
    <3>1. ASSUME NEW q \in net', q.type = "KMRSP"
          PROVE  /\ q.req <= q.no /\ q.no - q.req <= Lifetime
                 /\ q.no <= sent /\ sent - q.no <= Lifetime
      <4>1. CASE q \in net
        BY <3>1, <4>1, Zenon DEF KInv, ResponseInv
      <4>2. CASE q = r
        BY <1>5, <1>6, <1>9, <4>2, Numbers
      <4>3. QED
        BY <1>1, <3>1, <4>1, <4>2
    <3>2. QED
      BY <1>3, <1>4, <2>2, <3>1, Zenon DEF ResponseInv
  <2>4. ConfirmedInv'
    BY <1>4, <2>2 DEF ConfirmedInv
  <2>5. TrustedInv'
    BY <1>3, <1>8, <2>1, Numbers, Zenon DEF KInv, TrustedInv, Shared
  <2>6. DataInv'
    <3>1. ASSUME NEW q \in net, q.type = "data"
          PROVE  q.no > Start
      <4>1. q.no \in Nat /\ q.no <= sent /\ sent - q.no <= Lifetime
        BY <3>1, MessageTypes DEF KInv, DataInv
      <4>2. Start = sent - Since
        BY DEF Start
      <4>3. QED
        BY <2>1, <4>1, <4>2, Numbers DEF AnnouncePeriod
    <3>2. ASSUME NEW q \in net, q.type = "data"
          PROVE  ~(q.no <= Start)
      BY <3>1, <3>2, MessageTypes, Numbers
    <3>3. QED
      BY <1>1, <1>3, <1>4, <1>9, <3>2 DEF KInv, DataInv
  <2>7. QED
    BY <1>10, <1>11, <1>12, <2>3, <2>4, <2>5, <2>6, Zenon DEF KInv
<1>15. CASE m.no <= Start
  <2>1. m.flag = keyBaseEncryption /\ m.key = sek[keyBaseEncryption]
    BY <1>6, <1>15, Zenon
  <2>2. ~AnnouncePeriod
    BY <1>1, <1>5, <1>15, NoOldRequest, Numbers
  <2>3. peerSek'[Other] = peerSek[Other]
    BY <1>8, <2>1, Numbers
  <2>4. ResponseInv'
    <3>1. ASSUME NEW q \in net', q.type = "KMRSP"
          PROVE  /\ q.req <= q.no /\ q.no - q.req <= Lifetime
                 /\ q.no <= sent /\ sent - q.no <= Lifetime
                 /\ ~(q.req > Start)
      <4>1. CASE q \in net
        BY <2>2, <3>1, <4>1, Zenon DEF KInv, ResponseInv
      <4>2. CASE q = r
        BY <1>5, <1>6, <1>9, <1>15, <4>2, Numbers
      <4>3. QED
        BY <1>1, <3>1, <4>1, <4>2
    <3>2. QED
      BY <1>3, <1>4, <3>1 DEF ResponseInv
  <2>5. ConfirmedInv'
    BY <1>3, <2>2 DEF KInv, ConfirmedInv
  <2>6. TrustedInv'
    BY <1>3, <1>8, <2>1, Zenon DEF TrustedInv, Shared
  <2>7. DataInv'
    BY <1>1, <1>3, <1>4, <1>9, <2>3 DEF KInv, DataInv
  <2>8. QED
    BY <1>10, <1>11, <1>12, <2>4, <2>5, <2>6, <2>7 DEF KInv
<1>16. QED
  BY <1>13, <1>14, <1>15

(* handleKMResponse keeps the invariant: in the period in which a response *)
(* is taken, only one to a request of this period can still arrive.        *)
LEMMA ResponseStep ==
  ASSUME KInv, Timely, HandleKMResponse
  PROVE  KInv'
<1>1. PICK m \in net : m.type = "KMRSP"
  BY DEF HandleKMResponse
<1>2. /\ kmConfirmed' = "yes" /\ kmPreAnnounceCountdown < KMPreAnnounce
      /\ UNCHANGED <<keyBaseEncryption, sek, kmPreAnnounceCountdown, kmRefreshCountdown,
                     sent, trusted, reader, net>>
  BY Zenon DEF HandleKMResponse, InPreAnnouncePeriod
<1>3. /\ Since' = Since /\ Start' = Start /\ Other' = Other
      /\ AnnouncePeriod' = AnnouncePeriod
      /\ \A f \in Flag : Shared(f)' = Shared(f)
  BY <1>2 DEF Since, Start, Other, AnnouncePeriod, Opposite, Shared, reader
<1>4. m.req \in Nat /\ sent - m.req <= 2 * Lifetime
  <2>1. m.req \in Nat /\ m.no \in Nat
    BY <1>1, MessageTypes DEF KMRsp
  <2>2. m.no - m.req <= Lifetime /\ sent - m.no <= Lifetime
    BY <1>1 DEF KInv, ResponseInv
  <2>3. QED
    BY <2>1, <2>2, Numbers
<1>5. m.req > Start
  <2>1. CASE AnnouncePeriod
    BY <1>4, <2>1, Numbers DEF AnnouncePeriod, Start
  <2>2. CASE ~AnnouncePeriod
    <3>1. kmPreAnnounceCountdown = KMRefreshRate - KMPreAnnounce - Since
      BY <2>2 DEF KInv, CountdownInv
    <3>2. QED
      BY <1>2, <1>4, <3>1, Numbers DEF Start
  <2>3. QED
    BY <2>1, <2>2
<1>6. AnnouncePeriod /\ Shared(Other) /\ peerKeyBase = Other
  BY <1>1, <1>5 DEF KInv, ResponseInv
<1>7. KeyTypeOK'
  BY <1>2 DEF KInv, KeyTypeOK, reader
<1>8. CountdownInv' /\ RequestInv' /\ DataInv' /\ TrustedInv' /\ ResponseInv'
  <2>1. peerSek' = peerSek /\ peerKeyBase' = peerKeyBase
    BY <1>2 DEF reader
  <2>2. CountdownInv'
    BY <1>2, <1>3 DEF KInv, CountdownInv
  <2>3. RequestInv'
    BY <1>2, <1>3, Zenon DEF KInv, RequestInv
  <2>4. DataInv'
    BY <1>2, <1>3, <2>1 DEF KInv, DataInv
  <2>5. TrustedInv'
    BY <1>2, <2>1 DEF KInv, TrustedInv, Shared
  <2>6. ResponseInv'
    BY <1>2, <1>3, <2>1, Numbers DEF KInv, ResponseInv
  <2>7. QED
    BY <2>2, <2>3, <2>4, <2>5, <2>6
<1>9. ConfirmedInv'
  BY <1>2, <1>3, <1>6, Numbers DEF ConfirmedInv, reader
<1>10. QED
  BY <1>7, <1>8, <1>9 DEF KInv

(* pop keeps the invariant, whether the packet is sent first or again.     *)
LEMMA PopStep ==
  ASSUME KInv, Timely, NEW data \in Data, data.no = sent + 1,
         data.retrans = "no" => /\ data.flag = keyBaseEncryption
                                /\ data.key = sek[keyBaseEncryption]
                                /\ data.trusted = trusted,
         Pop(data)
  PROVE  KInv'
<1>1. /\ sent' = sent + 1 /\ peerSek' = peerSek /\ peerKeyBase' = peerKeyBase
      /\ net' = Alive(net) \cup {data} \cup (IF Announces THEN {Request} ELSE {})
      /\ sek' = IF Renews THEN [sek EXCEPT ![Spare] = sent + 1] ELSE sek
  BY DEF Pop, reader
<1>2. refresh = kmRefreshCountdown - 1 /\ kmRefreshCountdown \in 1..KMRefreshRate
  BY Numbers DEF refresh, MinusOne
<1>3. Start = sent - Since /\ Start' = sent' - Since' /\ Since = KMRefreshRate - kmRefreshCountdown
      /\ Since' = KMRefreshRate - kmRefreshCountdown'
  BY DEF Start, Since
<1>4. Announces => Since + 1 >= KMRefreshRate - KMPreAnnounce
  <2>1. ASSUME Announces, ~AnnouncePeriod
        PROVE  Since + 1 >= KMRefreshRate - KMPreAnnounce
    <3>1. kmPreAnnounceCountdown = KMRefreshRate - KMPreAnnounce - Since
      BY <2>1 DEF KInv, CountdownInv
    <3>2. kmPreAnnounceCountdown >= 1
      BY <2>1, <3>1, Numbers DEF AnnouncePeriod
    <3>3. kmPreAnnounceCountdown - 1 = 0
      BY <2>1, <3>1, <3>2, Numbers DEF Announces, preAnnounce, MinusOne
    <3>4. QED
      BY <3>1, <3>3, Numbers
  <2>2. QED
    BY <2>1, Numbers DEF AnnouncePeriod
<1>5. /\ Request \in KMReq /\ Request.type = "KMREQ" /\ Request.no = sent + 1
      /\ Request.flag = Other /\ Request.key = sek[Other]
  BY Numbers DEF Request, KMReq, Other
<1>6. ASSUME NEW m \in net'
      PROVE  \/ m \in net /\ m.no + Lifetime > sent
             \/ m = data
             \/ m = Request /\ Announces
  BY <1>1, <1>6 DEF Alive
<1>7. data.type = "data" /\ data.no \in Nat
  BY DEF Data
<1>8. net' \subseteq Data \cup KMReq \cup KMRsp
  <2>1. ASSUME NEW m \in net'
        PROVE  m \in Data \cup KMReq \cup KMRsp
    BY <1>5, <1>6 DEF KInv, KeyTypeOK
  <2>2. QED
    BY <2>1
<1>9. sek' \in [Flag -> Int]
  <2>1. Spare \in Flag
    BY Numbers, Zenon DEF Spare, Other
  <2>2. QED
    BY <1>1, <2>1, Numbers
<1>10. CASE Switches
  <2>1. /\ kmPreAnnounceCountdown' = KMRefreshRate - KMPreAnnounce
        /\ kmRefreshCountdown' = KMRefreshRate
        /\ keyBaseEncryption' = Other
        /\ trusted' = kmConfirmed
        /\ kmConfirmed' = "no"
    BY <1>10, Zenon DEF Pop, Other
  <2>2. /\ Since = KMRefreshRate - 1 /\ Since' = 0 /\ Start' = sent + 1
        /\ Start = sent + 1 - KMRefreshRate
    BY <1>1, <1>2, <1>3, <1>10, <2>1, Numbers DEF Switches
  <2>3. sek' = sek
    BY <1>1, <1>10, Numbers DEF Renews
  <2>4. Other' = keyBaseEncryption
    BY <2>1, Numbers, OppositeSwaps DEF Other
  <2>5. AnnouncePeriod
    BY <2>2, Numbers DEF AnnouncePeriod
  <2>6. KeyTypeOK'
    BY <1>1, <1>8, <1>9, <2>1, KeyAssumption, Numbers DEF KInv, KeyTypeOK
  <2>7. CountdownInv'
    BY <2>1, <2>2, Numbers DEF CountdownInv, AnnouncePeriod
  <2>8. RequestInv'
    <3>1. ASSUME NEW m \in net', m.type = "KMREQ"
          PROVE  /\ m.no <= sent' /\ sent' - m.no <= Lifetime
                 /\ ~(m.no > Start')
                 /\ m.flag = keyBaseEncryption' /\ m.key = sek'[keyBaseEncryption']
      <4>1. CASE m \in net /\ m.no + Lifetime > sent
        <5>1. m.no > Start /\ m.no \in Nat /\ m.no <= sent
          BY <2>5, <3>1, <4>1, NoOldRequest, MessageTypes, Zenon DEF KInv, RequestInv
        <5>2. m.flag = Other /\ m.key = sek[Other]
          BY <3>1, <4>1, <5>1, Zenon DEF KInv, RequestInv
        <5>3. QED
          BY <1>1, <2>1, <2>2, <2>3, <4>1, <5>1, <5>2, Numbers
      <4>2. CASE m = Request /\ Announces
        BY <1>1, <1>5, <2>1, <2>2, <2>3, <4>2, Numbers
      <4>3. QED
        BY <1>6, <1>7, <3>1, <4>1, <4>2, Zenon
    <3>2. QED
      BY <3>1 DEF RequestInv
  <2>9. ResponseInv'
    <3>1. ASSUME NEW m \in net', m.type = "KMRSP"
          PROVE  /\ m.req <= m.no /\ m.no - m.req <= Lifetime
                 /\ m.no <= sent' /\ sent' - m.no <= Lifetime
                 /\ ~(m.req > Start')
      <4>1. m \in net /\ m.no + Lifetime > sent
        BY <1>5, <1>6, <1>7, <3>1, Zenon
      <4>2. m.no \in Nat /\ m.req \in Nat /\ m.no <= sent
        BY <3>1, <4>1, MessageTypes, Zenon DEF KInv, ResponseInv, KMRsp
      <4>3. m.req <= m.no /\ m.no - m.req <= Lifetime
        BY <3>1, <4>1 DEF KInv, ResponseInv
      <4>4. QED
        BY <1>1, <2>2, <4>1, <4>2, <4>3, Numbers
    <3>2. QED
      BY <3>1, Zenon DEF ResponseInv
  <2>10. ConfirmedInv'
    BY <2>1, Zenon DEF ConfirmedInv
  <2>11. TrustedInv'
    BY <1>1, <2>1, <2>3, Zenon DEF KInv, ConfirmedInv, TrustedInv, Shared
  <2>12. DataInv'
    <3>1. ASSUME NEW m \in net', m.type = "data"
          PROVE  /\ m.no <= sent' /\ sent' - m.no <= Lifetime
                 /\ ~(m.no > Start')
                 /\ (m.retrans = "no" /\ m.trusted = "yes") =>
                      m.flag = Other' /\ m.key = peerSek'[Other']
      <4>1. CASE m \in net /\ m.no + Lifetime > sent
        <5>1. m.no \in Nat /\ m.no <= sent
          BY <3>1, <4>1, MessageTypes, Zenon DEF KInv, DataInv
        <5>2. m.no > Start /\ ~(m.no > Start') /\ sent' - m.no <= Lifetime /\ m.no <= sent'
          BY <1>1, <2>2, <4>1, <5>1, Numbers
        <5>3. ASSUME m.retrans = "no", m.trusted = "yes"
              PROVE  m.flag = keyBaseEncryption /\ m.key = peerSek[keyBaseEncryption]
          BY <3>1, <4>1, <5>2, <5>3, Zenon DEF KInv, DataInv, TrustedInv, Shared
        <5>4. QED
          BY <1>1, <2>4, <5>2, <5>3, Zenon
      <4>2. CASE m = data
        <5>1. ~(m.no > Start') /\ sent' - m.no <= Lifetime /\ m.no <= sent'
          BY <1>1, <2>2, <4>2, Numbers
        <5>2. ASSUME m.retrans = "no", m.trusted = "yes"
              PROVE  m.flag = keyBaseEncryption /\ m.key = peerSek[keyBaseEncryption]
          BY <4>2, <5>2, Zenon DEF KInv, TrustedInv, Shared
        <5>3. QED
          BY <1>1, <2>4, <5>1, <5>2, Zenon
      <4>3. QED
        BY <1>5, <1>6, <3>1, <4>1, <4>2, Zenon
    <3>2. QED
      BY <3>1, Zenon DEF DataInv
  <2>13. QED
    BY <2>6, <2>7, <2>8, <2>9, <2>10, <2>11, <2>12, Zenon DEF KInv
<1>11. CASE ~Switches
  <2>1. /\ kmPreAnnounceCountdown' =
             IF Announces THEN KMPreAnnounce \div ResendShare + 1 ELSE preAnnounce
        /\ kmRefreshCountdown' = refresh
        /\ UNCHANGED <<keyBaseEncryption, kmConfirmed, trusted>>
    BY <1>11, Zenon DEF Pop
  <2>2. /\ Since' = Since + 1 /\ Start' = Start /\ Since + 1 < KMRefreshRate
        /\ refresh \in 1..KMRefreshRate
    BY <1>1, <1>2, <1>3, <1>11, <2>1, Numbers DEF Switches
  <2>3. Other' = Other
    BY <2>1 DEF Other, Opposite
  <2>4. sek'[keyBaseEncryption] = sek[keyBaseEncryption]
    BY <1>1, <1>11, Numbers DEF Spare, Other
  <2>5. AnnouncePeriod \/ Announces => sek' = sek /\ AnnouncePeriod'
    <3>1. ASSUME AnnouncePeriod \/ Announces
          PROVE  Since + 1 >= KMRefreshRate - KMPreAnnounce
      BY <1>4, <3>1, Numbers DEF AnnouncePeriod
    <3>2. ASSUME Since + 1 >= KMRefreshRate - KMPreAnnounce
          PROVE  ~Renews
      BY <1>2, <1>3, <1>11, <3>2, Numbers DEF Renews
    <3>3. QED
      BY <1>1, <2>2, <3>1, <3>2 DEF AnnouncePeriod
  <2>6. kmPreAnnounceCountdown' \in 0..(UINT64 - 1)
    <3>1. preAnnounce \in 0..(UINT64 - 1)
      BY KeyAssumption DEF KInv, KeyTypeOK, preAnnounce, MinusOne
    <3>2. KMPreAnnounce \div ResendShare + 1 \in 0..(UINT64 - 1)
      <4>1. KMPreAnnounce \div ResendShare \in 0..KMPreAnnounce
        BY KeyAssumption
      <4>2. QED
        BY <4>1, KeyAssumption, Numbers
    <3>3. QED
      BY <2>1, <3>1, <3>2
  <2>7. KeyTypeOK'
    BY <1>1, <1>8, <1>9, <2>1, <2>2, <2>6, Numbers DEF KInv, KeyTypeOK
  <2>8. CountdownInv'
    <3>1. ASSUME ~AnnouncePeriod'
          PROVE  kmPreAnnounceCountdown' = KMRefreshRate - KMPreAnnounce - Since'
      <4>1. ~AnnouncePeriod /\ ~Announces
        BY <2>5, <3>1
      <4>2. kmPreAnnounceCountdown = KMRefreshRate - KMPreAnnounce - Since
        BY <4>1 DEF KInv, CountdownInv
      <4>3. kmPreAnnounceCountdown >= 1
        BY <4>1, <4>2, Numbers DEF AnnouncePeriod
      <4>4. kmPreAnnounceCountdown' = kmPreAnnounceCountdown - 1
        BY <2>1, <4>1, <4>2, <4>3, Numbers DEF preAnnounce, MinusOne
      <4>5. QED
        BY <2>2, <4>2, <4>4, Numbers
    <3>2. QED
      BY <2>2, <3>1, Numbers DEF CountdownInv
  <2>9. RequestInv'
    <3>1. ASSUME NEW m \in net', m.type = "KMREQ"
          PROVE  /\ m.no <= sent' /\ sent' - m.no <= Lifetime
                 /\ m.no > Start' => AnnouncePeriod' /\ m.flag = Other' /\ m.key = sek'[Other']
                 /\ m.no <= Start' => /\ m.flag = keyBaseEncryption'
                                      /\ m.key = sek'[keyBaseEncryption']
      <4>1. CASE m \in net /\ m.no + Lifetime > sent
        <5>1. m.no \in Nat /\ m.no <= sent
          BY <3>1, <4>1, MessageTypes, Zenon DEF KInv, RequestInv
        <5>2. m.no <= sent' /\ sent' - m.no <= Lifetime
          BY <1>1, <4>1, <5>1, Numbers
        <5>3. m.no > Start => AnnouncePeriod /\ m.flag = Other /\ m.key = sek[Other]
          BY <3>1, <4>1, Zenon DEF KInv, RequestInv
        <5>4. m.no <= Start => m.flag = keyBaseEncryption /\ m.key = sek[keyBaseEncryption]
          BY <3>1, <4>1, Zenon DEF KInv, RequestInv
        <5>5. QED
          BY <2>1, <2>2, <2>3, <2>4, <2>5, <5>2, <5>3, <5>4, Zenon
      <4>2. CASE m = Request /\ Announces
        <5>1. m.no <= sent' /\ sent' - m.no <= Lifetime /\ ~(m.no <= Start')
          BY <1>1, <1>3, <1>5, <2>2, <4>2, Numbers
        <5>2. QED
          BY <1>5, <2>3, <2>5, <4>2, <5>1, Zenon
      <4>3. QED
        BY <1>6, <1>7, <3>1, <4>1, <4>2
    <3>2. QED
      BY <3>1, Zenon DEF RequestInv
  <2>10. ResponseInv'
    <3>1. ASSUME NEW m \in net', m.type = "KMRSP"
          PROVE  /\ m.req <= m.no /\ m.no - m.req <= Lifetime
                 /\ m.no <= sent' /\ sent' - m.no <= Lifetime
                 /\ m.req > Start' => /\ AnnouncePeriod' /\ Shared(Other)'
                                      /\ peerKeyBase' = Other'
      <4>1. m \in net /\ m.no + Lifetime > sent
        BY <1>5, <1>6, <1>7, <3>1, Zenon
      <4>2. /\ m.no \in Nat /\ m.req \in Nat /\ m.no <= sent
            /\ m.req <= m.no /\ m.no - m.req <= Lifetime
        BY <3>1, <4>1, MessageTypes, Zenon DEF KInv, ResponseInv, KMRsp
      <4>3. sent' - m.no <= Lifetime /\ m.no <= sent'
        BY <1>1, <4>1, <4>2, Numbers
      <4>4. m.req > Start => AnnouncePeriod /\ Shared(Other) /\ peerKeyBase = Other
        BY <3>1, <4>1, Zenon DEF KInv, ResponseInv
      <4>5. QED
        BY <1>1, <2>2, <2>3, <2>5, <4>2, <4>3, <4>4, Zenon DEF Shared
    <3>2. QED
      BY <3>1, Zenon DEF ResponseInv
  <2>11. ConfirmedInv'
    BY <1>1, <2>1, <2>3, <2>5, Zenon DEF KInv, ConfirmedInv, Shared
  <2>12. TrustedInv'
    BY <1>1, <2>1, <2>4, Zenon DEF KInv, TrustedInv, Shared
  <2>13. DataInv'
    <3>1. ASSUME NEW m \in net', m.type = "data"
          PROVE  /\ m.no <= sent' /\ sent' - m.no <= Lifetime
                 /\ (m.retrans = "no" /\ m.trusted = "yes") =>
                      /\ m.no > Start' => /\ m.flag = keyBaseEncryption'
                                          /\ m.key = sek'[keyBaseEncryption']
                                          /\ trusted' = "yes"
                      /\ m.no <= Start' => m.flag = Other' /\ m.key = peerSek'[Other']
      <4>1. CASE m \in net /\ m.no + Lifetime > sent
        <5>1. m.no \in Nat /\ m.no <= sent
          BY <3>1, <4>1, MessageTypes DEF KInv, DataInv
        <5>2. m.no <= sent' /\ sent' - m.no <= Lifetime
          BY <1>1, <4>1, <5>1, Numbers
        <5>3. (m.retrans = "no" /\ m.trusted = "yes") =>
                 /\ m.no > Start => /\ m.flag = keyBaseEncryption
                                    /\ m.key = sek[keyBaseEncryption]
                                    /\ trusted = "yes"
                 /\ m.no <= Start => m.flag = Other /\ m.key = peerSek[Other]
          BY <3>1, <4>1, Zenon DEF KInv, DataInv
        <5>4. QED
          BY <1>1, <2>1, <2>2, <2>3, <2>4, <5>2, <5>3, Zenon
      <4>2. CASE m = data
        <5>1. m.no <= sent' /\ sent' - m.no <= Lifetime /\ ~(m.no <= Start')
          BY <1>1, <1>3, <2>2, <4>2, Numbers
        <5>2. QED
          BY <2>1, <2>4, <4>2, <5>1, Zenon
      <4>3. QED
        BY <1>5, <1>6, <3>1, <4>1, <4>2, Zenon
    <3>2. QED
      BY <3>1, Zenon DEF DataInv
  <2>14. QED
    BY <2>7, <2>8, <2>9, <2>10, <2>11, <2>12, <2>13 DEF KInv
<1>12. QED
  BY <1>10, <1>11, Zenon

(* The invariant holds from the handshake on.                              *)
LEMMA Start0 ==
  ASSUME KeyInit, Timely
  PROVE  KInv
<1>1. net = {} /\ kmConfirmed = "no" /\ peerSek["even"] = sek["even"]
  BY Zenon DEF KeyInit, Flag
<1>2. KeyTypeOK
  BY KeyAssumption DEF KeyInit, KeyTypeOK, Flag, Timely
<1>3. CountdownInv
  BY KeyAssumption DEF KeyInit, CountdownInv, Start, Since, AnnouncePeriod
<1>4. TrustedInv
  BY <1>1 DEF KeyInit, TrustedInv, Shared
<1>5. QED
  BY <1>1, <1>2, <1>3, <1>4
     DEF KInv, RequestInv, ResponseInv, ConfirmedInv, DataInv

(* Every step keeps the invariant.                                         *)
LEMMA NextKInv ==
  ASSUME KInv, Timely, [KeyNext]_keyVars
  PROVE  KInv'
<1>1. CASE Send
  <2> DEFINE data == [type |-> "data", flag |-> keyBaseEncryption,
                      key |-> sek[keyBaseEncryption], of |-> keyBaseEncryption,
                      retrans |-> "no", trusted |-> trusted, no |-> sent + 1]
  <2>1. data \in Data
    <3>1. keyBaseEncryption \in Flag /\ sent + 1 \in Nat /\ sek[keyBaseEncryption] \in Int
      BY Numbers
    <3>2. trusted \in {"no", "yes"}
      BY Zenon DEF KInv, KeyTypeOK
    <3>3. QED
      BY <3>1, <3>2 DEF Data
  <2>2. Pop(data)
    BY <1>1 DEF Send
  <2>3. QED
    BY <2>1, <2>2, PopStep, Zenon
<1>2. CASE Retransmit
  <2>1. PICK m \in net :
          /\ m.type = "data"
          /\ Pop([type |-> "data", flag |-> keyBaseEncryption, key |-> m.key, of |-> m.of,
               retrans |-> "yes", trusted |-> m.trusted, no |-> sent + 1])
    BY <1>2, Zenon DEF Retransmit
  <2> DEFINE data == [type |-> "data", flag |-> keyBaseEncryption, key |-> m.key, of |-> m.of,
               retrans |-> "yes", trusted |-> m.trusted, no |-> sent + 1]
  <2>2. m \in Data
    BY <2>1, MessageTypes, Zenon
  <2>3. data.no = sent + 1 /\ data.retrans = "yes"
    OBVIOUS
  <2>4. data \in Data
    <3>1. m.key \in Int /\ m.of \in Flag /\ m.trusted \in {"no", "yes"}
      BY <2>2 DEF Data
    <3>2. keyBaseEncryption \in Flag /\ sent + 1 \in Nat
      BY Numbers
    <3>3. QED
      BY <3>1, <3>2 DEF Data
  <2>5. Pop(data)
    BY <2>1
  <2> HIDE DEF data
  <2>6. QED
    BY <2>3, <2>4, <2>5, PopStep, Zenon
<1>3. CASE HandleKMRequest
  BY <1>3, RequestStep
<1>4. CASE HandleKMResponse
  BY <1>4, ResponseStep, Zenon
<1>5. CASE UNCHANGED keyVars
  BY <1>5, Zenon
     DEF keyVars, writer, reader, KInv, KeyTypeOK, CountdownInv, RequestInv, ResponseInv,
         ConfirmedInv, TrustedInv, DataInv, Since, Start, Other, AnnouncePeriod,
         Shared, Opposite
<1>6. QED
  BY <1>1, <1>2, <1>3, <1>4, <1>5, Zenon DEF KeyNext

(* The inductive invariant holds throughout.                               *)
THEOREM KeyInvariance ==
  ASSUME Timely
  PROVE  KeySpec => []KInv
<1>1. KeyInit => KInv
  BY Start0
<1>2. KInv /\ [KeyNext]_keyVars => KInv'
  BY NextKInv
<1>3. QED
  BY <1>1, <1>2, PTL DEF KeySpec

(* When handleKMResponse has set kmConfirmed, the peer holds the key that  *)
(* pop will switch to.                                                     *)
THEOREM ConfirmationIsSound ==
  ASSUME Timely
  PROVE  KeySpec => []ConfirmedKeyIsShared
<1>1. KInv => ConfirmedKeyIsShared
  BY DEF KInv, ConfirmedInv, ConfirmedKeyIsShared, Shared, Other
<1>2. QED
  BY <1>1, KeyInvariance, PTL

(* A packet that pop encrypts with a confirmed key is decrypted by         *)
(* handlePacket with the same key, however late it arrives.                *)
THEOREM TransitIsDecryptable ==
  ASSUME Timely
  PROVE  KeySpec => []DecryptedInTransit
<1>1. ASSUME KInv, NEW m \in net, m.type = "data", m.retrans = "no", m.trusted = "yes"
      PROVE  Decrypts(m)
  <2>1. m.no \in Nat /\ Start \in Nat
    BY <1>1, MessageTypes, Numbers
  <2>2. CASE m.no > Start
    BY <1>1, <2>2, Zenon DEF KInv, DataInv, TrustedInv, Shared, Decrypts
  <2>3. CASE m.no <= Start
    BY <1>1, <2>3, Zenon DEF KInv, DataInv, Decrypts
  <2>4. QED
    BY <2>1, <2>2, <2>3
<1>2. KInv => DecryptedInTransit
  BY <1>1 DEF DecryptedInTransit
<1>3. QED
  BY <1>2, KeyInvariance, PTL

-----------------------------------------------------------------------------

\* After a confirmed switch the reader uses the writer's key, or has taken
\* over the next one already.
BaseInv ==
  trusted = "yes" =>
    \/ peerKeyBase = keyBaseEncryption
    \/ peerKeyBase = Other /\ AnnouncePeriod /\ Shared(Other)

(* pop keeps it: a switch is confirmed only if the reader went ahead.      *)
LEMMA BasePop ==
  ASSUME KInv, BaseInv, Timely, NEW data, Pop(data)
  PROVE  BaseInv'
<1>1. /\ sent' = sent + 1 /\ peerSek' = peerSek /\ peerKeyBase' = peerKeyBase
      /\ sek' = IF Renews THEN [sek EXCEPT ![Spare] = sent + 1] ELSE sek
  BY DEF Pop, reader
<1>2. refresh = kmRefreshCountdown - 1 /\ kmRefreshCountdown \in 1..KMRefreshRate
  BY Numbers DEF refresh, MinusOne
<1>3. CASE Switches
  <2>1. keyBaseEncryption' = Other /\ trusted' = kmConfirmed
    BY <1>3 DEF Pop, Other
  <2>2. kmConfirmed = "yes" => peerKeyBase = Other
    BY DEF KInv, ConfirmedInv
  <2> QED BY <1>1, <2>1, <2>2 DEF BaseInv
<1>4. CASE ~Switches
  <2>1. kmRefreshCountdown' = refresh /\ UNCHANGED <<keyBaseEncryption, trusted>>
    BY <1>4 DEF Pop
  <2>2. Other' = Other
    BY <2>1 DEF Other, Opposite
  <2>3. Since' = Since + 1
    BY <1>2, <2>1, Numbers DEF Since
  <2>4. ASSUME AnnouncePeriod PROVE AnnouncePeriod' /\ sek' = sek
    <3>1. Since + 1 > KMRefreshRate - KMPreAnnounce
      BY <2>4, Numbers DEF AnnouncePeriod
    <3>2. ~Renews
      BY <1>2, <1>4, <3>1, Numbers DEF Renews, Since
    <3> QED BY <1>1, <2>3, <3>1, <3>2, Numbers DEF AnnouncePeriod
  <2>5. AnnouncePeriod /\ Shared(Other) => (AnnouncePeriod /\ Shared(Other))'
    BY <1>1, <2>2, <2>4 DEF Shared
  <2> QED BY <1>1, <2>1, <2>2, <2>5 DEF BaseInv
<1> QED BY <1>3, <1>4

(* So does every other step.                                               *)
LEMMA BaseStep ==
  ASSUME KInv, BaseInv, Timely, [KeyNext]_keyVars
  PROVE  BaseInv'
<1>1. CASE Send
  BY <1>1, BasePop DEF Send
<1>2. CASE Retransmit
  BY <1>2, BasePop, Zenon DEF Retransmit
<1>3. ASSUME UNCHANGED <<keyBaseEncryption, sek, kmRefreshCountdown, trusted, reader>>
      PROVE  BaseInv'
  BY <1>3 DEF BaseInv, Other, Opposite, AnnouncePeriod, Since, Shared, reader
<1>4. CASE HandleKMResponse \/ UNCHANGED keyVars
  BY <1>3, <1>4 DEF HandleKMResponse, keyVars, writer, reader
<1>5. CASE HandleKMRequest
  <2>1. PICK m \in net : /\ m.type = "KMREQ" /\ m.flag # peerKeyBase
                         /\ peerSek' = [peerSek EXCEPT ![m.flag] = m.key]
                         /\ peerKeyBase' = Opposite(peerKeyBase)
    BY <1>5, Zenon DEF HandleKMRequest
  <2>2. UNCHANGED <<keyBaseEncryption, sek, kmRefreshCountdown, trusted>>
    BY <1>5 DEF HandleKMRequest, writer
  <2>3. m.flag \in Flag /\ m.no \in Nat
    BY <2>1, MessageTypes, Zenon DEF KMReq
  <2>4. peerKeyBase' = m.flag /\ peerSek'[m.flag] = m.key
    BY <2>1, <2>3, Numbers, OppositeSwaps, Zenon
  <2>5. /\ m.no > Start => AnnouncePeriod /\ m.flag = Other /\ m.key = sek[Other]
        /\ m.no <= Start => m.flag = keyBaseEncryption
    BY <2>1, Zenon DEF KInv, RequestInv
  <2>6. Other' = Other /\ AnnouncePeriod' = AnnouncePeriod
    BY <2>2, Zenon DEF Other, Opposite, AnnouncePeriod, Since
  <2>7. CASE m.no > Start
    BY <2>2, <2>4, <2>5, <2>6, <2>7, Zenon DEF BaseInv, Shared
  <2>8. CASE m.no <= Start
    BY <2>2, <2>4, <2>5, <2>8 DEF BaseInv
  <2> QED BY <2>3, <2>7, <2>8, Numbers
<1> QED BY <1>1, <1>2, <1>4, <1>5 DEF KeyNext

(* As long as the keys are confirmed in time, handleKMRequest refuses no   *)
(* key that the reader does not have.                                      *)
THEOREM RefusalIsHarmless ==
  ASSUME Timely
  PROVE  KeySpec => []RefusedIsKnown
<1>1. KeyInit => BaseInv
  BY DEF KeyInit, BaseInv
<1>2. KInv /\ BaseInv /\ [KeyNext]_keyVars => BaseInv'
  BY BaseStep
<1>3. ASSUME KInv, BaseInv PROVE RefusedIsKnown
  <2>1. SUFFICES ASSUME trusted = "yes", NEW m \in net, m.type = "KMREQ",
                        m.flag = peerKeyBase
                 PROVE  peerSek[m.flag] = m.key
    BY Zenon DEF RefusedIsKnown
  <2>2. /\ m.no > Start => m.flag = Other /\ m.key = sek[Other]
        /\ m.no <= Start => m.flag = keyBaseEncryption /\ m.key = sek[keyBaseEncryption]
    BY <1>3, <2>1, Zenon DEF KInv, RequestInv
  <2>3. m.no \in Nat /\ Start \in Nat /\ Other # keyBaseEncryption
    BY <1>3, <2>1, MessageTypes, Numbers
  <2>4. CASE m.no > Start
    BY <1>3, <2>1, <2>2, <2>3, <2>4, Zenon DEF BaseInv, Shared
  <2>5. CASE m.no <= Start
    BY <1>3, <2>1, <2>2, <2>5 DEF KInv, TrustedInv, Shared
  <2>6. m.no > Start \/ m.no <= Start
    BY <2>3
  <2> QED BY <2>4, <2>5, <2>6, Zenon
<1>4. QED
  BY <1>1, <1>2, <1>3, KeyInvariance, PTL DEF KeySpec

-----------------------------------------------------------------------------
(* The keys themselves.  That they are renewed in time does not depend on  *)
(* what the network does, and not on Timely either: the switches come at   *)
(* the multiples of KMRefreshRate, and KMPreAnnounce packets after one the *)
(* key for the next has been drawn.                                        *)
AtMultiple(n) == n % KMRefreshRate = 0

RenewInv ==
  /\ keyBaseEncryption \in Flag /\ sek \in [Flag -> Int]
  /\ sent \in Nat /\ kmRefreshCountdown \in 1..KMRefreshRate
  /\ Start \in Nat /\ AtMultiple(Start)
  /\ Since >= KMPreAnnounce => sek[Other] = Start + KMPreAnnounce

(* What Config.Validate lets through, without the division.                *)
LEMMA PreAnnounceIsShort ==
  /\ KMRefreshRate \in Nat /\ KMPreAnnounce \in Nat
  /\ KMPreAnnounce >= 1 /\ KMPreAnnounce < KMRefreshRate
BY KeyAssumption

(* A multiple of a positive number lies no nearer to 0 than the number.    *)
LEMMA MultipleIsFar ==
  ASSUME NEW n \in Nat \ {0}, NEW k \in Int, k # 0
  PROVE  n * k >= n \/ n * k <= -n
<1>1. CASE k >= 1
  BY <1>1
<1>2. CASE k <= -1
  BY <1>2
<1> QED BY <1>1, <1>2

(* Division with remainder.                                                *)
LEMMA Divided ==
  ASSUME NEW n \in Nat \ {0}, NEW a \in Nat
  PROVE  \E q \in Int, r \in 0..(n - 1) : a = n * q + r /\ r = a % n
<1>1. a % n \in 0..(n - 1) /\ a \div n \in Int /\ a = n * (a \div n) + (a % n)
  OBVIOUS
<1> QED BY <1>1, Zenon

(* One period after a multiple lies the next one.                          *)
LEMMA NextMultiple ==
  ASSUME NEW a \in Nat, AtMultiple(a)
  PROVE  AtMultiple(a + KMRefreshRate)
<1> PICK n \in Nat \ {0} : n = KMRefreshRate
  BY PreAnnounceIsShort
<1> SUFFICES (a + n) % n = 0
  BY Zenon DEF AtMultiple
<1>1. PICK q \in Int, z \in 0..(n - 1) : a = n * q + z /\ z = a % n
  BY Divided, Zenon
<1>2. PICK p \in Int, r \in 0..(n - 1) : a + n = n * p + r /\ r = (a + n) % n
  <2>1. a + n \in Nat
    OBVIOUS
  <2> QED BY <2>1, Divided, Zenon
<1>6. z = 0
  BY <1>1, Zenon DEF AtMultiple
<1>3. n * (q + 1 - p) = r
  <2>1. a = n * q + z /\ a + n = n * p + r
    BY <1>1, <1>2
  <2> QED BY <1>6, <2>1
<1>4. q + 1 - p = 0
  <2>1. q + 1 - p \in Int
    OBVIOUS
  <2>2. q + 1 - p # 0 => n * (q + 1 - p) >= n \/ n * (q + 1 - p) <= -n
    BY <2>1, MultipleIsFar
  <2> QED BY <1>3, <2>2
<1>5. r = 0
  BY <1>3, <1>4
<1> QED BY <1>2, <1>5, Zenon

(* A packet leaves the countdown running or starts a new period.           *)
LEMMA RenewPop ==
  ASSUME RenewInv, NEW data, Pop(data)
  PROVE  /\ RenewInv'
         /\ keyBaseEncryption' # keyBaseEncryption =>
              /\ AtMultiple(sent')
              /\ sek'[keyBaseEncryption'] = sent' - KMRefreshRate + KMPreAnnounce
<1>1. /\ sent' = sent + 1
      /\ sek' = IF Renews THEN [sek EXCEPT ![Spare] = sent + 1] ELSE sek
  BY DEF Pop
<1>2. refresh = kmRefreshCountdown - 1 /\ refresh \in Nat
  BY PreAnnounceIsShort DEF RenewInv, refresh, MinusOne
<1>3. /\ keyBaseEncryption \in Flag /\ sek \in [Flag -> Int]
      /\ sent \in Nat /\ kmRefreshCountdown \in 1..KMRefreshRate
      /\ Start \in Nat /\ AtMultiple(Start)
      /\ Start = sent - (KMRefreshRate - kmRefreshCountdown)
      /\ Since = KMRefreshRate - kmRefreshCountdown
      /\ Other \in Flag /\ Other # keyBaseEncryption
  BY OppositeSwaps DEF RenewInv, Start, Since, Other
<1>4. CASE Switches
  <2>1. /\ kmRefreshCountdown' = KMRefreshRate
        /\ keyBaseEncryption' = Other
    BY <1>4 DEF Pop, Other
  <2>2. kmRefreshCountdown = 1
    BY <1>2, <1>3, <1>4 DEF Switches
  <2>3. ~Renews
    BY <1>4, PreAnnounceIsShort DEF Renews
  <2>4. sek' = sek
    BY <1>1, <2>3, Zenon
  <2>5. sek[Other] = Start + KMPreAnnounce
    BY <1>3, <2>2, PreAnnounceIsShort DEF RenewInv
  <2>6. sent' = Start + KMRefreshRate
    BY <1>1, <1>3, <2>2, PreAnnounceIsShort
  <2>7. AtMultiple(sent')
    BY <1>3, <2>6, NextMultiple, Zenon
  <2>8. Since' = 0 /\ Start' = sent'
    BY <1>1, <1>3, <2>1, PreAnnounceIsShort DEF Since, Start
  <2>9. RenewInv'
    <3>1. Start' \in Nat /\ AtMultiple(Start') /\ sent' \in Nat
      BY <1>1, <1>3, <2>7, <2>8
    <3>2. ~(Since' >= KMPreAnnounce)
      BY <2>8, PreAnnounceIsShort
    <3> QED BY <1>3, <2>1, <2>4, <3>1, <3>2, PreAnnounceIsShort DEF RenewInv
  <2>10. sek'[keyBaseEncryption'] = sent' - KMRefreshRate + KMPreAnnounce
    BY <1>3, <2>1, <2>4, <2>5, <2>6, PreAnnounceIsShort
  <2> QED BY <2>7, <2>9, <2>10
<1>5. CASE ~Switches
  <2>1. kmRefreshCountdown' = refresh /\ keyBaseEncryption' = keyBaseEncryption
    BY <1>5 DEF Pop
  <2>2. refresh \in 1..KMRefreshRate
    BY <1>2, <1>3, <1>5, PreAnnounceIsShort DEF Switches
  <2>3. Other' = Other
    BY <2>1, Zenon DEF Other, Opposite
  <2>4. Since' = Since + 1 /\ Start' = Start
    BY <1>1, <1>2, <1>3, <2>1, PreAnnounceIsShort DEF Since, Start
  <2>5. Renews <=> Since + 1 = KMPreAnnounce
    BY <1>2, <1>3, <1>5, PreAnnounceIsShort DEF Renews
  <2>6. CASE Renews
    <3>1. sek' = [sek EXCEPT ![Other] = sent + 1]
      BY <1>1, <1>5, <2>6 DEF Spare, Other
    <3>2. sek' \in [Flag -> Int] /\ sek'[Other] = sent + 1
      BY <1>3, <3>1
    <3>3. sent + 1 = Start + KMPreAnnounce
      BY <1>3, <2>5, <2>6, PreAnnounceIsShort
    <3> QED BY <1>1, <1>3, <2>1, <2>2, <2>3, <2>4, <3>2, <3>3 DEF RenewInv
  <2>7. CASE ~Renews
    <3>1. sek' = sek
      BY <1>1, <2>7
    <3>2. Since' >= KMPreAnnounce => Since >= KMPreAnnounce
      BY <1>3, <2>4, <2>5, <2>7, PreAnnounceIsShort
    <3>3. Since >= KMPreAnnounce => sek[Other] = Start + KMPreAnnounce
      BY DEF RenewInv
    <3>4. Since' >= KMPreAnnounce => sek'[Other'] = Start' + KMPreAnnounce
      BY <2>3, <2>4, <3>1, <3>2, <3>3
    <3>5. sent' \in Nat /\ Start' \in Nat /\ AtMultiple(Start')
      BY <1>1, <1>3, <2>4
    <3> QED BY <1>3, <2>1, <2>2, <3>1, <3>4, <3>5, Zenon DEF RenewInv
  <2> QED BY <2>1, <2>6, <2>7
<1> QED BY <1>4, <1>5

(* The key that pop switches to was drawn in the period before, and the    *)
(* switches are KMRefreshRate packets apart: no key is in use for longer,  *)
(* however requests and answers are lost, repeated or delayed.             *)
THEOREM KeysAreAlwaysRenewed == KeySpec => KeysAreRenewed
<1> DEFINE Step == keyBaseEncryption' # keyBaseEncryption =>
                     /\ AtMultiple(sent')
                     /\ sek'[keyBaseEncryption'] = sent' - KMRefreshRate + KMPreAnnounce
<1>1. KeyInit => RenewInv
  <2>1. ASSUME KeyInit PROVE RenewInv
    <3>1. Since = 0 /\ Start = 0
      BY <2>1, PreAnnounceIsShort DEF KeyInit, Since, Start
    <3>2. AtMultiple(0)
      BY PreAnnounceIsShort DEF AtMultiple
    <3> QED BY <2>1, <3>1, <3>2, PreAnnounceIsShort DEF KeyInit, RenewInv, Flag
  <2> QED BY <2>1
<1>2. ASSUME RenewInv, [KeyNext]_keyVars PROVE RenewInv' /\ Step
  <2>1. ASSUME UNCHANGED writer PROVE RenewInv' /\ Step
    BY <1>2, <2>1, Zenon DEF writer, RenewInv, Start, Since, Other, Opposite
  <2>2. CASE Send
    BY <1>2, <2>2, RenewPop, Zenon DEF Send
  <2>3. CASE Retransmit
    BY <1>2, <2>3, RenewPop DEF Retransmit
  <2>4. CASE HandleKMRequest
    BY <2>1, <2>4, Zenon DEF HandleKMRequest
  <2>5. CASE HandleKMResponse
    <3>1. UNCHANGED <<keyBaseEncryption, sek, kmRefreshCountdown, sent>>
      BY <2>5 DEF HandleKMResponse
    <3> QED BY <1>2, <3>1 DEF RenewInv, Start, Since, Other, Opposite
  <2>6. CASE UNCHANGED keyVars
    BY <2>1, <2>6 DEF keyVars
  <2> QED BY <1>2, <2>2, <2>3, <2>4, <2>5, <2>6, Zenon DEF KeyNext
<1>3. KeySpec => []RenewInv
  BY <1>1, <1>2, PTL DEF KeySpec
<1>4. RenewInv /\ [KeyNext]_keyVars => [Step]_keyVars
  BY <1>2
<1> QED BY <1>3, <1>4, PTL DEF KeySpec, KeysAreRenewed, AtMultiple

=============================================================================
