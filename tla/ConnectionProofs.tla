-------------------------- MODULE ConnectionProofs --------------------------
(***************************************************************************)
(* What a connection promises around the streams of packets.               *)
(*                                                                         *)
(* The times.  Every data packet is given the time it was sent at, however *)
(* often the timestamps wrap (TsbpdAssumption).                            *)
(*                                                                         *)
(* The acknowledgements.  The round trip time is measured from the right   *)
(* ACK, for every range of ACK numbers and every lifetime of a message     *)
(* that leaves the numbers unambiguous (AckAssumption), however often they *)
(* wrap.                                                                   *)
(*                                                                         *)
(* The queues.  For every size of the queues and of the payload, and       *)
(* whatever the full ones drop, ReadPacket meets no packet out of order,   *)
(* the sender is given the bytes in the order they were written, and no    *)
(* byte of a Write without an error goes missing.                          *)
(*                                                                         *)
(* The dialer.  A connection that was dialed tells its peer that it closes *)
(* before the dialer closes the socket.                                    *)
(***************************************************************************)
EXTENDS Connection, Dialer, AckExchange, Tsbpd, TLAPS

\* The provers, in this order, for the leaves that name none.
USE SMTT(30), Zenon

-----------------------------------------------------------------------------
(* The times of the packets.  The link takes a packet's PktTsbpdTime to be *)
(* the time it was written plus a constant; handlePacket has only the low  *)
(* bits of that time and extends them.  WrapIsFollowed ties its state to   *)
(* the newest packet and makes TimeIsUnwrapped inductive.                  *)

TimeInv == TsbpdTypeOK /\ TimeIsUnwrapped /\ WrapIsFollowed

(* One packet: from a state in which the wrap is followed, handlePacket    *)
(* finds the time of any packet within the bounds and follows the wrap.    *)
LEMMA ReceiveFollows ==
  ASSUME TimeInv, Receive
  PROVE  TimeInv'
<1>1. PICK t \in [lap : {newest.lap - 1, newest.lap, newest.lap + 1},
                  ts : 0..MAX_TIMESTAMP] :
        /\ t.lap \in 0..MaxLap
        /\ NotAfter(t, newest, Silence)
        /\ NotAfter(newest, t, Lateness)
        /\ HandlePacket(t)
        /\ sentAt' = t
        /\ newest' = IF NotAfter(t, newest, 0) THEN newest ELSE t
  BY DEF Receive
<1> DEFINE lap == t.lap
           ts == t.ts
           nlap == newest.lap
           nts == newest.ts
<1>2. /\ lap \in Nat /\ ts \in 0..MAX_TIMESTAMP /\ t = [lap |-> lap, ts |-> ts]
      /\ nlap \in Nat /\ nts \in 0..MAX_TIMESTAMP
      /\ tsbpdTimeBaseOffset \in Nat /\ MAX_TIMESTAMP \in Nat
      /\ newest \in Time /\ t \in Time
  BY <1>1, TsbpdAssumption DEF TimeInv, TsbpdTypeOK, Time
<1>3. /\ \/ lap < nlap
         \/ lap = nlap /\ ts <= nts + Silence
         \/ lap = nlap + 1 /\ ts + MAX_TIMESTAMP + 1 <= nts + Silence
      /\ \/ nlap < lap
         \/ nlap = lap /\ nts <= ts + Lateness
         \/ nlap = lap + 1 /\ nts + MAX_TIMESTAMP + 1 <= ts + Lateness
  BY <1>1 DEF NotAfter
<1>4. NotAfter(t, newest, 0) <=> lap < nlap \/ (lap = nlap /\ ts <= nts)
  BY <1>2 DEF NotAfter
<1>5. IF tsbpdWrapPeriod = "no"
      THEN /\ nlap = tsbpdTimeBaseOffset
           /\ nlap > 0 => nts >= WrapPeriod
           /\ nts <= MAX_TIMESTAMP - WrapPeriod
      ELSE \/ nlap = tsbpdTimeBaseOffset /\ nts > MAX_TIMESTAMP - WrapPeriod
           \/ nlap = tsbpdTimeBaseOffset + 1 /\ nts < WrapPeriod
  BY DEF TimeInv, WrapIsFollowed
<1>6. /\ tsbpdWrapPeriod' = IF Starts(ts) THEN "yes"
                            ELSE IF Ends(ts) THEN "no" ELSE tsbpdWrapPeriod
      /\ tsbpdTimeBaseOffset' = Offset(ts)
      /\ PktTsbpdTime' = [lap |-> IF tsbpdWrapPeriod' = "yes" /\ ts < WrapPeriod
                                  THEN Offset(ts) + 1 ELSE Offset(ts),
                          ts |-> ts]
      /\ sentAt' = t
      /\ newest' = IF NotAfter(t, newest, 0) THEN newest ELSE t
  BY <1>1 DEF HandlePacket
<1>7. tsbpdWrapPeriod \in {"no", "yes"}
  BY DEF TimeInv, TsbpdTypeOK
<1> HIDE DEF lap, ts, nlap, nts
<1>8. (IF tsbpdWrapPeriod' = "yes" /\ ts < WrapPeriod THEN Offset(ts) + 1 ELSE Offset(ts)) = lap
  <2>1. CASE tsbpdWrapPeriod = "no"
    BY <1>2, <1>3, <1>5, <1>6, <2>1, TsbpdAssumption DEF Starts, Ends, Offset
  <2>2. CASE tsbpdWrapPeriod = "yes"
    BY <1>2, <1>3, <1>5, <1>6, <2>2, TsbpdAssumption DEF Starts, Ends, Offset
  <2>3. QED
    BY <1>7, <2>1, <2>2
<1>9. TimeIsUnwrapped'
  BY <1>2, <1>6, <1>8 DEF TimeIsUnwrapped
<1>10. TsbpdTypeOK'
  BY <1>2, <1>6, <1>7, <1>8 DEF TsbpdTypeOK, Time, Offset
<1>11. CASE lap < nlap \/ (lap = nlap /\ ts <= nts)
  <2>1. newest'.lap = nlap /\ newest'.ts = nts
    BY <1>2, <1>4, <1>6, <1>11 DEF Time, nlap, nts
  <2>2. IF tsbpdWrapPeriod' = "no"
        THEN /\ nlap = tsbpdTimeBaseOffset'
             /\ nlap > 0 => nts >= WrapPeriod
             /\ nts <= MAX_TIMESTAMP - WrapPeriod
        ELSE \/ nlap = tsbpdTimeBaseOffset' /\ nts > MAX_TIMESTAMP - WrapPeriod
             \/ nlap = tsbpdTimeBaseOffset' + 1 /\ nts < WrapPeriod
    BY <1>2, <1>3, <1>5, <1>6, <1>7, <1>11, TsbpdAssumption DEF Starts, Ends, Offset
  <2>3. QED
    BY <1>9, <1>10, <2>1, <2>2 DEF WrapIsFollowed, TimeInv
<1>12. CASE ~(lap < nlap \/ (lap = nlap /\ ts <= nts))
  <2>1. newest'.lap = lap /\ newest'.ts = ts
    BY <1>2, <1>4, <1>6, <1>12 DEF lap, ts
  <2>2. IF tsbpdWrapPeriod' = "no"
        THEN /\ lap = tsbpdTimeBaseOffset'
             /\ lap > 0 => ts >= WrapPeriod
             /\ ts <= MAX_TIMESTAMP - WrapPeriod
        ELSE \/ lap = tsbpdTimeBaseOffset' /\ ts > MAX_TIMESTAMP - WrapPeriod
             \/ lap = tsbpdTimeBaseOffset' + 1 /\ ts < WrapPeriod
    BY <1>2, <1>3, <1>5, <1>6, <1>7, <1>12, TsbpdAssumption DEF Starts, Ends, Offset
  <2>3. QED
    BY <1>9, <1>10, <2>1, <2>2 DEF WrapIsFollowed, TimeInv
<1>13. QED
  BY <1>11, <1>12

(* The inductive invariant holds throughout.                               *)
THEOREM TimeInvariance == TsbpdSpec => []TimeInv
<1>1. TsbpdInit => TimeInv
  BY TsbpdAssumption DEF TsbpdInit, TimeInv, TsbpdTypeOK, Time, TimeIsUnwrapped, WrapIsFollowed
<1>2. TimeInv /\ [TsbpdNext]_tsbpdVars => TimeInv'
  <2>1. ASSUME TimeInv, UNCHANGED tsbpdVars
        PROVE  TimeInv'
    BY <2>1 DEF tsbpdVars, TimeInv, TsbpdTypeOK, TimeIsUnwrapped, WrapIsFollowed
  <2>2. QED
    BY <2>1, ReceiveFollows DEF TsbpdNext
<1>3. QED
  BY <1>1, <1>2, PTL DEF TsbpdSpec

(* handlePacket computes the true time of every data packet.               *)
THEOREM UnwrappingIsExact == TsbpdSpec => []TimeIsUnwrapped
<1>1. TimeInv => TimeIsUnwrapped
  BY DEF TimeInv
<1>2. QED
  BY <1>1, TimeInvariance, PTL

-----------------------------------------------------------------------------
(* The acknowledgements.  The invariant says which number the k-th full    *)
(* ACK has, for the last MAX_NUMBER of them, counting back from the next   *)
(* number; all entries of ackNumbers and all messages in the network are   *)
(* about one of these, and have its number.                                *)

\* The number of the k-th full ACK, if it is one of the last MAX_NUMBER.
NumberOf(k) ==
  IF nextACKNumber - (acks + 1 - k) >= 1
  THEN nextACKNumber - (acks + 1 - k)
  ELSE nextACKNumber - (acks + 1 - k) + MAX_NUMBER

Recent(k) == k \in 1..acks /\ k > acks - MAX_NUMBER

AckMessage == [type : {"ACK", "ACKACK"}, number : Nat, of : Nat, at : Nat]

AckTypes ==
  /\ nextACKNumber \in 1..MAX_NUMBER
  /\ acks \in Nat
  /\ sample \in [number : Nat, answers : Nat, of : Nat]
  /\ ackNet \subseteq AckMessage

AckEntries ==
  \A n \in DOMAIN ackNumbers :
    /\ n \in 1..MAX_NUMBER
    /\ Recent(ackNumbers[n])
    /\ NumberOf(ackNumbers[n]) = n

AckMessages ==
  \A m \in ackNet :
    /\ m.at <= acks /\ acks - m.at <= AckLifetime
    /\ m.type = "ACK" => m.of = m.at
    /\ m.type = "ACKACK" => m.number # 0
    /\ m.number # 0 => /\ m.of \in 1..acks /\ m.of <= m.at
                       /\ m.at - m.of <= AckLifetime
                       /\ NumberOf(m.of) = m.number

AckSamples == sample.of <= acks

AckInv == /\ AckTypes /\ AckEntries /\ AckMessages /\ AckSamples
          /\ SampleIsOfItsACK /\ OutstandingIsYoung


(* No two of the last MAX_NUMBER full ACKs have the same number.           *)
LEMMA NumbersDiffer ==
  ASSUME AckTypes, NEW j, NEW k, Recent(j), Recent(k), NumberOf(j) = NumberOf(k)
  PROVE  j = k
BY AckAssumption DEF AckTypes, Recent, NumberOf

(* Another full ACK does not change the numbers of those before it, but    *)
(* for the one whose number it takes over.                                 *)
LEMMA NumbersStay ==
  ASSUME AckTypes, acks' = acks + 1, nextACKNumber' = After(nextACKNumber),
         NEW k, Recent(k), k > acks' - MAX_NUMBER
  PROVE  /\ NumberOf(k)' = NumberOf(k)
         /\ Recent(k)'
BY AckAssumption DEF AckTypes, Recent, NumberOf, After

(* The new one has the next number, which the oldest of the last           *)
(* MAX_NUMBER had too.                                                     *)
LEMMA NewNumber ==
  ASSUME AckTypes, acks' = acks + 1, nextACKNumber' = After(nextACKNumber),
         NEW new, new = acks + 1
  PROVE  /\ NumberOf(new)' = nextACKNumber
         /\ Recent(new)'
         /\ \A k : Recent(k) /\ NumberOf(k) # nextACKNumber => k > acks' - MAX_NUMBER
         /\ nextACKNumber' \in 1..MAX_NUMBER
BY AckAssumption DEF AckTypes, Recent, NumberOf, After

(* What the network holds is about one of the last MAX_NUMBER ACKs.        *)
LEMMA MessagesAreRecent ==
  ASSUME AckTypes, AckMessages, NEW m \in ackNet, m.number # 0
  PROVE  Recent(m.of) /\ acks + 1 - m.of < MAX_NUMBER + 1 /\ NumberOf(m.of) = m.number
<1>1. m \in AckMessage
  BY DEF AckTypes
<1>2. m.of \in Nat /\ m.at \in Nat /\ acks \in Nat
  BY <1>1 DEF AckMessage, AckTypes
<1>3. QED
  BY <1>2, AckAssumption DEF AckMessages, Recent

(* A new connection has no outstanding ACK and no sample.                  *)
LEMMA AckInitInv == AckInit => AckInv
BY AckAssumption DEF AckInit, AckInv, AckTypes, AckEntries, AckMessages, AckSamples,
                     SampleIsOfItsACK, OutstandingIsYoung

(* SendACK: the new entry takes the place of the one with its number.      *)
LEMMA SendACKStep ==
  ASSUME AckInv, SendACK
  PROVE  AckInv'
<1>1. /\ AckTypes /\ AckEntries /\ AckMessages /\ AckSamples
      /\ SampleIsOfItsACK /\ OutstandingIsYoung
  BY DEF AckInv
<1>2. /\ acks' = acks + 1 /\ nextACKNumber' = After(nextACKNumber) /\ sample' = sample
      /\ ackNumbers' = [n \in DOMAIN ackNumbers \cup {nextACKNumber} |->
                          IF n = nextACKNumber THEN acks + 1 ELSE ackNumbers[n]]
  BY DEF SendACK
<1> DEFINE ack == [type |-> "ACK", number |-> nextACKNumber, of |-> acks + 1, at |-> acks + 1]
<1>3. ackNet' = AckAlive(ackNet) \cup {ack}
  BY DEF SendACK
<1>4. ack \in AckMessage
  BY <1>1 DEF AckTypes, AckMessage
<1>5. /\ ack.type = "ACK" /\ ack.number = nextACKNumber
      /\ ack.of = acks + 1 /\ ack.at = acks + 1
  OBVIOUS
<1> HIDE DEF ack
<1>6. acks \in Nat /\ nextACKNumber \in 1..MAX_NUMBER
  BY <1>1 DEF AckTypes
<1>7. AckTypes'
  <2>1. ackNet' \subseteq AckMessage
    BY <1>1, <1>3, <1>4 DEF AckTypes, AckAlive
  <2>2. QED
    BY <1>1, <1>2, <1>6, <2>1, NewNumber DEF AckTypes
<1>8. AckEntries'
  <2> SUFFICES ASSUME NEW n \in DOMAIN ackNumbers'
               PROVE  /\ n \in 1..MAX_NUMBER
                      /\ Recent(ackNumbers[n])'
                      /\ NumberOf(ackNumbers[n])' = n
    BY DEF AckEntries
  <2>1. CASE n = nextACKNumber
    <3> PICK k : k = acks + 1
      OBVIOUS
    <3>1. ackNumbers'[n] = k
      BY <1>2, <2>1
    <3>2. Recent(k)' /\ NumberOf(k)' = n
      BY <1>1, <1>2, <2>1, NewNumber
    <3>3. QED
      BY <1>2, <1>6, <2>1, <3>1, <3>2 DEF Recent, NumberOf
  <2>2. CASE n # nextACKNumber
    <3>1. n \in DOMAIN ackNumbers /\ ackNumbers'[n] = ackNumbers[n]
      BY <1>2, <2>2
    <3>2. /\ n \in 1..MAX_NUMBER
          /\ Recent(ackNumbers[n]) /\ NumberOf(ackNumbers[n]) = n
      BY <1>1, <3>1 DEF AckEntries
    <3> PICK k : k = ackNumbers[n]
      OBVIOUS
    <3>3. Recent(k) /\ NumberOf(k) = n
      BY <3>2
    <3>4. ackNumbers'[n] = k
      BY <3>1
    <3>5. k > acks' - MAX_NUMBER
      BY <1>1, <1>2, <2>2, <3>3, NewNumber
    <3>6. NumberOf(k)' = NumberOf(k) /\ Recent(k)'
      BY <1>1, <1>2, <3>3, <3>5, NumbersStay
    <3>7. QED
      BY <3>2, <3>3, <3>4, <3>6 DEF Recent, NumberOf
  <2>3. QED
    BY <2>1, <2>2
<1>9. AckMessages'
  <2> SUFFICES ASSUME NEW m \in ackNet'
               PROVE  /\ m.at <= acks' /\ acks' - m.at <= AckLifetime
                      /\ m.type = "ACK" => m.of = m.at
                      /\ m.type = "ACKACK" => m.number # 0
                      /\ m.number # 0 => /\ m.of \in 1..acks' /\ m.of <= m.at
                                         /\ m.at - m.of <= AckLifetime
                                         /\ NumberOf(m.of)' = m.number
    BY DEF AckMessages
  <2>1. CASE m = ack
    <3>1. m.of = acks + 1 /\ m.number = nextACKNumber
      BY <1>5, <2>1
    <3>2. NumberOf(m.of)' = m.number
      BY <1>1, <1>2, <3>1, NewNumber
    <3>3. QED
      BY <1>2, <1>5, <1>6, <2>1, <3>2, AckAssumption
  <2>2. CASE m \in AckAlive(ackNet)
    <3>1. /\ m \in ackNet /\ m.at + AckLifetime > acks
          /\ m.of \in Nat /\ m.at \in Nat /\ m.number \in Nat
      BY <1>1, <2>2 DEF AckAlive, AckTypes, AckMessage
    <3>2. /\ m.at <= acks
          /\ m.type = "ACK" => m.of = m.at
          /\ m.type = "ACKACK" => m.number # 0
          /\ m.number # 0 => /\ m.of \in 1..acks /\ m.of <= m.at
                             /\ m.at - m.of <= AckLifetime
                             /\ NumberOf(m.of) = m.number
      BY <1>1, <3>1 DEF AckMessages
    <3>3. m.at <= acks' /\ acks' - m.at <= AckLifetime
      BY <1>2, <1>6, <3>1, <3>2, AckAssumption
    <3>4. ASSUME m.number # 0
          PROVE  m.of \in 1..acks' /\ NumberOf(m.of)' = m.number
      <4>1. Recent(m.of)
        BY <1>1, <3>1, <3>4, MessagesAreRecent
      <4>2. m.of > acks' - MAX_NUMBER
        BY <1>2, <1>6, <3>1, <3>2, <3>3, <3>4, AckAssumption
      <4>3. NumberOf(m.of)' = NumberOf(m.of)
        BY <1>1, <1>2, <4>1, <4>2, NumbersStay DEF NumberOf
      <4>4. QED
        BY <1>2, <1>6, <3>2, <3>4, <4>3
    <3>5. QED
      BY <3>2, <3>3, <3>4
  <2>3. QED
    BY <1>3, <2>1, <2>2
<1>10. sample'.of <= acks
  BY <1>1, <1>2 DEF AckSamples
<1>11. sample.of \in Nat
  BY <1>1 DEF AckTypes
<1>12. AckSamples' /\ SampleIsOfItsACK'
  BY <1>1, <1>2, <1>6, <1>10, <1>11 DEF AckSamples, SampleIsOfItsACK
<1>13. OutstandingIsYoung'
  BY <1>1, <1>2, <1>6, <1>10, <1>11 DEF OutstandingIsYoung
<1>14. QED
  BY <1>7, <1>8, <1>9, <1>12, <1>13 DEF AckInv

(* A light ACK, and the answer to a full one: the network gains a message. *)
LEMMA SendLiteACKStep ==
  ASSUME AckInv, SendLiteACK
  PROVE  AckInv'
<1>1. /\ AckTypes /\ AckEntries /\ AckMessages /\ AckSamples
      /\ SampleIsOfItsACK /\ OutstandingIsYoung
  BY DEF AckInv
<1> DEFINE ack == [type |-> "ACK", number |-> 0, of |-> acks, at |-> acks]
<1>2. ackNet' = ackNet \cup {ack} /\ UNCHANGED <<nextACKNumber, ackNumbers, acks, sample>>
  BY DEF SendLiteACK
<1>3. acks \in Nat /\ ack \in AckMessage
  BY <1>1 DEF AckTypes, AckMessage
<1>4. ack.type = "ACK" /\ ack.number = 0 /\ ack.of = acks /\ ack.at = acks
  OBVIOUS
<1> HIDE DEF ack
<1>5. AckTypes'
  BY <1>1, <1>2, <1>3 DEF AckTypes
<1>6. AckMessages'
  BY <1>1, <1>2, <1>3, <1>4, AckAssumption DEF AckMessages, NumberOf
<1>7. AckEntries' /\ AckSamples' /\ SampleIsOfItsACK' /\ OutstandingIsYoung'
  BY <1>1, <1>2 DEF AckEntries, Recent, NumberOf, AckSamples, SampleIsOfItsACK, OutstandingIsYoung
<1>8. QED
  BY <1>5, <1>6, <1>7 DEF AckInv

(* handleACK answers with the number of the ACK it got.                    *)
LEMMA HandleACKStep ==
  ASSUME AckInv, HandleACK
  PROVE  AckInv'
<1>1. /\ AckTypes /\ AckEntries /\ AckMessages /\ AckSamples
      /\ SampleIsOfItsACK /\ OutstandingIsYoung
  BY DEF AckInv
<1>2. PICK m \in ackNet :
        /\ m.type = "ACK" /\ m.number # 0
        /\ ackNet' = ackNet \cup {[type |-> "ACKACK", number |-> m.number, of |-> m.of,
                             at |-> acks]}
  BY DEF HandleACK
<1>3. UNCHANGED <<nextACKNumber, ackNumbers, acks, sample>>
  BY DEF HandleACK
<1> DEFINE ackack == [type |-> "ACKACK", number |-> m.number, of |-> m.of, at |-> acks]
<1>4. m.number \in Nat /\ m.of \in Nat /\ m.at \in Nat /\ acks \in Nat
  BY <1>1 DEF AckTypes, AckMessage
<1>5. ackack \in AckMessage
  BY <1>4 DEF AckMessage
<1>6. /\ ackack.type = "ACKACK" /\ ackack.number = m.number
      /\ ackack.of = m.of /\ ackack.at = acks
  OBVIOUS
<1>7. ackNet' = ackNet \cup {ackack}
  BY <1>2
<1> HIDE DEF ackack
<1>8. AckTypes'
  BY <1>1, <1>3, <1>5, <1>7, Zenon DEF AckTypes
<1>9. AckMessages'
  <2>1. /\ m.of = m.at /\ acks - m.at <= AckLifetime /\ m.at <= acks
        /\ m.of \in 1..acks /\ NumberOf(m.of) = m.number
    BY <1>1, <1>2 DEF AckMessages
  <2>2. /\ ackack.at <= acks /\ acks - ackack.at <= AckLifetime
        /\ ackack.of \in 1..acks /\ ackack.of <= ackack.at
        /\ ackack.at - ackack.of <= AckLifetime
        /\ NumberOf(ackack.of) = ackack.number
        /\ ackack.type = "ACKACK" /\ ackack.number # 0
    BY <1>2, <1>4, <1>6, <2>1, AckAssumption
  <2>3. QED
    BY <1>1, <1>3, <1>7, <2>2 DEF AckMessages, NumberOf
<1>10. AckEntries' /\ AckSamples' /\ SampleIsOfItsACK' /\ OutstandingIsYoung'
  BY <1>1, <1>3 DEF AckEntries, Recent, NumberOf, AckSamples, SampleIsOfItsACK, OutstandingIsYoung
<1>11. QED
  BY <1>8, <1>9, <1>10 DEF AckInv

(* HandleACKACK: an entry that is found is the one of the ACK answered.    *)
LEMMA HandleACKACKStep ==
  ASSUME AckInv, HandleACKACK
  PROVE  AckInv'
<1>1. /\ AckTypes /\ AckEntries /\ AckMessages /\ AckSamples
      /\ SampleIsOfItsACK /\ OutstandingIsYoung
  BY DEF AckInv
<1>2. PICK m \in ackNet :
        /\ m.type = "ACKACK"
        /\ sample' = IF m.number \in DOMAIN ackNumbers
                     THEN [number |-> m.number, answers |-> m.of,
                           of |-> ackNumbers[m.number]]
                     ELSE sample
        /\ ackNumbers' = Restrict(ackNumbers, Remaining(m.number))
  BY DEF HandleACKACK
<1>3. UNCHANGED <<nextACKNumber, acks, ackNet>>
  BY DEF HandleACKACK
<1>4. m.number \in Nat /\ m.of \in Nat /\ acks \in Nat
  BY <1>1 DEF AckTypes, AckMessage
<1>5. /\ DOMAIN ackNumbers' = {n \in DOMAIN ackNumbers : n > m.number}
      /\ \A n \in DOMAIN ackNumbers' : ackNumbers'[n] = ackNumbers[n]
  BY <1>2 DEF Restrict, Remaining
<1>6. ASSUME m.number \in DOMAIN ackNumbers
      PROVE  ackNumbers[m.number] = m.of
  <2>1. m.number # 0
    BY <1>1, <1>2 DEF AckMessages
  <2>2. Recent(m.of) /\ NumberOf(m.of) = m.number
    BY <1>1, <2>1, MessagesAreRecent
  <2>3. Recent(ackNumbers[m.number]) /\ NumberOf(ackNumbers[m.number]) = m.number
    BY <1>1, <1>6 DEF AckEntries
  <2>4. QED
    BY <1>1, <2>2, <2>3, NumbersDiffer
<1>7. CASE m.number \in DOMAIN ackNumbers
  <2>1. sample' = [number |-> m.number, answers |-> m.of, of |-> m.of]
    BY <1>2, <1>6, <1>7
  <2>2. m.of <= acks
    <3>1. m.number # 0
      BY <1>1, <1>2 DEF AckMessages
    <3>2. Recent(m.of)
      BY <1>1, <3>1, MessagesAreRecent, Zenon
    <3>3. QED
      BY <1>4, <3>2 DEF Recent
  <2>3. AckTypes' /\ AckSamples' /\ SampleIsOfItsACK'
    BY <1>1, <1>3, <1>4, <2>1, <2>2 DEF AckTypes, AckSamples, SampleIsOfItsACK
  <2>4. sample'.number = m.number
    BY <2>1
  <2>5. OutstandingIsYoung'
    BY <1>5, <2>4 DEF OutstandingIsYoung
  <2>6. AckEntries' /\ AckMessages'
    BY <1>1, <1>3, <1>5, Zenon DEF AckEntries, AckMessages, Recent, NumberOf
  <2>7. QED
    BY <2>3, <2>5, <2>6, Zenon DEF AckInv
<1>8. CASE m.number \notin DOMAIN ackNumbers
  <2>1. sample' = sample
    BY <1>2, <1>8
  <2>2. AckTypes' /\ AckSamples' /\ SampleIsOfItsACK'
    BY <1>1, <1>3, <2>1 DEF AckTypes, AckSamples, SampleIsOfItsACK
  <2>3. OutstandingIsYoung'
    BY <1>1, <1>5, <2>1, Zenon DEF OutstandingIsYoung
  <2>4. AckEntries' /\ AckMessages'
    BY <1>1, <1>3, <1>5 DEF AckEntries, AckMessages, Recent, NumberOf
  <2>5. QED
    BY <2>2, <2>3, <2>4 DEF AckInv
<1>9. QED
  BY <1>7, <1>8, Zenon

(* The inductive invariant of the exchange: entries of ackNumbers and      *)
(* messages in the network name the ACK that was given their number last.  *)
THEOREM AckInvariant == AckSpec => []AckInv
<1>1. AckInit => AckInv
  BY AckInitInv
<1>2. AckInv /\ [AckNext]_ackVars => AckInv'
  <2> SUFFICES ASSUME AckInv, [AckNext]_ackVars PROVE AckInv'
    OBVIOUS
  <2>1. CASE SendACK
    BY <2>1, SendACKStep
  <2>2. CASE SendLiteACK
    BY <2>2, SendLiteACKStep, Zenon
  <2>3. CASE HandleACK
    BY <2>3, HandleACKStep
  <2>4. CASE HandleACKACK
    BY <2>4, HandleACKACKStep
  <2>5. CASE UNCHANGED ackVars
    BY <2>5 DEF ackVars, AckInv, AckTypes, AckEntries, AckMessages, Recent, NumberOf, AckSamples,
                SampleIsOfItsACK, OutstandingIsYoung
  <2>6. QED
    BY <2>1, <2>2, <2>3, <2>4, <2>5 DEF AckNext
<1>3. QED
  BY <1>1, <1>2, PTL DEF AckSpec

(* handleACKACK measures the round trip time from the ACK that the ACKACK  *)
(* answers, however often the numbers have wrapped, and in whatever order  *)
(* answers arrive, as long as a message lives for less than half of a lap. *)
THEOREM SamplesAreOfTheirACKs == AckSpec => []SampleIsOfItsACK
<1>1. AckInv => SampleIsOfItsACK
  BY DEF AckInv
<1>2. QED
  BY <1>1, AckInvariant, PTL

(* Entries of lost ACKs are forgotten with the next answer: what is kept   *)
(* is younger than the latest sample or left over from before a wrap.      *)
THEOREM OutstandingStaysYoung == AckSpec => []OutstandingIsYoung
<1>1. AckInv => OutstandingIsYoung
  BY DEF AckInv
<1>2. QED
  BY <1>1, AckInvariant, PTL

-----------------------------------------------------------------------------
(* The queues of a connection.                                             *)
(*                                                                         *)
(* Reading.  The packets lie in order from the application to the network: *)
(* below expected those that were read, then the readQueue, up to the last *)
(* one delivered, and above it those in the receiver (ReadInv).            *)
(*                                                                         *)
(* Writing.  The same with bytes, from the sender over the writeQueue to   *)
(* the writeBuffer and up to written (WriteInv).  That no byte goes        *)
(* missing needs the bytes of the Write that is running: each is in one of *)
(* these three places (KeptInv).                                           *)

Increasing(s) == \A i, j \in DOMAIN s : i < j => s[i] < s[j]

ReadInv ==
  /\ delivered \in Nat /\ expected \in Nat /\ packet \in Int
  /\ networkQueue \in Seq(Int) /\ readQueue \in Seq(Nat)
  /\ \A p \in recv : p \in Nat /\ p > delivered
  /\ \A i \in DOMAIN readQueue : readQueue[i] >= expected /\ readQueue[i] <= delivered
  /\ Increasing(readQueue)
  /\ expected <= delivered + 1
  /\ ~disorder

\* The bytes of the packets in the queue q.
BytesIn(q) == UNION {Bytes(q[i]) : i \in DOMAIN q}

Queued == BytesIn(writeQueue)

InTurn(q) ==
  \A i, j \in DOMAIN q : i < j => \A b \in Bytes(q[i]), d \in Bytes(q[j]) : b < d

WriteTypes ==
  /\ written \in Nat
  /\ writeBuffer \in Seq(Nat)
  /\ writeQueue \in Seq(Seq(Nat))
  /\ snd \subseteq Nat

WriteOrder ==
  /\ Increasing(writeBuffer)
  /\ \A d \in Bytes(writeBuffer) : d <= written
  /\ \A b \in snd \union Queued, d \in Bytes(writeBuffer) : b < d
  /\ \A b \in snd \union Queued : b <= written
  /\ \A b \in snd, d \in Queued : b < d
  /\ InTurn(writeQueue)

WriteInv == WriteTypes /\ WriteOrder

KeptInv ==
  /\ WriteTypes
  /\ promised \subseteq snd \union Queued
  /\ writing \subseteq snd \union Queued \union Bytes(writeBuffer)

-----------------------------------------------------------------------------
(* Sequences of numbers.                                                   *)

(* A number above all of an increasing sequence may be appended to it.     *)
LEMMA AppendIncreasing ==
  ASSUME NEW s \in Seq(Nat), NEW p \in Nat, Increasing(s),
         \A i \in DOMAIN s : s[i] < p
  PROVE  Increasing(Append(s, p))
BY DEF Increasing

(* What is left of an increasing sequence without its head increases too,  *)
(* and lies above the head.                                                *)
LEMMA TailIncreasing ==
  ASSUME NEW s \in Seq(Nat), s # <<>>, Increasing(s)
  PROVE  /\ Increasing(Tail(s))
         /\ \A i \in DOMAIN Tail(s) : i + 1 \in DOMAIN s /\ Tail(s)[i] = s[i + 1]
         /\ \A i \in DOMAIN Tail(s) : Head(s) < Tail(s)[i]
<1>1. \A i \in DOMAIN Tail(s) : i + 1 \in DOMAIN s /\ Tail(s)[i] = s[i + 1]
  OBVIOUS
<1>2. Head(s) = s[1] /\ 1 \in DOMAIN s
  OBVIOUS
<1>3. DOMAIN Tail(s) \subseteq Nat \ {0}
  OBVIOUS
<1>4. Increasing(Tail(s))
  BY <1>1, <1>3 DEF Increasing
<1>5. \A i \in DOMAIN Tail(s) : Head(s) < Tail(s)[i]
  BY <1>1, <1>2, <1>3 DEF Increasing
<1>6. QED
  BY <1>1, <1>4, <1>5

-----------------------------------------------------------------------------
(* Reading.                                                                *)

(* push puts a packet at the end of the networkQueue or drops it.          *)
LEMMA PushReads ==
  ASSUME ReadInv, NEW p \in Packets, push(p)
  PROVE  ReadInv'
<1>1. p \in Int
  BY ConnectionAssumption DEF Packets, Keepalive, Shutdown
<1>2. networkQueue' = Append(networkQueue, p) \/ networkQueue' = networkQueue
  BY DEF push
<1>3. networkQueue' \in Seq(Int)
  <2>1. networkQueue \in Seq(Int)
    BY DEF ReadInv
  <2>2. Append(networkQueue, p) \in Seq(Int)
    BY <1>1, <2>1
  <2>3. QED
    BY <1>2, <2>1, <2>2
<1>4. QED
  BY <1>3 DEF push, ReadInv, readVars, Increasing

(* networkQueueReader takes the first packet.                              *)
LEMMA NetworkReads ==
  ASSUME ReadInv, networkQueueReader
  PROVE  ReadInv'
<1>1. packet' \in Int /\ networkQueue' \in Seq(Int)
  BY DEF networkQueueReader, ReadInv
<1>2. QED
  BY <1>1 DEF networkQueueReader, ReadInv, readVars, Increasing

(* handlePacket gives the receiver only packets above the last one         *)
(* delivered.                                                              *)
LEMMA HandleReads ==
  ASSUME ReadInv, handlePacket
  PROVE  ReadInv'
<1>1. packet' \in Int
  BY DEF handlePacket, Nil
<1>2. \A p \in recv' : p \in Nat /\ p > delivered
  BY DEF handlePacket, ReadInv
<1>3. QED
  BY <1>1, <1>2 DEF handlePacket, ReadInv, readVars, Increasing

(* The ticker delivers the least packet of the receiver, which lies above  *)
(* all of the readQueue and below all that stay in the receiver.           *)
LEMMA TickReads ==
  ASSUME ReadInv, Tick
  PROVE  ReadInv'
<1>1. PICK p \in recv : /\ \A m \in recv : p <= m
                       /\ recv' = recv \ {p} /\ delivered' = p /\ deliver(p)
  BY DEF Tick
<1>2. p \in recv /\ \A m \in recv : p <= m
  BY <1>1
<1>3. /\ p \in Nat /\ p > delivered
      /\ recv' = recv \ {p} /\ delivered' = p /\ deliver(p)
  BY <1>1, <1>2 DEF ReadInv
<1>4. \A q \in recv' : q \in Nat /\ q > delivered'
  BY <1>2, <1>3 DEF ReadInv
<1>5. CASE readQueue' = Append(readQueue, p)
  <2>1. \A i \in DOMAIN readQueue : readQueue[i] < p
    BY <1>3 DEF ReadInv
  <2>2. Increasing(readQueue')
    BY <1>3, <1>5, <2>1, AppendIncreasing DEF ReadInv
  <2>3. /\ readQueue' \in Seq(Nat)
        /\ \A i \in DOMAIN readQueue' : readQueue'[i] >= expected /\ readQueue'[i] <= p
    BY <1>3, <1>5 DEF ReadInv
  <2>4. QED
    BY <1>3, <1>4, <2>2, <2>3 DEF Tick, ReadInv, netVars
<1>6. CASE readQueue' = readQueue
  BY <1>3, <1>4, <1>6 DEF Tick, ReadInv, netVars, Increasing
<1>7. QED
  BY <1>3, <1>5, <1>6 DEF deliver

(* ReadPacket takes the first packet of the readQueue: it is not below the *)
(* expected one, and all others are above it.                              *)
LEMMA TakeReads ==
  ASSUME ReadInv, ReadPacketTakes
  PROVE  ReadInv'
<1>1. readQueue \in Seq(Nat) /\ readQueue # <<>> /\ readQueue' = Tail(readQueue)
  BY DEF ReadInv, ReadPacketTakes
<1>2. PICK p : p = Head(readQueue)
  OBVIOUS
<1>3. p \in Nat /\ p >= expected /\ p <= delivered
  BY <1>1, <1>2 DEF ReadInv
<1>4. expected' = p + 1 /\ disorder' = disorder
  BY <1>2, <1>3 DEF ReadPacketTakes, ReadInv
<1>5. /\ Increasing(readQueue')
      /\ \A i \in DOMAIN readQueue' : /\ i + 1 \in DOMAIN readQueue
                                      /\ readQueue'[i] = readQueue[i + 1]
                                      /\ readQueue'[i] > p
  BY <1>1, <1>2, TailIncreasing DEF ReadInv
<1>6. readQueue' \in Seq(Nat)
  BY <1>1
<1>7. \A i \in DOMAIN readQueue' : readQueue'[i] >= p + 1 /\ readQueue'[i] <= delivered
  BY <1>3, <1>5, <1>6 DEF ReadInv
<1>8. QED
  BY <1>3, <1>4, <1>5, <1>6, <1>7 DEF ReadPacketTakes, ReadInv, netVars

(* No other step touches the packets, but for close, which empties the     *)
(* receiver.                                                               *)
LEMMA ReadStep ==
  ASSUME ReadInv, [Next]_vars
  PROVE  ReadInv'
<1> DEFINE places == <<delivered, expected, netVars, readQueue, disorder>>
<1>1. ASSUME UNCHANGED places, recv' \subseteq recv
      PROVE  ReadInv'
  BY <1>1 DEF ReadInv, netVars, Increasing
<1>2. CASE UNCHANGED vars
  BY <1>1, <1>2 DEF vars, readVars
<1>3. CASE \E p \in Packets : push(p)
  BY <1>3, PushReads
<1>4. CASE \E n \in Lengths : Write(n)
  BY <1>1, <1>4, Zenon DEF Write, readVars
<1>5. CASE ReadPacket \/ UserCloses
  BY <1>1, <1>5, Zenon DEF ReadPacket, UserCloses, readVars
<1>6. CASE Work
  BY <1>1, <1>6, NetworkReads, HandleReads, TickReads, Zenon DEF Work, writeQueueReader, readVars
<1>7. CASE Timer
  BY <1>1, <1>7 DEF Timer, Age, IdleTimeout, readVars
<1>8. CASE ReadReturns
  BY <1>1, <1>8, TakeReads, Zenon DEF ReadReturns, ReadPacketEnds
<1>9. CASE WriteGoesOn
  BY <1>1, <1>9 DEF WriteGoesOn, WriteChunk, WriteFails, readVars
<1>10. CASE CloseStart
  BY <1>1, <1>10, Zenon DEF CloseStart, readVars
<1>11. CASE CloseGoesOn
  BY <1>1, <1>11 DEF CloseGoesOn, CloseTell, CloseCancel, CloseFlush, OnShutdown, readVars
<1>12. CASE \E l \in Loops : Leave(l)
  BY <1>1, <1>12 DEF Leave, readVars
<1>13. QED
  BY <1>2, <1>3, <1>4, <1>5, <1>6, <1>7, <1>8, <1>9, <1>10, <1>11, <1>12 DEF Next

(* ReadPacket never finds a packet out of order, with queues of any size   *)
(* that drop what does not fit.                                            *)
THEOREM ReadStaysInOrder == Spec => []ReadInOrder
<1>1. Init => ReadInv
  BY DEF Init, ReadInv, Nil, Increasing
<1>2. ReadInv /\ [Next]_vars => ReadInv'
  BY ReadStep
<1>3. ReadInv => ReadInOrder
  BY DEF ReadInv, ReadInOrder
<1>4. QED
  BY <1>1, <1>2, <1>3, PTL DEF Spec

-----------------------------------------------------------------------------
(* Writing.                                                                *)

(* Write takes the packet out of the front of the buffer: the packet and   *)
(* the rest are the buffer, and the packet lies before the rest.           *)
LEMMA ChunkAndRest ==
  ASSUME writeBuffer \in Seq(Nat)
  PROVE  /\ Chunk \in Seq(Nat) /\ Rest \in Seq(Nat)
         /\ Bytes(writeBuffer) = Bytes(Chunk) \union Bytes(Rest)
         /\ Increasing(writeBuffer) =>
              /\ Increasing(Rest)
              /\ \A b \in Bytes(Chunk), d \in Bytes(Rest) : b < d
<1> DEFINE m == IF PayloadSize < Len(writeBuffer) THEN PayloadSize ELSE Len(writeBuffer)
           l == Len(writeBuffer)
<1>1. /\ m \in Nat /\ m <= l /\ l \in Nat
      /\ PayloadSize \in Nat
      /\ m < l => m = PayloadSize
      /\ m = l => PayloadSize >= l
  BY ConnectionAssumption
<1>2. /\ Chunk \in Seq(Nat) /\ Len(Chunk) = m /\ DOMAIN Chunk = 1..m
      /\ \A i \in 1..m : Chunk[i] = writeBuffer[i]
  BY <1>1 DEF Chunk
<1>3. CASE m = l
  <2>1. Rest = <<>>
    BY <1>1, <1>3 DEF Rest
  <2>2. Bytes(Rest) = {} /\ Rest \in Seq(Nat) /\ Increasing(Rest)
    BY <2>1 DEF Bytes, Increasing
  <2>3. Bytes(writeBuffer) = Bytes(Chunk)
    <3>1. DOMAIN writeBuffer = 1..m
      BY <1>3
    <3> HIDE DEF m, l
    <3>2. QED
      BY <1>2, <3>1 DEF Bytes
  <2>4. QED
    BY <1>2, <2>2, <2>3
<1>4. CASE m < l
  <2>1. /\ Rest \in Seq(Nat) /\ DOMAIN Rest = 1..(l - m)
        /\ \A i \in 1..(l - m) : Rest[i] = writeBuffer[i + m]
    BY <1>1, <1>4 DEF Rest
  <2>2. DOMAIN writeBuffer = 1..l
    OBVIOUS
  <2> HIDE DEF m, l
  <2>3. \A i \in 1..l : i \in 1..m \/ (i - m \in 1..(l - m) /\ i = (i - m) + m)
    BY <1>1
  <2>4. \A i \in 1..m : i \in 1..l
    BY <1>1
  <2>5. \A i \in 1..(l - m) : i + m \in 1..l
    BY <1>1
  <2>6. Bytes(writeBuffer) = Bytes(Chunk) \union Bytes(Rest)
    BY <1>2, <2>1, <2>2, <2>3, <2>4, <2>5 DEF Bytes
  <2>7. ASSUME Increasing(writeBuffer)
        PROVE  Increasing(Rest)
    <3>1. ASSUME NEW i \in 1..(l - m), NEW j \in 1..(l - m), i < j
          PROVE  Rest[i] < Rest[j]
      <4>1. i + m < j + m
        BY <1>1, <3>1
      <4>2. writeBuffer[i + m] < writeBuffer[j + m]
        BY <2>2, <2>5, <2>7, <4>1, Zenon DEF Increasing
      <4>3. QED
        BY <2>1, <4>2
    <3>2. QED
      BY <2>1, <3>1 DEF Increasing
  <2>8. ASSUME Increasing(writeBuffer)
        PROVE  \A b \in Bytes(Chunk), d \in Bytes(Rest) : b < d
    <3>1. ASSUME NEW i \in 1..m, NEW j \in 1..(l - m)
          PROVE  Chunk[i] < Rest[j]
      <4>1. i < j + m
        BY <1>1
      <4>2. writeBuffer[i] < writeBuffer[j + m]
        BY <2>2, <2>4, <2>5, <2>8, <4>1, Zenon DEF Increasing
      <4>3. QED
        BY <1>2, <2>1, <4>2, Zenon
    <3>2. QED
      BY <1>2, <2>1, <3>1 DEF Bytes
  <2>9. QED
    BY <1>2, <2>1, <2>6, <2>7, <2>8, Zenon
<1>5. QED
  BY <1>1, <1>3, <1>4

(* A packet put at the end of a queue adds its bytes, and keeps the queue  *)
(* in turn if they lie above all in it.                                    *)
LEMMA AppendBytes ==
  ASSUME NEW q \in Seq(Seq(Nat)), NEW c \in Seq(Nat)
  PROVE  /\ Append(q, c) \in Seq(Seq(Nat))
         /\ BytesIn(Append(q, c)) = BytesIn(q) \union Bytes(c)
         /\ InTurn(q) /\ (\A b \in BytesIn(q), d \in Bytes(c) : b < d)
              => InTurn(Append(q, c))
<1> DEFINE a == Append(q, c)
           n == Len(q)
<1>1. /\ a \in Seq(Seq(Nat)) /\ n \in Nat
      /\ DOMAIN q = 1..n /\ DOMAIN a = 1..(n + 1)
      /\ \A i \in 1..n : a[i] = q[i]
      /\ a[n + 1] = c
  OBVIOUS
<1> HIDE DEF a, n
<1>2. \A i \in 1..(n + 1) : i \in 1..n \/ i = n + 1
  BY <1>1
<1>3. 1..n \subseteq 1..(n + 1) /\ n + 1 \in 1..(n + 1)
  BY <1>1
<1>4. BytesIn(a) = BytesIn(q) \union Bytes(c)
  BY <1>1, <1>2, <1>3, Zenon DEF BytesIn
<1>5. ASSUME InTurn(q), \A b \in BytesIn(q), d \in Bytes(c) : b < d
      PROVE  InTurn(a)
  <2>1. SUFFICES ASSUME NEW i \in 1..(n + 1), NEW j \in 1..(n + 1), i < j,
                        NEW b \in Bytes(a[i]), NEW d \in Bytes(a[j])
                 PROVE  b < d
    BY <1>1, Zenon DEF InTurn
  <2>2. i \in 1..n
    BY <1>1, <2>1
  <2>3. b \in Bytes(q[i]) /\ b \in BytesIn(q)
    BY <1>1, <2>1, <2>2, Zenon DEF BytesIn
  <2>4. CASE j = n + 1
    BY <1>1, <1>5, <2>1, <2>3, <2>4
  <2>5. CASE j \in 1..n
    BY <1>1, <1>5, <2>1, <2>2, <2>3, <2>5, Zenon DEF InTurn
  <2>6. QED
    BY <1>2, <2>4, <2>5, Zenon
<1>6. QED
  BY <1>1, <1>4, <1>5, Zenon DEF a

(* The first packet of a queue and the others make up its bytes; in a      *)
(* queue that is in turn the first one lies below the others.              *)
LEMMA TailBytes ==
  ASSUME NEW q \in Seq(Seq(Nat)), q # <<>>
  PROVE  /\ Head(q) \in Seq(Nat) /\ Tail(q) \in Seq(Seq(Nat))
         /\ BytesIn(q) = Bytes(Head(q)) \union BytesIn(Tail(q))
         /\ InTurn(q) => /\ InTurn(Tail(q))
                         /\ \A b \in Bytes(Head(q)), d \in BytesIn(Tail(q)) : b < d
<1> DEFINE t == Tail(q)
           n == Len(q)
<1>1. /\ t \in Seq(Seq(Nat)) /\ n \in Nat /\ n >= 1
      /\ DOMAIN q = 1..n /\ DOMAIN t = 1..(n - 1)
      /\ \A i \in 1..(n - 1) : t[i] = q[i + 1]
      /\ Head(q) = q[1] /\ q[1] \in Seq(Nat)
  OBVIOUS
<1> HIDE DEF t, n
<1>2. \A i \in 1..n : i = 1 \/ (i - 1 \in 1..(n - 1) /\ i = (i - 1) + 1)
  BY <1>1
<1>3. 1 \in 1..n /\ \A i \in 1..(n - 1) : i + 1 \in 1..n /\ 1 < i + 1
  BY <1>1
<1>4. BytesIn(q) = Bytes(Head(q)) \union BytesIn(t)
  <2>1. ASSUME NEW b \in BytesIn(q)
        PROVE  b \in Bytes(Head(q)) \union BytesIn(t)
    <3>1. PICK i \in 1..n : b \in Bytes(q[i])
      BY <1>1, <2>1, Zenon DEF BytesIn
    <3>2. CASE i = 1
      BY <1>1, <3>1, <3>2, Zenon
    <3>3. CASE i - 1 \in 1..(n - 1) /\ i = (i - 1) + 1
      <4>1. t[i - 1] = q[i]
        BY <1>1, <3>3
      <4>2. QED
        BY <1>1, <3>1, <3>3, <4>1, Zenon DEF BytesIn
    <3>4. QED
      BY <1>2, <3>2, <3>3, Zenon
  <2>2. ASSUME NEW b \in Bytes(Head(q))
        PROVE  b \in BytesIn(q)
    BY <1>1, <1>3, <2>2, Zenon DEF BytesIn
  <2>3. ASSUME NEW b \in BytesIn(t)
        PROVE  b \in BytesIn(q)
    <3>1. PICK i \in 1..(n - 1) : b \in Bytes(t[i])
      BY <1>1, <2>3 DEF BytesIn
    <3>2. QED
      BY <1>1, <1>3, <3>1 DEF BytesIn
  <2>4. QED
    BY <2>1, <2>2, <2>3, Zenon
<1>5. ASSUME InTurn(q)
      PROVE  InTurn(t)
  <2>1. \A i, j \in 1..(n - 1) : i < j => i + 1 < j + 1
    BY <1>1
  <2>2. QED
    BY <1>1, <1>3, <1>5, <2>1, Zenon DEF InTurn
<1>6. ASSUME InTurn(q), NEW b \in Bytes(Head(q)), NEW d \in BytesIn(t)
      PROVE  b < d
  <2>1. PICK i \in 1..(n - 1) : d \in Bytes(t[i])
    BY <1>1, <1>6, Zenon DEF BytesIn
  <2>2. QED
    BY <1>1, <1>3, <1>6, <2>1, Zenon DEF InTurn
<1>7. QED
  BY <1>1, <1>4, <1>5, <1>6 DEF t

(* Write puts its bytes, which are above all earlier ones, at the end of   *)
(* the buffer.                                                             *)
LEMMA WriteBytes ==
  ASSUME WriteTypes, NEW n \in Lengths, Write(n)
  PROVE  /\ WriteTypes'
         /\ Bytes(writeBuffer') = Bytes(writeBuffer) \union (written + 1)..(written + n)
         /\ Increasing(writeBuffer) /\ (\A d \in Bytes(writeBuffer) : d <= written)
              => Increasing(writeBuffer')
<1> DEFINE l == Len(writeBuffer)
           new == [i \in 1..n |-> written + i]
<1>1. n \in Nat /\ written \in Nat /\ l \in Nat /\ writeBuffer \in Seq(Nat)
  BY ConnectionAssumption DEF WriteTypes
<1>2. new \in Seq(Nat) /\ Len(new) = n
  BY <1>1
<1>3. writeBuffer' = writeBuffer \o new /\ written' = written + n
  BY DEF Write
<1>4. /\ writeBuffer' \in Seq(Nat)
      /\ DOMAIN writeBuffer = 1..l /\ DOMAIN writeBuffer' = 1..(l + n)
      /\ \A i \in 1..l : writeBuffer'[i] = writeBuffer[i]
      /\ \A i \in (l + 1)..(l + n) : writeBuffer'[i] = new[i - l]
  BY <1>1, <1>2, <1>3
<1>5. \A i \in (l + 1)..(l + n) : writeBuffer'[i] = written + (i - l)
  <2>1. \A i \in (l + 1)..(l + n) : i - l \in 1..n
    BY <1>1
  <2>2. QED
    BY <1>4, <2>1, Zenon
<1> HIDE DEF l, new
<1>6. WriteTypes'
  BY <1>1, <1>3, <1>4 DEF WriteTypes, Write, sendVars
<1>7. Bytes(writeBuffer') = Bytes(writeBuffer) \union (written + 1)..(written + n)
  <2>1. ASSUME NEW b \in Bytes(writeBuffer')
        PROVE  b \in Bytes(writeBuffer) \union (written + 1)..(written + n)
    <3>1. PICK i \in 1..(l + n) : b = writeBuffer'[i]
      BY <1>4, <2>1, Zenon DEF Bytes
    <3>2. CASE i \in 1..l
      BY <1>4, <3>1, <3>2, Zenon DEF Bytes
    <3>3. CASE i \in (l + 1)..(l + n)
      BY <1>1, <1>5, <3>1, <3>3
    <3>4. QED
      BY <1>1, <3>2, <3>3
  <2>2. ASSUME NEW b \in Bytes(writeBuffer)
        PROVE  b \in Bytes(writeBuffer')
    <3>1. PICK i \in 1..l : b = writeBuffer[i]
      BY <1>4, <2>2 DEF Bytes
    <3>2. i \in 1..(l + n)
      BY <1>1
    <3>3. QED
      BY <1>4, <3>1, <3>2, Zenon DEF Bytes
  <2>3. ASSUME NEW b \in (written + 1)..(written + n)
        PROVE  b \in Bytes(writeBuffer')
    <3>1. PICK i : i = b - written + l
      OBVIOUS
    <3>2. i \in (l + 1)..(l + n) /\ i \in 1..(l + n) /\ b = written + (i - l)
      BY <1>1, <2>3, <3>1
    <3>3. QED
      BY <1>4, <1>5, <3>2 DEF Bytes
  <2>4. QED
    BY <2>1, <2>2, <2>3
<1>8. ASSUME Increasing(writeBuffer), \A d \in Bytes(writeBuffer) : d <= written
      PROVE  Increasing(writeBuffer')
  <2>1. SUFFICES ASSUME NEW i \in 1..(l + n), NEW j \in 1..(l + n), i < j
                 PROVE  writeBuffer'[i] < writeBuffer'[j]
    BY <1>4, Zenon DEF Increasing
  <2>2. CASE j \in 1..l
    <3>1. i \in 1..l
      BY <1>1, <2>1, <2>2
    <3>2. QED
      BY <1>4, <1>8, <2>1, <2>2, <3>1 DEF Increasing
  <2>3. CASE j \in (l + 1)..(l + n) /\ i \in 1..l
    <3>1. writeBuffer[i] \in Nat /\ writeBuffer[i] <= written
      <4>1. i \in DOMAIN writeBuffer
        BY <1>4, <2>3, Zenon
      <4>2. writeBuffer[i] \in Bytes(writeBuffer)
        BY <4>1 DEF Bytes
      <4>3. writeBuffer[i] \in Nat
        BY <1>1, <4>1
      <4>4. QED
        BY <1>8, <4>2, <4>3, Zenon
    <3>2. QED
      BY <1>1, <1>4, <1>5, <2>3, <3>1
  <2>4. CASE j \in (l + 1)..(l + n) /\ i \in (l + 1)..(l + n)
    BY <1>1, <1>5, <2>1, <2>4
  <2>5. QED
    BY <1>1, <2>2, <2>3, <2>4
<1>9. QED
  BY <1>6, <1>7, <1>8

(* The bytes of a queue and of a buffer are numbers.                       *)
LEMMA BytesAreNumbers ==
  ASSUME WriteTypes
  PROVE  Queued \subseteq Nat /\ Bytes(writeBuffer) \subseteq Nat
BY DEF WriteTypes, Queued, BytesIn, Bytes

(* A packet of a Write moves from the buffer to the writeQueue.            *)
LEMMA WriteChunkMoves ==
  ASSUME WriteTypes, WriteChunk
  PROVE  /\ WriteTypes'
         /\ Bytes(writeBuffer) = Bytes(Chunk) \union Bytes(writeBuffer')
         /\ Queued' = Queued \union Bytes(Chunk)
<1>1. writeBuffer' = Rest /\ writeQueue' = Append(writeQueue, Chunk)
      /\ written' = written /\ snd' = snd
  BY DEF WriteChunk
<1>2. Chunk \in Seq(Nat) /\ Rest \in Seq(Nat)
      /\ Bytes(writeBuffer) = Bytes(Chunk) \union Bytes(Rest)
  BY ChunkAndRest, Zenon DEF WriteTypes
<1>3. writeQueue' \in Seq(Seq(Nat)) /\ Queued' = Queued \union Bytes(Chunk)
  BY <1>1, <1>2, AppendBytes, Zenon DEF WriteTypes, Queued
<1>4. QED
  BY <1>1, <1>2, <1>3 DEF WriteTypes

(* The packet of a Write that fails is lost; the rest stays in the buffer. *)
LEMMA WriteFailsMoves ==
  ASSUME WriteTypes, WriteFails
  PROVE  /\ WriteTypes'
         /\ Bytes(writeBuffer) = Bytes(Chunk) \union Bytes(writeBuffer')
         /\ Queued' = Queued /\ snd' = snd
<1>1. writeBuffer' = Rest /\ writeQueue' = writeQueue
      /\ written' = written /\ snd' = snd
  BY DEF WriteFails, sendVars
<1>2. Rest \in Seq(Nat)
      /\ Bytes(writeBuffer) = Bytes(Chunk) \union Bytes(Rest)
  BY ChunkAndRest DEF WriteTypes
<1>3. QED
  BY <1>1, <1>2, Zenon DEF WriteTypes, Queued

(* writeQueueReader moves the first packet of the writeQueue to the sender.*)
LEMMA SenderMoves ==
  ASSUME WriteTypes, writeQueueReader
  PROVE  /\ WriteTypes'
         /\ Queued = Bytes(Head(writeQueue)) \union Queued'
         /\ snd' = snd \union Bytes(Head(writeQueue))
         /\ writeBuffer' = writeBuffer /\ written' = written
<1>1. /\ writeQueue # <<>> /\ writeQueue' = Tail(writeQueue)
      /\ snd' = snd \union Bytes(Head(writeQueue))
      /\ writeBuffer' = writeBuffer /\ written' = written
  BY Zenon DEF writeQueueReader, writeVars
<1>2. /\ writeQueue' \in Seq(Seq(Nat))
      /\ Queued = Bytes(Head(writeQueue)) \union Queued'
  BY <1>1, TailBytes DEF WriteTypes, Queued
<1>3. Queued \subseteq Nat
  BY BytesAreNumbers, Zenon
<1>4. QED
  BY <1>1, <1>2, <1>3, Zenon DEF WriteTypes

-----------------------------------------------------------------------------
(* The order of the bytes.                                                 *)

(* The bytes of a Write lie above all others.                              *)
LEMMA WriteOrders ==
  ASSUME WriteInv, NEW n \in Lengths, Write(n)
  PROVE  WriteInv'
<1>1. n \in Nat /\ written \in Nat /\ Queued \subseteq Nat /\ snd \subseteq Nat
      /\ Bytes(writeBuffer) \subseteq Nat
  BY ConnectionAssumption, BytesAreNumbers, Zenon DEF WriteInv, WriteTypes
<1>2. WriteTypes' /\ Increasing(writeBuffer')
  BY WriteBytes DEF WriteInv, WriteOrder
<1>3. Bytes(writeBuffer') = Bytes(writeBuffer) \union (written + 1)..(written + n)
  BY WriteBytes, Zenon DEF WriteInv
<1>4. /\ written' = written + n /\ snd' = snd
      /\ writeQueue' = writeQueue /\ Queued' = Queued
  BY DEF Write, sendVars, Queued
<1>5. \A d \in Bytes(writeBuffer') : d <= written'
  BY <1>1, <1>3, <1>4 DEF WriteInv, WriteOrder
<1>6. \A b \in snd' \union Queued', d \in Bytes(writeBuffer') : b < d
  BY <1>1, <1>3, <1>4 DEF WriteInv, WriteOrder
<1>7. \A b \in snd' \union Queued' : b <= written'
  BY <1>1, <1>4 DEF WriteInv, WriteOrder
<1>8. InTurn(writeQueue') /\ \A b \in snd', d \in Queued' : b < d
  BY <1>4, Zenon DEF WriteInv, WriteOrder
<1>9. QED
  BY <1>2, <1>5, <1>6, <1>7, <1>8, Zenon DEF WriteInv, WriteOrder

(* The packet that moves to the writeQueue lies above all that is in it.   *)
LEMMA WriteChunkOrders ==
  ASSUME WriteInv, WriteChunk
  PROVE  WriteInv'
<1>1. /\ WriteTypes'
      /\ Bytes(writeBuffer) = Bytes(Chunk) \union Bytes(writeBuffer')
      /\ Queued' = Queued \union Bytes(Chunk)
  BY WriteChunkMoves DEF WriteInv
<1>2. /\ writeQueue' = Append(writeQueue, Chunk) /\ writeBuffer' = Rest
      /\ snd' = snd /\ written' = written
  BY Zenon DEF WriteChunk
<1>3. /\ Increasing(writeBuffer')
      /\ \A b \in Bytes(Chunk), d \in Bytes(writeBuffer') : b < d
      /\ Chunk \in Seq(Nat)
  BY <1>2, ChunkAndRest DEF WriteInv, WriteTypes, WriteOrder
<1>4. \A b \in Queued, d \in Bytes(Chunk) : b < d
  BY <1>1, Zenon DEF WriteInv, WriteOrder
<1>5. InTurn(writeQueue')
  BY <1>2, <1>3, <1>4, AppendBytes, Zenon DEF WriteInv, WriteTypes, WriteOrder, Queued
<1>6. /\ \A d \in Bytes(writeBuffer') : d <= written'
      /\ \A b \in snd' \union Queued', d \in Bytes(writeBuffer') : b < d
      /\ \A b \in snd' \union Queued' : b <= written'
      /\ \A b \in snd', d \in Queued' : b < d
  BY <1>1, <1>2, <1>3, Zenon DEF WriteInv, WriteOrder
<1>7. QED
  BY <1>1, <1>3, <1>5, <1>6, Zenon DEF WriteInv, WriteOrder

(* What a Write loses leaves the order of the others alone.                *)
LEMMA WriteFailsOrders ==
  ASSUME WriteInv, WriteFails
  PROVE  WriteInv'
<1>1. /\ WriteTypes'
      /\ Bytes(writeBuffer) = Bytes(Chunk) \union Bytes(writeBuffer')
      /\ Queued' = Queued /\ snd' = snd
  BY WriteFailsMoves DEF WriteInv
<1>2. writeQueue' = writeQueue /\ writeBuffer' = Rest /\ written' = written
  BY Zenon DEF WriteFails, sendVars
<1>3. Increasing(writeBuffer')
  BY <1>2, ChunkAndRest, Zenon DEF WriteInv, WriteTypes, WriteOrder
<1>4. QED
  BY <1>1, <1>2, <1>3 DEF WriteInv, WriteOrder

(* The packet that moves to the sender lies below all in the writeQueue.   *)
LEMMA SenderOrders ==
  ASSUME WriteInv, writeQueueReader
  PROVE  WriteInv'
<1>1. /\ WriteTypes'
      /\ Queued = Bytes(Head(writeQueue)) \union Queued'
      /\ snd' = snd \union Bytes(Head(writeQueue))
      /\ writeBuffer' = writeBuffer /\ written' = written
  BY SenderMoves DEF WriteInv
<1>2. writeQueue # <<>> /\ writeQueue' = Tail(writeQueue)
  BY Zenon DEF writeQueueReader
<1>3. /\ InTurn(writeQueue')
      /\ \A b \in Bytes(Head(writeQueue)), d \in Queued' : b < d
  BY <1>2, TailBytes, Zenon DEF WriteInv, WriteTypes, WriteOrder, Queued
<1>4. QED
  BY <1>1, <1>3 DEF WriteInv, WriteOrder

\* What the bytes are in, and whose they are.
bytes == <<written, writeBuffer, writeQueue, snd>>
owners == <<promised, writing>>

(* The steps that move no bytes.                                           *)
LEMMA OtherSteps ==
  ASSUME [Next]_vars
  PROVE  \/ \E n \in Lengths : Write(n)
         \/ WriteChunk \/ WriteFails \/ writeQueueReader
         \/ UNCHANGED bytes /\ UNCHANGED owners
<1> DEFINE still == UNCHANGED bytes /\ UNCHANGED owners
<1>1. CASE UNCHANGED vars
  BY <1>1 DEF vars, writeVars, sendVars, bytes, owners
<1>2. ASSUME NEW p, push(p) PROVE still
  BY <1>2, Zenon DEF push, writeVars, sendVars, bytes, owners
<1>3. CASE ReadPacket \/ UserCloses
  BY <1>3, Zenon DEF ReadPacket, UserCloses, writeVars, sendVars, bytes, owners
<1>4. CASE networkQueueReader \/ handlePacket \/ Tick
  BY <1>4, Zenon DEF networkQueueReader, handlePacket, Tick, writeVars, sendVars, bytes, owners
<1>5. CASE Timer \/ ReadReturns
  BY <1>5, Zenon DEF Timer, Age, IdleTimeout, ReadReturns, ReadPacketTakes, ReadPacketEnds,
              writeVars, sendVars, bytes, owners
<1>6. CASE CloseStart \/ CloseGoesOn
  BY <1>6, Zenon DEF CloseStart, CloseGoesOn, CloseTell, CloseCancel, CloseFlush, OnShutdown,
              writeVars, sendVars, bytes, owners
<1>7. ASSUME NEW l, Leave(l) PROVE still
  BY <1>7 DEF Leave, writeVars, sendVars, bytes, owners
<1>8. QED
  BY <1>1, <1>2, <1>3, <1>4, <1>5, <1>6, <1>7, Zenon DEF Next, Work, WriteGoesOn

(* Every step keeps the order of the bytes.                                *)
LEMMA WriteStep ==
  ASSUME WriteInv, [Next]_vars
  PROVE  WriteInv'
<1>1. CASE UNCHANGED bytes
  BY <1>1 DEF bytes, WriteInv, WriteTypes, WriteOrder, Queued
<1>2. QED
  BY <1>1, OtherSteps, WriteOrders, WriteChunkOrders, WriteFailsOrders, SenderOrders, Zenon

(* Only the goroutine that empties the writeQueue makes it shorter.        *)
LEMMA ShorterByOne ==
  ASSUME WriteTypes, [Next]_vars, Len(writeQueue') < Len(writeQueue)
  PROVE  writeQueueReader
<1>1. ASSUME NEW n, Write(n) PROVE writeQueue' = writeQueue
  BY <1>1 DEF Write, sendVars
<1>2. ASSUME WriteFails PROVE writeQueue' = writeQueue
  BY <1>2, Zenon DEF WriteFails, sendVars
<1>3. ASSUME WriteChunk PROVE Len(writeQueue') = Len(writeQueue) + 1
  BY <1>3, ChunkAndRest DEF WriteChunk, WriteTypes
<1>4. Len(writeQueue) \in Nat
  BY DEF WriteTypes
<1>5. QED
  BY <1>1, <1>2, <1>3, <1>4, OtherSteps DEF bytes

(* The sender is given the bytes in the order in which they were written,  *)
(* none twice, whatever a full writeQueue or a Write that failed drops.    *)
THEOREM WritingStaysInOrder == Spec => WrittenInOrder
<1>1. ASSUME Init PROVE WriteInv
  <2>1. written = 0 /\ writeBuffer = <<>> /\ writeQueue = <<>> /\ snd = {}
    BY <1>1, Zenon DEF Init
  <2>2. WriteTypes
    BY <2>1 DEF WriteTypes
  <2>3. Bytes(writeBuffer) = {} /\ Queued = {}
    BY <2>1 DEF Bytes, Queued, BytesIn
  <2>4. Increasing(writeBuffer) /\ InTurn(writeQueue)
    BY <2>1 DEF Increasing, InTurn
  <2>5. QED
    BY <2>1, <2>2, <2>3, <2>4, Zenon DEF WriteInv, WriteOrder
<1>2. WriteInv /\ [Next]_vars => WriteInv'
  BY WriteStep
<1>3. ASSUME WriteInv, [Next]_vars, Len(writeQueue') < Len(writeQueue)
      PROVE  \A b \in snd, d \in Bytes(Head(writeQueue)) : b < d
  <2>1. writeQueueReader
    BY <1>3, ShorterByOne DEF WriteInv
  <2>2. Bytes(Head(writeQueue)) \subseteq Queued
    BY <1>3, <2>1, SenderMoves DEF WriteInv
  <2>3. QED
    BY <1>3, <2>2 DEF WriteInv, WriteOrder
<1>4. WriteInv /\ [Next]_vars =>
        [Len(writeQueue') < Len(writeQueue) =>
           \A b \in snd, d \in Bytes(Head(writeQueue)) : b < d]_vars
  BY <1>3
<1>5. QED
  BY <1>1, <1>2, <1>4, PTL DEF Spec, WrittenInOrder

-----------------------------------------------------------------------------
(* No byte of a Write that returned no error goes missing.                 *)

(* Every step keeps the bytes of the Write that is running in one of the   *)
(* three places until it fails, and those promised in the last two.        *)
LEMMA KeptStep ==
  ASSUME KeptInv, [Next]_vars
  PROVE  KeptInv'
<1>1. CASE UNCHANGED bytes /\ UNCHANGED owners
  BY <1>1, Zenon DEF bytes, owners, KeptInv, WriteTypes, Queued
<1>2. ASSUME NEW n \in Lengths, Write(n)
      PROVE  KeptInv'
  <2>1. /\ writing' = (written + 1)..(written + n) /\ promised' = promised
        /\ snd' = snd /\ Queued' = Queued
    BY <1>2, Zenon DEF Write, sendVars, Queued
  <2>2. WriteTypes' /\ writing' \subseteq Bytes(writeBuffer')
    BY <1>2, <2>1, WriteBytes DEF KeptInv
  <2>3. QED
    BY <2>1, <2>2, Zenon DEF KeptInv
<1>3. CASE WriteChunk
  <2>1. /\ WriteTypes' /\ snd' = snd
        /\ Bytes(writeBuffer) = Bytes(Chunk) \union Bytes(writeBuffer')
        /\ Queued' = Queued \union Bytes(Chunk)
    BY <1>3, WriteChunkMoves, Zenon DEF KeptInv, WriteChunk
  <2>2. writing \subseteq snd' \union Queued' \union Bytes(writeBuffer')
    BY <2>1, Zenon DEF KeptInv
  <2>3. CASE Rest = <<>>
    <3>1. writing' = {} /\ promised' = promised \union writing /\ writeBuffer' = <<>>
      BY <1>3, <2>3 DEF WriteChunk
    <3>2. Bytes(writeBuffer') = {}
      BY <3>1 DEF Bytes
    <3>3. QED
      BY <2>1, <2>2, <3>1, <3>2, Zenon DEF KeptInv
  <2>4. CASE Rest # <<>>
    BY <1>3, <2>1, <2>2, <2>4, Zenon DEF WriteChunk, KeptInv
  <2>5. QED
    BY <2>3, <2>4, Zenon
<1>4. CASE WriteFails
  BY <1>4, WriteFailsMoves, Zenon DEF KeptInv, WriteFails
<1>5. CASE writeQueueReader
  BY <1>5, SenderMoves, Zenon DEF KeptInv, writeQueueReader, writeVars
<1>6. QED
  BY <1>1, <1>2, <1>3, <1>4, <1>5, OtherSteps, Zenon

(* What a Write without an error was given is in the writeQueue or with    *)
(* the sender, also when earlier Writes failed.                            *)
THEOREM NoLossIsSilent == Spec => []NoSilentLoss
<1>1. Init => KeptInv
  BY DEF Init, KeptInv, WriteTypes
<1>2. KeptInv /\ [Next]_vars => KeptInv'
  BY KeptStep
<1>3. KeptInv => NoSilentLoss
  BY Zenon DEF KeptInv, NoSilentLoss, Queued, BytesIn
<1>4. QED
  BY <1>1, <1>2, <1>3, PTL DEF Spec

-----------------------------------------------------------------------------
(* The dialer, which owns the socket of a connection on the caller's side  *)
(* and closes with it (DialInv).  Close closes the connection before the   *)
(* socket (CloseOrder), and as long as the socket is open a connection     *)
(* that was closed has told its peer (ClosedAreTold).                      *)
\* What may go through connChan.
Responses == ConnIds \union {Err}

DialTypes ==
  /\ conns \in Seq({"open", "closed"})
  /\ connChan = <<>> \/ \E r \in Responses : connChan = <<r>>
  /\ dialReader = "blocked" => response \in Responses
  /\ dial = "ok" => conn \in ConnIds
  /\ conn # NoConn => conn \in ConnIds
  /\ pc \in {"open", "closed"}

CloseOrder ==
  /\ dialClose = "no" => closedBy = "no"
  /\ closedBy = "user" => dial = "ok"
  /\ pc = "closed" <=> dialClose \in {"chan", "done"}

ClosedAreTold ==
  /\ pc = "open" => \A c \in ConnIds : conns[c] = "closed" => c \in told
  /\ closedBy = "user" /\ dialClose \in {"stop", "socket", "chan", "done"} => conn \in told

DialInv == DialTypes /\ CloseOrder /\ ClosedAreTold

(* A connection that is closed is one of which the peer was told, as long  *)
(* as the socket is open.                                                  *)
LEMMA CloseConnTells ==
  ASSUME DialInv, NEW c \in ConnIds \union {NoConn}, CloseConn(c)
  PROVE  /\ Len(conns') = Len(conns) /\ conns' \in Seq({"open", "closed"})
         /\ told \subseteq told'
         /\ pc = "open" => /\ \A d \in ConnIds : conns'[d] = "closed" => d \in told'
                           /\ c # NoConn => c \in told'
<1>1. CASE c = NoConn \/ conns[c] = "closed"
  BY <1>1 DEF CloseConn, connVars, DialInv, DialTypes, ClosedAreTold, ConnIds
<1>2. CASE c # NoConn /\ conns[c] # "closed"
  <2>1. /\ c \in ConnIds
        /\ conns' = [conns EXCEPT ![c] = "closed"]
        /\ told' = IF pc = "open" THEN told \union {c} ELSE told
    BY <1>2, Zenon DEF CloseConn
  <2>2. /\ conns \in Seq({"open", "closed"})
        /\ pc = "open" => \A d \in ConnIds : conns[d] = "closed" => d \in told
    BY Zenon DEF DialInv, DialTypes, ClosedAreTold
  <2>3. Len(conns') = Len(conns) /\ conns' \in Seq({"open", "closed"})
    BY <2>1, <2>2 DEF ConnIds
  <2>4. \A d \in ConnIds : d # c => conns'[d] = conns[d]
    BY <2>1, <2>2 DEF ConnIds
  <2>5. QED
    BY <2>1, <2>2, <2>3, <2>4, Zenon
<1>3. QED
  BY <1>1, <1>2, Zenon

\* What the invariant speaks of.
dialKept == <<dial, pc, connChan, conn, conns, told, dialReader, response, dialClose, closedBy>>

(* A call of Close that is not the application's is harmless.              *)
LEMMA EnterCloseKeeps ==
  ASSUME DialInv, NEW who, EnterClose(who), who = "user" => dial = "ok",
         UNCHANGED <<dial, pc, connChan, conn, conns, told, dialReader, response>>
  PROVE  DialInv'
<1>1. CASE dialClose = "no"
  BY <1>1, Zenon DEF EnterClose, DialInv, DialTypes, Responses, CloseOrder, ClosedAreTold,
     ConnIds
<1>2. CASE dialClose # "no"
  BY <1>2 DEF EnterClose, dialCloseVars, DialInv, DialTypes, Responses, CloseOrder,
              ClosedAreTold, ConnIds
<1>3. QED
  BY <1>1, <1>2, Zenon

(* Close closes the connection, of which the peer is told, before it       *)
(* closes the socket.                                                      *)
LEMMA CloseKeeps ==
  ASSUME DialInv, Close
  PROVE  DialInv'
<1>1. CASE CloseFlag
  BY <1>1, Zenon DEF CloseFlag, connVars, dialReadVars, DialInv, DialTypes, Responses,
     CloseOrder, ClosedAreTold, ConnIds
<1>2. CASE CloseOwnConn
  <2>1. /\ pc = "open" /\ conn \in ConnIds \union {NoConn} /\ CloseConn(conn)
        /\ dialClose = "conn" /\ dialClose' = "stop"
        /\ UNCHANGED <<dial, pc, connChan, conn, closedBy, dialReadVars>>
    BY <1>2 DEF CloseOwnConn, DialInv, DialTypes, CloseOrder
  <2>2. /\ Len(conns') = Len(conns) /\ conns' \in Seq({"open", "closed"})
        /\ \A d \in ConnIds : conns'[d] = "closed" => d \in told'
        /\ conn # NoConn => conn \in told'
    BY <2>1, CloseConnTells, Zenon
  <2>3. DialTypes'
    BY <2>1, <2>2, Zenon DEF dialReadVars, DialInv, DialTypes, Responses, ConnIds
  <2>4. CloseOrder'
    BY <2>1 DEF DialInv, CloseOrder
  <2>5. closedBy = "user" => conn # NoConn
    BY DEF DialInv, DialTypes, CloseOrder, ConnIds, NoConn
  <2>6. ClosedAreTold'
    BY <2>1, <2>2, <2>5, Zenon DEF ClosedAreTold, ConnIds
  <2>7. QED
    BY <2>3, <2>4, <2>6, Zenon DEF DialInv
<1>3. CASE CloseStopReader
  BY <1>3, Zenon DEF CloseStopReader, connVars, dialReadVars, DialInv, DialTypes,
     Responses, CloseOrder, ClosedAreTold, ConnIds
<1>4. CASE CloseSocket
  BY <1>4, Zenon DEF CloseSocket, connVars, dialReadVars, DialInv, DialTypes, Responses,
     CloseOrder, ClosedAreTold, ConnIds
<1>5. CASE CloseDoneChan
  BY <1>5, Zenon DEF CloseDoneChan, connVars, dialReadVars, DialInv, DialTypes, Responses,
     CloseOrder, ClosedAreTold, ConnIds
<1>6. QED
  BY <1>1, <1>2, <1>3, <1>4, <1>5, Zenon DEF Close

(* handleHandshake makes a connection, open at first, or an error, and     *)
(* sends it to connChan or blocks with it.                                 *)
LEMMA HandshakeKeeps ==
  ASSUME DialInv, HandleHandshake
  PROVE  DialInv'
<1>1. UNCHANGED <<dial, pc, conn, dialClose, closedBy>>
  BY Zenon DEF HandleHandshake, dialCloseVars
<1>2. CASE Induct
  BY <1>1, <1>2 DEF Induct, connVars, DialInv, DialTypes, Responses, CloseOrder,
                    ClosedAreTold, ConnIds
<1>3. ASSUME NEW r \in Responses', Respond(r), conns' \in Seq({"open", "closed"}),
             ConnIds \subseteq ConnIds', told \subseteq told',
             \A c \in ConnIds' :
               conns'[c] = "closed" => c \in ConnIds /\ conns[c] = "closed"
      PROVE  DialInv'
  <2>1. Responses \subseteq Responses'
    BY <1>3 DEF Responses
  <2>2. /\ connChan' = <<>> \/ \E q \in Responses' : connChan' = <<q>>
        /\ dialReader' = "blocked" => response' \in Responses'
    <3>1. CASE connChan = <<>>
      BY <1>3, <2>1, <3>1, Zenon DEF Respond, DialInv, DialTypes
    <3>2. CASE connChan # <<>>
      BY <1>3, <2>1, <3>2, Zenon DEF Respond, DialInv, DialTypes
    <3>3. QED
      BY <3>1, <3>2, Zenon
  <2>3. DialTypes'
    BY <1>1, <1>3, <2>2 DEF DialInv, DialTypes
  <2>4. CloseOrder'
    BY <1>1 DEF DialInv, CloseOrder
  <2>5. ClosedAreTold'
    BY <1>1, <1>3 DEF DialInv, ClosedAreTold
  <2>6. QED
    BY <2>3, <2>4, <2>5, Zenon DEF DialInv
<1>4. CASE Conclude
  <2>1. conns' = Append(conns, "open") /\ told' = told /\ Respond(Len(conns) + 1)
    BY <1>4 DEF Conclude
  <2>2. conns \in Seq({"open", "closed"})
    BY DEF DialInv, DialTypes
  <2>3. /\ conns' \in Seq({"open", "closed"})
        /\ Len(conns') = Len(conns) + 1 /\ Len(conns) \in Nat
        /\ conns'[Len(conns) + 1] = "open"
        /\ \A c \in 1..Len(conns) : conns'[c] = conns[c]
    BY <2>1, <2>2
  <2>4. /\ ConnIds \subseteq ConnIds' /\ Len(conns) + 1 \in ConnIds'
        /\ \A c \in ConnIds' : c \in ConnIds \/ c = Len(conns) + 1
    BY <2>3 DEF ConnIds
  <2>5. Len(conns) + 1 \in Responses'
    BY <2>4 DEF Responses
  <2>6. \A c \in ConnIds' :
          conns'[c] = "closed" => c \in ConnIds /\ conns[c] = "closed"
    BY <2>3, <2>4, Zenon DEF ConnIds
  <2>7. QED
    BY <1>3, <2>1, <2>3, <2>4, <2>5, <2>6, Zenon
<1>5. CASE TurnDown \/ Refuse
  <2>1. conns' = conns /\ told \subseteq told' /\ Respond(Err)
    BY <1>5 DEF TurnDown, Refuse, connVars
  <2>2. Err \in Responses' /\ ConnIds' = ConnIds
    BY <2>1 DEF Responses, ConnIds
  <2>3. QED
    BY <1>3, <2>1, <2>2, Zenon DEF DialInv, DialTypes
<1>6. QED
  BY <1>2, <1>4, <1>5 DEF HandleHandshake

(* A connection that ends tells its peer while the socket is open.         *)
LEMMA ConnectionEnds ==
  ASSUME DialInv, NEW c \in ConnIds, CloseConn(c),
         UNCHANGED <<dial, pc, connChan, conn, dialReader, response, dialClose, closedBy>>
  PROVE  DialInv'
<1>1. /\ Len(conns') = Len(conns) /\ conns' \in Seq({"open", "closed"})
      /\ told \subseteq told'
      /\ pc = "open" => \A d \in ConnIds : conns'[d] = "closed" => d \in told'
  BY CloseConnTells
<1>2. ConnIds' = ConnIds
  BY <1>1, Zenon DEF ConnIds
<1>3. DialTypes'
  BY <1>1, <1>2, Zenon DEF DialInv, DialTypes, Responses
<1>4. CloseOrder' /\ ClosedAreTold'
  BY <1>1, <1>2, Zenon DEF DialInv, CloseOrder, ClosedAreTold
<1>5. QED
  BY <1>3, <1>4, Zenon DEF DialInv

(* Every step keeps the invariant.                                         *)
LEMMA DialStep ==
  ASSUME DialInv, [DialNext]_dialVars
  PROVE  DialInv'
<1>1. ASSUME UNCHANGED dialKept PROVE DialInv'
  BY <1>1, Zenon DEF dialKept, DialInv, DialTypes, Responses, CloseOrder, ClosedAreTold,
     ConnIds
<1>2. CASE UNCHANGED dialVars
  BY <1>1, <1>2 DEF dialVars, dialReadVars, connVars, dialCloseVars, dialKept
<1>3. CASE TakeResponse
  <2>1. /\ dial \in {"waiting", "cancelled"} /\ connChan # <<>> /\ connChan' = <<>>
        /\ UNCHANGED <<pc, dialReader, response, conns, told>>
    BY <1>3, Zenon DEF TakeResponse, dialReadVars, connVars
  <2>2. CASE dial = "cancelled" \/ connChan[1] = Err
    <3>1. dial' = "failing" /\ conn' = conn /\ EnterClose("failed")
      BY <1>3, <2>2, Zenon DEF TakeResponse, Fail
    <3>2. closedBy # "user" /\ closedBy' # "user"
      BY <2>1, <3>1, Zenon DEF EnterClose, dialCloseVars, DialInv, CloseOrder
    <3>3. QED
      BY <2>1, <3>1, <3>2, Zenon DEF EnterClose, dialCloseVars, DialInv, DialTypes, Responses,
         CloseOrder, ClosedAreTold, ConnIds
  <2>3. CASE ~(dial = "cancelled" \/ connChan[1] = Err)
    <3>1. dial' = "ok" /\ conn' = connChan[1] /\ UNCHANGED <<dialClose, closedBy>>
      BY <1>3, <2>3, Zenon DEF TakeResponse, dialCloseVars
    <3>2. conn' \in ConnIds
      BY <2>1, <2>3, <3>1 DEF DialInv, DialTypes, Responses
    <3>3. closedBy # "user"
      BY <2>1, Zenon DEF DialInv, CloseOrder
    <3>4. QED
      BY <2>1, <3>1, <3>2, <3>3, Zenon DEF DialInv, DialTypes, Responses, CloseOrder,
         ClosedAreTold, ConnIds
  <2>4. QED
    BY <2>2, <2>3, Zenon
<1>4. CASE ContextDone \/ ConnectionTimeout
  <2>1. /\ dial \in {"waiting", "cancelled"} /\ dial' = "failing" /\ EnterClose("failed")
        /\ UNCHANGED <<pc, connChan, conn, dialReader, response, conns, told>>
    BY <1>4 DEF ContextDone, ConnectionTimeout, Fail, dialReadVars, connVars
  <2>2. closedBy # "user" /\ closedBy' # "user"
    BY <2>1, Zenon DEF EnterClose, dialCloseVars, DialInv, CloseOrder
  <2>3. QED
    BY <2>1, <2>2, Zenon DEF EnterClose, dialCloseVars, DialInv, DialTypes, Responses,
       CloseOrder, ClosedAreTold, ConnIds
<1>5. CASE DialFails \/ Cancel
  BY <1>5, Zenon DEF DialFails, Cancel, dialReadVars, connVars, dialCloseVars, DialInv,
     DialTypes, Responses, CloseOrder, ClosedAreTold, ConnIds
<1>6. CASE Take
  BY <1>1, <1>6, Zenon DEF Take, connVars, dialCloseVars, dialKept
<1>7. CASE ReaderLeaves
  BY <1>7 DEF ReaderLeaves, connVars, dialCloseVars, DialInv, DialTypes, Responses,
     CloseOrder, ClosedAreTold, ConnIds
<1>8. CASE HandleHandshake
  BY <1>8, HandshakeKeeps
<1>9. CASE Push
  <2>1. UNCHANGED <<dial, pc, connChan, conn, dialReader, response, dialClose, closedBy>>
    BY <1>9, Zenon DEF Push, dialCloseVars
  <2>2. CASE conn = NoConn \/ conns[conn] = "closed"
    BY <1>1, <1>9, <2>1, <2>2, Zenon DEF Push, connVars, dialKept
  <2>3. CASE ~(conn = NoConn \/ conns[conn] = "closed") /\ dialPacket = "goodbye"
    <3>1. conn \in ConnIds
      BY <2>3, Zenon DEF DialInv, DialTypes
    <3>2. CloseConn(conn)
      BY <1>9, <2>3, Zenon DEF Push
    <3>3. QED
      BY <2>1, <3>1, <3>2, ConnectionEnds
  <2>4. CASE ~(conn = NoConn \/ conns[conn] = "closed") /\ dialPacket # "goodbye"
    BY <1>1, <1>9, <2>1, <2>4 DEF Push, dialKept
  <2>5. QED
    BY <2>2, <2>3, <2>4, Zenon
<1>10. CASE Unblock
  <2>1. /\ dialReader = "blocked" /\ connChan = <<>>
        /\ connChan' = <<response>> /\ dialReader' = "on"
        /\ UNCHANGED <<dial, pc, conn, conns, told, dialClose, closedBy>>
    BY <1>10 DEF Unblock, connVars, dialCloseVars
  <2>2. Responses' = Responses /\ ConnIds' = ConnIds
    BY <2>1, Zenon DEF Responses, ConnIds
  <2>3. response \in Responses
    BY <2>1, Zenon DEF DialInv, DialTypes
  <2>4. DialTypes'
    BY <2>1, <2>2, <2>3, Zenon DEF DialInv, DialTypes
  <2>5. CloseOrder' /\ ClosedAreTold'
    BY <2>1, <2>2, Zenon DEF DialInv, CloseOrder, ClosedAreTold
  <2>6. QED
    BY <2>4, <2>5, Zenon DEF DialInv
<1>11. CASE Close
  BY <1>11, CloseKeeps
<1>12. CASE SocketEnds \/ SocketFails
  BY <1>1, <1>12, Zenon DEF SocketEnds, SocketFails, dialReadVars, connVars,
     dialCloseVars, dialKept
<1>13. CASE Returns
  BY <1>1, <1>13 DEF Returns, CheckReturns, DialReadReturns, dialReadVars,
     connVars, dialCloseVars, dialKept
<1>14. ASSUME NEW c \in ConnIds, Connection(c)
       PROVE  DialInv'
  <2>1. CASE ConnAges(c)
    BY <1>1, <2>1, Zenon DEF ConnAges, dialReadVars, dialCloseVars, dialKept
  <2>2. CASE ConnIdles(c)
    BY <1>14, <2>2, ConnectionEnds, Zenon DEF ConnIdles, dialReadVars, dialCloseVars
  <2>3. CASE ConnShutdown(c)
    BY <2>3, EnterCloseKeeps, Zenon DEF ConnShutdown, dialReadVars
  <2>4. QED
    BY <1>14, <2>1, <2>2, <2>3, Zenon DEF Connection
<1>15. ASSUME NEW k, Arrive(k)
       PROVE  DialInv'
  BY <1>1, <1>15, Zenon DEF Arrive, connVars, dialCloseVars, dialKept
<1>16. CASE Check
  BY <1>16, EnterCloseKeeps, Zenon DEF Check, dialReadVars, connVars
<1>17. CASE Read
  BY <1>1, <1>17, Zenon DEF Read, dialReadVars, connVars, dialCloseVars, dialKept
<1>18. CASE DialUserCloses
  BY <1>18, EnterCloseKeeps, Zenon DEF DialUserCloses, dialReadVars, connVars
<1>19. QED
  BY <1>2, <1>3, <1>4, <1>5, <1>6, <1>7, <1>8, <1>9, <1>10, <1>11, <1>12, <1>13, <1>14,
     <1>15, <1>16, <1>17, <1>18, Zenon DEF DialNext, Main, Reader, Env, App

(* When the application closes the dialer, the peer is told while the      *)
(* socket is open, whatever the idle timer, the peer, repeated handshakes  *)
(* and other calls of Close do at the same time.                           *)
THEOREM PeerIsAlwaysTold == DialSpec => []PeerIsTold
<1>1. DialInit => DialInv
  BY DEF DialInit, DialInv, DialTypes, CloseOrder, ClosedAreTold, ConnIds
<1>2. DialInv /\ [DialNext]_dialVars => DialInv'
  BY DialStep
<1>3. DialInv => PeerIsTold
  BY DEF DialInv, CloseOrder, ClosedAreTold, PeerIsTold
<1>4. QED
  BY <1>1, <1>2, <1>3, PTL DEF DialSpec

=============================================================================
