---------------------------- MODULE MCLiveReceive ----------------------------
(***************************************************************************)
(* The receiver on a small circle of numbers that wraps in the middle of   *)
(* the stream, and the two loops over the packet list of periodicACK and   *)
(* periodicNAK, statement by statement, to compare the definitions of      *)
(* LiveReceive with.                                                       *)
(***************************************************************************)
EXTENDS LiveReceive, LossReport

RECURSIVE ACKLoop(_, _, _)
ACKLoop(e, ackSequenceNumber, t) ==
  IF e > Len(packetList) THEN ackSequenceNumber
  ELSE LET p == packetList[e]
       IN  IF Lte(p.seq, ackSequenceNumber) THEN ACKLoop(e + 1, ackSequenceNumber, t)
           ELSE IF p.tsbpd <= t \/ p.seq = Inc(ackSequenceNumber)
                THEN ACKLoop(e + 1, p.seq, t)
                ELSE ackSequenceNumber

RECURSIVE NAKLoop(_, _)
NAKLoop(e, ackSequenceNumber) ==
  IF e > Len(packetList) THEN {}
  ELSE LET p == packetList[e]
       IN  IF Lte(p.seq, ackSequenceNumber) THEN NAKLoop(e + 1, ackSequenceNumber)
           ELSE (IF p.seq = Inc(ackSequenceNumber) THEN {}
                 ELSE {<<Inc(ackSequenceNumber), Dec(p.seq)>>})
                \cup NAKLoop(e + 1, p.seq)

(* The number TickACK acknowledges up to and the gaps TickNAK reports are  *)
(* what the loops of periodicACK and periodicNAK compute.                  *)
ScansAreTheLoops ==
  /\ \A t \in 0..MaxTime :
        {AckAfter(k) : k \in {n \in 0..Len(packetList) : Scans(n, t)}}
          = {ACKLoop(1, lastACK, t)}
  /\ Gaps = NAKLoop(1, lastACK)

(* A periodic NAK, as its reader sees it, lists exactly the numbers that   *)
(* are missing between the last acknowledged packet and the newest one in  *)
(* the buffer; if the report is cut, the last of them are not listed.      *)
NAKIsExact ==
  [][\A m \in unsent' \ unsent : m.type = "NAK" =>
       LET words == MarshalNAK(m.list)
           read  == UnmarshalNAK(words)
       IN  \A seq \in Number :
             /\ Covers(read, seq) => Missing(seq)
             /\ Missing(seq) /\ ~Covers(read, seq) =>
                  /\ Len(words) >= MaxWords
                  /\ \A r \in read : Place(r[2]) < Place(seq)]_vars

=============================================================================
