------------------------------ MODULE LiveLink ------------------------------
(***************************************************************************)
(* The two ends of a live stream: the sender of one connection, the        *)
(* receiver of the other, and between them a network that loses,           *)
(* duplicates and reorders data packets, ACKs and NAKs.  handlePacket,     *)
(* handleACK and handleNAK (connection.go) pass what arrives on to the     *)
(* congestion control; sendACK, sendNAK and pop pass on what it emits.     *)
(* The two tickers run on clocks of their own.                             *)
(*                                                                         *)
(* A message stays in net for ever: it is lost if nobody ever takes it,    *)
(* and duplicated if somebody takes it twice.                              *)
(***************************************************************************)
EXTENDS LossReport, FiniteSets

CONSTANTS
  InitialSequenceNumber,
  ProbeInterval, DropThresholds, LastWrite, MaxPush, MaxRetrans,
  PeriodicACKInterval, NAKIntervals, LightACKPackets, MaxPkt,
  Latency,              \* tsbpdDelay
  SendMaxTime,          \* bound on the time of the sender's ticker
  ReceiveMaxTime        \* bound on the time of the receiver's ticker

ASSUME LinkAssumption ==
  /\ InitialSequenceNumber \in Number
  /\ ProbeInterval \in Nat /\ ProbeInterval >= 2
  /\ DropThresholds \subseteq Nat
  /\ LastWrite \in Nat
  /\ MaxPush \in Nat
  /\ Latency \in Nat
  /\ SendMaxTime \in Nat
  /\ ReceiveMaxTime \in Nat

VARIABLES
  nextSequenceNumber, sndPacketList, lossList, dropThreshold, probeTime,
  sndStatistics, sndPc, sndNow, written, sndOutbox, sndPhase,
  maxSeen, lastACK, lastDelivered, rcvPacketList, nPackets, lastPeriodicACK,
  lastPeriodicNAK, periodicNAKInterval, rcvStatistics, rcvPc, rcvNow, unsent,
  rcvOutbox, delivered, rcvPhase,
  net,                  \* every message that was ever sent
  writtenAt,            \* history: when the application wrote each packet
  givenUp               \* history: numbers dropped as too late

sndVars == <<nextSequenceNumber, sndPacketList, lossList, dropThreshold, probeTime,
             sndStatistics, sndPc, sndNow, written, sndOutbox, sndPhase>>
rcvVars == <<maxSeen, lastACK, lastDelivered, rcvPacketList, nPackets, lastPeriodicACK,
             lastPeriodicNAK, periodicNAKInterval, rcvStatistics, rcvPc, rcvNow, unsent,
             rcvOutbox, delivered, rcvPhase>>
vars == <<sndVars, rcvVars, net, writtenAt, givenUp>>

snd == INSTANCE LiveSend WITH
  packetList <- sndPacketList, statistics <- sndStatistics, pc <- sndPc, now <- sndNow,
  outbox <- sndOutbox, phase <- sndPhase, MaxTime <- SendMaxTime

recv == INSTANCE LiveReceive WITH
  packetList <- rcvPacketList, statistics <- rcvStatistics, pc <- rcvPc, now <- rcvNow,
  outbox <- rcvOutbox, phase <- rcvPhase, MaxTime <- ReceiveMaxTime,
  LastArrival <- ReceiveMaxTime, DeliveryTimes <- Nat

-----------------------------------------------------------------------------

Init ==
  /\ snd!Init
  /\ recv!Init
  /\ net = {}
  /\ writtenAt = <<>>
  /\ givenUp = {}

Write ==
  /\ snd!Write
  /\ writtenAt' = Append(writtenAt, written')
  /\ UNCHANGED <<rcvVars, net, givenUp>>

\* pop: of a packet the network carries its number and its timestamp.
onSend(packets) == {[type |-> "data", seq |-> p.seq, ts |-> p.ts] : p \in packets}

Kept(list) == {list[i].seq : i \in 1..Len(list)}

SendTick ==
  /\ snd!Tick
  /\ net' = net \cup onSend(sndOutbox')
  /\ givenUp' = IF sndPc' = "dropping" THEN givenUp \cup (Kept(lossList) \ Kept(lossList'))
                                       ELSE givenUp
  /\ UNCHANGED <<rcvVars, writtenAt>>

\* sendACK and sendNAK
onSendControl(messages) ==
  {IF m.type = "ACK" THEN m ELSE [type |-> "NAK", words |-> MarshalNAK(m.list)] :
     m \in messages}

\* handleACK; a light one makes no difference to the sender.
HandleACK ==
  /\ \E m \in net : m.type = "ACK" /\ snd!ACK(m.seq)
  /\ UNCHANGED <<rcvVars, net, writtenAt, givenUp>>

HandleNAK ==
  /\ sndStatistics.PktRetrans < MaxRetrans
  /\ \E m \in net : m.type = "NAK" /\ snd!NAK(UnmarshalNAK(m.words))
  /\ net' = net \cup onSend(sndOutbox')
  /\ UNCHANGED <<rcvVars, writtenAt, givenUp>>

\* handlePacket
HandlePacket ==
  /\ rcvStatistics.Pkt < MaxPkt
  /\ \E m \in net :
        m.type = "data" /\ recv!Push([seq |-> m.seq, tsbpd |-> m.ts + Latency])
  /\ net' = net \cup onSendControl(rcvOutbox')
  /\ UNCHANGED <<sndVars, writtenAt, givenUp>>

ReceiveTick ==
  /\ recv!Tick
  /\ net' = net \cup onSendControl(rcvOutbox')
  /\ UNCHANGED <<sndVars, writtenAt, givenUp>>

Next == Write \/ SendTick \/ HandleACK \/ HandleNAK \/ HandlePacket \/ ReceiveTick

Spec == Init /\ [][Next]_vars

-----------------------------------------------------------------------------

\* The numbers of the first n packets.
Numbers(n) == {Add(InitialSequenceNumber, i) : i \in 0..(n - 1)}

Sent == Numbers(sndStatistics.PktUnique)

\* What the receiver has acknowledged.
Acknowledged == Numbers(Fwd(InitialSequenceNumber, Inc(lastACK)))

(* Whatever ACKs are lost, repeated or overtake each other, the sender     *)
(* keeps every packet it has sent until the receiver has acknowledged it   *)
(* or it was given up as too late.                                         *)
NoPrematureRelease ==
  \A seq \in Sent : seq \in Kept(lossList) \cup Acknowledged \cup givenUp

(* The link implements LiveChannel: the application reads the packets in   *)
(* the order in which they were written, none twice, each a constant       *)
(* latency after it was written, probe pairs included, whatever the        *)
(* network loses, repeats or reorders.                                     *)
channel == INSTANCE LiveChannel WITH now <- rcvNow, Times <- 0..LastWrite

ImplementsChannel == channel!Spec

=============================================================================
