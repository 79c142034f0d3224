---------------------------- MODULE AckExchange ----------------------------
(***************************************************************************)
(* The numbers of acknowledgements and the round trip time they measure    *)
(* (connection.go): the end that receives data numbers its full ACKs and   *)
(* remembers when it sent them (sendACK), the other end answers each with  *)
(* an ACKACK of the same number (handleACK, sendACKACK), and the answer    *)
(* yields a sample of the round trip time (handleACKACK).  sendACK runs on *)
(* the ticker goroutine and handleACKACK on the one that reads the network *)
(* queue, both under ackLock.                                              *)
(*                                                                         *)
(* The full ACKs are counted; the count stands for the time an ACK is sent.*)
(* The network loses, duplicates and reorders, but nothing in it survives  *)
(* more than AckLifetime full ACKs.                                        *)
(***************************************************************************)
EXTENDS Integers, Functions

CONSTANTS
  MAX_NUMBER,           \* the greatest ACK number: packet.MAX_TIMESTAMP
  AckLifetime,          \* full ACKs sent while a message is in the network
  MaxACK                \* bound on the number of full ACKs

ASSUME AckAssumption ==
  /\ MAX_NUMBER \in Nat /\ MAX_NUMBER >= 2
  /\ AckLifetime \in Nat /\ 2 * AckLifetime < MAX_NUMBER
  /\ MaxACK \in Nat

VARIABLES
  nextACKNumber,
  ackNumbers,           \* from the outstanding numbers to the time of their ACK
  acks,                 \* full ACKs sent
  sample,               \* history: the latest sample of the round trip time
  ackNet

ackVars == <<nextACKNumber, ackNumbers, acks, sample, ackNet>>

-----------------------------------------------------------------------------

AckInit ==
  /\ nextACKNumber = 1
  /\ ackNumbers = [n \in {} |-> 0]
  /\ acks = 0
  /\ sample = [number |-> 0, answers |-> 0, of |-> 0]
  /\ ackNet = {}

AckAlive(messages) == {m \in messages : m.at + AckLifetime > acks}

\* The numbers wrap around, leaving out zero.
After(n) == IF n = MAX_NUMBER THEN 1 ELSE n + 1

\* sendACK, a full one.
SendACK ==
  /\ acks < MaxACK
  /\ acks' = acks + 1
  /\ ackNumbers' = [n \in DOMAIN ackNumbers \cup {nextACKNumber} |->
                      IF n = nextACKNumber THEN acks + 1 ELSE ackNumbers[n]]
  /\ nextACKNumber' = After(nextACKNumber)
  /\ ackNet' = AckAlive(ackNet) \cup {[type |-> "ACK", number |-> nextACKNumber,
                                       of |-> acks + 1, at |-> acks + 1]}
  /\ UNCHANGED sample

\* sendACK, a light one: it has no number and is not answered.
SendLiteACK ==
  /\ ackNet' = ackNet \cup {[type |-> "ACK", number |-> 0, of |-> acks, at |-> acks]}
  /\ UNCHANGED <<nextACKNumber, ackNumbers, acks, sample>>

\* handleACK and sendACKACK at the other end.
HandleACK ==
  /\ \E m \in ackNet :
        /\ m.type = "ACK"
        /\ m.number # 0
        /\ ackNet' = ackNet \cup {[type |-> "ACKACK", number |-> m.number, of |-> m.of,
                                   at |-> acks]}
  /\ UNCHANGED <<nextACKNumber, ackNumbers, acks, sample>>

\* Mutant: only the answered number is forgotten.
RemainingAll(n) == DOMAIN ackNumbers \ {n}

\* An answer settles its own number and all smaller ones.
Remaining(n) == {i \in DOMAIN ackNumbers : i > n}

\* Mutant: an unknown number is measured from the latest ACK.
HandleACKACKAnyway ==
  /\ \E m \in ackNet :
        /\ m.type = "ACKACK"
        /\ sample' = [number |-> m.number, answers |-> m.of,
                      of |-> IF m.number \in DOMAIN ackNumbers
                             THEN ackNumbers[m.number] ELSE acks]
        /\ ackNumbers' = Restrict(ackNumbers, Remaining(m.number))
  /\ UNCHANGED <<nextACKNumber, acks, ackNet>>

\* An unknown number yields no sample; smaller ones are forgotten all the same.
HandleACKACK ==
  /\ \E m \in ackNet :
        /\ m.type = "ACKACK"
        /\ sample' = IF m.number \in DOMAIN ackNumbers
                     THEN [number |-> m.number, answers |-> m.of,
                           of |-> ackNumbers[m.number]]
                     ELSE sample
        /\ ackNumbers' = Restrict(ackNumbers, Remaining(m.number))
  /\ UNCHANGED <<nextACKNumber, acks, ackNet>>

AckNext == SendACK \/ SendLiteACK \/ HandleACK \/ HandleACKACK

AckSpec == AckInit /\ [][AckNext]_ackVars

-----------------------------------------------------------------------------

(* The round trip time is measured from the ACK that the ACKACK answers,   *)
(* also when the numbers have wrapped and late answers overtake each other.*)
SampleIsOfItsACK == sample.of = sample.answers

(* What is outstanding is younger than the latest sample; entries of ACKs  *)
(* that were lost do not pile up, except those with a greater number,      *)
(* which are left over from before the numbers wrapped.                    *)
OutstandingIsYoung ==
  \A n \in DOMAIN ackNumbers : ackNumbers[n] > sample.of \/ n > sample.number

=============================================================================
