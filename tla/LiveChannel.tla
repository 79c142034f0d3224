----------------------------- MODULE LiveChannel -----------------------------
(***************************************************************************)
(* What a live stream promises to the two applications: packets are read   *)
(* in the order in which they were written, each at most once and a        *)
(* constant latency after it was written.  Some are not read at all.       *)
(***************************************************************************)
EXTENDS Circular, Sequences

CONSTANTS
  InitialSequenceNumber,
  Latency,
  Times                 \* at which the application may write

VARIABLES
  writtenAt,            \* when the packets were written
  delivered,            \* the packets given to the reader: number and due time
  now                   \* the reader's time

Init == writtenAt = <<>> /\ delivered = <<>> /\ now = 0

Write ==
  /\ \E t \in Times : writtenAt' = Append(writtenAt, t)
  /\ UNCHANGED <<delivered, now>>

Place(seq) == Fwd(InitialSequenceNumber, seq) + 1

\* The n-th packet is read, if none of the later ones was.
Read(n) ==
  /\ \A i \in 1..Len(delivered) : Place(delivered[i].seq) < n
  /\ writtenAt[n] + Latency <= now
  /\ delivered' = Append(delivered, [seq   |-> Add(InitialSequenceNumber, n - 1),
                                     tsbpd |-> writtenAt[n] + Latency])
  /\ UNCHANGED <<writtenAt, now>>

TimePasses ==
  /\ now' > now
  /\ UNCHANGED <<writtenAt, delivered>>

Next == Write \/ TimePasses \/ \E n \in 1..Len(writtenAt) : Read(n)

Spec == Init /\ [][Next]_<<writtenAt, delivered, now>>

=============================================================================
