----------------------------- MODULE LossReport -----------------------------
(***************************************************************************)
(* How the gaps of a receiver become the words of a NAK and are read by    *)
(* the sender (CIFNAK of packet/packet.go).  A word is a sequence number   *)
(* and the highest bit, which is set at the start of a range.              *)
(***************************************************************************)
EXTENDS Circular, Sequences, FiniteSets, Folds, TLC

CONSTANT MaxWords       \* a report that has got so long is cut

ASSUME LossReportAssumption == MaxWords \in Nat \ {0}

\* Mutant: a range of two numbers is written as a single one.
WordsOfShort(r) ==
  IF r[2] \in {r[1], Inc(r[1])} THEN <<[seq |-> r[1], range |-> FALSE]>>
  ELSE <<[seq |-> r[1], range |-> TRUE], [seq |-> r[2], range |-> FALSE]>>

WordsOf(r) ==
  IF r[1] = r[2] THEN <<[seq |-> r[1], range |-> FALSE]>>
  ELSE <<[seq |-> r[1], range |-> TRUE], [seq |-> r[2], range |-> FALSE]>>

\* One sequence after the other.
Joined(seqs) ==
  MapThenFoldSet(LAMBDA s, t : s \o t, <<>>, LAMBDA i : seqs[i],
                 LAMBDA I : CHOOSE i \in I : \A j \in I : i <= j, DOMAIN seqs)

\* The list names the gaps in the order of the packet list.
MarshalNAK(list) ==
  LET gaps == CHOOSE s \in [1..Cardinality(list) -> list] :
                \A i, j \in DOMAIN s : i < j => Lt(s[i][1], s[j][1])
      Written(n) == Joined([i \in 1..n |-> WordsOf(gaps[i])])
  IN  Written(CHOOSE n \in 0..Len(gaps) :
                /\ n = Len(gaps) \/ Len(Written(n)) >= MaxWords
                /\ \A m \in 0..(n - 1) : Len(Written(m)) < MaxWords)

\* Both ends of every range, sorted again, and taken in pairs.
UnmarshalNAK(words) ==
  LET Ends(i) == IF ~words[i].range /\ (i = 1 \/ ~words[i - 1].range)
                 THEN <<words[i].seq, words[i].seq>> ELSE <<words[i].seq>>
      list == SortSeq(Joined([i \in 1..Len(words) |-> Ends(i)]), Lt)
  IN  {<<list[i], list[i + 1]>> : i \in {j \in 1..Len(list) : j % 2 = 1}}

=============================================================================
