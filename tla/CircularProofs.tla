--------------------------- MODULE CircularProofs ---------------------------
(***************************************************************************)
(* What the comparisons of circular.go mean, for every maximum.  Fwd(c, a) *)
(* is the place of a counted from c: among numbers that lie less than the  *)
(* threshold ahead of one number c, Lt is the order of the places.         *)
(* At the end the facts about sequences that the proofs about the lists of *)
(* sender and receiver share.                                              *)
(***************************************************************************)
EXTENDS Circular, Sequences, TLAPS

(* The threshold is half of the circle, rounded down.                      *)
LEMMA ThresholdIsHalf ==
  /\ threshold \in Nat
  /\ threshold >= 3
  /\ 2 * threshold <= MAX
  /\ MAX <= 2 * threshold + 1
BY MaxAssumption DEF threshold

(* Inc, Dec and the places stay on the circle; only a itself is at place 0. *)
LEMMA OnCircle ==
  ASSUME NEW a \in Number, NEW b \in Number
  PROVE  /\ Inc(a) \in Number
         /\ Dec(a) \in Number
         /\ Inc(Dec(a)) = a
         /\ Fwd(a, b) \in 0..MAX
         /\ Fwd(a, b) = 0 <=> a = b
BY MaxAssumption DEF Number, Inc, Dec, Fwd

(* Any two numbers are comparable, one way only; Gt is the converse of Lt. *)
THEOREM LtTotal ==
  ASSUME NEW a \in Number, NEW b \in Number
  PROVE  /\ Lt(a, b) => ~Lt(b, a)
         /\ a # b => Lt(a, b) \/ Lt(b, a)
         /\ Gt(a, b) <=> Lt(b, a)
         /\ ~Lt(a, a)
BY ThresholdIsHalf DEF Number, Lt, Gt, AbsDiff

(* Lt, Lte and Gt order numbers ahead of c by their places.                *)
THEOREM LtIsPlaceOrder ==
  ASSUME NEW a \in Number, NEW b \in Number, NEW c \in Number,
         Fwd(c, a) < threshold, Fwd(c, b) < threshold
  PROVE  /\ Lt(a, b) <=> Fwd(c, a) < Fwd(c, b)
         /\ Lte(a, b) <=> Fwd(c, a) <= Fwd(c, b)
         /\ Gt(a, b) <=> Fwd(c, a) > Fwd(c, b)
         /\ a = b <=> Fwd(c, a) = Fwd(c, b)
<1>1. a = b <=> Fwd(c, a) = Fwd(c, b)
  BY MaxAssumption DEF Number, Fwd
<1>2. Lt(a, b) <=> Fwd(c, a) < Fwd(c, b)
  BY MaxAssumption, ThresholdIsHalf DEF Number, Fwd, Lt, AbsDiff
<1>3. Lt(b, a) <=> Fwd(c, b) < Fwd(c, a)
  BY MaxAssumption, ThresholdIsHalf DEF Number, Fwd, Lt, AbsDiff
<1>4. Gt(a, b) <=> Lt(b, a)
  BY LtTotal
<1>5. Fwd(c, a) \in Int /\ Fwd(c, b) \in Int
  BY OnCircle, MaxAssumption
<1>6. QED
  BY <1>1, <1>2, <1>3, <1>4, <1>5 DEF Lte

(* A number less than the threshold behind c, or c itself, is Lte c.       *)
LEMMA BehindIsLte ==
  ASSUME NEW a \in Number, NEW c \in Number, Fwd(a, c) < threshold
  PROVE  Lte(a, c)
BY MaxAssumption, ThresholdIsHalf DEF Number, Fwd, Lte, Lt, AbsDiff

(* Inc moves one place on.                                                 *)
LEMMA IncIsNextPlace ==
  ASSUME NEW a \in Number, NEW c \in Number, Fwd(c, a) < MAX
  PROVE  Fwd(c, Inc(a)) = Fwd(c, a) + 1
BY MaxAssumption DEF Number, Fwd, Inc

(* Dec moves one place back.                                               *)
LEMMA DecIsPlaceBefore ==
  ASSUME NEW a \in Number, NEW c \in Number, Fwd(c, a) > 0
  PROVE  Fwd(c, Dec(a)) = Fwd(c, a) - 1
BY MaxAssumption DEF Number, Fwd, Dec

(* Counting from d instead of c, which lies before a, subtracts d's place. *)
LEMMA Rebase ==
  ASSUME NEW a \in Number, NEW c \in Number, NEW d \in Number,
         Fwd(c, d) <= Fwd(c, a)
  PROVE  Fwd(d, a) = Fwd(c, a) - Fwd(c, d)
BY MaxAssumption DEF Number, Fwd

(* Below the threshold Distance is the number of places between the two.   *)
THEOREM DistanceIsPlace ==
  ASSUME NEW a \in Number, NEW b \in Number, Fwd(a, b) < threshold
  PROVE  Distance(a, b) = Fwd(a, b) /\ Distance(b, a) = Fwd(a, b)
BY MaxAssumption, ThresholdIsHalf DEF Number, Fwd, Distance, AbsDiff

(* Beyond it Distance is not the shorter way: already exactly a threshold  *)
(* apart it returns more than half of the maximum, which the package       *)
(* comment of circular.go excludes ("The maximum distance is half the      *)
(* maximum value.").                                                       *)
THEOREM DistanceAtThreshold ==
  ASSUME NEW a \in Number, NEW b \in Number, AbsDiff(a, b) = threshold
  PROVE  2 * Distance(a, b) > MAX
BY MaxAssumption, ThresholdIsHalf DEF Number, Distance, AbsDiff

(* Add and Sub are that many steps forth and back, across the wrap, and    *)
(* New wraps a value of the next lap.                                      *)
THEOREM AddSubAreSteps ==
  ASSUME NEW a \in Number, NEW n \in Number
  PROVE  /\ Add(a, n) \in Number /\ Fwd(a, Add(a, n)) = n
         /\ Sub(a, n) \in Number /\ Fwd(Sub(a, n), a) = n
         /\ Sub(Add(a, n), n) = a
         /\ New(a) = a /\ New(MAX + 1 + a) = a
BY MaxAssumption DEF Number, Add, Sub, New, Fwd

(* Single steps agree with Inc and Dec.                                    *)
THEOREM IncDecAreSteps ==
  ASSUME NEW a \in Number
  PROVE  Add(a, 1) = Inc(a) /\ Sub(a, 1) = Dec(a)
BY MaxAssumption DEF Number, Add, Sub, Inc, Dec

-----------------------------------------------------------------------------
(* Sequences, as the sender and the receiver keep their packets in.        *)

(* The length of a sequence, its domain and its elements.                  *)
LEMMA SeqElements ==
  ASSUME NEW S, NEW s \in Seq(S)
  PROVE  /\ Len(s) \in Nat
         /\ DOMAIN s = 1..Len(s)
         /\ \A i \in 1..Len(s) : s[i] \in S
OBVIOUS

(* A function on 1..n is a sequence of length n.                           *)
LEMMA SeqOfFunction ==
  ASSUME NEW S, NEW n \in Nat, NEW f \in [1..n -> S]
  PROVE  f \in Seq(S) /\ Len(f) = n
OBVIOUS

(* A concatenation: first the one sequence, then the other.                *)
LEMMA SeqConcat ==
  ASSUME NEW S, NEW s \in Seq(S), NEW t \in Seq(S)
  PROVE  /\ s \o t \in Seq(S)
         /\ Len(s \o t) = Len(s) + Len(t)
         /\ \A i \in 1..(Len(s) + Len(t)) :
              (s \o t)[i] = IF i <= Len(s) THEN s[i] ELSE t[i - Len(s)]
OBVIOUS

(* An element appended comes last.                                         *)
LEMMA SeqAppend ==
  ASSUME NEW S, NEW s \in Seq(S), NEW e \in S
  PROVE  /\ Append(s, e) \in Seq(S) /\ Append(s, e) # <<>>
         /\ Len(Append(s, e)) = Len(s) + 1
         /\ \A i \in 1..Len(s) : Append(s, e)[i] = s[i]
         /\ Append(s, e)[Len(s) + 1] = e
OBVIOUS

(* Without its first element a sequence is one shorter.                    *)
LEMMA SeqTail ==
  ASSUME NEW S, NEW s \in Seq(S), s # <<>>
  PROVE  /\ Len(s) >= 1 /\ Head(s) \in S /\ Tail(s) \in Seq(S)
         /\ Len(Tail(s)) = Len(s) - 1
         /\ \A i \in 1..Len(Tail(s)) : Tail(s)[i] = s[i + 1]
OBVIOUS

(* The first k elements, and the ones after them.                          *)
LEMMA SeqPrefix ==
  ASSUME NEW S, NEW s \in Seq(S), NEW k \in 0..Len(s)
  PROVE  /\ SubSeq(s, 1, k) \in Seq(S)
         /\ Len(SubSeq(s, 1, k)) = k
         /\ \A j \in 1..k : SubSeq(s, 1, k)[j] = s[j]
OBVIOUS

LEMMA SeqSuffix ==
  ASSUME NEW S, NEW s \in Seq(S), NEW k \in 0..Len(s)
  PROVE  /\ SubSeq(s, k + 1, Len(s)) \in Seq(S)
         /\ Len(SubSeq(s, k + 1, Len(s))) = Len(s) - k
         /\ \A j \in 1..(Len(s) - k) : SubSeq(s, k + 1, Len(s))[j] = s[k + j]
OBVIOUS

\* A list without its i-th element, and with e before it: Without of the
\* sender and InsertBefore of the receiver.
Cut(s, i) == SubSeq(s, 1, i - 1) \o SubSeq(s, i + 1, Len(s))
Put(s, i, e) == SubSeq(s, 1, i - 1) \o <<e>> \o SubSeq(s, i, Len(s))

(* Taking one element out moves the ones behind it up.                     *)
LEMMA SeqCut ==
  ASSUME NEW S, NEW s \in Seq(S), NEW i \in 1..Len(s)
  PROVE  /\ Cut(s, i) \in Seq(S)
         /\ Len(Cut(s, i)) = Len(s) - 1
         /\ \A j \in 1..(Len(s) - 1) :
              Cut(s, i)[j] = IF j < i THEN s[j] ELSE s[j + 1]
<1> DEFINE front == SubSeq(s, 1, i - 1)
           back  == SubSeq(s, i + 1, Len(s))
<1>1. Len(s) \in Nat /\ i \in 1..Len(s)
  OBVIOUS
<1>2. /\ front \in Seq(S) /\ Len(front) = i - 1
      /\ \A j \in 1..(i - 1) : front[j] = s[j]
  BY <1>1, SeqPrefix
<1>3. /\ back \in Seq(S) /\ Len(back) = Len(s) - i
      /\ \A j \in 1..(Len(s) - i) : back[j] = s[i + j]
  BY <1>1, SeqSuffix
<1>4. Cut(s, i) = front \o back
  BY DEF Cut
<1> HIDE DEF front, back
<1>5. /\ Cut(s, i) \in Seq(S) /\ Len(Cut(s, i)) = Len(front) + Len(back)
      /\ \A j \in 1..(Len(front) + Len(back)) :
           Cut(s, i)[j] = IF j <= Len(front) THEN front[j] ELSE back[j - Len(front)]
  <2>1. front \in Seq(S) /\ back \in Seq(S)
    BY <1>2, <1>3
  <2>2. /\ front \o back \in Seq(S)
        /\ Len(front \o back) = Len(front) + Len(back)
        /\ \A j \in 1..(Len(front) + Len(back)) :
             (front \o back)[j] = IF j <= Len(front) THEN front[j]
                                  ELSE back[j - Len(front)]
    BY <2>1, SeqConcat, Zenon
  <2>3. QED
    BY <1>4, <2>2, Zenon
<1>6. ASSUME NEW j \in 1..(Len(s) - 1)
      PROVE  Cut(s, i)[j] = IF j < i THEN s[j] ELSE s[j + 1]
  <2>1. Cut(s, i)[j] = IF j <= Len(front) THEN front[j] ELSE back[j - Len(front)]
    BY <1>1, <1>2, <1>3, <1>5
  <2>2. CASE j < i
    BY <1>1, <1>2, <2>1, <2>2
  <2>3. CASE ~(j < i)
    <3>1. j - Len(front) \in 1..(Len(s) - i) /\ i + (j - Len(front)) = j + 1
      BY <1>1, <1>2, <2>3
    <3>2. back[j - Len(front)] = s[i + (j - Len(front))]
      BY <1>3, <3>1, Zenon
    <3>3. ~(j <= Len(front))
      BY <1>1, <1>2, <2>3
    <3>4. QED
      BY <2>1, <2>3, <3>1, <3>2, <3>3, Zenon
  <2>4. QED
    BY <2>2, <2>3, Zenon
<1>7. QED
  BY <1>1, <1>2, <1>3, <1>5, <1>6

\* t is s with e before the i-th element.
IsWith(s, i, e, t) ==
  /\ Len(t) = Len(s) + 1
  /\ \A j \in 1..(i - 1) : t[j] = s[j]
  /\ t[i] = e
  /\ \A j \in (i + 1)..(Len(s) + 1) : t[j] = s[j - 1]

(* Inserting e at position i keeps what is before it and moves the rest.   *)
LEMMA SeqPut ==
  ASSUME NEW S, NEW s \in Seq(S), NEW i \in 1..Len(s), NEW e \in S
  PROVE  Put(s, i, e) \in Seq(S) /\ IsWith(s, i, e, Put(s, i, e))
<1> DEFINE front == SubSeq(s, 1, i - 1)
           back  == SubSeq(s, i, Len(s))
           upto  == Append(front, e)
<1>1. Len(s) \in Nat /\ i \in 1..Len(s)
  OBVIOUS
<1>2. /\ front \in Seq(S) /\ Len(front) = i - 1
      /\ \A j \in 1..(i - 1) : front[j] = s[j]
  BY <1>1, SeqPrefix
<1>3. /\ back \in Seq(S) /\ Len(back) = Len(s) - (i - 1)
      /\ \A j \in 1..(Len(s) - (i - 1)) : back[j] = s[(i - 1) + j]
  BY <1>1, SeqSuffix
<1>4. Put(s, i, e) = (front \o <<e>>) \o back
  BY DEF Put
<1> HIDE DEF front, back
<1>5. front \o <<e>> = upto
  BY <1>2
<1>6. /\ upto \in Seq(S) /\ Len(upto) = i /\ upto[i] = e
      /\ \A j \in 1..(i - 1) : upto[j] = s[j]
  BY <1>1, <1>2, SeqAppend
<1> HIDE DEF upto
<1>7. /\ Put(s, i, e) \in Seq(S) /\ Len(Put(s, i, e)) = Len(upto) + Len(back)
      /\ \A j \in 1..(Len(upto) + Len(back)) :
           Put(s, i, e)[j] = IF j <= Len(upto) THEN upto[j] ELSE back[j - Len(upto)]
  <2>1. upto \in Seq(S) /\ back \in Seq(S)
    BY <1>3, <1>6, Zenon
  <2>2. Put(s, i, e) = upto \o back
    BY <1>4, <1>5, Zenon
  <2>3. /\ upto \o back \in Seq(S)
        /\ Len(upto \o back) = Len(upto) + Len(back)
        /\ \A j \in 1..(Len(upto) + Len(back)) :
             (upto \o back)[j] = IF j <= Len(upto) THEN upto[j]
                                 ELSE back[j - Len(upto)]
    BY <2>1, SeqConcat, Zenon
  <2>4. QED
    BY <2>2, <2>3, Zenon
<1>8. ASSUME NEW j \in (i + 1)..(Len(s) + 1)
      PROVE  Put(s, i, e)[j] = s[j - 1]
  <2>1. /\ j - i \in 1..(Len(s) - (i - 1)) /\ (i - 1) + (j - i) = j - 1
        /\ j \in 1..(Len(upto) + Len(back)) /\ ~(j <= Len(upto))
    BY <1>1, <1>3, <1>6
  <2>2. Put(s, i, e)[j] = back[j - i]
    BY <1>6, <1>7, <2>1
  <2>3. QED
    BY <1>3, <2>1, <2>2
<1>9. (\A j \in 1..(i - 1) : Put(s, i, e)[j] = s[j]) /\ Put(s, i, e)[i] = e
  BY <1>1, <1>3, <1>6, <1>7
<1>10. QED
  BY <1>1, <1>3, <1>6, <1>7, <1>8, <1>9 DEF IsWith

(* Append puts it behind all others.                                       *)
LEMMA AppendIsWith ==
  ASSUME NEW S, NEW s \in Seq(S), NEW e \in S
  PROVE  Append(s, e) \in Seq(S) /\ IsWith(s, Len(s) + 1, e, Append(s, e))
BY DEF IsWith

\* Places in order; and Q is P with n between those before the i-th and the
\* rest.
InOrder(m, P) == \A j, k \in 1..m : j < k => P[j] < P[k]
IsPut(m, i, n, P, Q) ==
  /\ \A j \in 1..(i - 1) : P[j] < n /\ Q[j] = P[j]
  /\ \A j \in i..m : n < P[j]
  /\ Q[i] = n
  /\ \A j \in (i + 1)..(m + 1) : Q[j] = P[j - 1]

(* Places in order stay so when one is put where it belongs.               *)
LEMMA PutInOrder ==
  ASSUME NEW m \in Nat, NEW i \in 1..(m + 1), NEW n \in Nat,
         NEW P \in [1..m -> Nat], NEW Q \in [1..(m + 1) -> Nat],
         InOrder(m, P), IsPut(m, i, n, P, Q)
  PROVE  InOrder(m + 1, Q)
<1> USE DEF InOrder, IsPut
<1> SUFFICES ASSUME NEW j \in 1..(m + 1), NEW k \in 1..(m + 1), j < k
             PROVE  Q[j] < Q[k]
  OBVIOUS
<1>1. CASE k < i
  <2>1. j \in 1..(i - 1) /\ k \in 1..(i - 1) /\ j \in 1..m /\ k \in 1..m
    BY <1>1
  <2>2. QED
    BY <2>1
<1>2. CASE k = i
  <2>1. j \in 1..(i - 1)
    BY <1>2
  <2>2. QED
    BY <1>2, <2>1
<1>3. CASE k > i /\ j <= i
  <2>1. Q[k] = P[k - 1] /\ k - 1 \in i..m
    BY <1>3
  <2>2. Q[j] <= n
    <3>1. CASE j = i
      BY <3>1
    <3>2. CASE j \in 1..(i - 1)
      <4>1. Q[j] = P[j] /\ P[j] < n /\ P[j] \in Nat
        BY <3>2
      <4>2. QED
        BY <4>1
    <3>3. QED
      BY <1>3, <3>1, <3>2
  <2>3. QED
    BY <2>1, <2>2
<1>4. CASE j > i
  BY <1>4
<1>5. QED
  BY <1>1, <1>2, <1>3, <1>4

=============================================================================
