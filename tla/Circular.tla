------------------------------ MODULE Circular ------------------------------
(***************************************************************************)
(* Circular numbers (circular/circular.go): the sequence numbers of data   *)
(* packets count 0, 1, ..., MAX and start over at 0.  A Number of the code *)
(* is modelled by its value; max and threshold are the same for all the    *)
(* numbers that are ever compared.                                         *)
(***************************************************************************)
EXTENDS Integers

CONSTANT MAX    \* the greatest number; packet.MAX_SEQUENCENUMBER in the code

\* Below 6 the threshold leaves no room for two numbers in a row.
ASSUME MaxAssumption == MAX \in Nat /\ MAX >= 6

Number == 0..MAX

threshold == MAX \div 2

AbsDiff(a, b) == IF a > b THEN a - b ELSE b - a

\* Mutant: the numbers a threshold apart counted the short way only.
DistanceNoWrap(a, b) == AbsDiff(a, b)

Distance(a, b) ==
  IF AbsDiff(a, b) >= threshold /\ a # b
  THEN MAX - AbsDiff(a, b) + 1
  ELSE AbsDiff(a, b)

Lt(a, b) == a # b /\ ((AbsDiff(a, b) < threshold) <=> (a < b))

Lte(a, b) == a = b \/ Lt(a, b)

Gt(a, b) == a # b /\ ((AbsDiff(a, b) < threshold) <=> (a > b))

Gte(a, b) == a = b \/ Gt(a, b)

Inc(a) == IF a = MAX THEN 0 ELSE a + 1

Add(a, n) == IF n <= MAX - a THEN a + n ELSE n - (MAX - a) - 1

Dec(a) == IF a = 0 THEN MAX ELSE a - 1

Sub(a, n) == IF n <= a THEN a - n ELSE MAX - (n - a) + 1

\* New(x, max): a value above max wraps.
New(x) == IF x > MAX THEN Add(0, x) ELSE x

-----------------------------------------------------------------------------
(* The yardstick the operators are measured with: the number of Inc steps  *)
(* that lead from a to b.                                                  *)
Fwd(a, b) == IF b >= a THEN b - a ELSE b - a + MAX + 1

=============================================================================
