------------------------ MODULE SilverTransformProofs ------------------------
(* What transform_to_silver computes, for any figures. *)
EXTENDS SilverTransform, TLAPS

\* Division rounded to the nearest integer is off by half the divisor at most.
LEMMA NearestQuotient ==
    ASSUME NEW n \in Nat, NEW d \in Nat \ {0}, NEW q \in Int,
           q = (2 * n + d) \div (2 * d)
    PROVE  q \in Nat /\ 2 * Abs(q * d - n) <= d
<1> DEFINE a == 2 * n + d
           b == 2 * d
<1>1. a \in Nat /\ b \in Nat \ {0} /\ q = a \div b
  OBVIOUS
<1> HIDE DEF a, b
<1>2. b * q <= a /\ a < b * q + b
  BY <1>1
<1>3. q \in Nat
  BY <1>1
<1>4. (2 * d) * q = 2 * (d * q) /\ d * q \in Int /\ q * d = d * q
  BY <1>3
<1>5. 2 * (d * q) <= 2 * n + d /\ 2 * n + d < 2 * (d * q) + 2 * d
  BY <1>2, <1>4 DEF a, b
<1> DEFINE p == d * q
<1>6. p \in Int /\ 2 * p <= 2 * n + d /\ 2 * n + d < 2 * p + 2 * d
  BY <1>4, <1>5
<1> HIDE DEF p
<1>7. 2 * Abs(p - n) <= d
  BY <1>6 DEF Abs
<1> QED BY <1>3, <1>4, <1>7 DEF p

\* Rounded() is within half a unit of the quotient, whatever the signs.
LEMMA RoundedIsNearest ==
    ASSUME NEW n \in Int, NEW d \in Int \ {0}
    PROVE  Rounded(n, d) \in Int /\ 2 * Abs(Rounded(n, d) * d - n) <= Abs(d)
<1> DEFINE q == (2 * Abs(n) + Abs(d)) \div (2 * Abs(d))
<1>1. Abs(n) \in Nat /\ Abs(d) \in Nat \ {0} /\ q \in Int
  BY DEF Abs
<1>2. q \in Nat /\ 2 * Abs(q * Abs(d) - Abs(n)) <= Abs(d)
  BY <1>1, NearestQuotient
<1>3. Rounded(n, d) = IF (n < 0) = (d < 0) THEN q ELSE -q
  BY DEF Rounded
<1> HIDE DEF q
<1> DEFINE p == q * d
<1>4. p \in Int /\ (-q) * d = -p /\ q * (-d) = -p
  BY <1>2
<1>5. Rounded(n, d) * d = IF (n < 0) = (d < 0) THEN p ELSE -p
  BY <1>3, <1>4
<1>6. q * Abs(d) = IF d < 0 THEN -p ELSE p
  BY <1>4 DEF Abs
<1> HIDE DEF p
<1>7. 2 * Abs(Rounded(n, d) * d - n) <= Abs(d)
  <2> DEFINE s == Rounded(n, d) * d
             u == q * Abs(d)
  <2>1. /\ s = IF (n < 0) = (d < 0) THEN p ELSE -p
        /\ u = IF d < 0 THEN -p ELSE p
        /\ 2 * Abs(u - Abs(n)) <= Abs(d)
    BY <1>2, <1>5, <1>6
  <2> HIDE DEF s, u
  <2> QED BY <1>4, <2>1 DEF Abs, s
<1> QED BY <1>2, <1>3, <1>7

\* The margin of any record, with losses, refunds and a revenue of zero included,
\* is the exact one to half a hundredth of a percent (transforms/silver.py:29-33).
THEOREM MarginIsExact ==
    ASSUME NEW profit \in Int, NEW revenue \in Int
    PROVE  /\ MarginPct(profit, revenue) \in Int
           /\ revenue # 0 => IsNearest(MarginPct(profit, revenue), profit, revenue)
<1>1. CASE revenue = 0
  BY <1>1 DEF MarginPct
<1>2. CASE revenue # 0
  <2>1. MarginPct(profit, revenue) = Rounded(10000 * profit, revenue)
    BY <1>2 DEF MarginPct
  <2>2. 10000 * profit \in Int
    OBVIOUS
  <2> QED BY <1>2, <2>1, <2>2, RoundedIsNearest DEF IsNearest
<1> QED BY <1>1, <1>2

=============================================================================
