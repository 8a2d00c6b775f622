--------------------------- MODULE SilverTransform ---------------------------
(***************************************************************************)
(* The figures of a silver record (transforms/silver.py) and the decimal    *)
(* columns of the Iceberg table that must hold them.  An amount is a        *)
(* decimal, written here as an integer number of hundred-thousandths: one   *)
(* digit finer than the columns.                                            *)
(***************************************************************************)
EXTENDS Integers

CONSTANT
    AmountLimit     \* where decimal(18, 4) ends, in hundred-thousandths: 10^19 in the code

ASSUME TransformAssumption == AmountLimit \in Nat

AmountColumns == {"unit_price", "unit_cost", "total_revenue", "total_cost", "total_profit"}

Abs(n) == IF n < 0 THEN -n ELSE n

\* Mutant of Rounded: the digits beyond the second decimal are dropped.
RoundedDown(n, d) ==
    LET q == Abs(n) \div Abs(d)
    IN  IF (n < 0) = (d < 0) THEN q ELSE -q

\* quantize(_CENTS, rounding=ROUND_HALF_UP) of n / d: ties go away from zero.
Rounded(n, d) ==
    LET q == (2 * Abs(n) + Abs(d)) \div (2 * Abs(d))
    IN  IF (n < 0) = (d < 0) THEN q ELSE -q

\* margin_pct, in hundredths of a percent.
MarginPct(profit, revenue) ==
    IF revenue = 0 THEN 0 ELSE Rounded(10000 * profit, revenue)

\* decimal(18, 4) takes an amount without rounding it; a value that needs a digit
\* more is refused, not rounded.
FitsAmount(amount) == amount % 10 = 0 /\ Abs(amount) < AmountLimit

\* decimal(6, 2)
FitsMargin(margin) == Abs(margin) <= 999999

\* The record can be converted by the schema of _arrow_schema().
FitsColumns(amounts) ==
    /\ \A c \in AmountColumns : FitsAmount(amounts[c])
    /\ FitsMargin(MarginPct(amounts["total_profit"], amounts["total_revenue"]))

\* The margin is the exact one to within half of its last digit.
IsNearest(margin, profit, revenue) ==
    2 * Abs(margin * revenue - 10000 * profit) <= Abs(revenue)

=============================================================================
