-------------------------------- MODULE Pricing --------------------------------
(****************************************************************************)
(* The money arithmetic of the billing service.  The code keeps rupees as   *)
(* floating-point numbers and rounds to two decimals with                   *)
(* Math.round(x * 100) / 100; here an amount is a whole number of paisa and *)
(* the rounding is exact (half up).                                         *)
(****************************************************************************)
EXTENDS Integers

\* Math.round of the fraction a / b, for a natural a and a positive b.
RoundHalfUp(a, b) == (2 * a + b) \div (2 * b)

\* The smaller and the larger of two amounts (Math.min, Math.max).
Least(a, b) == IF a <= b THEN a ELSE b
AtLeastZero(a) == IF a >= 0 THEN a ELSE 0

--------------------------------------------------------------------------------

\* VAT_RATE = 0.13, charged on the taxable amount.
Vat(taxable) == RoundHalfUp(13 * taxable, 100)

WithVat(taxable) == taxable + Vat(taxable)

\* What validatePromoCode takes off: a percentage is rounded to the paisa and
\* not capped (a code of 150 % is accepted); a fixed amount is capped.
PercentOff(subtotal, percent) == RoundHalfUp(subtotal * percent, 100)
FixedOff(subtotal, value) == Least(value, subtotal)

PromoDiscount(type, subtotal, value) ==
    IF type = "PERCENTAGE" THEN PercentOff(subtotal, value) ELSE FixedOff(subtotal, value)

\* createOrder: the total a customer is charged.
OrderTotal(subtotal, discount) == WithVat(AtLeastZero(subtotal - discount))

--------------------------------------------------------------------------------

DaysPerMonth == 30

\* upgradePlan: the days of the old term that are left, the value they are
\* given (a share of the old order's amount), and what the new term then costs.
DaysLeft(months, daysUsed) == AtLeastZero(months * DaysPerMonth - daysUsed)

UpgradeCredit(amount, months, daysUsed) ==
    RoundHalfUp(amount * DaysLeft(months, daysUsed), months * DaysPerMonth)

ProratedAmount(newSubtotal, amount, months, daysUsed) ==
    AtLeastZero(newSubtotal - UpgradeCredit(amount, months, daysUsed))

================================================================================
