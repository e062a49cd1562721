--------------------------- MODULE UnitConversion ---------------------------
(***************************************************************************)
(* Amounts and their decimal strings (utils/unit-conversion).  A bigint is *)
(* an integer.  A number is a double, given as a whole number of its least *)
(* steps, of which Scale make one: the doubles are the integers of at most *)
(* as many bits as those below Significand.  A decimal string is its two   *)
(* parts and the number of digits of the second.  Amounts are not negative *)
(* (the string functions misplace a sign, and no ledger holds one), and    *)
(* their whole part is below Significand, so that it is written as it is.  *)
(***************************************************************************)
EXTENDS Integers

CONSTANTS
  Decimals,     \* by as many digits as an asset has: 7 in the program
  Significand,  \* 2^53
  Scale         \* 2^1074

ASSUME UnitAssumption ==
  /\ Decimals \in Nat
  /\ Significand \in Nat \ {0}
  /\ Scale \in Nat \ {0}

\* 10 ** decimal
PowerOfTen[decimal \in Nat] == IF decimal = 0 THEN 1 ELSE 10 * PowerOfTen[decimal - 1]

toDecimals(amount, decimal) == amount * PowerOfTen[decimal]
fromDecimals(amount, decimal) == amount \div PowerOfTen[decimal]

toStroops(amount) == toDecimals(amount, Decimals)
fromStroops(amount) == fromDecimals(amount, Decimals)

-----------------------------------------------------------------------------
(* Doubles.                                                                *)

\* How far apart doubles are from n on.
spacing[n \in Nat] == IF n < Significand THEN 1 ELSE 2 * spacing[n \div 2]

\* The double nearest to n / m steps, the even one of two as near.
Nearest(n, m) ==
  LET s == spacing[n \div m]
      q == n \div (m * s)
      r == n % (m * s)
  IN  IF 2 * r < m * s \/ (2 * r = m * s /\ q % 2 = 0) THEN q * s ELSE (q + 1) * s

\* The number n / 10^p.
Number(n, p) == Nearest(n * Scale, PowerOfTen[p])

\* Math.round((amount - Math.floor(amount)) * 10 ** decimal): the difference is
\* exact, the product is rounded, and a half goes up.
RoundedFraction(amount, decimal) ==
  (2 * Nearest((amount % Scale) * PowerOfTen[decimal], 1) + Scale) \div (2 * Scale)

\* The rounded fraction is a whole, which has a digit more than the string has
\* places: 0.96 to one decimal is "0.10".
Carries(amount, decimal) == RoundedFraction(amount, decimal) = PowerOfTen[decimal]

\* Mutant: the fraction is cut off instead of rounded.
numberBalanceToStringCut(amount, decimal) ==
  [int   |-> amount \div Scale,
   frac  |-> Nearest((amount % Scale) * PowerOfTen[decimal], 1) \div Scale,
   width |-> IF decimal = 0 THEN 1 ELSE decimal]

\* With no decimals the string has one all the same.
numberBalanceToString(amount, decimal) ==
  [int   |-> amount \div Scale,
   frac  |-> RoundedFraction(amount, decimal),
   width |-> IF Carries(amount, decimal) \/ decimal = 0 THEN decimal + 1 ELSE decimal]

\* The quotient is rounded, and so is the sum.
numberBalanceFromString(s) ==
  Nearest(s.int * Scale + Nearest(s.frac * Scale, PowerOfTen[s.width]), 1)

-----------------------------------------------------------------------------

bigIntBalanceToString(amount, decimal) ==
  [int |-> amount \div PowerOfTen[decimal], frac |-> amount % PowerOfTen[decimal], width |-> decimal]

\* The two parts written together.
bigIntBalanceFromString(s) == s.int * PowerOfTen[s.width] + s.frac

=============================================================================
