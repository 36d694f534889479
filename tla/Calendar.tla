------------------------------ MODULE Calendar ------------------------------
(***************************************************************************)
(* Dates and days (JulianDay.hpp): a date is a number like 20170228, a day   *)
(* its Julian day; 0 is neither.  Months count from 0.                       *)
(***************************************************************************)
EXTENDS Integers

\* A plausible slip: division rounds down.
MutQuot(a, b) == a \div b

\* Division of the language rounds towards zero.
Quot(a, b) == IF a >= 0 THEN a \div b ELSE -((-a) \div b)

ymdToIso(year, mon, mday) == year * 10000 + (mon + 1) * 100 + mday

ymdToJd(year, mon, mday) ==
  LET j == mon + 1
      q == Quot(j - 14, 12)
  IN mday - 32075 + Quot(1461 * (year + 4800 + q), 4)
       + Quot(367 * (j - 2 - q * 12), 12)
       - Quot(3 * Quot(year + 4900 + q, 100), 4)

\* The remainder has the sign of what is divided.
isoToJd(iso) ==
  LET month == Quot(iso, 100) - 100 * Quot(iso, 10000)
  IN ymdToJd(Quot(iso, 10000), month - 1, iso - 100 * Quot(iso, 100))

jdToIso(jd) ==
  LET l == jd + 68569
      n == Quot(4 * l, 146097)
      l2 == l - Quot(146097 * n + 3, 4)
      i == Quot(4000 * (l2 + 1), 1461001)
      l3 == l2 - Quot(1461 * i, 4) + 31
      j == Quot(80 * l3, 2447)
      k == l3 - Quot(2447 * j, 80)
      l4 == Quot(j, 11)
  IN (100 * (n - 49) + i + l4) * 10000 + (j + 2 - 12 * l4) * 100 + k

maybeIsoToJd(iso) == IF iso # 0 THEN isoToJd(iso) ELSE 0
maybeJdToIso(jd) == IF jd # 0 THEN jdToIso(jd) ELSE 0

=============================================================================
