------------------------------ MODULE Calendar ------------------------------
(* Days since 1970-01-01 and dates of the proleptic Gregorian calendar, with *)
(* the machine's division, which rounds towards zero. The cutoff of a prune, *)
(* the ends of an export and the chunks of an import are days counted so.    *)
EXTENDS Integers

Quot(a, b) == IF a >= 0 THEN a \div b ELSE -((-a) \div b)

is_leap_year(y) == (y % 4 = 0 /\ y % 100 # 0) \/ y % 400 = 0

days_in_month(y, m) ==
    CASE m \in {1, 3, 5, 7, 8, 10, 12} -> 31
      [] m \in {4, 6, 9, 11} -> 30
      [] m = 2 -> IF is_leap_year(y) THEN 29 ELSE 28

days_from_civil(year, m, d) ==
    LET y == IF m <= 2 THEN year - 1 ELSE year
        era == Quot(IF y >= 0 THEN y ELSE y - 399, 400)
        yoe == y - era * 400
        mp == IF m > 2 THEN m - 3 ELSE m + 9
        doy == Quot(153 * mp + 2, 5) + d - 1
        doe == yoe * 365 + Quot(yoe, 4) - Quot(yoe, 100) + doy
    IN  era * 146097 + doe - 719468

civil_from_days(days) ==
    LET z == days + 719468
        era == Quot(IF z >= 0 THEN z ELSE z - 146096, 146097)
        doe == z - era * 146097
        yoe == Quot(doe - Quot(doe, 1460) + Quot(doe, 36524) - Quot(doe, 146096), 365)
        doy == doe - (365 * yoe + Quot(yoe, 4) - Quot(yoe, 100))
        mp == Quot(5 * doy + 2, 153)
        m == IF mp < 10 THEN mp + 3 ELSE mp - 9
        y == yoe + era * 400
    IN  <<IF m <= 2 THEN y + 1 ELSE y, m, doy - Quot(153 * mp + 2, 5) + 1>>

\* The day after, by the months' lengths.
NextDay(date) ==
    LET y == date[1]
        m == date[2]
        d == date[3]
    IN  IF d < days_in_month(y, m) THEN <<y, m, d + 1>>
        ELSE IF m < 12 THEN <<y, m + 1, 1>> ELSE <<y + 1, 1, 1>>

\* Days around the epoch, the turns of 2000, 2100 and 2400, and the turn of an
\* era and of the year 0.
Turns == {0, 11017, 47541, 157113, -719468, -719162}
Sampled == UNION {(t - 400)..(t + 400) : t \in Turns}
=============================================================================
