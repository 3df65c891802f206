------------------------------- MODULE Dates -------------------------------
(***************************************************************************)
(* The one date src/https.c knows: the build day, as yyyymmdd, and wolfSSL's*)
(* clock, which starts over at that day with every boot.  A behaviour goes *)
(* through a year a day at a time, with the count a calendar keeps beside  *)
(* the one pspkit_https_time works out.                                    *)
(***************************************************************************)
EXTENDS Integers, FiniteSets

CONSTANT Years  \* bound of the model: the years a build may fall in

ASSUME YearsAssumption == Years \subseteq {y \in Nat : y >= 1970}

VARIABLES
  built,  \* the day of the build: its year, month and day
  since   \* history: the days a calendar counts from 1970-01-01 to it

dateVars == <<built, since>>

Leap(y) == (y % 4 = 0 /\ y % 100 # 0) \/ y % 400 = 0

LengthOf(y, m) ==
  CASE m = 2 -> IF Leap(y) THEN 29 ELSE 28
    [] m \in {4, 6, 9, 11} -> 30
    [] OTHER -> 31

LeapsBefore(y) == Cardinality({k \in 1970..(y - 1) : Leap(k)})

DateInit ==
  \E y \in Years : /\ built = [y |-> y, m |-> 1, d |-> 1]
                   /\ since = 365 * (y - 1970) + LeapsBefore(y)

NextDay ==
  /\ <<built.m, built.d>> # <<12, 31>>
  /\ built' = IF built.d < LengthOf(built.y, built.m)
              THEN [built EXCEPT !.d = @ + 1]
              ELSE [y |-> built.y, m |-> built.m + 1, d |-> 1]
  /\ since' = since + 1

DateSpec == DateInit /\ [][NextDay]_dateVars

(* build_day *)
BuildDay(date) == date.y * 10000 + date.m * 100 + date.d

(* The days since 1970, by civil date: a year that begins in March has its
   leap day last, and 153 days fall in any five months from there.
   pspkit_https_time is that many times 86400, and the seconds since boot. *)
FromMarchLate(m) == IF m < 2 THEN 1 ELSE 0                          \* mutant

FromMarch(m) == IF m <= 2 THEN 1 ELSE 0

DaysSince1970(ymd) ==
  LET m == (ymd \div 100) % 100
      y == ymd \div 10000 - FromMarch(m)
      yearOfEra == y % 400
      dayOfYear == (153 * (IF m > 2 THEN m - 3 ELSE m + 9) + 2) \div 5 + (ymd % 100) - 1
  IN (y \div 400) * 146097 + yearOfEra * 365 + yearOfEra \div 4
       - yearOfEra \div 100 + dayOfYear - 719468
-----------------------------------------------------------------------------
(* wolfSSL's clock reads midnight of the build day at boot, on every day of
   every month and across leap years and centuries: a certificate is held
   against the same day that expired_before_build holds it against. *)
DaysExact == DaysSince1970(BuildDay(built)) = since
=============================================================================
