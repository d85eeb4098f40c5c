------------------------------ MODULE MCGmtime ------------------------------
(* The clocks of the instances: the days around the turns of months, years  *)
(* and centuries, with and without a leap year, and in the time the filter  *)
(* is used in.                                                              *)
EXTENDS Gmtime

MCYears == {1970, 1971, 1972, 1999, 2000, 2001, 2004, 2019, 2020, 2023,
            2024, 2099, 2100, 2101, 2299, 2300, 2301}
MCDays == {DayNumber([year |-> y, month |-> m, day |-> 1]) + k :
             y \in MCYears, m \in 1..12, k \in {0, 1, 27, 28, 29, 30}}
MCSeconds == {0, 3599, 86399}

(* the time of which a tenth is t *)
Tenfold(t) == [days |-> 10 * t.days + (10 * t.seconds) \div SecondsPerDay,
               seconds |-> (10 * t.seconds) % SecondsPerDay]
MCClocks == {Tenfold([days |-> d, seconds |-> s]) : d \in MCDays, s \in MCSeconds}
=============================================================================
