---------------------------- MODULE MCRequestChecks ----------------------------
(***************************************************************************)
(* RequestChecks with an int of 3 bits, a std::int64_t of 6 bits and every *)
(* number around the borders of the widths.                                *)
(***************************************************************************)
EXTENDS RequestChecks

BorderNumbers ==
    {LongMin - 1, LongMin, -1, 0, 1, 2, 3, IntMax + 1, UIntMax, UIntMax + 1,
     LongMax, LongMax + 1, ULongMax, ULongMax + 1}

(* Dates around the epoch and around the borders of the clock.             *)
BorderMoments ==
    {ms \in -(ClockMax + 1)..ClockMax :
        \/ ms \in {-1, 0, 1}
        \/ FitsClock(ms) # FitsClock(ms + 1) \/ FitsClock(ms) # FitsClock(ms - 1)}
=============================================================================
