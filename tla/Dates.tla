--------------------------------- MODULE Dates ---------------------------------
(***************************************************************************)
(* The way of a date through the server (iso8601_helper.cpp,               *)
(* timestamp_helpers.cpp): text, validated at milliseconds; time point,    *)
(* nanoseconds in 64 bits; column, milliseconds; text again, seconds.      *)
(* Operators only.                                                         *)
(***************************************************************************)
EXTENDS Integers

CONSTANTS
    ClockMax,       \* largest count of a system_clock::time_point, scaled down
    NsPerMs,        \* nanoseconds in a millisecond, scaled down
    MsPerSecond     \* milliseconds in a second, scaled down

ASSUME DatesAssumption ==
    /\ ClockMax \in Nat
    /\ NsPerMs \in Nat \ {0}
    /\ MsPerSecond \in Nat \ {0}

TimePoints == -(ClockMax + 1)..ClockMax

(* The text of a date: a date-time (RFC 3339) in UTC with at most three    *)
(* decimals, as the milliseconds since the epoch; the same without leading *)
(* zeros, which %m, %d, %H... do not require; a date-time with an offset or*)
(* more decimals; or any other text.                                       *)
DateTexts(moments) ==
    [form : {"utc", "loose"}, ms : moments] \cup [form : {"rfc3339", "other"}, ms : {0}]

IsValidIso8601(date) == date.form \in {"utc", "loose"}

FitsClock(ms) == ms * NsPerMs \in TimePoints

(* The set of what it may return.  A date that does not fit the clock      *)
(* overflows its count, and any time point may come of that.               *)
Iso8601ToTimePoint(ms) == IF FitsClock(ms) THEN {ms * NsPerMs} ELSE TimePoints

(* duration_cast rounds towards zero.                                      *)
Truncated(n, unit) == IF n >= 0 THEN n \div unit ELSE -((-n) \div unit)
ToTimestamp(timePoint) == Truncated(timePoint, NsPerMs)
FromTimestamp(timestamp) == timestamp * NsPerMs

(* The second a time point is shown as.                                    *)
CastToSeconds(timePoint) == Truncated(timePoint, NsPerMs * MsPerSecond)  \* mutant
TimePointToIso8601(timePoint) == timePoint \div (NsPerMs * MsPerSecond)
=============================================================================
