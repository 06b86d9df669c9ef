----------------------------- MODULE Recurrence -----------------------------
(***************************************************************************)
(* The occurrence engine (services/recurrence/engine.py): which days a     *)
(* rule yields inside a window.  A day is an integer; the local wall clock *)
(* and its conversion to UTC are left out, so a scheduled instant is its   *)
(* day.  dateutil's rrule is a rule that starts on dtstart and repeats     *)
(* every `interval` days up to `until`.                                    *)
(***************************************************************************)
EXTENDS Integers, FiniteSets, SequencesExt

CONSTANTS NonWorking,     \* the days that are weekends or listed holidays
          WalkLimit,      \* how far _walk looks for a working day (365)
          CutOff,         \* days expand_occurrences scans past its window (14)
          MaxCandidates   \* dates of a rule that it looks at (_MAX_CANDIDATES)

(* The calendar is free: holidays may follow each other for longer than      *)
(* CutOff days.  Left out is a shutdown of more than WalkLimit days, in      *)
(* which _walk raises.                                                       *)
ASSUME RecurrenceAssumption ==
    /\ NonWorking \subseteq Int
    /\ WalkLimit \in Nat /\ CutOff \in Nat /\ MaxCandidates \in Nat
    /\ \A d \in NonWorking :
          /\ \E e \in (d + 1)..(d + WalkLimit) : e \notin NonWorking
          /\ \E e \in (d - WalkLimit)..(d - 1) : e \notin NonWorking

IsWorkingDay(d) == d \notin NonWorking

\* _walk: the first working day after d, or the last one before it.
Walk(d, step) ==
    IF step > 0 THEN Min({e \in (d + 1)..(d + WalkLimit) : IsWorkingDay(e)})
                ELSE Max({e \in (d - WalkLimit)..(d - 1) : IsWorkingDay(e)})

AdjustWorkingDay(d, adjustment) ==
    LET forward == Walk(d, 1)
        back    == Walk(d, -1)
    IN  IF adjustment = "none" \/ IsWorkingDay(d)
          THEN d
          ELSE CASE adjustment = "next"     -> forward
                 [] adjustment = "previous" -> back
                 [] adjustment = "nearest"  ->
                       IF forward - d <= d - back THEN forward ELSE back

\* The dates of the rrule in order, up to a day no window reaches past.
Rule(spec, lastDay) ==
    [n \in 1..((Min({spec.until, lastDay}) - spec.dtstart) \div spec.interval + 1) |->
        spec.dtstart + (n - 1) * spec.interval]

\* The first date of the rule, if it has so many, that is not looked at.
EndOfScan(spec) == spec.dtstart + MaxCandidates * spec.interval

\* A bug: the scan stops at the end of the window.
ExpandOccurrencesShort(spec, lo, hi, exdates, lastDay) ==
    LET scanned == {d \in ToSet(Rule(spec, lastDay)) :
                       d < EndOfScan(spec) /\ (spec.count = 0 => d <= hi)}
        live    == scanned \ exdates
        counted == {d \in live : \/ spec.count = 0
                                 \/ Cardinality({e \in live : e < d}) < spec.count}
    IN  {AdjustWorkingDay(d, spec.adjust) : d \in counted} \intersect lo..hi

\* expand_occurrences: the loop stops after MaxCandidates dates, and CutOff days
\* past the window unless COUNT stops it; a skipped date does not consume COUNT;
\* dates that are moved to the same day are one occurrence.  spec.count = 0: no
\* COUNT.
ExpandOccurrences(spec, lo, hi, exdates, lastDay) ==
    LET scanned == {d \in ToSet(Rule(spec, lastDay)) :
                       d < EndOfScan(spec) /\ (spec.count = 0 => d <= hi + CutOff)}
        live    == scanned \ exdates
        counted == {d \in live : \/ spec.count = 0
                                 \/ Cardinality({e \in live : e < d}) < spec.count}
    IN  {AdjustWorkingDay(d, spec.adjust) : d \in counted} \intersect lo..hi

-----------------------------------------------------------------------------
(* What a rule means, without a window to scan: its dates that were not      *)
(* skipped, no more of them than COUNT, each on the working day the policy   *)
(* names.                                                                    *)
Series(spec, exdates, lastDay) ==
    LET live == ToSet(Rule(spec, lastDay)) \ exdates
    IN  {AdjustWorkingDay(d, spec.adjust) :
            d \in {d \in live : \/ spec.count = 0
                                \/ Cardinality({e \in live : e < d}) < spec.count}}

\* The policy moves dates back, and a shutdown that begins with the day after the
\* window goes on through day d.
ShutThrough(spec, hi, d) ==
    spec.adjust \in {"previous", "nearest"} /\ (hi + 1)..d \subseteq NonWorking

\* When the scan ends too early: the dates it may look at do not reach past the
\* window, or a shutdown covers all the days from the window to the first one that
\* is not looked at, so that a date behind it can be moved back into the window.
LosesDates(spec, hi) ==
    \/ EndOfScan(spec) <= hi
    \/ ShutThrough(spec, hi, EndOfScan(spec))
    \/ spec.count = 0 /\ ShutThrough(spec, hi, hi + CutOff + 1)

\* A window yields days of the series only, and all of them unless dates get lost.
FindsTheSeries(spec, lo, hi, exdates, lastDay) ==
    LET found  == ExpandOccurrences(spec, lo, hi, exdates, lastDay)
        wanted == Series(spec, exdates, lastDay) \intersect lo..hi
    IN  /\ found \subseteq wanted
        /\ ~LosesDates(spec, hi) => found = wanted

=============================================================================
