-------------------------- MODULE RecurringProofs --------------------------
(***************************************************************************)
(* What Recurring and Recurrence promise for any number of patterns and    *)
(* workers, any calendar, any page size and any number of days, requests   *)
(* and faults: the state keeps its shape, a run only creates what the      *)
(* current rule of an enabled pattern yields, a flexible series waits for  *)
(* its latest instance, and expand_occurrences yields the series in its    *)
(* window except where its scan ends too early.                            *)
(* The last theorem is about the calls of MCServices, hence the EXTENDS.   *)
(***************************************************************************)
EXTENDS MCServices, WellFoundedInduction, TLAPS

IssueRows == [st : {"none", "open", "touched", "closed"}, closed_on : Nat, at : Nat]
Kinds == {"none", "skip", "override", "bad"}

Specs == [dtstart : Nat, interval : Nat \ {0}, until : Int, count : {0},
          adjust : {"none", "next", "previous", "nearest"}]
LivePatterns == [st : {"live"}, enabled : BOOLEAN, mode : {"fixed", "flexible"},
                 base : {"scheduled", "completion"}, spec : Specs]

Caches == UNION {[S -> [Day -> Kinds]] : S \in SUBSET Pattern}
Listing == [pc : {"list"}, now : Nat, offset : Nat]
Reading == [pc : {"read"}, now : Nat, offset : Nat, batch : SUBSET Pattern,
            full : BOOLEAN, cache : Caches, stale : SUBSET Pattern]
Writing == [pc : {"write"}, now : Nat, offset : Nat, batch : SUBSET Pattern,
            full : BOOLEAN, cache : Caches, stale : SUBSET Pattern,
            plan : SUBSET Int, latest : Nat, bad : BOOLEAN]
Runs == {Idle} \union Listing \union Reading \union Writing

\* The part of the type invariant that later parts need in full.
RecShapes ==
    /\ today \in 1..MaxDay
    /\ pattern \in [Pattern -> {NoPattern, Deleted} \union LivePatterns]
    /\ instance \in [Pattern -> [Day -> IssueRows]]
    /\ exc \in [Pattern -> [Day -> Kinds]]
    /\ lock \in Worker \union {NoWorker}
    /\ run \in [Worker -> Runs]
    /\ recBudget \in RecBudgets
    /\ ops \in 0..recBudget.ops /\ faults \in 0..recBudget.faults

\* An instance that is closed now was closed on some day.
ClosedOnADay ==
    \A p \in Pattern, o \in Day : instance[p][o].st = "closed" => instance[p][o].at # 0

\* A page a run holds: its rows were loaded, and a row that did not change since
\* is one of an enabled pattern.
PageHolds(r) ==
    r.pc \in {"read", "write"} =>
        /\ r.batch # {}
        /\ \A p \in r.batch : /\ pattern[p] # NoPattern
                              /\ p \notin r.stale /\ Live(p) => pattern[p].enabled

\* What a run is about to write for a pattern whose row did not change since.
PlanHolds(r) ==
    r.pc = "write" /\ Current(r) \notin r.stale /\ Live(Current(r)) =>
        LET p == Current(r)
        IN  /\ r.plan \subseteq Series(pattern[p].spec, {}, LastDay)
            /\ pattern[p].mode = "flexible" /\ r.plan # {} =>
                  /\ \A o \in Existing(p) : o <= r.latest
                  /\ r.latest \in Existing(p) => instance[p][r.latest].at # 0

PagesHold == \A w \in Worker : PageHolds(run[w])
PlansHold == \A w \in Worker : PlanHolds(run[w])

(* The inductive invariant.                                                  *)
RecInv == RecShapes /\ ClosedOnADay /\ PagesHold /\ PlansHold

-----------------------------------------------------------------------------
(* Least and greatest elements, as Min and Max choose them.                  *)

\* A set of naturals that is not empty has a least element.
LEMMA LeastOfSet ==
    ASSUME NEW S \in SUBSET Nat, S # {}
    PROVE  \E s \in S : \A u \in S : s <= u
  <1> DEFINE Below == OpToRel(<, Nat)
  <1>1. IsWellFoundedOn(Below, Nat)
    BY NatLessThanWellFounded
  <1> HIDE DEF Below
  <1>2. PICK s \in S : \A u \in S : ~ (<<u, s>> \in Below)
    BY <1>1, WFMin
  <1>3. \A u \in S : u < s => <<u, s>> \in Below
    BY DEF Below, OpToRel
  <1>4. \A u \in S : ~ (u < s)
    BY <1>2, <1>3
  <1>5. QED
    BY <1>4

\* Min returns an element of a set of ids or days, the smallest one: how a run
\* takes the next pattern of its page, and _materialize_flexible the next day.
LEMMA MinOfSet ==
    ASSUME NEW S \in SUBSET Nat, S # {}
    PROVE  Min(S) \in S /\ \A u \in S : Min(S) <= u
  <1>1. \E s \in S : \A u \in S : s <= u
    BY LeastOfSet
  <1>2. QED
    BY <1>1 DEF Min

\* Max returns the greatest of a set of days of an interval: _latest_instance, and
\* the walk back to a working day.
LEMMA MaxOfSet ==
    ASSUME NEW a \in Int, NEW b \in Int, NEW S \in SUBSET (a..b), S # {}
    PROVE  Max(S) \in S /\ \A u \in S : u <= Max(S)
  <1> DEFINE T == {n \in Nat : b - n \in S}
  <1>1. PICK e \in S : TRUE
    OBVIOUS
  <1>2. b - e \in T
    BY b - (b - e) = e
  <1>3. PICK n \in T : \A m \in T : n <= m
    BY <1>2, LeastOfSet
  <1>4. b - n \in S
    BY <1>3
  <1>5. \A u \in S : u <= b - n
    <2> SUFFICES ASSUME NEW u \in S PROVE u <= b - n
      OBVIOUS
    <2>1. b - u \in T
      BY b - (b - u) = u
    <2>2. n <= b - u
      BY <1>3, <2>1
    <2>3. QED
      BY <2>2
  <1>6. QED
    BY <1>4, <1>5 DEF Max

\* The same from below: the walk forward to a working day.
LEMMA MinOfInterval ==
    ASSUME NEW a \in Int, NEW b \in Int, NEW S \in SUBSET (a..b), S # {}
    PROVE  Min(S) \in S /\ \A u \in S : Min(S) <= u
  <1> DEFINE T == {n \in Nat : a + n \in S}
  <1>1. PICK e \in S : TRUE
    OBVIOUS
  <1>2. e - a \in T
    BY a + (e - a) = e
  <1>3. PICK n \in T : \A m \in T : n <= m
    BY <1>2, LeastOfSet
  <1>4. a + n \in S
    BY <1>3
  <1>5. \A u \in S : a + n <= u
    <2> SUFFICES ASSUME NEW u \in S PROVE a + n <= u
      OBVIOUS
    <2>1. u - a \in T
      BY a + (u - a) = u
    <2>2. n <= u - a
      BY <1>3, <2>1
    <2>3. QED
      BY <2>2
  <1>6. QED
    BY <1>4, <1>5 DEF Min

-----------------------------------------------------------------------------
(* The occurrence engine.                                                    *)

\* _walk back ends on the last working day before d.
LEMMA WalkBack ==
    ASSUME NEW d \in NonWorking
    PROVE  /\ Walk(d, -1) \in (d - WalkLimit)..(d - 1) /\ IsWorkingDay(Walk(d, -1))
           /\ (Walk(d, -1) + 1)..d \subseteq NonWorking
  <1> DEFINE S == {e \in (d - WalkLimit)..(d - 1) : IsWorkingDay(e)}
  <1>1. d \in Int /\ WalkLimit \in Nat
    BY RecurrenceAssumption
  <1>2. PICK e \in (d - WalkLimit)..(d - 1) : e \notin NonWorking
    BY RecurrenceAssumption
  <1>3. e \in S
    BY <1>2 DEF IsWorkingDay
  <1>4. Max(S) \in S /\ \A u \in S : u <= Max(S)
    <2>1. S \in SUBSET ((d - WalkLimit)..(d - 1)) /\ S # {} /\ d - WalkLimit \in Int /\ d - 1 \in Int
      BY <1>1, <1>3
    <2> HIDE DEF S
    <2>2. QED
      BY <2>1, MaxOfSet
  <1>5. Walk(d, -1) = Max(S)
    BY DEF Walk
  <1>6. Max(S) \in (d - WalkLimit)..(d - 1) /\ IsWorkingDay(Max(S))
    BY <1>4
  <1>7. ASSUME NEW u \in (Max(S) + 1)..d
        PROVE  u \in NonWorking
    <2>1. CASE u = d
      BY <2>1
    <2>2. CASE u # d
      <3>1. u \in (d - WalkLimit)..(d - 1) /\ ~(u <= Max(S))
        BY <1>1, <1>6, <1>7, <2>2
      <3>2. QED
        BY <1>4, <3>1 DEF IsWorkingDay
    <2>3. QED
      BY <2>1, <2>2
  <1> HIDE DEF S
  <1>8. QED
    BY <1>5, <1>6, <1>7

\* _walk forward ends on a working day.
LEMMA WalkForward ==
    ASSUME NEW d \in NonWorking
    PROVE  Walk(d, 1) \in (d + 1)..(d + WalkLimit) /\ IsWorkingDay(Walk(d, 1))
  <1> DEFINE S == {e \in (d + 1)..(d + WalkLimit) : IsWorkingDay(e)}
  <1>1. d \in Int /\ WalkLimit \in Nat
    BY RecurrenceAssumption
  <1>2. PICK e \in (d + 1)..(d + WalkLimit) : e \notin NonWorking
    BY RecurrenceAssumption
  <1>3. e \in S
    BY <1>2 DEF IsWorkingDay
  <1>4. Min(S) \in S
    <2>1. S \in SUBSET ((d + 1)..(d + WalkLimit)) /\ S # {} /\ d + WalkLimit \in Int /\ d + 1 \in Int
      BY <1>1, <1>3
    <2> HIDE DEF S
    <2>2. QED
      BY <2>1, MinOfInterval
  <1>5. Walk(d, 1) = Min(S)
    BY DEF Walk
  <1>6. QED
    BY <1>4, <1>5

\* Where a date goes: to a working day, unless the policy is "none"; and back only
\* when the policy says so and no day in between is a working day.
LEMMA AdjustMoves ==
    ASSUME NEW d \in Int, NEW adj \in {"none", "next", "previous", "nearest"}, NEW x,
           x = AdjustWorkingDay(d, adj)
    PROVE  /\ x \in (d - WalkLimit)..(d + WalkLimit)
           /\ adj # "none" => IsWorkingDay(x)
           /\ x < d => adj \in {"previous", "nearest"} /\ (x + 1)..d \subseteq NonWorking
  <1>1. WalkLimit \in Nat
    BY RecurrenceAssumption
  <1>2. CASE adj = "none" \/ IsWorkingDay(d)
    <2>1. x = d
      BY <1>2 DEF AdjustWorkingDay
    <2>2. QED
      BY <1>1, <1>2, <2>1
  <1>3. CASE adj # "none" /\ ~IsWorkingDay(d)
    <2>1. d \in NonWorking
      BY <1>3 DEF IsWorkingDay
    <2>2. /\ Walk(d, 1) \in (d + 1)..(d + WalkLimit) /\ IsWorkingDay(Walk(d, 1))
          /\ Walk(d, -1) \in (d - WalkLimit)..(d - 1) /\ IsWorkingDay(Walk(d, -1))
          /\ (Walk(d, -1) + 1)..d \subseteq NonWorking
      BY <2>1, WalkBack, WalkForward
    <2>3. x = Walk(d, 1) \/ (x = Walk(d, -1) /\ adj \in {"previous", "nearest"})
      BY <1>3 DEF AdjustWorkingDay
    <2>4. CASE x = Walk(d, 1)
      BY <1>1, <2>2, <2>4
    <2>5. CASE x = Walk(d, -1) /\ adj \in {"previous", "nearest"}
      BY <1>1, <2>2, <2>5
    <2>6. QED
      BY <2>3, <2>4, <2>5
  <1>4. QED
    BY <1>2, <1>3

\* What an occurrence rule is: the arguments of expand_occurrences.
AnySpec == [dtstart : Int, interval : Nat \ {0}, until : Int, count : Nat,
            adjust : {"none", "next", "previous", "nearest"}]

\* The dates of a rule are days.
LEMMA RuleYieldsDays ==
    ASSUME NEW spec \in AnySpec, NEW lastDay \in Int
    PROVE  ToSet(Rule(spec, lastDay)) \subseteq Int
  <1> DEFINE k == (Min({spec.until, lastDay}) - spec.dtstart) \div spec.interval + 1
  <1>1. spec.dtstart \in Int /\ spec.interval \in Int
    BY DEF AnySpec
  <1>2. Rule(spec, lastDay) = [n \in 1..k |-> spec.dtstart + (n - 1) * spec.interval]
    BY DEF Rule
  <1> HIDE DEF k
  <1>3. \A n \in 1..k : spec.dtstart + (n - 1) * spec.interval \in Int
    BY <1>1
  <1>4. \A x \in ToSet(Rule(spec, lastDay)) : \E n \in DOMAIN Rule(spec, lastDay) : x = Rule(spec, lastDay)[n]
    BY <1>2 DEF ToSet
  <1>5. QED
    BY <1>2, <1>3, <1>4

\* Every date whose occurrence lies in the window is looked at, unless the scan
\* ends too early.
LEMMA ScanReachesTheWindow ==
    ASSUME NEW spec \in AnySpec, NEW lo \in Int, NEW hi \in Int, ~LosesDates(spec, hi),
           NEW d \in Int, AdjustWorkingDay(d, spec.adjust) \in lo..hi
    PROVE  d < EndOfScan(spec) /\ (spec.count = 0 => d <= hi + CutOff)
  <1>1. /\ spec.adjust \in {"none", "next", "previous", "nearest"}
        /\ CutOff \in Nat /\ EndOfScan(spec) \in Int
    BY RecurrenceAssumption DEF AnySpec, EndOfScan
  <1>2. PICK x : x = AdjustWorkingDay(d, spec.adjust)
    OBVIOUS
  <1>3. x \in Int /\ x <= hi
    BY <1>2
  <1>4. x < d => spec.adjust \in {"previous", "nearest"} /\ (x + 1)..d \subseteq NonWorking
    BY <1>1, <1>2, AdjustMoves
  <1>5. ASSUME NEW stop \in Int, hi < stop, stop <= d
        PROVE  ShutThrough(spec, hi, stop)
    <2>1. x < d /\ (hi + 1)..stop \subseteq (x + 1)..d
      BY <1>3, <1>5
    <2>2. QED
      BY <1>4, <2>1 DEF ShutThrough
  <1>6. hi < EndOfScan(spec)
    BY <1>1 DEF LosesDates
  <1>7. d < EndOfScan(spec)
    BY <1>1, <1>5, <1>6 DEF LosesDates
  <1>8. ASSUME spec.count = 0 PROVE d <= hi + CutOff
    <2>1. hi + CutOff + 1 \in Int /\ hi < hi + CutOff + 1
      BY <1>1
    <2>2. ~(hi + CutOff + 1 <= d)
      BY <1>5, <1>8, <2>1 DEF LosesDates
    <2>3. QED
      BY <1>1, <2>2
  <1>9. QED
    BY <1>7, <1>8

(* For every rule, calendar, window and set of skipped dates,                *)
(* expand_occurrences returns days of the series in its window only, and all *)
(* of them unless its scan ends too early: a shutdown that covers every day  *)
(* from the window past the cut-off, or past the last date it may look at.   *)
(* A skipped date uses up no COUNT.                                          *)
THEOREM ExpansionIsTheSeries ==
    ASSUME NEW spec \in AnySpec, NEW lo \in Int, NEW hi \in Int, NEW exdates,
           NEW lastDay \in Int
    PROVE  FindsTheSeries(spec, lo, hi, exdates, lastDay)
  <1> DEFINE dates   == ToSet(Rule(spec, lastDay))
             scanned == {d \in dates : d < EndOfScan(spec) /\ (spec.count = 0 => d <= hi + CutOff)}
             counted(live) == {d \in live : \/ spec.count = 0
                                            \/ Cardinality({e \in live : e < d}) < spec.count}
             shifted(S) == {AdjustWorkingDay(d, spec.adjust) : d \in S}
  <1>1. ExpandOccurrences(spec, lo, hi, exdates, lastDay)
          = shifted(counted(scanned \ exdates)) \intersect lo..hi
    BY DEF ExpandOccurrences
  <1>2. Series(spec, exdates, lastDay) = shifted(counted(dates \ exdates))
    BY DEF Series
  <1>3. dates \subseteq Int /\ EndOfScan(spec) \in Int
    BY RuleYieldsDays, RecurrenceAssumption DEF AnySpec, EndOfScan
  <1>4. counted(scanned \ exdates) = counted(dates \ exdates) \intersect scanned
    <2>1. CASE spec.count = 0
      BY <2>1
    <2>2. CASE spec.count # 0
      <3>1. scanned = {d \in dates : d < EndOfScan(spec)}
        BY <2>2
      <3> HIDE DEF dates, scanned
      <3>2. ASSUME NEW d \in scanned
            PROVE  {e \in scanned \ exdates : e < d} = {e \in dates \ exdates : e < d}
        <4>1. d \in Int /\ d < EndOfScan(spec)
          BY <1>3, <3>1
        <4>2. \A e \in dates : e < d => e \in scanned
          <5>1. ASSUME NEW e \in dates, e < d PROVE e < EndOfScan(spec)
            BY <1>3, <4>1, <5>1
          <5>2. QED
            BY <3>1, <5>1
        <4>3. scanned \subseteq dates
          BY <3>1
        <4>4. QED
          BY <4>2, <4>3
      <3>3. scanned \subseteq dates
        BY <3>1
      <3>4. QED
        BY <3>2, <3>3
    <2>3. QED
      BY <2>1, <2>2
  <1>5. ASSUME ~LosesDates(spec, hi), NEW d \in counted(dates \ exdates),
               AdjustWorkingDay(d, spec.adjust) \in lo..hi
        PROVE  d \in scanned
    <2>1. d \in dates /\ d \in Int
      BY <1>3
    <2>2. QED
      BY <1>5, <2>1, ScanReachesTheWindow
  <1> HIDE DEF counted, dates, scanned
  <1>6. shifted(counted(scanned \ exdates)) \subseteq shifted(counted(dates \ exdates))
    BY <1>4
  <1>7. ~LosesDates(spec, hi) =>
          shifted(counted(scanned \ exdates)) \intersect lo..hi
            = shifted(counted(dates \ exdates)) \intersect lo..hi
    BY <1>4, <1>5
  <1>8. QED
    BY <1>1, <1>2, <1>6, <1>7 DEF FindsTheSeries

(* Under a working-day policy no occurrence lies on a weekend or a holiday,   *)
(* and none is further from its date than _walk looks.                       *)
THEOREM OccurrencesOnWorkingDays ==
    ASSUME NEW spec \in AnySpec, spec.adjust # "none", NEW exdates, NEW lastDay \in Int,
           NEW o \in Series(spec, exdates, lastDay)
    PROVE  /\ IsWorkingDay(o)
           /\ \E d \in ToSet(Rule(spec, lastDay)) : o \in (d - WalkLimit)..(d + WalkLimit)
  <1>1. PICK d \in ToSet(Rule(spec, lastDay)) : o = AdjustWorkingDay(d, spec.adjust)
    BY DEF Series
  <1>2. d \in Int /\ spec.adjust \in {"none", "next", "previous", "nearest"}
    BY RuleYieldsDays DEF AnySpec
  <1>3. QED
    BY <1>1, <1>2, AdjustMoves

\* Without COUNT a window never yields a day outside the rule, whatever was
\* skipped: what materialize plans stays within the series.
LEMMA ExpansionWithinSeries ==
    ASSUME NEW spec, spec.count = 0, NEW lo, NEW hi, NEW exdates, NEW lastDay
    PROVE  /\ ExpandOccurrences(spec, lo, hi, exdates, lastDay) \subseteq Series(spec, {}, lastDay)
           /\ ExpandOccurrences(spec, lo, hi, exdates, lastDay) \subseteq lo..hi
  <1> DEFINE dates == ToSet(Rule(spec, lastDay))
             f(d) == AdjustWorkingDay(d, spec.adjust)
  <1>1. Series(spec, {}, lastDay) = {f(d) : d \in dates}
    BY DEF Series
  <1>2. \A x \in ExpandOccurrences(spec, lo, hi, exdates, lastDay) :
           x \in lo..hi /\ \E d \in dates : x = f(d)
    BY DEF ExpandOccurrences
  <1>3. QED
    BY <1>1, <1>2

-----------------------------------------------------------------------------
(* What a run reads and holds.                                               *)

\* The stage of a run tells which fields it has.
LEMMA RunStages ==
    ASSUME RecShapes, NEW w \in Worker
    PROVE  /\ run[w] \in Runs
           /\ run[w].pc \in {"idle", "list", "read", "write"}
           /\ run[w].pc = "list" => run[w] \in Listing
           /\ run[w].pc = "read" => run[w] \in Reading
           /\ run[w].pc = "write" => run[w] \in Writing
  <1>1. run[w] \in Runs
    BY DEF RecShapes
  <1>2. run[w] = Idle => run[w].pc = "idle"
    BY DEF Idle
  <1>3. /\ run[w] \in Listing => run[w].pc = "list"
        /\ run[w] \in Reading => run[w].pc = "read"
        /\ run[w] \in Writing => run[w].pc = "write"
    BY DEF Listing, Reading, Writing
  <1>4. QED
    BY <1>1, <1>2, <1>3 DEF Runs

\* The constants in the form the steps use.
LEMMA RecConstants ==
    /\ Pattern \subseteq Nat /\ NoWorker \notin Worker /\ Lead \in Nat
    /\ BatchSize \in Nat \ {0} /\ MaxDay \in Nat \ {0} /\ CutOff \in Nat
    /\ Day \subseteq Nat /\ LastDay \in Nat /\ 0 \notin Day
    /\ \A b \in RecBudgets : b.first \subseteq Pattern /\ b.ops \in Nat /\ b.faults \in Nat
  BY RecurringAssumption, RecurrenceAssumption DEF Day, LastDay

\* A live pattern has all its columns.
LEMMA LiveRow ==
    ASSUME RecShapes, NEW p \in Pattern, Live(p)
    PROVE  pattern[p] \in LivePatterns /\ pattern[p].spec \in Specs
  BY DEF RecShapes, Live, NoPattern, Deleted, LivePatterns

\* _latest_instance returns the instance scheduled last.
LEMMA LatestIsLast ==
    ASSUME NEW p \in Pattern, Existing(p) # {}
    PROVE  /\ Latest(p) \in Existing(p) /\ Latest(p) \in Nat \ {0}
           /\ \A o \in Existing(p) : o <= Latest(p)
  <1> DEFINE a == 1
             b == MaxDay + Lead
  <1>1. Existing(p) \in SUBSET (a..b) /\ a \in Int /\ b \in Int
    BY RecConstants DEF Existing, Day
  <1>2. Max(Existing(p)) \in Existing(p) /\ \A o \in Existing(p) : o <= Max(Existing(p))
    <2> HIDE DEF a, b
    <2>1. QED
      BY <1>1, MaxOfSet
  <1>3. QED
    BY <1>1, <1>2 DEF Latest

\* materialize plans only days of the pattern's rule; for a flexible pattern that
\* has instances it plans something only when the latest of them was closed.
LEMMA PlanIsSound ==
    ASSUME RecShapes, ClosedOnADay, NEW p \in Pattern, Live(p), NEW day \in Nat, NEW seen
    PROVE  /\ Materialize(p, day, seen) \in SUBSET Int
           /\ Materialize(p, day, seen) \subseteq Series(pattern[p].spec, {}, LastDay)
           /\ pattern[p].mode = "flexible" /\ Existing(p) # {} /\ Materialize(p, day, seen) # {}
                 => instance[p][Latest(p)].at # 0
  <1>0. /\ pattern[p] \in LivePatterns
        /\ pattern[p].spec.dtstart \in Nat /\ pattern[p].spec.count = 0
        /\ Lead \in Nat
    BY LiveRow, RecConstants DEF Specs
  <1> DEFINE spec == pattern[p].spec
             from(lo) == ExpandOccurrences(spec, lo, day + Lead, Skips(seen), LastDay)
             first(S) == IF S = {} THEN {} ELSE {Min(S)}
  <1>1. \A lo : from(lo) \subseteq Series(spec, {}, LastDay) /\ from(lo) \subseteq lo..(day + Lead)
    BY <1>0, ExpansionWithinSeries
  <1>2. ASSUME pattern[p].mode = "fixed"
        PROVE  /\ Materialize(p, day, seen) \subseteq from(spec.dtstart)
    BY <1>2 DEF Materialize, MaterializeFixed
  <1> HIDE DEF from
  <1>3. \A lo \in Nat : \A S \in SUBSET from(lo) : first(S) \subseteq S /\ S \subseteq Int
    <2> SUFFICES ASSUME NEW lo \in Nat, NEW S \in SUBSET from(lo) PROVE first(S) \subseteq S /\ S \subseteq Int
      OBVIOUS
    <2>1. S \in SUBSET Nat
      BY <1>0, <1>1
    <2>2. S # {} => Min(S) \in S
      BY <2>1, MinOfSet
    <2>3. QED
      BY <2>1, <2>2
  <1>4. CASE pattern[p].mode = "fixed"
    <2>1. Materialize(p, day, seen) \subseteq from(spec.dtstart)
      BY <1>2, <1>4
    <2>2. from(spec.dtstart) \subseteq Int
      BY <1>0, <1>3
    <2>3. QED
      BY <1>1, <1>4, <2>1, <2>2
  <1>5. CASE pattern[p].mode = "flexible"
    <2>0. Materialize(p, day, seen) =
            IF Existing(p) = {}
              THEN first(from(spec.dtstart))
            ELSE IF instance[p][Latest(p)].st # "closed"
              THEN {}
              ELSE first({o \in from(Anchor(p)) : o > Anchor(p)}) \ Existing(p)
      BY <1>5 DEF Materialize, MaterializeFlexible, from
    <2>1. CASE Existing(p) = {}
      <3>1. first(from(spec.dtstart)) \subseteq from(spec.dtstart) /\ from(spec.dtstart) \subseteq Int
        BY <1>0, <1>3
      <3>2. QED
        BY <1>1, <2>0, <2>1, <3>1
    <2>2. CASE Existing(p) # {}
      <3>1. Latest(p) \in Existing(p) /\ Latest(p) \in Nat /\ Latest(p) \in Day
        BY <2>2, LatestIsLast DEF Existing
      <3>2. instance[p][Latest(p)] \in IssueRows
        BY <3>1 DEF RecShapes
      <3>3. Anchor(p) \in Nat
        BY <3>1, <3>2 DEF Anchor, IssueRows
      <3> DEFINE later == {o \in from(Anchor(p)) : o > Anchor(p)}
      <3>4. first(later) \subseteq later /\ later \subseteq Int
        BY <1>3, <3>3
      <3>5. instance[p][Latest(p)].st = "closed" => instance[p][Latest(p)].at # 0
        BY <3>1 DEF ClosedOnADay
      <3>6. QED
        BY <1>1, <2>0, <2>2, <3>4, <3>5
    <2>3. QED
      BY <2>1, <2>2
  <1>6. QED
    BY <1>0, <1>4, <1>5 DEF LivePatterns

-----------------------------------------------------------------------------
(* Runs that another actor's step leaves at their stage.                     *)

\* The run of w stands still, and what it holds is as good as before: a row of
\* its page that changed is stale or deleted, and a row that did not change got
\* no new instance and kept the closing days of the ones it has.
Steady(w) ==
    /\ run'[w].pc = run[w].pc
    /\ run[w].pc \in {"read", "write"} =>
          /\ run'[w].batch = run[w].batch /\ run[w].stale \subseteq run'[w].stale
          /\ \A p \in run[w].batch :
                /\ pattern[p] # NoPattern => pattern'[p] # NoPattern
                /\ p \notin run'[w].stale /\ pattern'[p].st = "live" =>
                      /\ pattern'[p] = pattern[p]
                      /\ \A o \in Day : instance'[p][o].st # "none" =>
                            /\ instance[p][o].st # "none"
                            /\ instance[p][o].at # 0 => instance'[p][o].at # 0
    /\ run[w].pc = "write" => run'[w].plan = run[w].plan /\ run'[w].latest = run[w].latest

\* A run that stands still keeps its page and its plan.
LEMMA SteadyRunHolds ==
    ASSUME RecInv, NEW w \in Worker, Steady(w)
    PROVE  PageHolds(run[w])' /\ PlanHolds(run[w])'
  <1>0. RecShapes /\ PageHolds(run[w]) /\ PlanHolds(run[w])
    BY DEF RecInv, PagesHold, PlansHold
  <1>1. PageHolds(run[w])'
    BY <1>0 DEF Steady, PageHolds, Live
  <1>2. PlanHolds(run[w])'
    <2> SUFFICES ASSUME run'[w].pc = "write", Current(run'[w]) \notin run'[w].stale,
                        pattern'[Current(run'[w])].st = "live"
                 PROVE  /\ run'[w].plan \subseteq Series(pattern'[Current(run'[w])].spec, {}, LastDay)
                        /\ pattern'[Current(run'[w])].mode = "flexible" /\ run'[w].plan # {} =>
                             /\ \A o \in Existing(Current(run[w]))' : o <= run'[w].latest
                             /\ run'[w].latest \in Existing(Current(run[w]))' =>
                                   instance'[Current(run'[w])][run'[w].latest].at # 0
      BY DEF PlanHolds, Live
    <2>1. /\ run[w].pc = "write" /\ run'[w].batch = run[w].batch
          /\ run'[w].plan = run[w].plan /\ run'[w].latest = run[w].latest
          /\ run[w].stale \subseteq run'[w].stale
      BY DEF Steady
    <2>2. Current(run'[w]) = Current(run[w])
      BY <2>1 DEF Current
    <2>3. PICK p : p = Current(run[w])
      OBVIOUS
    <2>4. run[w].batch \in SUBSET Nat /\ run[w].batch # {} /\ run[w].batch \subseteq Pattern
      <3>1. run[w] \in Writing
        BY <1>0, <2>1, RunStages
      <3>2. QED
        BY <1>0, <2>1, <3>1, RecConstants DEF Writing, PageHolds
    <2>5. p \in run[w].batch /\ p \in Pattern
      BY <2>3, <2>4, MinOfSet DEF Current
    <2>6. /\ pattern'[p] = pattern[p] /\ pattern[p].st = "live" /\ p \notin run[w].stale
          /\ \A o \in Day : instance'[p][o].st # "none" =>
                            /\ instance[p][o].st # "none"
                            /\ instance[p][o].at # 0 => instance'[p][o].at # 0
      BY <2>1, <2>2, <2>3, <2>5 DEF Steady
    <2>7. /\ run[w].plan \subseteq Series(pattern[p].spec, {}, LastDay)
          /\ pattern[p].mode = "flexible" /\ run[w].plan # {} =>
                  /\ \A o \in Existing(p) : o <= run[w].latest
                  /\ run[w].latest \in Existing(p) => instance[p][run[w].latest].at # 0
      BY <1>0, <2>1, <2>3, <2>6 DEF PlanHolds, Live
    <2>8. \A o \in Existing(p)' : o \in Existing(p) /\ (instance[p][o].at # 0 => instance'[p][o].at # 0)
      BY <2>6 DEF Existing, Day
    <2>9. Existing(Current(run[w]))' = Existing(p)'
      BY <2>2, <2>3 DEF Existing
    <2>10. QED
      BY <2>1, <2>2, <2>3, <2>6, <2>7, <2>8, <2>9
  <1>3. QED
    BY <1>1, <1>2

\* A step under which every run stands still keeps the pages and the plans.
LEMMA AllSteady ==
    ASSUME RecInv, \A v \in Worker : Steady(v)
    PROVE  PagesHold' /\ PlansHold'
  BY SteadyRunHolds DEF PagesHold, PlansHold

\* A step of one run keeps them when its own page and plan are sound after it.
LEMMA OthersSteady ==
    ASSUME RecInv, NEW w \in Worker, \A v \in Worker \ {w} : Steady(v),
           PageHolds(run[w])', PlanHolds(run[w])'
    PROVE  PagesHold' /\ PlansHold'
  BY SteadyRunHolds DEF PagesHold, PlansHold

\* Touch marks p in every page that holds it and changes nothing else: the version
\* counter of the row no longer matches.
LEMMA TouchMarks ==
    ASSUME RecShapes, NEW p \in Pattern, NEW x
    PROVE  /\ Touch(run, p, x) \in [Worker -> Runs]
           /\ \A v \in Worker :
                 LET r == Touch(run, p, x)[v]
                 IN  /\ v = x \/ run[v].pc \notin {"read", "write"} => r = run[v]
                     /\ r.pc = run[v].pc
                     /\ run[v].pc \in {"read", "write"} =>
                           /\ r.batch = run[v].batch /\ run[v].stale \subseteq r.stale
                           /\ v # x /\ p \in run[v].batch => p \in r.stale
                     /\ run[v].pc = "write" => r.plan = run[v].plan /\ r.latest = run[v].latest
  <1> DEFINE t(v) == IF v # x /\ run[v].pc \in {"read", "write"} /\ p \in run[v].batch
                       THEN [run[v] EXCEPT !.stale = @ \union {p}] ELSE run[v]
  <1>1. Touch(run, p, x) = [v \in Worker |-> t(v)]
    BY DEF Touch
  <1>2. ASSUME NEW v \in Worker
        PROVE  /\ t(v) \in Runs
               /\ v = x \/ run[v].pc \notin {"read", "write"} => t(v) = run[v]
               /\ t(v).pc = run[v].pc
               /\ run[v].pc \in {"read", "write"} =>
                     /\ t(v).batch = run[v].batch /\ run[v].stale \subseteq t(v).stale
                     /\ v # x /\ p \in run[v].batch => p \in t(v).stale
               /\ run[v].pc = "write" => t(v).plan = run[v].plan /\ t(v).latest = run[v].latest
    <2>1. CASE ~(v # x /\ run[v].pc \in {"read", "write"} /\ p \in run[v].batch)
      <3>1. t(v) = run[v] /\ run[v] \in Runs
        BY <2>1, RunStages
      <3>2. QED
        BY <2>1, <3>1
    <2>2. CASE v # x /\ run[v].pc = "read" /\ p \in run[v].batch
      <3>1. run[v] \in Reading /\ t(v) = [run[v] EXCEPT !.stale = @ \union {p}]
        BY <2>2, RunStages
      <3>2. t(v) \in Reading
        BY <3>1 DEF Reading
      <3>3. t(v).pc = "read" /\ t(v).batch = run[v].batch /\ t(v).stale = run[v].stale \union {p}
        BY <2>2, <3>1 DEF Reading
      <3>4. QED
        BY <2>2, <3>2, <3>3 DEF Runs
    <2>3. CASE v # x /\ run[v].pc = "write" /\ p \in run[v].batch
      <3>1. run[v] \in Writing /\ t(v) = [run[v] EXCEPT !.stale = @ \union {p}]
        BY <2>3, RunStages
      <3>2. t(v) \in Writing
        BY <3>1 DEF Writing
      <3>3. /\ t(v).pc = "write" /\ t(v).batch = run[v].batch /\ t(v).stale = run[v].stale \union {p}
            /\ t(v).plan = run[v].plan /\ t(v).latest = run[v].latest
        BY <2>3, <3>1 DEF Writing
      <3>4. QED
        BY <2>3, <3>2, <3>3 DEF Runs
    <2>4. QED
      BY <2>1, <2>2, <2>3
  <1> HIDE DEF t
  <1>3. QED
    BY <1>1, <1>2

\* The pattern a run is at is one of its page.
LEMMA CurrentOfPage ==
    ASSUME RecShapes, PagesHold, NEW w \in Worker, run[w].pc \in {"read", "write"}
    PROVE  /\ Current(run[w]) \in run[w].batch /\ Current(run[w]) \in Pattern
           /\ run[w].batch \in SUBSET Pattern /\ Rest(run[w]) \subseteq run[w].batch
  <1>1. run[w].batch \in SUBSET Pattern
    BY RunStages DEF Reading, Writing
  <1>2. run[w].batch \in SUBSET Nat /\ run[w].batch # {}
    BY <1>1, RecConstants DEF PagesHold, PageHolds
  <1>3. Min(run[w].batch) \in run[w].batch
    BY <1>2, MinOfSet
  <1>4. QED
    BY <1>1, <1>3 DEF Current, Rest

\* A run that is done with a pattern goes on in its page, asks for the next page or
\* ends (_generate_for_session).
LEMMA NextPatternMoves ==
    ASSUME RecShapes, PagesHold, NEW w \in Worker, run[w].pc = "write",
           NEW r \in [Worker -> Runs], r[w] = run[w], NextPattern(w, r)
    PROVE  /\ run' \in [Worker -> Runs] /\ lock' \in Worker \union {NoWorker}
           /\ \A v \in Worker \ {w} : run'[v] = r[v]
           /\ run'[w].pc \in {"idle", "list", "read"}
           /\ run'[w].pc = "read" => /\ run'[w].batch # {} /\ run'[w].batch \subseteq run[w].batch
                                     /\ run'[w].stale = run[w].stale
  <1>0. /\ run[w] \in Writing /\ Rest(run[w]) \subseteq run[w].batch
        /\ lock \in Worker \union {NoWorker} /\ BatchSize \in Nat
    BY RunStages, CurrentOfPage, RecConstants DEF RecShapes
  <1> DEFINE next == IF LastOfRun(r[w]) THEN Idle ELSE Advance(r[w])
  <1>1. run' = [r EXCEPT ![w] = next]
    BY DEF NextPattern
  <1>2. lock' \in Worker \union {NoWorker}
    BY <1>0 DEF NextPattern
  <1>3. CASE LastOfRun(run[w])
    <2>1. next = Idle
      BY <1>3
    <2>2. Idle \in Runs /\ Idle.pc = "idle"
      BY DEF Runs, Idle
    <2> HIDE DEF next
    <2>3. QED
      BY <1>1, <1>2, <2>1, <2>2
  <1>4. CASE ~LastOfRun(run[w]) /\ Rest(run[w]) # {}
    <2>1. next = [pc |-> "read", now |-> run[w].now, offset |-> run[w].offset, batch |-> Rest(run[w]),
                  full |-> run[w].full, cache |-> run[w].cache, stale |-> run[w].stale]
      BY <1>4 DEF Advance
    <2> HIDE DEF next
    <2>2. next \in Reading
      BY <1>0, <2>1 DEF Writing, Reading
    <2>3. next.pc = "read" /\ next.batch = Rest(run[w]) /\ next.stale = run[w].stale
      BY <2>1
    <2>4. QED
      BY <1>0, <1>1, <1>2, <1>4, <2>2, <2>3 DEF Runs
  <1>5. CASE ~LastOfRun(run[w]) /\ Rest(run[w]) = {}
    <2>1. next = [pc |-> "list", now |-> run[w].now, offset |-> run[w].offset + BatchSize]
      BY <1>5 DEF Advance
    <2> HIDE DEF next
    <2>2. next \in Listing
      BY <1>0, <2>1 DEF Writing, Listing
    <2>3. next.pc = "list"
      BY <2>1
    <2>4. QED
      BY <1>1, <1>2, <2>2, <2>3 DEF Runs
  <1>6. QED
    BY <1>3, <1>4, <1>5

-----------------------------------------------------------------------------
(* The initial state and the steps of the generator.                         *)

\* A pattern starts with all its columns (build_spec), and is a row.
LEMMA NewPatternRow ==
    ASSUME NEW rule \in Rules, NEW start \in Nat
    PROVE  /\ NewPattern(rule, start) \in LivePatterns
           /\ NewPattern(rule, start).st = "live" /\ NewPattern(rule, start).enabled = TRUE
           /\ NewPattern(rule, start) # NoPattern
  <1>1. /\ rule.mode \in {"fixed", "flexible"} /\ rule.base \in {"scheduled", "completion"}
        /\ rule.interval \in Nat \ {0} /\ rule.adjust \in {"none", "next", "previous", "nearest"}
    BY RecurringAssumption
  <1>2. LastDay \in Int
    BY RecConstants
  <1>3. [dtstart |-> start, interval |-> rule.interval, until |-> LastDay,
         count |-> 0, adjust |-> rule.adjust] \in Specs
    BY <1>1, <1>2 DEF Specs
  <1>4. NewPattern(rule, start) \in LivePatterns
    BY <1>1, <1>3 DEF NewPattern, LivePatterns
  <1>5. NewPattern(rule, start).st = "live" /\ NewPattern(rule, start).enabled = TRUE
    BY DEF NewPattern
  <1>6. NoPattern.st = "unused"
    BY DEF NoPattern
  <1>7. QED
    BY <1>4, <1>5, <1>6

\* The invariant holds before any run: patterns without instances, nobody at work.
LEMMA RecInitHolds ==
    ASSUME RecInit
    PROVE  RecInv
  <1>1. PICK rule \in [recBudget.first -> Rules] :
           pattern = [p \in Pattern |->
              IF p \in recBudget.first THEN NewPattern(rule[p], 1) ELSE NoPattern]
    BY DEF RecInit
  <1>2. \A p \in Pattern : pattern[p] \in {NoPattern, Deleted} \union LivePatterns
    BY <1>1, NewPatternRow
  <1>3. pattern \in [Pattern -> {NoPattern, Deleted} \union LivePatterns]
    BY <1>1, <1>2
  <1>4. NoIssueYet \in IssueRows /\ NoIssueYet.st = "none"
    BY DEF NoIssueYet, IssueRows
  <1>5. instance \in [Pattern -> [Day -> IssueRows]] /\ \A p \in Pattern, o \in Day : instance[p][o] = NoIssueYet
    BY <1>4 DEF RecInit
  <1>6. exc \in [Pattern -> [Day -> Kinds]]
    BY DEF RecInit, NoExceptions, Kinds
  <1>7. Idle \in Runs /\ Idle.pc = "idle"
    BY DEF Runs, Idle
  <1>8. run \in [Worker -> Runs] /\ \A w \in Worker : run[w].pc = "idle"
    BY <1>7 DEF RecInit
  <1>9. /\ recBudget \in RecBudgets /\ ops = 0 /\ faults = 0 /\ today = 1 /\ lock = NoWorker
    BY DEF RecInit
  <1>10. ops \in 0..recBudget.ops /\ faults \in 0..recBudget.faults /\ today \in 1..MaxDay
    BY <1>9, RecConstants
  <1>11. RecShapes
    BY <1>3, <1>5, <1>6, <1>8, <1>9, <1>10 DEF RecShapes
  <1>12. ClosedOnADay
    BY <1>4, <1>5 DEF ClosedOnADay
  <1>13. PagesHold /\ PlansHold
    BY <1>8 DEF PagesHold, PlansHold, PageHolds, PlanHolds
  <1>14. QED
    BY <1>11, <1>12, <1>13 DEF RecInv

\* Starting, ending and crashing: one run moves to a stage without a page, and the
\* tables stay as they are.
LEMMA OneRunMoves ==
    ASSUME RecInv, NEW w \in Worker, UNCHANGED <<today, pattern, instance, exc, recBudget>>,
           NEW next \in {Idle} \union Listing, run' = [run EXCEPT ![w] = next],
           lock' \in Worker \union {NoWorker},
           ops' \in 0..recBudget.ops, faults' \in 0..recBudget.faults
    PROVE  RecInv'
  <1>0. RecShapes /\ ClosedOnADay /\ run \in [Worker -> Runs]
    BY DEF RecInv, RecShapes
  <1>1. next \in Runs /\ next.pc \in {"idle", "list"}
    BY DEF Runs, Idle, Listing
  <1>2. run' \in [Worker -> Runs] /\ run'[w] = next /\ \A v \in Worker \ {w} : run'[v] = run[v]
    BY <1>0, <1>1
  <1>3. RecShapes'
    BY <1>0, <1>2 DEF RecShapes
  <1>4. ClosedOnADay'
    BY <1>0 DEF ClosedOnADay
  <1>5. \A v \in Worker \ {w} : Steady(v)
    BY <1>2 DEF Steady
  <1>6. PageHolds(run[w])' /\ PlanHolds(run[w])'
    BY <1>1, <1>2 DEF PageHolds, PlanHolds
  <1>7. PagesHold' /\ PlansHold'
    BY <1>5, <1>6, OthersSteady
  <1>8. QED
    BY <1>3, <1>4, <1>7 DEF RecInv

\* StartRun keeps the invariant.
LEMMA StartRunKeepsInv ==
    ASSUME RecInv, UNCHANGED recBudget, NEW w \in Worker, StartRun(w)
    PROVE  RecInv'
  <1>0. RecShapes /\ MaxDay \in Nat
    BY RecConstants DEF RecInv
  <1>1. PICK next : next = [pc |-> "list", now |-> today, offset |-> 0]
    OBVIOUS
  <1>2. next \in Listing
    BY <1>0, <1>1 DEF RecShapes, Listing
  <1>3. /\ UNCHANGED <<today, pattern, instance, exc, recBudget>> /\ run' = [run EXCEPT ![w] = next]
        /\ lock' \in Worker \union {NoWorker}
        /\ ops' \in 0..recBudget.ops /\ faults' \in 0..recBudget.faults
    BY <1>0, <1>1 DEF StartRun, RecShapes
  <1>4. QED
    BY <1>2, <1>3, OneRunMoves

\* EndRun, as ListBatch takes it on an empty page and AbortRun after a failed flush.
LEMMA EndRunKeepsInv ==
    ASSUME RecInv, NEW w \in Worker, EndRun(w),
           UNCHANGED <<today, pattern, instance, exc, ops, faults, recBudget>>
    PROVE  RecInv'
  <1>0. RecShapes
    BY DEF RecInv
  <1>1. /\ run' = [run EXCEPT ![w] = Idle] /\ lock' \in Worker \union {NoWorker}
        /\ ops' \in 0..recBudget.ops /\ faults' \in 0..recBudget.faults
    BY <1>0 DEF EndRun, RecShapes
  <1>2. QED
    BY <1>1, OneRunMoves

\* ListBatch keeps the invariant: a page holds enabled patterns only.
LEMMA ListBatchKeepsInv ==
    ASSUME RecInv, UNCHANGED recBudget, NEW w \in Worker, ListBatch(w)
    PROVE  RecInv'
  <1>0. /\ RecShapes /\ ClosedOnADay /\ run \in [Worker -> Runs]
        /\ run[w].pc = "list" /\ UNCHANGED <<today, pattern, instance, exc, ops, faults>>
    BY DEF RecInv, RecShapes, ListBatch
  <1>1. PICK page : page = Page(run[w].offset)
    OBVIOUS
  <1>2. CASE page = {}
    <2>1. EndRun(w)
      BY <1>1, <1>2 DEF ListBatch
    <2>2. QED
      BY <1>0, <2>1, EndRunKeepsInv
  <1>3. CASE page # {}
    <2>1. PICK next : next = [pc |-> "read", now |-> run[w].now, offset |-> run[w].offset,
                              batch |-> page, full |-> Cardinality(page) = BatchSize,
                              cache |-> [p \in page |-> exc[p]], stale |-> {}]
      OBVIOUS
    <2>2. run' = [run EXCEPT ![w] = next] /\ UNCHANGED lock
      BY <1>1, <1>3, <2>1 DEF ListBatch
    <2>3. page \subseteq Pattern /\ \A p \in page : Enabled(p)
      BY <1>1 DEF Page
    <2>4. [p \in page |-> exc[p]] \in Caches
      <3>1. [p \in page |-> exc[p]] \in [page -> [Day -> Kinds]]
        BY <1>0, <2>3 DEF RecShapes
      <3>2. QED
        BY <2>3, <3>1 DEF Caches
    <2>5. run[w].now \in Nat /\ run[w].offset \in Nat
      BY <1>0, RunStages DEF Listing
    <2>6. (Cardinality(page) = BatchSize) \in BOOLEAN
      OBVIOUS
    <2>7. next \in Reading
      BY <2>1, <2>3, <2>4, <2>5, <2>6 DEF Reading
    <2>8. next.pc = "read" /\ next.batch = page
      BY <2>1
    <2>9. run' \in [Worker -> Runs] /\ run'[w] = next /\ \A v \in Worker \ {w} : run'[v] = run[v]
      BY <1>0, <2>2, <2>7 DEF Runs
    <2>10. RecShapes'
      BY <1>0, <2>2, <2>9 DEF RecShapes
    <2>11. ClosedOnADay'
      BY <1>0 DEF ClosedOnADay
    <2>12. \A v \in Worker \ {w} : Steady(v)
      BY <1>0, <2>9 DEF Steady
    <2>13. \A p \in page : pattern[p] # NoPattern /\ pattern[p].enabled
      <3>1. NoPattern.st = "unused"
        BY DEF NoPattern
      <3>2. QED
        BY <2>3, <3>1 DEF Enabled, Live
    <2>14. PageHolds(run[w])'
      BY <1>0, <1>3, <2>8, <2>9, <2>13 DEF PageHolds
    <2>15. PlanHolds(run[w])'
      BY <2>8, <2>9 DEF PlanHolds
    <2>16. PagesHold' /\ PlansHold'
      BY <2>12, <2>14, <2>15, OthersSteady
    <2>17. QED
      BY <2>10, <2>11, <2>16 DEF RecInv
  <1>4. QED
    BY <1>2, <1>3

\* ReadPattern keeps the invariant: what materialize decides now is sound now.
LEMMA ReadPatternKeepsInv ==
    ASSUME RecInv, UNCHANGED recBudget, NEW w \in Worker, ReadPattern(w)
    PROVE  RecInv'
  <1>0. /\ RecShapes /\ ClosedOnADay /\ PagesHold /\ run \in [Worker -> Runs]
        /\ run[w].pc = "read" /\ UNCHANGED <<today, pattern, instance, exc, lock, ops, faults>>
    BY DEF RecInv, RecShapes, ReadPattern
  <1>1. PICK p : p = Current(run[w])
    OBVIOUS
  <1>2. PICK seen : seen = [o \in Day |-> IF run[w].cache[p][o] # "none"
                                 THEN run[w].cache[p][o] ELSE exc[p][o]]
    OBVIOUS
  <1>3. PICK plan : plan = IF Live(p) THEN Materialize(p, run[w].now, seen) ELSE {}
    OBVIOUS
  <1>4. PICK latest : latest = IF Existing(p) = {} THEN 0 ELSE Latest(p)
    OBVIOUS
  <1>5. PICK bad : bad = (\E o \in plan : seen[o] = "bad")
    OBVIOUS
  <1>6. PICK next : next = [pc |-> "write", now |-> run[w].now, offset |-> run[w].offset,
               batch |-> run[w].batch,
               full |-> run[w].full, cache |-> run[w].cache, stale |-> run[w].stale, plan |-> plan,
               latest |-> latest, bad |-> bad]
    OBVIOUS
  <1>7. run' = [run EXCEPT ![w] = next]
    BY <1>0, <1>1, <1>2, <1>3, <1>4, <1>5, <1>6, ZenonT(60) DEF ReadPattern
  <1>8. run[w] \in Reading /\ p \in Pattern /\ p \in run[w].batch
    BY <1>0, <1>1, RunStages, CurrentOfPage
  <1>9. /\ plan \in SUBSET Int
        /\ Live(p) => /\ plan \subseteq Series(pattern[p].spec, {}, LastDay)
                      /\ pattern[p].mode = "flexible" /\ Existing(p) # {} /\ plan # {}
                            => instance[p][Latest(p)].at # 0
    <2>1. run[w].now \in Nat
      BY <1>8 DEF Reading
    <2>2. QED
      BY <1>0, <1>3, <1>8, <2>1, PlanIsSound
  <1>10. /\ latest \in Nat /\ \A o \in Existing(p) : o <= latest
         /\ latest \in Existing(p) => Existing(p) # {} /\ latest = Latest(p)
    BY <1>4, <1>8, LatestIsLast
  <1>11. bad \in BOOLEAN
    BY <1>5
  <1>12. next \in Writing
    BY <1>6, <1>8, <1>9, <1>10, <1>11 DEF Reading, Writing
  <1>13. /\ next.pc = "write" /\ next.batch = run[w].batch /\ next.stale = run[w].stale
         /\ next.plan = plan /\ next.latest = latest
    BY <1>6
  <1>14. run' \in [Worker -> Runs] /\ run'[w] = next /\ \A v \in Worker \ {w} : run'[v] = run[v]
    BY <1>0, <1>7, <1>12 DEF Runs
  <1>15. RecShapes'
    BY <1>0, <1>14 DEF RecShapes
  <1>16. ClosedOnADay'
    BY <1>0 DEF ClosedOnADay
  <1>17. \A v \in Worker \ {w} : Steady(v)
    BY <1>0, <1>14 DEF Steady
  <1>18. PageHolds(run[w])'
    BY <1>0, <1>13, <1>14 DEF PagesHold, PageHolds, Live
  <1>19. PlanHolds(run[w])'
    <2>1. Current(next) = p
      BY <1>1, <1>13 DEF Current
    <2>2. PlanHolds(next)
      BY <1>9, <1>10, <1>13, <2>1 DEF PlanHolds
    <2>3. QED
      BY <1>0, <1>14, <2>2 DEF PlanHolds, Live, Existing
  <1>20. PagesHold' /\ PlansHold'
    BY <1>17, <1>18, <1>19, OthersSteady
  <1>21. QED
    BY <1>15, <1>16, <1>20 DEF RecInv

\* What the flush of a materialisation has checked when it succeeds.
LEMMA FlushChecked ==
    ASSUME NEW w \in Worker, ~FlushFails(w)
    PROVE  /\ Live(Current(run[w])) /\ Current(run[w]) \notin run[w].stale
           /\ \A o \in run[w].plan : instance[Current(run[w])][o].st = "none"
  BY DEF FlushFails

\* WritePattern keeps the invariant: the new instances belong to a pattern that is
\* stale in every other page now.
LEMMA WritePatternKeepsInv ==
    ASSUME RecInv, UNCHANGED recBudget, NEW w \in Worker, WritePattern(w)
    PROVE  RecInv'
  <1>0. /\ RecShapes /\ ClosedOnADay /\ PagesHold /\ run \in [Worker -> Runs]
        /\ instance \in [Pattern -> [Day -> IssueRows]]
        /\ run[w].pc = "write" /\ UNCHANGED <<today, pattern, exc, ops, faults>>
    BY DEF RecInv, RecShapes, WritePattern
  <1>1. PICK p : p = Current(run[w])
    OBVIOUS
  <1>2. p \in Pattern /\ p \in run[w].batch
    BY <1>0, <1>1, CurrentOfPage
  <1>3. PICK r : r = Touch(run, p, w)
    OBVIOUS
  <1>4. /\ r \in [Worker -> Runs] /\ r[w] = run[w]
        /\ \A v \in Worker \ {w} :
              /\ r[v].pc = run[v].pc
              /\ run[v].pc \in {"read", "write"} =>
                    /\ r[v].batch = run[v].batch /\ run[v].stale \subseteq r[v].stale
                    /\ p \in run[v].batch => p \in r[v].stale
              /\ run[v].pc = "write" => r[v].plan = run[v].plan /\ r[v].latest = run[v].latest
    BY <1>0, <1>2, <1>3, TouchMarks
  <1>5. NextPattern(w, r)
    BY <1>1, <1>3 DEF WritePattern
  <1>6. /\ run' \in [Worker -> Runs] /\ lock' \in Worker \union {NoWorker}
        /\ \A v \in Worker \ {w} : run'[v] = r[v]
        /\ run'[w].pc \in {"idle", "list", "read"}
        /\ run'[w].pc = "read" => /\ run'[w].batch # {} /\ run'[w].batch \subseteq run[w].batch
                                  /\ run'[w].stale = run[w].stale
    BY <1>0, <1>4, <1>5, NextPatternMoves
  <1>7. instance' = [instance EXCEPT ![p] = [o \in Day |->
                       IF o \in run[w].plan THEN Fresh ELSE instance[p][o]]]
    BY <1>1 DEF WritePattern
  <1>8. Fresh \in IssueRows /\ Fresh.st = "open"
    BY DEF Fresh, IssueRows
  <1>9. /\ instance' \in [Pattern -> [Day -> IssueRows]]
        /\ \A q \in Pattern \ {p} : instance'[q] = instance[q]
        /\ \A o \in Day : instance'[p][o] = IF o \in run[w].plan THEN Fresh ELSE instance[p][o]
    BY <1>0, <1>2, <1>7, <1>8
  <1>10. RecShapes'
    BY <1>0, <1>6, <1>9 DEF RecShapes
  <1>11. ClosedOnADay'
    BY <1>0, <1>2, <1>8, <1>9 DEF ClosedOnADay
  <1>12. ASSUME NEW v \in Worker \ {w} PROVE Steady(v)
    <2>1. run[v].pc \in {"read", "write"} => run[v].batch \in SUBSET Pattern
      BY <1>0, CurrentOfPage
    <2>2. QED
      BY <1>0, <1>4, <1>6, <1>9, <2>1 DEF Steady
  <1>13. PageHolds(run[w])'
    BY <1>0, <1>6 DEF PagesHold, PageHolds, Live
  <1>14. PlanHolds(run[w])'
    BY <1>6 DEF PlanHolds
  <1>15. PagesHold' /\ PlansHold'
    BY <1>12, <1>13, <1>14, OthersSteady
  <1>16. QED
    BY <1>10, <1>11, <1>15 DEF RecInv

\* AbortRun keeps the invariant.
LEMMA AbortRunKeepsInv ==
    ASSUME RecInv, UNCHANGED recBudget, NEW w \in Worker, AbortRun(w)
    PROVE  RecInv'
  BY EndRunKeepsInv DEF AbortRun

\* A fault uses one of the behaviour's faults.
LEMMA OneFaultMore ==
    ASSUME RecShapes, faults < recBudget.faults, faults' = faults + 1
    PROVE  faults' \in 0..recBudget.faults
  <1>1. recBudget.faults \in Nat /\ faults \in 0..recBudget.faults
    BY RecConstants DEF RecShapes
  <1>2. QED
    BY <1>1

\* A request uses one of the behaviour's requests.
LEMMA OneRequestMore ==
    ASSUME RecShapes, Request
    PROVE  ops' \in 0..recBudget.ops
  <1>1. recBudget.ops \in Nat /\ ops \in 0..recBudget.ops
    BY RecConstants DEF RecShapes
  <1>2. QED
    BY <1>1 DEF Request

\* MaterializeFails keeps the invariant.
LEMMA MaterializeFailsKeepsInv ==
    ASSUME RecInv, UNCHANGED recBudget, NEW w \in Worker, MaterializeFails(w)
    PROVE  RecInv'
  <1>0. /\ RecShapes /\ ClosedOnADay /\ PagesHold /\ run \in [Worker -> Runs]
        /\ run[w].pc = "write" /\ UNCHANGED <<today, pattern, instance, exc, ops>>
        /\ NextPattern(w, run)
    BY DEF RecInv, RecShapes, MaterializeFails
  <1>1. faults' \in 0..recBudget.faults
    BY <1>0, OneFaultMore DEF MaterializeFails
  <1>2. /\ run' \in [Worker -> Runs] /\ lock' \in Worker \union {NoWorker}
        /\ \A v \in Worker \ {w} : run'[v] = run[v]
        /\ run'[w].pc \in {"idle", "list", "read"}
        /\ run'[w].pc = "read" => /\ run'[w].batch # {} /\ run'[w].batch \subseteq run[w].batch
                                  /\ run'[w].stale = run[w].stale
    BY <1>0, NextPatternMoves
  <1>3. RecShapes'
    BY <1>0, <1>1, <1>2 DEF RecShapes
  <1>4. ClosedOnADay'
    BY <1>0 DEF ClosedOnADay
  <1>5. \A v \in Worker \ {w} : Steady(v)
    BY <1>0, <1>2 DEF Steady
  <1>6. PageHolds(run[w])'
    BY <1>0, <1>2 DEF PagesHold, PageHolds, Live
  <1>7. PlanHolds(run[w])'
    BY <1>2 DEF PlanHolds
  <1>8. PagesHold' /\ PlansHold'
    BY <1>5, <1>6, <1>7, OthersSteady
  <1>9. QED
    BY <1>3, <1>4, <1>8 DEF RecInv

\* CrashRun keeps the invariant.
LEMMA CrashRunKeepsInv ==
    ASSUME RecInv, UNCHANGED recBudget, NEW w \in Worker, CrashRun(w)
    PROVE  RecInv'
  <1>0. RecShapes
    BY DEF RecInv
  <1>1. faults' \in 0..recBudget.faults
    BY <1>0, OneFaultMore DEF CrashRun
  <1>2. /\ UNCHANGED <<today, pattern, instance, exc, recBudget>> /\ run' = [run EXCEPT ![w] = Idle]
        /\ lock' \in Worker \union {NoWorker} /\ ops' \in 0..recBudget.ops
    BY <1>0 DEF CrashRun, RecShapes
  <1>3. QED
    BY <1>1, <1>2, OneRunMoves

\* A step that leaves the tables and the runs alone keeps the invariant: the lock
\* expires, early or late, or a day passes.
LEMMA AroundTheRunsKeepsInv ==
    ASSUME RecInv, UNCHANGED recBudget, LockExpires \/ LockOutlived \/ NextDay
    PROVE  RecInv'
  <1>0. RecShapes /\ ClosedOnADay /\ UNCHANGED <<pattern, instance, exc, run, ops>>
    BY DEF RecInv, LockExpires, LockOutlived, NextDay
  <1>1. faults' \in 0..recBudget.faults
    BY <1>0, OneFaultMore DEF LockExpires, LockOutlived, NextDay, RecShapes
  <1>2. lock' \in Worker \union {NoWorker}
    BY <1>0 DEF LockExpires, LockOutlived, NextDay, RecShapes
  <1>3. today' \in 1..MaxDay
    BY <1>0, RecConstants DEF LockExpires, LockOutlived, NextDay, RecShapes
  <1>4. RecShapes'
    BY <1>0, <1>1, <1>2, <1>3 DEF RecShapes
  <1>5. ClosedOnADay'
    BY <1>0 DEF ClosedOnADay
  <1>6. \A v \in Worker : Steady(v)
    BY <1>0 DEF Steady
  <1>7. PagesHold' /\ PlansHold'
    BY <1>6, AllSteady
  <1>8. QED
    BY <1>4, <1>5, <1>7 DEF RecInv

-----------------------------------------------------------------------------
(* The steps of people.                                                      *)

\* A request that changes instances or exceptions of one pattern without adding an
\* instance or forgetting a closing day.
LEMMA InstancesChange ==
    ASSUME RecInv, UNCHANGED <<today, pattern, lock, run, faults, recBudget>>, Request,
           instance' \in [Pattern -> [Day -> IssueRows]], exc' \in [Pattern -> [Day -> Kinds]],
           ClosedOnADay',
           \A p \in Pattern, o \in Day : instance'[p][o].st # "none" =>
               instance[p][o].st # "none" /\ (instance[p][o].at # 0 => instance'[p][o].at # 0)
    PROVE  RecInv'
  <1>0. RecShapes /\ PagesHold
    BY DEF RecInv
  <1>1. ops' \in 0..recBudget.ops
    BY <1>0, OneRequestMore
  <1>2. RecShapes'
    BY <1>0, <1>1 DEF RecShapes
  <1>3. ASSUME NEW v \in Worker PROVE Steady(v)
    <2>1. run[v].pc \in {"read", "write"} => run[v].batch \in SUBSET Pattern
      BY <1>0, CurrentOfPage
    <2>2. QED
      BY <2>1 DEF Steady
  <1>4. PagesHold' /\ PlansHold'
    BY <1>3, AllSteady
  <1>5. QED
    BY <1>2, <1>4 DEF RecInv

\* SkipOccurrence keeps the invariant.
LEMMA SkipKeepsInv ==
    ASSUME RecInv, UNCHANGED recBudget, NEW p \in Pattern, NEW o \in Day, SkipOccurrence(p, o)
    PROVE  RecInv'
  <1>0. RecShapes /\ ClosedOnADay
    BY DEF RecInv
  <1>1. PICK new : new = IF instance[p][o].st = "open" THEN NoIssueYet ELSE instance[p][o]
    OBVIOUS
  <1>2. instance' = [instance EXCEPT ![p] = [instance[p] EXCEPT ![o] = new]]
    BY <1>0, <1>1 DEF SkipOccurrence, RecShapes
  <1>3. NoIssueYet \in IssueRows /\ NoIssueYet.st = "none"
    BY DEF NoIssueYet, IssueRows
  <1>4. instance \in [Pattern -> [Day -> IssueRows]] /\ new \in IssueRows
    BY <1>0, <1>1, <1>3 DEF RecShapes
  <1>5. /\ instance' \in [Pattern -> [Day -> IssueRows]]
        /\ \A q \in Pattern, d \in Day : instance'[q][d] = IF q = p /\ d = o THEN new ELSE instance[q][d]
    BY <1>2, <1>4
  <1>6. exc' \in [Pattern -> [Day -> Kinds]]
    <2>1. exc' = [exc EXCEPT ![p] = [exc[p] EXCEPT ![o] = "skip"]] /\ "skip" \in Kinds
      BY <1>0 DEF SkipOccurrence, RecShapes, Kinds
    <2>2. QED
      BY <1>0, <2>1 DEF RecShapes
  <1>7. ClosedOnADay'
    BY <1>0, <1>1, <1>3, <1>5 DEF ClosedOnADay
  <1>8. \A q \in Pattern, d \in Day : instance'[q][d].st # "none" =>
               instance[q][d].st # "none" /\ (instance[q][d].at # 0 => instance'[q][d].at # 0)
    BY <1>1, <1>3, <1>5
  <1>9. UNCHANGED <<today, pattern, lock, run, faults>> /\ Request
    BY DEF SkipOccurrence
  <1>10. QED
    BY <1>5, <1>6, <1>7, <1>8, <1>9, InstancesChange

\* OverrideOccurrence keeps the invariant.
LEMMA OverrideKeepsInv ==
    ASSUME RecInv, UNCHANGED recBudget, NEW p \in Pattern, NEW o \in Day,
           NEW kind \in OverrideKinds, OverrideOccurrence(p, o, kind)
    PROVE  RecInv'
  <1>0. RecShapes /\ ClosedOnADay
    BY DEF RecInv
  <1>1. UNCHANGED <<today, pattern, instance, lock, run, faults>> /\ Request
    BY DEF OverrideOccurrence
  <1>2. exc' \in [Pattern -> [Day -> Kinds]]
    <2>1. exc' = [exc EXCEPT ![p] = [exc[p] EXCEPT ![o] = kind]] /\ kind \in Kinds
      BY <1>0, RecurringAssumption DEF OverrideOccurrence, RecShapes, Kinds
    <2>2. QED
      BY <1>0, <2>1 DEF RecShapes
  <1>3. ClosedOnADay' /\ instance' \in [Pattern -> [Day -> IssueRows]]
    BY <1>0, <1>1 DEF ClosedOnADay, RecShapes
  <1>4. QED
    BY <1>1, <1>2, <1>3, InstancesChange

\* UpdateInstance and DeleteInstance keep the invariant.
LEMMA InstanceRequestsKeepInv ==
    ASSUME RecInv, UNCHANGED recBudget, NEW p \in Pattern, NEW o \in Day,
           UpdateInstance(p, o) \/ DeleteInstance(p, o)
    PROVE  RecInv'
  <1>0. RecShapes /\ ClosedOnADay /\ today \in Nat /\ today # 0
    BY RecConstants DEF RecInv, RecShapes
  <1>1. /\ UNCHANGED <<today, pattern, exc, lock, run, faults>> /\ Request
        /\ instance[p][o].st # "none"
    BY DEF UpdateInstance, DeleteInstance
  <1>2. instance[p][o] \in IssueRows /\ instance \in [Pattern -> [Day -> IssueRows]]
    BY <1>0 DEF RecShapes
  <1>3. PICK new \in IssueRows :
           /\ instance' = [instance EXCEPT ![p][o] = new]
           /\ new.st = "closed" => new.at # 0
           /\ new.st # "none" => (instance[p][o].at # 0 => new.at # 0)
    <2>1. CASE DeleteInstance(p, o)
      <3>1. NoIssueYet \in IssueRows /\ NoIssueYet.st = "none"
        BY DEF NoIssueYet, IssueRows
      <3>2. QED
        BY <2>1, <3>1 DEF DeleteInstance
    <2>2. CASE UpdateInstance(p, o)
      <3>1. PICK st \in {"touched", "closed"} :
               instance' = [instance EXCEPT ![p][o] =
                  [st |-> st, closed_on |-> @.closed_on,
                   at |-> IF st = "closed" THEN today ELSE @.at]]
        BY <2>2 DEF UpdateInstance
      <3>2. PICK new : new = [st |-> st, closed_on |-> instance[p][o].closed_on,
                              at |-> IF st = "closed" THEN today ELSE instance[p][o].at]
        OBVIOUS
      <3>3. instance' = [instance EXCEPT ![p][o] = new]
        BY <3>1, <3>2
      <3>4. new \in IssueRows
        BY <1>0, <1>2, <3>2 DEF IssueRows
      <3>5. new.st = st /\ new.at = IF st = "closed" THEN today ELSE instance[p][o].at
        BY <3>2
      <3>6. QED
        BY <1>0, <3>3, <3>4, <3>5
    <2>3. QED
      BY <2>1, <2>2
  <1>4. /\ instance' \in [Pattern -> [Day -> IssueRows]]
        /\ \A q \in Pattern, d \in Day : instance'[q][d] = IF q = p /\ d = o THEN new ELSE instance[q][d]
    BY <1>2, <1>3
  <1>5. ClosedOnADay'
    BY <1>0, <1>3, <1>4 DEF ClosedOnADay
  <1>6. \A q \in Pattern, d \in Day : instance'[q][d].st # "none" =>
               instance[q][d].st # "none" /\ (instance[q][d].at # 0 => instance'[q][d].at # 0)
    BY <1>1, <1>3, <1>4
  <1>7. exc' \in [Pattern -> [Day -> Kinds]]
    BY <1>0, <1>1 DEF RecShapes
  <1>8. QED
    BY <1>1, <1>4, <1>5, <1>6, <1>7, InstancesChange

\* A request that writes the row of p, and perhaps adds a row of a pattern nobody
\* can have loaded.
LEMMA PatternWritten ==
    ASSUME RecInv, NEW p \in Pattern, Request, run' = Touch(run, p, NoWorker),
           UNCHANGED <<today, instance, exc, lock, faults, recBudget>>,
           pattern' \in [Pattern -> {NoPattern, Deleted} \union LivePatterns],
           pattern'[p] # NoPattern,
           \A q \in Pattern \ {p} : \/ pattern'[q] = pattern[q]
                                    \/ pattern[q] = NoPattern /\ pattern'[q] # NoPattern
    PROVE  RecInv'
  <1>0. RecShapes /\ ClosedOnADay /\ PagesHold /\ NoWorker \notin Worker
    BY RecConstants DEF RecInv
  <1>1. ops' \in 0..recBudget.ops
    BY <1>0, OneRequestMore
  <1>2. /\ run' \in [Worker -> Runs]
        /\ \A v \in Worker :
              /\ run'[v].pc = run[v].pc
              /\ run[v].pc \in {"read", "write"} =>
                    /\ run'[v].batch = run[v].batch /\ run[v].stale \subseteq run'[v].stale
                    /\ p \in run[v].batch => p \in run'[v].stale
              /\ run[v].pc = "write" => run'[v].plan = run[v].plan /\ run'[v].latest = run[v].latest
    BY <1>0, TouchMarks
  <1>3. RecShapes'
    BY <1>0, <1>1, <1>2 DEF RecShapes
  <1>4. ClosedOnADay'
    BY <1>0 DEF ClosedOnADay
  <1>5. ASSUME NEW v \in Worker PROVE Steady(v)
    <2>1. run[v].pc \in {"read", "write"} =>
             run[v].batch \in SUBSET Pattern /\ \A q \in run[v].batch : pattern[q] # NoPattern
      BY <1>0, CurrentOfPage DEF PagesHold, PageHolds
    <2>2. QED
      BY <1>2, <2>1 DEF Steady
  <1>6. PagesHold' /\ PlansHold'
    BY <1>5, AllSteady
  <1>7. QED
    BY <1>3, <1>4, <1>6 DEF RecInv

\* A row of a pattern that was never given out and rows that are something else.
LEMMA RowsDiffer ==
    /\ NoPattern.st = "unused" /\ Deleted.st = "deleted" /\ NoPattern # Deleted
    /\ \A row \in LivePatterns : row.st = "live" /\ row # NoPattern
  <1>1. NoPattern.st = "unused" /\ Deleted.st = "deleted"
    BY DEF NoPattern, Deleted
  <1>2. \A row \in LivePatterns : row.st = "live"
    BY DEF LivePatterns
  <1>3. QED
    BY <1>1, <1>2

\* CreatePattern keeps the invariant: no page holds a pattern that does not exist.
LEMMA CreatePatternKeepsInv ==
    ASSUME RecInv, UNCHANGED recBudget, NEW p \in Pattern, NEW rule \in Rules, CreatePattern(p, rule)
    PROVE  RecInv'
  <1>0. /\ RecShapes /\ ClosedOnADay /\ PagesHold /\ today \in Nat
        /\ pattern \in [Pattern -> {NoPattern, Deleted} \union LivePatterns]
    BY RecConstants DEF RecInv, RecShapes
  <1>1. /\ UNCHANGED <<today, instance, exc, lock, run, faults>> /\ Request
        /\ pattern[p] = NoPattern /\ pattern' = [pattern EXCEPT ![p] = NewPattern(rule, today)]
    BY DEF CreatePattern
  <1>2. NewPattern(rule, today) \in LivePatterns
    BY <1>0, NewPatternRow
  <1>3. /\ pattern' \in [Pattern -> {NoPattern, Deleted} \union LivePatterns]
        /\ \A q \in Pattern \ {p} : pattern'[q] = pattern[q]
    BY <1>0, <1>1, <1>2
  <1>4. ops' \in 0..recBudget.ops
    BY <1>0, <1>1, OneRequestMore
  <1>5. RecShapes'
    BY <1>0, <1>1, <1>3, <1>4 DEF RecShapes
  <1>6. ClosedOnADay'
    BY <1>0, <1>1 DEF ClosedOnADay
  <1>7. ASSUME NEW v \in Worker PROVE Steady(v)
    <2>1. run[v].pc \in {"read", "write"} =>
             run[v].batch \in SUBSET Pattern /\ \A q \in run[v].batch : pattern[q] # NoPattern
      BY <1>0, CurrentOfPage DEF PagesHold, PageHolds
    <2>2. QED
      BY <1>1, <1>3, <2>1 DEF Steady
  <1>8. PagesHold' /\ PlansHold'
    BY <1>7, AllSteady
  <1>9. QED
    BY <1>5, <1>6, <1>8 DEF RecInv

\* UpdatePattern keeps the invariant.
LEMMA UpdatePatternKeepsInv ==
    ASSUME RecInv, UNCHANGED recBudget, NEW p \in Pattern, UpdatePattern(p)
    PROVE  RecInv'
  <1>0. /\ RecShapes /\ pattern \in [Pattern -> {NoPattern, Deleted} \union LivePatterns]
    BY DEF RecInv, RecShapes
  <1>1. /\ UNCHANGED <<today, instance, exc, lock, faults>> /\ Request /\ Live(p)
        /\ run' = Touch(run, p, NoWorker)
    BY DEF UpdatePattern
  <1>2. pattern[p] \in LivePatterns /\ pattern[p].spec.dtstart \in Nat /\ pattern[p].enabled \in BOOLEAN
    BY <1>0, <1>1, LiveRow DEF LivePatterns, Specs
  <1>3. PICK new \in LivePatterns : pattern' = [pattern EXCEPT ![p] = new]
    <2>1. PICK new \in {[pattern[p] EXCEPT !.enabled = ~@]} \union
                  {[NewPattern(rule, pattern[p].spec.dtstart) EXCEPT
                       !.enabled = pattern[p].enabled] : rule \in Rules} :
             pattern' = [pattern EXCEPT ![p] = new]
      BY DEF UpdatePattern
    <2>2. CASE new = [pattern[p] EXCEPT !.enabled = ~@]
      <3>1. new \in LivePatterns
        BY <1>2, <2>2 DEF LivePatterns
      <3>2. QED
        BY <2>1, <3>1
    <2>3. CASE \E rule \in Rules : new = [NewPattern(rule, pattern[p].spec.dtstart) EXCEPT
                                             !.enabled = pattern[p].enabled]
      <3>1. PICK rule \in Rules : new = [NewPattern(rule, pattern[p].spec.dtstart) EXCEPT
                                             !.enabled = pattern[p].enabled]
        BY <2>3
      <3>2. PICK row : row = NewPattern(rule, pattern[p].spec.dtstart)
        OBVIOUS
      <3>3. row \in LivePatterns
        BY <1>2, <3>2, NewPatternRow
      <3>4. new = [row EXCEPT !.enabled = pattern[p].enabled]
        BY <3>1, <3>2
      <3>5. new \in LivePatterns
        BY <1>2, <3>3, <3>4 DEF LivePatterns
      <3>6. QED
        BY <2>1, <3>5
    <2>4. QED
      BY <2>1, <2>2, <2>3
  <1>4. /\ pattern' \in [Pattern -> {NoPattern, Deleted} \union LivePatterns]
        /\ pattern'[p] # NoPattern /\ \A q \in Pattern \ {p} : pattern'[q] = pattern[q]
    BY <1>0, <1>3, RowsDiffer
  <1>5. QED
    BY <1>1, <1>4, PatternWritten

\* SplitFrom keeps the invariant.
LEMMA SplitFromKeepsInv ==
    ASSUME RecInv, UNCHANGED recBudget, NEW p \in Pattern, NEW o \in Day, NEW new \in Pattern,
           NEW rule \in Rules, SplitFrom(p, o, new, rule)
    PROVE  RecInv'
  <1>0. /\ RecShapes /\ pattern \in [Pattern -> {NoPattern, Deleted} \union LivePatterns] /\ o \in Nat
    BY RecConstants DEF RecInv, RecShapes
  <1>1. /\ UNCHANGED <<today, instance, exc, lock, faults>> /\ Request /\ Live(p)
        /\ pattern[new] = NoPattern /\ run' = Touch(run, p, NoWorker)
    BY DEF SplitFrom
  <1>2. pattern[p] \in LivePatterns /\ pattern[p].spec \in Specs
    BY <1>0, <1>1, LiveRow
  <1>3. p # new
    BY <1>1, <1>2, RowsDiffer
  <1>4. PICK spec : spec = [pattern[p].spec EXCEPT !.until = o - 1, !.count = 0]
    OBVIOUS
  <1>5. spec \in Specs
    <2>1. PICK old \in Specs : old = pattern[p].spec
      BY <1>2
    <2>2. PICK u \in Int : u = o - 1
      BY <1>0
    <2>3. PICK ended : ended = [old EXCEPT !.until = u]
      OBVIOUS
    <2>4. ended \in Specs
      BY <2>1, <2>2, <2>3 DEF Specs
    <2>5. spec = [ended EXCEPT !.count = 0]
      BY <1>4, <2>1, <2>2, <2>3
    <2>6. QED
      BY <2>4, <2>5 DEF Specs
  <1>6. PICK row : row = [pattern[p] EXCEPT !.spec = spec]
    OBVIOUS
  <1>7. row \in LivePatterns
    BY <1>2, <1>5, <1>6 DEF LivePatterns
  <1>8. pattern' = [[pattern EXCEPT ![p] = row] EXCEPT ![new] = NewPattern(rule, o)]
    <2>1. pattern' = [pattern EXCEPT ![p].spec.until = o - 1, ![p].spec.count = 0,
                                     ![new] = NewPattern(rule, o)]
      BY DEF SplitFrom
    <2>2. QED
      BY <1>0, <1>2, <1>3, <1>4, <1>6, <2>1 DEF LivePatterns, Specs
  <1>9. NewPattern(rule, o) \in LivePatterns
    BY <1>0, NewPatternRow
  <1>10. /\ pattern' \in [Pattern -> {NoPattern, Deleted} \union LivePatterns]
         /\ pattern'[p] = row /\ pattern'[new] = NewPattern(rule, o)
         /\ \A q \in Pattern \ {p, new} : pattern'[q] = pattern[q]
    BY <1>0, <1>3, <1>7, <1>8, <1>9
  <1>11. /\ pattern'[p] # NoPattern /\ pattern'[new] # NoPattern
    BY <1>7, <1>9, <1>10, RowsDiffer
  <1>12. QED
    BY <1>1, <1>10, <1>11, PatternWritten

\* DeletePattern keeps the invariant: a deleted pattern is never written again.
LEMMA DeletePatternKeepsInv ==
    ASSUME RecInv, UNCHANGED recBudget, NEW p \in Pattern, DeletePattern(p)
    PROVE  RecInv'
  <1>0. /\ RecShapes /\ ClosedOnADay /\ PagesHold
        /\ pattern \in [Pattern -> {NoPattern, Deleted} \union LivePatterns]
        /\ instance \in [Pattern -> [Day -> IssueRows]] /\ exc \in [Pattern -> [Day -> Kinds]]
    BY DEF RecInv, RecShapes
  <1>1. /\ UNCHANGED <<today, lock, run, faults>> /\ Request /\ Live(p)
        /\ pattern' = [pattern EXCEPT ![p] = Deleted]
        /\ instance' = [instance EXCEPT ![p] = [o \in Day |-> NoIssueYet]]
        /\ exc' = [exc EXCEPT ![p] = NoExceptions]
    BY DEF DeletePattern
  <1>2. NoIssueYet \in IssueRows /\ NoIssueYet.st = "none" /\ NoExceptions \in [Day -> Kinds]
    BY DEF NoIssueYet, IssueRows, NoExceptions, Kinds
  <1>3. /\ pattern' \in [Pattern -> {NoPattern, Deleted} \union LivePatterns]
        /\ pattern'[p] = Deleted /\ \A q \in Pattern \ {p} : pattern'[q] = pattern[q]
    BY <1>0, <1>1
  <1>4. /\ instance' \in [Pattern -> [Day -> IssueRows]]
        /\ \A o \in Day : instance'[p][o] = NoIssueYet
        /\ \A q \in Pattern \ {p} : instance'[q] = instance[q]
    BY <1>0, <1>1, <1>2
  <1>5. exc' \in [Pattern -> [Day -> Kinds]]
    BY <1>0, <1>1, <1>2
  <1>6. ops' \in 0..recBudget.ops
    BY <1>0, <1>1, OneRequestMore
  <1>7. RecShapes'
    BY <1>0, <1>1, <1>3, <1>4, <1>5, <1>6 DEF RecShapes
  <1>8. ClosedOnADay'
    BY <1>0, <1>2, <1>4 DEF ClosedOnADay
  <1>9. ASSUME NEW v \in Worker PROVE Steady(v)
    <2>1. run[v].pc \in {"read", "write"} => run[v].batch \in SUBSET Pattern
      BY <1>0, CurrentOfPage
    <2>2. pattern'[p].st # "live" /\ pattern'[p] # NoPattern
      BY <1>3, RowsDiffer
    <2>3. QED
      BY <1>1, <1>3, <1>4, <2>1, <2>2 DEF Steady
  <1>10. PagesHold' /\ PlansHold'
    BY <1>9, AllSteady
  <1>11. QED
    BY <1>7, <1>8, <1>10 DEF RecInv

-----------------------------------------------------------------------------
(* The theorems.                                                             *)

\* Every step of Recurring keeps the invariant.
LEMMA RecNextKeepsInv ==
    ASSUME RecInv, [RecNext]_recVars
    PROVE  RecInv'
  <1>1. CASE UNCHANGED recVars
    <2>1. RecShapes' /\ ClosedOnADay'
      BY <1>1 DEF RecInv, RecShapes, ClosedOnADay, recVars
    <2>2. \A v \in Worker : Steady(v)
      BY <1>1 DEF Steady, recVars
    <2>3. QED
      BY <2>1, <2>2, AllSteady DEF RecInv
  <1>2. CASE RecAction /\ UNCHANGED recBudget
    <2>1. ASSUME NEW w \in Worker, RunStep(w) \/ MaterializeFails(w) \/ CrashRun(w)
          PROVE  RecInv'
      BY <1>2, <2>1, StartRunKeepsInv, ListBatchKeepsInv, ReadPatternKeepsInv, WritePatternKeepsInv,
         AbortRunKeepsInv, MaterializeFailsKeepsInv, CrashRunKeepsInv DEF RunStep
    <2>2. ASSUME LockExpires \/ LockOutlived \/ NextDay
          PROVE  RecInv'
      BY <1>2, <2>2, AroundTheRunsKeepsInv
    <2>3. ASSUME NEW p \in Pattern,
                 \/ UpdatePattern(p) \/ DeletePattern(p)
                 \/ \E rule \in Rules : CreatePattern(p, rule)
          PROVE  RecInv'
      BY <1>2, <2>3, UpdatePatternKeepsInv, DeletePatternKeepsInv, CreatePatternKeepsInv
    <2>4. ASSUME NEW p \in Pattern, NEW o \in Day,
                 \/ SkipOccurrence(p, o) \/ UpdateInstance(p, o) \/ DeleteInstance(p, o)
                 \/ \E kind \in OverrideKinds : OverrideOccurrence(p, o, kind)
                 \/ \E new \in Pattern, rule \in Rules : SplitFrom(p, o, new, rule)
          PROVE  RecInv'
      BY <1>2, <2>4, SkipKeepsInv, InstanceRequestsKeepInv, OverrideKeepsInv, SplitFromKeepsInv
    <2>5. QED
      BY <1>2, <2>1, <2>2, <2>3, <2>4 DEF RecAction
  <1>3. QED
    BY <1>1, <1>2 DEF RecNext

(* The invariant of the generator holds in every reachable state, for any     *)
(* patterns, workers, page size, calendar, requests and faults.              *)
THEOREM RecInvariant == RecSpec => []RecInv
  <1>1. RecInit => RecInv
    BY RecInitHolds
  <1>2. RecInv /\ [RecNext]_recVars => RecInv'
    BY RecNextKeepsInv
  <1>3. QED
    BY <1>1, <1>2, PTL DEF RecSpec

(* The tables, the lock, the runs and the counters keep their shapes: no      *)
(* instance or exception of a kind the columns do not know, no lock held by  *)
(* somebody who is not a worker.                                             *)
THEOREM RecurringTypeCorrect == RecSpec => []RecTypeOK
  <1>1. RecInv => RecTypeOK
    <2> SUFFICES ASSUME RecInv PROVE RecTypeOK
      OBVIOUS
    <2>0. RecShapes
      BY DEF RecInv
    <2>1. \A w \in Worker : run[w].pc \in {"idle", "list", "read", "write"}
      BY <2>0, RunStages
    <2>2. \A p \in Pattern, o \in Day :
            /\ instance[p][o].st \in {"none", "open", "touched", "closed"}
            /\ exc[p][o] \in {"none", "skip", "override", "bad"}
      BY <2>0 DEF RecShapes, IssueRows, Kinds
    <2>3. QED
      BY <2>0, <2>1, <2>2 DEF RecTypeOK, RecShapes
  <1>2. QED
    BY <1>1, RecInvariant, PTL

\* A new instance is the work of one run that writes a pattern whose row did not
\* change since the run loaded it: no other step generates anything.
LEMMA OnlyRunsGenerate ==
    ASSUME RecInv, [RecNext]_recVars, NEW p \in Pattern, NEW o \in Day, Generated(p, o)
    PROVE  \E w \in Worker : /\ WritePattern(w) /\ Current(run[w]) = p /\ o \in run[w].plan
                             /\ Live(p) /\ p \notin run[w].stale
                             /\ run[w].pc = "write" /\ run'[w].pc # "write"
  <1>0. /\ RecShapes /\ PagesHold /\ instance \in [Pattern -> [Day -> IssueRows]]
        /\ NoIssueYet.st = "none"
    BY DEF RecInv, RecShapes, NoIssueYet
  <1>1. instance'[p][o] # instance[p][o] /\ instance' # instance /\ instance'[p][o].st # "none"
        /\ instance[p][o].st = "none"
    BY DEF Generated
  <1>2. ~UNCHANGED recVars
    BY <1>1 DEF recVars
  <1>3. ASSUME NEW q \in Pattern, NEW d \in Day,
               SkipOccurrence(q, d) \/ UpdateInstance(q, d) \/ DeleteInstance(q, d)
        PROVE  FALSE
    <2>1. PICK x : instance' = [instance EXCEPT ![q][d] = x]
      <3>1. CASE SkipOccurrence(q, d)
        <4>1. instance' = [instance EXCEPT ![q][d] =
                             IF instance[q][d].st = "open" THEN NoIssueYet ELSE instance[q][d]]
          BY <1>0, <3>1 DEF SkipOccurrence
        <4>2. QED
          BY <4>1
      <3>2. CASE UpdateInstance(q, d)
        <4>1. PICK st \in {"touched", "closed"} : instance' = [instance EXCEPT ![q][d] =
              [st |-> st, closed_on |-> instance[q][d].closed_on,
               at |-> IF st = "closed" THEN today ELSE instance[q][d].at]]
          BY <1>0, <3>2 DEF UpdateInstance
        <4>2. QED
          BY <4>1
      <3>3. CASE DeleteInstance(q, d)
        BY <3>3 DEF DeleteInstance
      <3>4. QED
        BY <1>3, <3>1, <3>2, <3>3
    <2>2. q = p /\ d = o
      BY <1>0, <1>1, <2>1
    <2>3. SkipOccurrence(p, o)
      BY <1>1, <1>3, <2>2 DEF UpdateInstance, DeleteInstance
    <2>4. instance' = [instance EXCEPT ![p][o] = instance[p][o]]
      BY <1>1, <2>3 DEF SkipOccurrence
    <2>5. QED
      BY <1>0, <1>1, <2>4
  <1>4. ASSUME NEW q \in Pattern, DeletePattern(q)
        PROVE  FALSE
    BY <1>0, <1>1, <1>4 DEF DeletePattern
  <1>5. PICK w \in Worker : WritePattern(w)
    <2>1. RecAction
      BY <1>2 DEF RecNext
    <2>2. ASSUME NEW w \in Worker, MaterializeFails(w) \/ CrashRun(w) \/ StartRun(w) \/ ListBatch(w)
                                   \/ ReadPattern(w) \/ AbortRun(w)
          PROVE  FALSE
      BY <1>1, <2>2 DEF MaterializeFails, CrashRun, StartRun, ListBatch, ReadPattern, AbortRun
    <2>3. ~(LockExpires \/ LockOutlived \/ NextDay)
      BY <1>1 DEF LockExpires, LockOutlived, NextDay
    <2>4. ASSUME NEW q \in Pattern, UpdatePattern(q) \/ \E rule \in Rules : CreatePattern(q, rule)
          PROVE  FALSE
      BY <1>1, <2>4 DEF UpdatePattern, CreatePattern
    <2>5. ASSUME NEW q \in Pattern, NEW d \in Day,
                 \/ \E kind \in OverrideKinds : OverrideOccurrence(q, d, kind)
                 \/ \E new \in Pattern, rule \in Rules : SplitFrom(q, d, new, rule)
          PROVE  FALSE
      BY <1>1, <2>5 DEF OverrideOccurrence, SplitFrom
    <2>6. QED
      BY <2>1, <2>2, <2>3, <2>4, <2>5, <1>3, <1>4 DEF RecAction, RunStep
  <1>6. /\ run[w].pc = "write" /\ ~FlushFails(w)
        /\ instance' = [instance EXCEPT ![Current(run[w])] = [d \in Day |->
                           IF d \in run[w].plan THEN Fresh ELSE instance[Current(run[w])][d]]]
    BY <1>5 DEF WritePattern
  <1>7. Current(run[w]) = p /\ o \in run[w].plan
    BY <1>0, <1>1, <1>6
  <1>8. Live(p) /\ p \notin run[w].stale
    BY <1>6, <1>7, FlushChecked
  <1>9. run'[w].pc # "write"
    <2>1. /\ Touch(run, p, w) \in [Worker -> Runs] /\ Touch(run, p, w)[w] = run[w]
      BY <1>0, TouchMarks
    <2>2. NextPattern(w, Touch(run, p, w))
      BY <1>5, <1>7 DEF WritePattern
    <2>3. run'[w].pc \in {"idle", "list", "read"}
      BY <1>0, <1>6, <2>1, <2>2, NextPatternMoves
    <2>4. QED
      BY <2>3
  <1>10. QED
    BY <1>5, <1>6, <1>7, <1>8, <1>9

(* However an edit, a split, a deletion or another run falls between a run's  *)
(* reads and its commit, an issue is only created for a day that the current *)
(* rule of an enabled pattern yields (materialize against the optimistic     *)
(* lock of recurring_patterns).                                              *)
THEOREM RunsFollowTheCurrentRule == RecSpec => GeneratesFromCurrentRule
  <1>1. ASSUME RecInv, [RecNext]_recVars, NEW p \in Pattern, NEW o \in Day, Generated(p, o)
        PROVE  Enabled(p) /\ o \in Series(pattern[p].spec, {}, LastDay)
    <2>0. RecShapes /\ PagesHold /\ PlansHold
      BY <1>1 DEF RecInv
    <2>1. PICK w \in Worker : /\ Current(run[w]) = p /\ o \in run[w].plan
                              /\ Live(p) /\ p \notin run[w].stale /\ run[w].pc = "write"
      BY <1>1, OnlyRunsGenerate
    <2>2. p \in run[w].batch /\ PageHolds(run[w]) /\ PlanHolds(run[w])
      BY <2>0, <2>1, CurrentOfPage DEF PagesHold, PlansHold
    <2>3. pattern[p].enabled
      BY <2>1, <2>2 DEF PageHolds
    <2>4. run[w].plan \subseteq Series(pattern[p].spec, {}, LastDay)
      BY <2>1, <2>2 DEF PlanHolds
    <2>5. QED
      BY <2>1, <2>3, <2>4 DEF Enabled
  <1>2. RecInv /\ [RecNext]_recVars =>
          [\A p \in Pattern, o \in Day : Generated(p, o) =>
              /\ Enabled(p)
              /\ o \in Series(pattern[p].spec, {}, LastDay)]_recVars
    BY <1>1
  <1>3. QED
    BY <1>2, RecInvariant, PTL DEF RecSpec, GeneratesFromCurrentRule

(* A flexible pattern gets its next instance only when the latest one has     *)
(* been closed, or when the closed instance its run read as the latest was   *)
(* deleted before the commit: two overlapping runs never advance a series    *)
(* twice (_materialize_flexible).                                            *)
THEOREM FlexibleSeriesWaits == RecSpec => FlexibleWaitsForClosing
  <1>1. ASSUME RecInv, [RecNext]_recVars, NEW p \in Pattern, NEW o \in Day, Generated(p, o),
               pattern[p].mode = "flexible", Existing(p) # {}
        PROVE  instance[p][Latest(p)].at # 0 \/ LatestDeletedMeanwhile(p)
    <2>0. RecShapes /\ PlansHold
      BY <1>1 DEF RecInv
    <2>1. PICK w \in Worker : /\ Current(run[w]) = p /\ o \in run[w].plan
                              /\ Live(p) /\ p \notin run[w].stale
                              /\ run[w].pc = "write" /\ run'[w].pc # "write"
      BY <1>1, OnlyRunsGenerate
    <2>2. /\ \A d \in Existing(p) : d <= run[w].latest
          /\ run[w].latest \in Existing(p) => instance[p][run[w].latest].at # 0
      BY <1>1, <2>0, <2>1 DEF PlansHold, PlanHolds
    <2>3. /\ Latest(p) \in Existing(p) /\ Latest(p) \in Nat \ {0}
          /\ \A d \in Existing(p) : d <= Latest(p)
      BY <1>1, LatestIsLast
    <2>4. run[w].latest \in Nat
      BY <2>0, <2>1, RunStages DEF Writing
    <2>5. Latest(p) <= run[w].latest /\ run[w].latest # 0
      BY <2>2, <2>3, <2>4
    <2>6. CASE run[w].latest \in Existing(p)
      <3>1. run[w].latest = Latest(p)
        BY <2>3, <2>4, <2>5, <2>6
      <3>2. QED
        BY <2>2, <2>6, <3>1
    <2>7. CASE run[w].latest \notin Existing(p)
      BY <2>1, <2>5, <2>7 DEF LatestDeletedMeanwhile
    <2>8. QED
      BY <2>6, <2>7
  <1>2. RecInv /\ [RecNext]_recVars =>
          [\A p \in Pattern, o \in Day :
             Generated(p, o) /\ pattern[p].mode = "flexible" /\ Existing(p) # {}
                => instance[p][Latest(p)].at # 0 \/ LatestDeletedMeanwhile(p)]_recVars
    BY <1>1
  <1>3. QED
    BY <1>2, RecInvariant, PTL DEF RecSpec, FlexibleWaitsForClosing

(* In the run "services" every call of the engine is answered by days of its *)
(* series, and by all of those in its window unless the scan ends too early  *)
(* (expand_occurrences).                                                     *)
THEOREM CallsMeetTheSeries == ServicesSpec => []ExpandMeetsReference
  <1> DEFINE Asked == focus = "engine" => call \in Calls
             serviceVars == <<recVars, hookVars, refVars, repoVars, sprintVars, focus, call>>
  <1>1. ServicesInit => Asked
    BY DEF ServicesInit
  <1>2. Asked /\ [ServicesNext]_serviceVars => Asked'
    BY DEF ServicesNext
  <1>3. Asked => ExpandMeetsReference
    <2> SUFFICES ASSUME call \in Calls
                 PROVE  FindsTheSeries(call.spec, call.lo, call.hi, call.exdates, EngineDay)
      BY DEF ExpandMeetsReference
    <2>1. call.spec \in AnySpec /\ call.lo \in Int /\ call.hi \in Int /\ EngineDay \in Int
      BY DEF Calls, AnySpec, EngineDay
    <2>2. QED
      BY <2>1, ExpansionIsTheSeries
  <1>4. QED
    BY <1>1, <1>2, <1>3, PTL DEF ServicesSpec

=============================================================================
