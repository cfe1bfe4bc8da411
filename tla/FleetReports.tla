---------------------------- MODULE FleetReports ----------------------------
(* A fleet team's cost report, built from daily rollups alone: run_daily_rollup *)
(* appends one row for each driver and site of a day, and generate_report sums  *)
(* the rows of a range of days by driver or by site.  Sessions may end after    *)
(* their day was rolled up, and a day may be rolled up again.                   *)
EXTENDS Naturals, FiniteSets, FiniteSetsExt

CONSTANTS
    FleetSessions,  \* session ids
    FleetDrivers,
    Sites,          \* sites, and NoSite for a session without one
    NoSite,
    NumDays,        \* days are 1..NumDays
    Costs,          \* what a session may cost
    MaxRollups      \* bound: rollups of a day

ASSUME FleetReportsAssumption ==
    /\ NumDays \in Nat \ {0} /\ MaxRollups \in Nat /\ Costs \subseteq Nat /\ NoSite \notin Sites
    /\ IsFiniteSet(FleetSessions) /\ IsFiniteSet(FleetDrivers) /\ IsFiniteSet(Sites)

VARIABLES
    usage,       \* SessionUsageRecord: [day, driver, site, cost]; day 0 before it exists
    rollups,     \* _rollups: [n, driver, site, day, count, cost], n the rollup that wrote it
    runCount,    \* rollups of each day that went through
    incomplete,  \* _incomplete_dates
    counted      \* how many rollups of its day have counted each session

frVars == <<usage, rollups, runCount, incomplete, counted>>

Days == 1..NumDays
AllSites == Sites \cup {NoSite}
Unused == [day |-> 0, driver |-> "none", site |-> NoSite, cost |-> 0]

FrTypeOK ==
    /\ \A s \in FleetSessions : usage[s].day \in 0..NumDays /\ usage[s].site \in AllSites
    /\ \A r \in rollups : r.day \in Days /\ r.count \in Nat \ {0} /\ r.cost \in Nat
    /\ runCount \in [Days -> 0..MaxRollups]
    /\ incomplete \subseteq Days
    /\ counted \in [FleetSessions -> 0..MaxRollups]

FrInit ==
    /\ usage = [s \in FleetSessions |-> Unused]
    /\ rollups = {} /\ runCount = [d \in Days |-> 0] /\ incomplete = {}
    /\ counted = [s \in FleetSessions |-> 0]

-----------------------------------------------------------------------------
SessionRecorded(s, day, who, site, cost) ==
    /\ usage[s] = Unused
    /\ usage' = [usage EXCEPT ![s] = [day |-> day, driver |-> who, site |-> site, cost |-> cost]]
    /\ UNCHANGED <<rollups, runCount, incomplete, counted>>

OfDay(day) == {s \in FleetSessions : usage[s].day = day}

UsageCost == [s \in FleetSessions |-> usage[s].cost]

\* The row of one rollup that counts s: the day's sessions of its driver and site.
RollupRow(n, day, s) ==
    LET group == {x \in OfDay(day) : usage[x].driver = usage[s].driver /\ usage[x].site = usage[s].site}
    IN  [n |-> n, driver |-> usage[s].driver, site |-> usage[s].site, day |-> day, count |-> Cardinality(group),
         cost |-> MapThenSumSet(LAMBDA x : UsageCost[x], group)]

RollupRows(n, day) == {RollupRow(n, day, s) : s \in OfDay(day)}

\* run_daily_rollup; the rows of an earlier one stay.
RunDailyRollup(day) ==
    /\ runCount[day] < MaxRollups
    /\ runCount' = [runCount EXCEPT ![day] = @ + 1]
    /\ rollups' = rollups \cup RollupRows(runCount[day] + 1, day)
    /\ counted' = [s \in FleetSessions |-> IF s \in OfDay(day) THEN counted[s] + 1 ELSE counted[s]]
    /\ UNCHANGED <<usage, incomplete>>

\* The aggregation fails: the day is marked, and never unmarked.
RollupFails(day) ==
    /\ incomplete' = incomplete \cup {day}
    /\ UNCHANGED <<usage, rollups, runCount, counted>>

\* query: both ends of the range are in it.
InRange(from, to) == {r \in rollups : from <= r.day /\ r.day <= to}

\* Variant: rows without a site are left out of a report by site.
SiteKeyOrNone(r, groupBy) == IF groupBy = "driver" THEN {r.driver} ELSE {r.site} \ {NoSite}

\* The row's key in a report: _NO_SITE_KEY stands for a missing site.
ReportKey(r, groupBy) == IF groupBy = "driver" THEN {r.driver} ELSE {r.site}

RowCost == [r \in rollups |-> r.cost]

\* The rows of generate_report, and its total, the sum of them.
ReportRow(key, from, to, groupBy) ==
    MapThenSumSet(LAMBDA r : RowCost[r], {r \in InRange(from, to) : key \in ReportKey(r, groupBy)})

ReportTotal(from, to, groupBy) ==
    LET row == [key \in FleetDrivers \cup AllSites |-> ReportRow(key, from, to, groupBy)]
    IN  MapThenSumSet(LAMBDA key : row[key], FleetDrivers \cup AllSites)

FrNext ==
    \/ \E s \in FleetSessions, day \in Days, who \in FleetDrivers, site \in AllSites, cost \in Costs :
          SessionRecorded(s, day, who, site, cost)
    \/ \E day \in Days : RunDailyRollup(day) \/ RollupFails(day)

FrSpec == FrInit /\ [][FrNext]_frVars

-----------------------------------------------------------------------------
(* ReportCountsSessions: rollups are appended and never replaced                *)
(* (rollup.py:54-55, 94-101).  From the first rollup on, the report's total is  *)
(* the same by driver and by site for every range of days, and counts each      *)
(* session once for every rollup of its day run after it: the real total just   *)
(* when each day was rolled up once, after its last session.                    *)
ReportCountsSessions ==
    rollups # {} => \A from, to \in Days : from <= to =>
        LET within == {s \in FleetSessions : from <= usage[s].day /\ usage[s].day <= to}
            times == [s \in FleetSessions |-> usage[s].cost * counted[s]]
            real == MapThenSumSet(LAMBDA s : times[s], within)
        IN  ReportTotal(from, to, "driver") = real /\ ReportTotal(from, to, "site") = real
=============================================================================
