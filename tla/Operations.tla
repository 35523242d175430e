------------------------------- MODULE Operations -------------------------------
(***************************************************************************)
(* The operational stages of cycle after cycle: metrics over the window of  *)
(* the briefing, the archived report, the alert files, and the gate that    *)
(* judges the observations of several weeks.  Between cycles reviewers      *)
(* decide and operators deliver what is approved (briefing-deliver).        *)
(*                                                                          *)
(* What the other stages do is reduced to what the metrics read.  Rows are  *)
(* committed once at the end of a cycle, reports and alerts are files that  *)
(* are there at once.  The database drops time zones: a UTC timestamp that  *)
(* is read back is taken to be of the window's zone, offset earlier.        *)
(***************************************************************************)
EXTENDS Integers, Sequences, FiniteSets

CONSTANTS
    Occurrences,      \* the times the schedule fires
    Jobs,             \* CollectionJob rows; a collector outside writes them, no
                      \* code of the repository does
    InitialLookback,  \* initial_lookback_days
    MaxLookback,      \* max_lookback_days
    Fallback,         \* length of the window when no briefing was built, 14 days
    Settings,         \* UTC offset of the configured TIMEZONE, and whether the
                      \* publication_policy is auto_publish
    DelayLimit,       \* M2 target
    BacklogLimit,     \* M3 target
    Day,              \* the gap two weekly windows may have
    Required,         \* windows the gate requires, 4
    Horizon,          \* bound: the last point in time
    MaxRuns,          \* bound: cycles and delivery commands
    MaxFaults         \* bound: stages that raise or come back empty, processes
                      \* that die

ASSUME OccurrencesAssumption == Occurrences \subseteq Nat /\ IsFiniteSet(Occurrences)
ASSUME JobsAssumption == Jobs \subseteq [at: Nat, ok: BOOLEAN] /\ IsFiniteSet(Jobs)
ASSUME LookbacksAssumption ==
    InitialLookback \in Nat /\ MaxLookback \in Nat \ {0} /\ Fallback \in Nat
ASSUME SettingsAssumption == Settings \subseteq [offset: Int, auto: BOOLEAN]
ASSUME TargetsAssumption == DelayLimit \in Nat /\ BacklogLimit \in Nat /\ Day \in Nat
ASSUME RequiredAssumption == Required \in Nat \ {0}
ASSUME OperationsBoundsAssumption ==
    Horizon \in Nat /\ MaxRuns \in Nat /\ MaxFaults \in Nat

\* The schedule is weekly and the lookbacks are longer: between a time and the
\* occurrence that looks back too little to reach it there is another one.
ASSUME OperationsSpacingAssumption ==
    \A o \in Occurrences, t \in 0..Horizon :
        \/ o - InitialLookback <= t /\ o - MaxLookback <= t /\ o - Fallback <= t
        \/ \E p \in Occurrences : t < p /\ p < o

\* And no zone is as far from UTC as two occurrences are from one another.
ASSUME OperationsZonesAssumption ==
    \A s \in Settings : \A o, p \in Occurrences : o < p => o + s.offset < p

VARIABLES
    offset,        \* the offset of the configured zone
    auto,          \* the configured policy is auto_publish
    clock,         \* now
    disk,          \* the rows the metrics read, as committed
    work,          \* the same as the session of the cycle sees them
    pc,            \* the step of the cycle, "idle" between cycles
    target,        \* the occurrence the cycle is for
    built,         \* the cycle has a briefing
    fresh,         \* the rows of this cycle, which still have their zone
    computed,      \* the metrics stage returned results
    verdicts,      \* the verdicts of the cycle
    reports,       \* files: the archived report of each window
    alerts,        \* files: the metric alerts of each window
    observations,  \* the windows and results cycles returned, in order
    runs,          \* cycles and delivery commands so far
    faults,        \* faults so far
    broken         \* history: windows whose last cycle did not complete its files

vars == <<offset, auto, clock, disk, work, pc, target, built, fresh, computed, verdicts,
          reports, alerts, observations, runs, faults, broken>>

Metrics == <<"M1", "M2", "M3", "M4", "M5", "M6">>
MetricIds == {"M1", "M2", "M3", "M4", "M5", "M6"}
Verdicts == {"meets_target", "breached", "insufficient_data"}

\* start is inclusive and end, the occurrence, is not; window_id is their hash.
Window == [start: Int, end: Occurrences]

\* A briefing, with or without items, and one Delivery row per content of it that
\* was sent: when and with what result the last time, and how often.
Briefing == [start: Int, generated: Nat, items: BOOLEAN, approved: BOOLEAN]
NoBriefing == [start |-> 0, generated |-> -1, items |-> FALSE, approved |-> TRUE]
Attempt == [at: Nat, ok: BOOLEAN, no: Nat]

Rows == [briefing: [Occurrences -> Briefing \cup {NoBriefing}],
         attempts: [Occurrences -> Seq(Attempt)],
         versions: SUBSET Nat, candidates: Nat, pending: Nat]

NoRows == [briefing |-> [o \in Occurrences |-> NoBriefing],
           attempts |-> [o \in Occurrences |-> <<>>],
           versions |-> {}, candidates |-> 0, pending |-> 0]

NothingFresh == [attempt |-> FALSE, version |-> FALSE]
NoVerdicts == [m \in MetricIds |-> "insufficient_data"]

BuiltIn(rows) == {o \in Occurrences : rows.briefing[o] # NoBriefing}

Init ==
    /\ \E s \in Settings : offset = s.offset /\ auto = s.auto
    /\ clock = 0
    /\ disk = NoRows
    /\ work = NoRows
    /\ pc = "idle"
    /\ target = 0
    /\ built = FALSE
    /\ fresh = NothingFresh
    /\ computed = FALSE
    /\ verdicts = NoVerdicts
    /\ reports = {}
    /\ alerts = {}
    /\ observations = <<>>
    /\ runs = 0
    /\ faults = 0
    /\ broken = {}

Setting == <<offset, auto>>
Rest == <<Setting, clock, runs>>
Cycle == <<work, pc, target, built, fresh, computed, verdicts>>
Files == <<reports, alerts>>
Seen == <<observations, broken>>

Fault == faults < MaxFaults /\ faults' = faults + 1
NoFault == UNCHANGED faults

(***************************************************************************)
(* The metrics.                                                             *)
(***************************************************************************)
\* Faulty: the window ends now, not at the occurrence.
ObservedUntilNow == [start |-> target - Fallback, end |-> clock]

\* The window of the briefing, or a fixed one before the occurrence.
ObservedWindow ==
    [start |-> IF built THEN work.briefing[target].start ELSE target - Fallback,
     end |-> target]

InWindow(t, w) == w.start <= t /\ t < w.end

\* A UTC timestamp of an earlier cycle, as _aware takes it.
Reloaded(t) == t - offset

\* _result: without sample there is no verdict.
Verdict(sample, meets) ==
    IF sample = 0 THEN "insufficient_data"
    ELSE IF meets THEN "meets_target" ELSE "breached"

\* M1: of the jobs that ended in the window 95% succeeded.
CollectionSuccess(w) ==
    LET ended == {j \in Jobs : j.at <= clock /\ InWindow(Reloaded(j.at), w)}
        n == Cardinality(ended)
    IN Verdict(n, Cardinality({j \in ended : j.ok}) * 100 >= 95 * n)

\* M2: the briefings of the window were generated in time.  The schedule keeps
\* its zone, the time of generation is UTC.
Scheduled(w) == {o \in BuiltIn(work) : InWindow(o, w)}

Delay(o) == Reloaded(work.briefing[o].generated) - o

BriefingDelay(w) ==
    Verdict(Cardinality(Scheduled(w)), \A o \in Scheduled(w) : Delay(o) <= DelayLimit)

\* M3: candidates that need review now, whatever the window.
ReviewBacklog == Verdict(work.candidates, work.pending <= BacklogLimit)

\* Faulty: the attempt of the cycle itself is read back, too.
ReloadedAt(o, i) == Reloaded(work.attempts[o][i].at)

\* A row that this cycle made is still the object it was, with its zone.
Own(o, i) == fresh.attempt /\ o = target /\ i = Len(work.attempts[o])

SeenAt(o, i) ==
    IF Own(o, i) THEN work.attempts[o][i].at ELSE Reloaded(work.attempts[o][i].at)

Sampled(o, w) == {i \in DOMAIN work.attempts[o] : InWindow(SeenAt(o, i), w)}

\* Row j outranks row i of a briefing: by number, time and delivery_id.
Outranks(o, j, i) ==
    LET a == work.attempts[o][i]
        b == work.attempts[o][j]
    IN \/ a.no < b.no
       \/ a.no = b.no /\ SeenAt(o, i) < SeenAt(o, j)
       \/ a.no = b.no /\ SeenAt(o, i) = SeenAt(o, j) /\ i < j

DeliveredAtLast(o, w) ==
    \E i \in Sampled(o, w) :
        work.attempts[o][i].ok /\ \A j \in Sampled(o, w) : ~Outranks(o, j, i)

\* M4: of 98% of the briefings with attempts in the window the last succeeded.
DeliveryFailure(w) ==
    LET pairs == {o \in Occurrences : Sampled(o, w) # {}}
        failed == {o \in pairs : ~DeliveredAtLast(o, w)}
    IN Verdict(Cardinality(pairs), Cardinality(failed) * 100 <= 2 * Cardinality(pairs))

\* M5: no version repeats a content of its document; the store keeps none.
Duplicates(w) ==
    LET seen(t) == IF fresh.version /\ t = clock THEN t ELSE Reloaded(t)
    IN Verdict(Cardinality({t \in work.versions : InWindow(seen(t), w)}), TRUE)

\* M6: every item of an approved briefing has evidence; a build adds no other.
EvidenceGaps(w) ==
    Verdict(Cardinality({o \in Scheduled(w) : work.briefing[o].approved
                                              /\ work.briefing[o].items}), TRUE)

Computed(w) ==
    [m \in MetricIds |->
        CASE m = "M1" -> CollectionSuccess(w)
          [] m = "M2" -> BriefingDelay(w)
          [] m = "M3" -> ReviewBacklog
          [] m = "M4" -> DeliveryFailure(w)
          [] m = "M5" -> Duplicates(w)
          [] m = "M6" -> EvidenceGaps(w)]

(***************************************************************************)
(* What the metrics are about.                                              *)
(***************************************************************************)
Tick ==
    /\ pc = "idle"
    /\ NoFault
    /\ clock < Horizon
    /\ clock' = clock + 1
    /\ UNCHANGED <<Setting, disk, runs, Cycle, Files, Seen>>

\* Reviewers decide the candidates that wait and approve briefings.
Review(approved) ==
    /\ pc = "idle"
    /\ NoFault
    /\ \A o \in approved : ~disk.briefing[o].approved
    /\ disk.pending > 0 \/ approved # {}
    /\ disk' = [disk EXCEPT !.pending = 0,
                           !.briefing = [o \in Occurrences |->
                              [disk.briefing[o] EXCEPT !.approved = @ \/ o \in approved]]]
    /\ UNCHANGED <<Rest, Cycle, Files, Seen>>

\* The rows of a briefing after its i-th content was sent.
Sent(rows, i, ok) ==
    LET row(n) == [at |-> clock, ok |-> ok, no |-> n]
    IN IF i \in DOMAIN rows THEN [rows EXCEPT ![i] = row(rows[i].no + 1)]
       ELSE Append(rows, row(1))

\* An operator delivers an approved briefing.  The first time needs no more, after
\* that it takes an approved resend: of the content of row i, which is rewritten,
\* or of one that a rebuild left and has no row yet.
OperatorDelivers(o, i, ok) ==
    /\ pc = "idle"
    /\ NoFault
    /\ runs < MaxRuns
    /\ disk.briefing[o].items /\ disk.briefing[o].approved
    /\ i \in 1..(Len(disk.attempts[o]) + 1)
    /\ disk' = [disk EXCEPT !.attempts[o] = Sent(@, i, ok)]
    /\ runs' = runs + 1
    /\ UNCHANGED <<Setting, clock, Cycle, Files, Seen>>

(***************************************************************************)
(* A cycle.                                                                 *)
(***************************************************************************)
\* One more candidate waits, counted as far as M3 tells numbers apart.
OneMore(pending) == IF pending > BacklogLimit THEN pending ELSE pending + 1

\* It is for the next occurrence, or runs an earlier one late or again.  The
\* stages store a version and a candidate, or nothing.
StartCycle(o, collected) ==
    /\ pc = "idle"
    /\ IF collected THEN NoFault ELSE Fault
    /\ runs < MaxRuns
    /\ \A p \in Occurrences : clock < p => o <= p
    /\ runs' = runs + 1
    /\ pc' = "briefing"
    /\ target' = o
    /\ fresh' = [NothingFresh EXCEPT !.version = collected]
    /\ work' = IF collected
                 THEN [disk EXCEPT !.versions = @ \cup {clock},
                                   !.candidates = 1, !.pending = OneMore(@)]
                 ELSE disk
    /\ UNCHANGED <<Setting, clock, disk, built, computed, verdicts, Files, Seen>>

\* The briefings the cursor may take for the last one: stored before o and ended
\* by o.  What is before o is read off scheduled_for, a local time that comes back
\* as UTC: west of UTC a briefing of o itself is before it, too.
Earlier(o) == {p \in BuiltIn(work) : p + offset < o /\ p <= o}

\* Where the window of a briefing starts: at the end of the last one, or
\* InitialLookback before its own, never more than MaxLookback.
WindowStart(o) ==
    LET requested == IF Earlier(o) = {} THEN o - InitialLookback
                     ELSE CHOOSE p \in Earlier(o) : \A q \in Earlier(o) : q <= p
    IN IF requested < o - MaxLookback THEN o - MaxLookback ELSE requested

\* A new or rebuilt briefing is pending, or approved under auto_publish.
Build(items) ==
    /\ pc = "briefing"
    /\ IF items THEN NoFault ELSE Fault
    /\ work' = [work EXCEPT !.briefing[target] =
                  [start |-> WindowStart(target), generated |-> clock,
                   items |-> items, approved |-> auto]]
    /\ built' = TRUE
    /\ pc' = "delivery"
    /\ UNCHANGED <<Rest, disk, target, fresh, computed, verdicts, Files, Seen>>

\* The briefing stage raises; gate and delivery are passed over.
BuildRaises ==
    /\ pc = "briefing"
    /\ Fault
    /\ pc' = "metrics"
    /\ UNCHANGED <<Rest, disk, work, target, built, fresh, computed, verdicts, Files, Seen>>

\* The gate passes what is approved and was never sent: a cycle has no approval
\* to send again, and knows no content but the one it has built.
GatePasses ==
    /\ work.briefing[target].items
    /\ work.briefing[target].approved
    /\ work.attempts[target] = <<>>

\* The first attempt, in a row of its own.
Deliver(ok) ==
    /\ pc = "delivery"
    /\ NoFault
    /\ GatePasses
    /\ work' = [work EXCEPT !.attempts[target] =
                  <<[at |-> clock, ok |-> ok, no |-> 1]>>]
    /\ fresh' = [fresh EXCEPT !.attempt = TRUE]
    /\ pc' = "metrics"
    /\ UNCHANGED <<Rest, disk, target, built, computed, verdicts, Files, Seen>>

\* The gate refuses, or one of its other rules or the connector raises.
DeliverNothing ==
    /\ pc = "delivery"
    /\ IF GatePasses THEN Fault ELSE NoFault
    /\ pc' = "metrics"
    /\ UNCHANGED <<Rest, disk, work, target, built, fresh, computed, verdicts, Files, Seen>>

ComputeMetrics ==
    /\ pc = "metrics"
    /\ NoFault
    /\ computed' = TRUE
    /\ verdicts' = Computed(ObservedWindow)
    /\ pc' = "report"
    /\ broken' = broken \cup {ObservedWindow}
    /\ UNCHANGED <<Rest, disk, work, target, built, fresh, Files, observations>>

\* The stage raises: every verdict stays insufficient_data.
MetricsRaise ==
    /\ pc = "metrics"
    /\ Fault
    /\ pc' = "report"
    /\ broken' = broken \cup {ObservedWindow}
    /\ UNCHANGED <<Rest, disk, work, target, built, fresh, computed, verdicts, Files,
                   observations>>

\* One report per window: a second one of the same window replaces it.
WriteReport ==
    /\ pc = "report"
    /\ NoFault
    /\ reports' = {r \in reports : r.window # ObservedWindow}
                     \cup {[window |-> ObservedWindow, verdicts |-> verdicts]}
    /\ pc' = "alerting"
    /\ UNCHANGED <<Rest, disk, work, target, built, fresh, computed, verdicts, alerts, Seen>>

\* The stage raises, the report of the window, if any, is an older one.
ReportRaises ==
    /\ pc = "report"
    /\ Fault
    /\ pc' = "alerting"
    /\ UNCHANGED <<Rest, disk, work, target, built, fresh, computed, verdicts, Files, Seen>>

\* Faulty: an alert is written once per metric.
AlertKeyOfMetric(m) == <<m>>

\* alert_id: one file per window and metric.
AlertKey(m) == <<ObservedWindow, m>>

\* Results that do not meet their target, in the order of the metrics; with
\* n < 6 the write of the next one raises.
EmitAlerts(n) ==
    LET due == {m \in {Metrics[i] : i \in 1..n} : computed /\ verdicts[m] # "meets_target"}
    IN /\ IF n = 6 THEN NoFault ELSE Fault
       /\ pc = "alerting"
       /\ alerts' = {a \in alerts : a.key \notin {AlertKey(m) : m \in due}}
                       \cup {[key |-> AlertKey(m), verdict |-> verdicts[m]] : m \in due}
       /\ pc' = "commit"
       /\ broken' = IF n = 6 /\ computed
                       /\ [window |-> ObservedWindow, verdicts |-> verdicts] \in reports
                    THEN broken \ {ObservedWindow} ELSE broken
       /\ UNCHANGED <<Rest, disk, work, target, built, fresh, computed, verdicts, reports,
                      observations>>

EndCycle ==
    /\ pc' = "idle"
    /\ work' = NoRows
    /\ target' = 0
    /\ built' = FALSE
    /\ fresh' = NothingFresh
    /\ computed' = FALSE
    /\ verdicts' = NoVerdicts
    /\ UNCHANGED <<Rest, Files, broken>>

\* The rows become permanent and the operator keeps what the cycle returned.
Commit ==
    /\ pc = "commit"
    /\ NoFault
    /\ disk' = work
    /\ observations' = Append(observations, [window |-> ObservedWindow, verdicts |-> verdicts])
    /\ EndCycle

\* The process dies: the files stay, the rows do not.
Abort ==
    /\ pc # "idle"
    /\ Fault
    /\ EndCycle
    /\ UNCHANGED <<disk, observations>>

CycleStep ==
    \/ \E items \in BOOLEAN : Build(items)
    \/ BuildRaises
    \/ \E ok \in BOOLEAN : Deliver(ok)
    \/ DeliverNothing
    \/ ComputeMetrics \/ MetricsRaise
    \/ WriteReport \/ ReportRaises
    \/ \E n \in 0..6 : EmitAlerts(n)
    \/ Commit \/ Abort

Next ==
    \/ Tick
    \/ \E approved \in SUBSET Occurrences : Review(approved)
    \/ \E o \in Occurrences, i \in 1..(MaxRuns + 1), ok \in BOOLEAN : OperatorDelivers(o, i, ok)
    \/ \E o \in Occurrences, collected \in BOOLEAN : StartCycle(o, collected)
    \/ CycleStep

Spec == Init /\ [][Next]_vars

(***************************************************************************)
(* The gate over several weeks.                                             *)
(***************************************************************************)
\* The order of the windows: by their ends, and as they came.
Precedes(i, j) ==
    \/ observations[i].window.end < observations[j].window.end
    \/ observations[i].window.end = observations[j].window.end /\ i < j

Selected ==
    {i \in DOMAIN observations :
        Cardinality({j \in DOMAIN observations : Precedes(i, j)}) < Required}

Successive(is, i, j) ==
    Precedes(i, j) /\ \A k \in is : ~(Precedes(i, k) /\ Precedes(k, j))

\* Faulty: a window may begin before the one before it ends.
ConsecutiveUnsigned(previous, current) == current.start - previous.end <= Day

\* Faulty: the windows have to leave a gap.
ConsecutiveApart(previous, current) ==
    previous.end < current.start /\ current.start - previous.end <= Day

Consecutive(previous, current) ==
    previous.end <= current.start /\ current.start - previous.end <= Day

\* What keeps the gate shut: missing windows, windows that do not follow one
\* another, and every verdict that does not meet its target.
Blockers ==
    {<<"missing", n>> : n \in 1..(Required - Cardinality(Selected))}
    \cup {<<"continuity", j>> : j \in
            {j \in Selected : \E i \in Selected : Successive(Selected, i, j)
                /\ ~Consecutive(observations[i].window, observations[j].window)}}
    \cup {b \in MetricIds \X Selected :
            observations[b[2]].verdicts[b[1]] # "meets_target"}

Eligible == Blockers = {}

(***************************************************************************)
(* Correctness.                                                             *)
(***************************************************************************)
\* Every variable has its type.
TypeOK ==
    /\ \E s \in Settings : offset = s.offset /\ auto = s.auto
    /\ clock \in 0..Horizon
    /\ disk \in Rows
    /\ work \in Rows
    /\ pc \in {"idle", "briefing", "delivery", "metrics", "report", "alerting", "commit"}
    /\ target \in Occurrences \cup {0}
    /\ built \in BOOLEAN
    /\ fresh \in [attempt: BOOLEAN, version: BOOLEAN]
    /\ computed \in BOOLEAN
    /\ verdicts \in [MetricIds -> Verdicts]
    /\ reports \subseteq [window: Window, verdicts: [MetricIds -> Verdicts]]
    /\ alerts \subseteq [key: Window \X MetricIds, verdict: Verdicts \ {"meets_target"}]
    /\ observations \in Seq([window: Window, verdicts: [MetricIds -> Verdicts]])
    /\ runs \in 0..MaxRuns
    /\ faults \in 0..MaxFaults
    /\ broken \subseteq Window

\* A time no other occurrence has passed since, before the one of this cycle.
SinceLast(t) == t < target /\ ~\E p \in Occurrences : t < p /\ p < target

\* A cycle measures every attempt of its week, whoever made it: its window has
\* to reach back through late runs, reruns and builds that failed to whatever
\* was sent, by it or by an operator, since the occurrence before its own.
\* East of UTC that is true of its own attempt only (ops/metrics.py:442).
AttemptsAreMeasured ==
    pc = "metrics" =>
        \A o \in Occurrences : \A i \in DOMAIN work.attempts[o] :
            /\ SinceLast(work.attempts[o][i].at)
            /\ offset = 0 \/ (offset > 0 /\ Own(o, i))
            => i \in Sampled(o, ObservedWindow)

\* The files agree whatever raises or dies between them: what the report of a
\* window says is not met has its alert, with that verdict, unless the last
\* cycle of that window did not complete them (ops/alerting.py:88).
AlertsFollowReports ==
    \A r \in reports : r.window \notin broken =>
        \A m \in MetricIds : r.verdicts[m] # "meets_target" =>
            [key |-> <<r.window, m>>, verdict |-> r.verdicts[m]] \in alerts

\* An open gate rests on as many different weeks as it requires: no window of
\* it is empty or shares a moment with another, although occurrences are run
\* again, windows are cut short and, west of UTC, come out empty
\* (ops/expansion.py:462).
EligibleWeeksDiffer ==
    Eligible => \A i, j \in Selected : Precedes(i, j) =>
        /\ observations[i].window.end <= observations[j].window.start
        /\ observations[j].window.start < observations[j].window.end

\* Occurrences without another one between them.
Adjacent(o, p) == o < p /\ \A q \in Occurrences : ~(o < q /\ q < p)

WeeksFollow(rows) ==
    \A o, p \in BuiltIn(rows) : Adjacent(o, p) /\ rows.briefing[o].generated < o
                                 /\ o <= rows.briefing[p].generated =>
        Consecutive([start |-> rows.briefing[o].start, end |-> o],
                    [start |-> rows.briefing[p].start, end |-> p])

\* The gate is not shut by its own windows: briefings that were built one after
\* the other for successive occurrences are consecutive weeks to it, but for
\* zones west of UTC (ops/expansion.py:306).
WeeksAreConsecutive == offset >= 0 => WeeksFollow(disk)

(***************************************************************************)
(* Why they hold: the inductive invariant.                                  *)
(***************************************************************************)
\* A cycle is of an occurrence and has one attempt of it at most, made now,
\* after the briefing was built.
CycleOK ==
    /\ pc = "idle" => fresh = NothingFresh
    /\ pc # "idle" => target \in Occurrences
    /\ pc = "delivery" => built
    /\ built => pc \notin {"idle", "briefing"}
    /\ pc \in {"briefing", "delivery"} => ~fresh.attempt
    /\ fresh.attempt => built

\* A window that was built reaches back to whatever came after the occurrence
\* before it.
WindowOK ==
    built /\ offset >= 0 =>
        \A t \in 0..clock : SinceLast(t) => work.briefing[target].start <= t

\* No attempt comes from the future.
AttemptsOK ==
    \A rows \in {disk, work} : \A o \in Occurrences :
        \A i \in DOMAIN rows.attempts[o] : rows.attempts[o][i].at <= clock

\* WeeksAreConsecutive of any rows; no briefing comes from the future.
WeeksOK ==
    \A rows \in {disk, work} :
        /\ \A o \in BuiltIn(rows) : rows.briefing[o].generated <= clock
        /\ offset >= 0 => WeeksFollow(rows)

\* Before its alerts are complete the window of a cycle is broken, and a window
\* has one report.
FilesOK ==
    /\ pc \in {"report", "alerting"} => ObservedWindow \in broken
    /\ \A r, q \in reports : r.window = q.window => r = q

\* M2 meets its target on a sample, so in a window that is not empty.
VerdictsOK ==
    /\ verdicts["M2"] = "meets_target" =>
          /\ pc \in {"report", "alerting", "commit"}
          /\ ObservedWindow.start < ObservedWindow.end
    /\ \A s \in DOMAIN observations :
          observations[s].verdicts["M2"] = "meets_target" =>
             observations[s].window.start < observations[s].window.end

IInv ==
    /\ TypeOK
    /\ CycleOK
    /\ WindowOK
    /\ AttemptsOK
    /\ WeeksOK
    /\ FilesOK
    /\ VerdictsOK
    /\ AlertsFollowReports

\* A briefing that was generated late is a breach of M2 in every window that
\* was judged after it was committed (docs/operations-metrics.md:39).
LateBriefingsBreach ==
    pc = "report" /\ computed /\ (\E o \in Scheduled(ObservedWindow) :
            work.briefing[o].generated - o > DelayLimit)
        => verdicts["M2"] = "breached"
================================================================================
