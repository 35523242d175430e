---------------------------- MODULE OperationsProofs ----------------------------
(***************************************************************************)
(* Theorems about Operations: for any schedule, jobs, settings and limits,  *)
(* the attempts of a week are measured, reports and alerts agree, weekly    *)
(* windows follow one another and an open gate rests on different weeks.    *)
(***************************************************************************)
EXTENDS Operations, FiniteSetTheorems, WellFoundedInduction, TLAPS

LEMMA LeastNatural ==
    ASSUME NEW T, T \subseteq Nat, T # {}
    PROVE  \E x \in T : \A y \in T : x <= y
  <1>1. PICK x \in T : \A y \in T : ~(<<y, x>> \in OpToRel(<, Nat))
    BY NatLessThanWellFounded, WFMin
  <1>2. \A y \in T : ~(y < x)
    BY <1>1 DEF OpToRel
  <1> QED BY <1>2

(***************************************************************************)
(* Windows.                                                                 *)
(***************************************************************************)
\* Some earlier occurrence is the latest one: the least that none exceeds.
LEMMA LatestExists ==
    ASSUME NEW S, S \subseteq Nat, S # {}, NEW o \in Nat, \A p \in S : p < o
    PROVE  \E p \in S : \A q \in S : q <= p
  <1> DEFINE bounds == {n \in Nat : \A q \in S : q <= n}
  <1>1. bounds \subseteq Nat /\ o \in bounds
    OBVIOUS
  <1>2. PICK n \in bounds : \A m \in bounds : n <= m
    <2> HIDE DEF bounds
    <2> QED BY <1>1, LeastNatural
  <1>3. CASE n \in S
    BY <1>3
  <1>4. CASE n \notin S
    <2>1. PICK q \in S : TRUE
      OBVIOUS
    <2>2. n # 0 /\ n \in Nat
      BY <1>4, <2>1
    <2>3. \A p \in S : p <= n - 1
      BY <1>4, <2>2
    <2>4. n - 1 \in bounds
      BY <2>2, <2>3
    <2> QED BY <1>2, <2>2, <2>4
  <1> QED BY <1>3, <1>4

\* The start of a window is the end of the latest briefing read as an earlier
\* one or a lookback, cut at the longest lookback.
LEMMA StartIs ==
    ASSUME TypeOK, NEW o \in Occurrences
    PROVE  /\ WindowStart(o) \in Int
           /\ \E requested \in Int :
                /\ WindowStart(o) = IF requested < o - MaxLookback THEN o - MaxLookback
                                    ELSE requested
                /\ \/ /\ requested = o - InitialLookback
                      /\ \A p \in BuiltIn(work) : ~(p + offset < o /\ p <= o)
                   \/ /\ requested \in BuiltIn(work) /\ requested + offset < o
                      /\ requested <= o
                      /\ \A p \in BuiltIn(work) : p + offset < o /\ p <= o => p <= requested
  <1> DEFINE earlier == {p \in BuiltIn(work) : p + offset < o /\ p <= o}
  <1>1. /\ o \in Nat /\ o + 1 \in Nat /\ offset \in Int /\ BuiltIn(work) \subseteq Nat
        /\ \A p \in Nat : p <= o => p < o + 1
    BY OccurrencesAssumption, SettingsAssumption DEF BuiltIn, TypeOK
  <1>5. earlier \subseteq Nat /\ \A p \in earlier : p < o + 1
    BY <1>1
  <1> DEFINE requested == IF earlier = {} THEN o - InitialLookback
                          ELSE CHOOSE p \in earlier : \A q \in earlier : q <= p
  <1>2. WindowStart(o) = IF requested < o - MaxLookback THEN o - MaxLookback ELSE requested
    BY DEF WindowStart, Earlier
  <1>3. CASE earlier = {}
    <2>1. requested = o - InitialLookback /\ requested \in Int
      BY <1>1, <1>3, LookbacksAssumption
    <2> QED BY <1>1, <1>2, <1>3, <2>1, LookbacksAssumption
  <1>4. CASE earlier # {}
    <2>1. \E p \in earlier : \A q \in earlier : q <= p
      <3> HIDE DEF earlier
      <3> QED BY <1>1, <1>4, <1>5, LatestExists
    <2>2. requested \in earlier /\ \A q \in earlier : q <= requested
      BY <1>4, <2>1
    <2>3. /\ requested \in BuiltIn(work) /\ requested + offset < o /\ requested <= o
          /\ requested \in Int
          /\ \A p \in BuiltIn(work) : p + offset < o /\ p <= o => p <= requested
      BY <1>1, <2>2
    <2>4. o - MaxLookback \in Int
      BY <1>1, LookbacksAssumption
    <2> HIDE DEF requested
    <2>5. WindowStart(o) \in Int
      BY <1>2, <2>3, <2>4
    <2> QED BY <1>2, <2>3, <2>5
  <1> QED BY <1>3, <1>4

\* At UTC and east of it those are the briefings of earlier occurrences.
LEMMA EarlierIs ==
    ASSUME TypeOK, offset >= 0, NEW o \in Occurrences, NEW p \in Occurrences
    PROVE  p + offset < o /\ p <= o <=> p < o
  <1>1. offset \in Int /\ o \in Nat /\ p \in Nat
    BY OccurrencesAssumption, SettingsAssumption DEF TypeOK
  <1>2. p < o => p + offset < o
    BY OperationsZonesAssumption DEF TypeOK
  <1> QED BY <1>1, <1>2

LEMMA EasternStartIs ==
    ASSUME TypeOK, offset >= 0, NEW o \in Occurrences
    PROVE  \E requested \in Int :
              /\ WindowStart(o) = IF requested < o - MaxLookback THEN o - MaxLookback
                                  ELSE requested
              /\ \/ /\ requested = o - InitialLookback
                    /\ \A p \in BuiltIn(work) : ~(p < o)
                 \/ /\ requested \in BuiltIn(work) /\ requested < o
                    /\ \A p \in BuiltIn(work) : p < o => p <= requested
  <1>1. \A p \in BuiltIn(work) : p + offset < o /\ p <= o <=> p < o
    BY EarlierIs DEF BuiltIn
  <1> QED BY <1>1, StartIs

\* In a cycle the observed window is one that ends at an occurrence.
LEMMA ObservedIsWindow ==
    ASSUME TypeOK, target \in Occurrences
    PROVE  ObservedWindow \in Window /\ ObservedWindow.end = target
  <1>1. work.briefing[target].start \in Int
    BY DEF TypeOK, Rows, Briefing, NoBriefing
  <1>2. target - Fallback \in Int
    BY OccurrencesAssumption, LookbacksAssumption
  <1> QED BY <1>1, <1>2 DEF ObservedWindow, Window

(***************************************************************************)
(* Verdicts.                                                                *)
(***************************************************************************)
LEMMA VerdictsAre ==
    ASSUME NEW w
    PROVE  /\ Computed(w) \in [MetricIds -> Verdicts]
           /\ Computed(w)["M2"] = BriefingDelay(w)
  <1>1. \A n, meets : Verdict(n, meets) \in Verdicts
    BY DEF Verdict, Verdicts
  <1>2. /\ CollectionSuccess(w) \in Verdicts /\ BriefingDelay(w) \in Verdicts
        /\ ReviewBacklog \in Verdicts /\ DeliveryFailure(w) \in Verdicts
        /\ Duplicates(w) \in Verdicts /\ EvidenceGaps(w) \in Verdicts
    BY <1>1 DEF CollectionSuccess, BriefingDelay, ReviewBacklog, DeliveryFailure,
                Duplicates, EvidenceGaps
  <1> QED BY <1>2 DEF Computed, MetricIds

\* The first n metrics; the first six are all.
LEMMA FirstMetrics ==
    /\ \A n \in 0..6 : {Metrics[i] : i \in 1..n} \subseteq MetricIds
    /\ {Metrics[i] : i \in 1..6} = MetricIds
  <1>1. /\ Metrics[1] = "M1" /\ Metrics[2] = "M2" /\ Metrics[3] = "M3"
        /\ Metrics[4] = "M4" /\ Metrics[5] = "M5" /\ Metrics[6] = "M6"
    BY DEF Metrics
  <1>2. \A i \in 1..6 : i \in {1, 2, 3, 4, 5, 6}
    OBVIOUS
  <1>3. \A i \in 1..6 : Metrics[i] \in MetricIds
    BY <1>1, <1>2 DEF MetricIds
  <1>4. \A m \in MetricIds : \E i \in 1..6 : Metrics[i] = m
    BY <1>1 DEF MetricIds
  <1>5. \A n \in 0..6 : 1..n \subseteq 1..6
    OBVIOUS
  <1> QED BY <1>3, <1>4, <1>5

(***************************************************************************)
(* Type correctness.                                                        *)
(***************************************************************************)
\* What a cycle that ends leaves behind.
LEMMA NothingIsTyped ==
    /\ NoRows \in Rows
    /\ NothingFresh \in [attempt: BOOLEAN, version: BOOLEAN]
    /\ NoVerdicts \in [MetricIds -> Verdicts]
  <1>1. NoRows \in Rows
    BY DEF NoRows, Rows
  <1> QED BY <1>1 DEF NothingFresh, NoVerdicts, Verdicts

\* The verdicts that alert do not meet their target.
LEMMA DueIsTyped ==
    ASSUME TypeOK, NEW n \in 0..6, NEW w \in Window,
           NEW due, due = {m \in {Metrics[i] : i \in 1..n} :
                             computed /\ verdicts[m] # "meets_target"}
    PROVE  {[key |-> <<w, m>>, verdict |-> verdicts[m]] : m \in due}
              \subseteq [key: Window \X MetricIds, verdict: Verdicts \ {"meets_target"}]
  <1>1. due \subseteq MetricIds
    BY FirstMetrics
  <1>2. \A m \in due : verdicts[m] \in Verdicts \ {"meets_target"}
    BY <1>1 DEF TypeOK
  <1> QED BY <1>1, <1>2

\* A missing briefing counts as approved, so that none is approved into being.
LEMMA ApprovalKeepsMissing == [NoBriefing EXCEPT !.approved = TRUE] = NoBriefing
  <1>1. ASSUME NEW r \in [start: Int, generated: Int, items: BOOLEAN, approved: BOOLEAN],
               r.approved = TRUE
        PROVE  [r EXCEPT !.approved = TRUE] = r
    BY <1>1
  <1>2. /\ NoBriefing \in [start: Int, generated: Int, items: BOOLEAN, approved: BOOLEAN]
        /\ NoBriefing.approved = TRUE
    BY DEF NoBriefing
  <1> QED BY <1>1, <1>2

LEMMA EndingIsTyped ==
    ASSUME TypeOK, EndCycle
    PROVE  /\ \E s \in Settings : offset' = s.offset /\ auto' = s.auto
           /\ clock' \in 0..Horizon
           /\ work' \in Rows
           /\ pc' \in {"idle", "briefing", "delivery", "metrics", "report", "alerting", "commit"}
           /\ target' \in Occurrences \cup {0} /\ built' \in BOOLEAN
           /\ fresh' \in [attempt: BOOLEAN, version: BOOLEAN]
           /\ computed' \in BOOLEAN
           /\ verdicts' \in [MetricIds -> Verdicts]
           /\ reports' \subseteq [window: Window, verdicts: [MetricIds -> Verdicts]]
           /\ alerts' \subseteq [key: Window \X MetricIds, verdict: Verdicts \ {"meets_target"}]
           /\ runs' \in 0..MaxRuns
           /\ broken' \subseteq Window
  BY NothingIsTyped DEF TypeOK, EndCycle, Setting, Rest, Files

LEMMA FaultsAreTyped ==
    ASSUME TypeOK, Fault \/ NoFault
    PROVE  faults' \in 0..MaxFaults
  BY OperationsBoundsAssumption DEF TypeOK, Fault, NoFault

LEMMA RowsAreAttempts ==
    ASSUME NEW rows \in Seq(Attempt), NEW i \in DOMAIN rows
    PROVE  rows[i].at \in Nat /\ rows[i].no \in Nat
  <1>1. rows[i] \in Attempt
    OBVIOUS
  <1> QED BY <1>1 DEF Attempt

\* A delivery command writes one row and leaves the others.
LEMMA SentIs ==
    ASSUME clock \in Nat, NEW rows \in Seq(Attempt), NEW i \in 1..(Len(rows) + 1),
           NEW ok \in BOOLEAN
    PROVE  /\ Sent(rows, i, ok) \in Seq(Attempt)
           /\ \A j \in DOMAIN Sent(rows, i, ok) :
                 \/ j \in DOMAIN rows /\ Sent(rows, i, ok)[j] = rows[j]
                 \/ Sent(rows, i, ok)[j].at = clock
  <1>1. CASE i \in DOMAIN rows
    <2>1. rows[i].no + 1 \in Nat
      BY <1>1, RowsAreAttempts
    <2>2. PICK row : row = [at |-> clock, ok |-> ok, no |-> rows[i].no + 1]
      OBVIOUS
    <2>3. row \in Attempt /\ row.at = clock
      BY <2>1, <2>2 DEF Attempt
    <2>4. Sent(rows, i, ok) = [rows EXCEPT ![i] = row]
      BY <1>1, <2>2 DEF Sent
    <2> QED BY <1>1, <2>3, <2>4
  <1>2. CASE i \notin DOMAIN rows
    <2>2. PICK row : row = [at |-> clock, ok |-> ok, no |-> 1]
      OBVIOUS
    <2>3. row \in Attempt /\ row.at = clock
      BY <2>2 DEF Attempt
    <2>4. Sent(rows, i, ok) = Append(rows, row)
      BY <1>2, <2>2 DEF Sent
    <2> QED BY <2>3, <2>4
  <1> QED BY <1>1, <1>2

LEMMA Typing == TypeOK /\ CycleOK /\ [Next]_vars => TypeOK'
  <1> SUFFICES ASSUME TypeOK, CycleOK, [Next]_vars PROVE TypeOK'
    OBVIOUS
  <1> USE DEF Setting, Rest, Cycle, Files, Seen
  <1>0. pc # "idle" => ObservedWindow \in Window /\ target \in Occurrences
    BY ObservedIsWindow DEF CycleOK
  <1>1. CASE Tick
    BY <1>1, FaultsAreTyped, OperationsBoundsAssumption DEF TypeOK, Tick
  <1>2. ASSUME NEW approved \in SUBSET Occurrences, Review(approved)
        PROVE  TypeOK'
    <2>1. /\ disk' = [disk EXCEPT !.pending = 0,
                        !.briefing = [o \in Occurrences |->
                           [disk.briefing[o] EXCEPT !.approved = @ \/ o \in approved]]]
          /\ \A o \in approved : ~disk.briefing[o].approved
      BY <1>2 DEF Review
    <2>2. \A o \in Occurrences :
             [disk.briefing[o] EXCEPT !.approved = @ \/ o \in approved]
                \in Briefing \cup {NoBriefing}
      <3> SUFFICES ASSUME NEW o \in Occurrences
                   PROVE  [disk.briefing[o] EXCEPT !.approved = @ \/ o \in approved]
                             \in Briefing \cup {NoBriefing}
        OBVIOUS
      <3>1. CASE disk.briefing[o] = NoBriefing
        <4>1. (disk.briefing[o].approved \/ o \in approved) = TRUE
          BY <3>1 DEF NoBriefing
        <4> QED BY <3>1, <4>1, ApprovalKeepsMissing
      <3>2. CASE disk.briefing[o] \in Briefing
        BY <3>2 DEF Briefing
      <3> QED BY <3>1, <3>2 DEF TypeOK, Rows
    <2>3. disk' \in Rows
      BY <2>1, <2>2 DEF TypeOK, Rows
    <2> QED BY <1>2, <2>3, FaultsAreTyped DEF TypeOK, Review
  <1>3. ASSUME NEW o \in Occurrences, NEW collected \in BOOLEAN, StartCycle(o, collected)
        PROVE  TypeOK'
    <2>1. faults' \in 0..MaxFaults
      BY <1>3, FaultsAreTyped DEF StartCycle
    <2>2. work' \in Rows
      <3>1. OneMore(disk.pending) \in Nat
        BY DEF TypeOK, Rows, OneMore
      <3>2. disk.versions \cup {clock} \in SUBSET Nat
        BY OperationsBoundsAssumption DEF TypeOK, Rows
      <3> QED BY <1>3, <3>1, <3>2 DEF TypeOK, Rows, StartCycle
    <2>3. fresh' \in [attempt: BOOLEAN, version: BOOLEAN]
      BY <1>3 DEF StartCycle, NothingFresh
    <2>4. runs' \in 0..MaxRuns
      BY <1>3, OperationsBoundsAssumption DEF TypeOK, StartCycle
    <2> QED BY <1>3, <2>1, <2>2, <2>3, <2>4 DEF TypeOK, StartCycle
  <1>4. ASSUME NEW items \in BOOLEAN, Build(items)
        PROVE  TypeOK'
    <2>1. faults' \in 0..MaxFaults
      BY <1>4, FaultsAreTyped DEF Build
    <2>2. PICK briefing : briefing = [start |-> WindowStart(target), generated |-> clock,
                                      items |-> items, approved |-> auto]
      OBVIOUS
    <2>3. briefing \in Briefing
      BY <1>0, <1>4, <2>2, StartIs, OperationsBoundsAssumption, SettingsAssumption
      DEF TypeOK, Briefing, Build
    <2>4. work' = [work EXCEPT !.briefing[target] = briefing]
      BY <1>4, <2>2 DEF Build
    <2>5. work' \in Rows
      BY <2>3, <2>4 DEF TypeOK, Rows
    <2> QED BY <1>4, <2>1, <2>5 DEF TypeOK, Build
  <1>5. CASE BuildRaises
    BY <1>5, FaultsAreTyped DEF TypeOK, BuildRaises
  <1>6. ASSUME NEW ok \in BOOLEAN, Deliver(ok) PROVE TypeOK'
    <2>1. PICK attempt : attempt = [at |-> clock, ok |-> ok, no |-> 1]
      OBVIOUS
    <2>2. attempt \in Attempt
      BY <2>1, OperationsBoundsAssumption DEF TypeOK, Attempt
    <2>3. work' = [work EXCEPT !.attempts[target] = <<attempt>>]
      BY <1>6, <2>1 DEF Deliver
    <2>4. <<attempt>> \in Seq(Attempt)
      BY <2>2
    <2>5. work' \in Rows
      BY <2>3, <2>4 DEF TypeOK, Rows
    <2>6. fresh' \in [attempt: BOOLEAN, version: BOOLEAN]
      BY <1>6 DEF TypeOK, Deliver
    <2> QED BY <1>6, <2>5, <2>6, FaultsAreTyped DEF TypeOK, Deliver
  <1>7. CASE DeliverNothing
    <2>1. faults' \in 0..MaxFaults
      BY <1>7, FaultsAreTyped DEF DeliverNothing
    <2> QED BY <1>7, <2>1 DEF TypeOK, DeliverNothing
  <1>8. CASE ComputeMetrics
    BY <1>0, <1>8, VerdictsAre, FaultsAreTyped DEF TypeOK, ComputeMetrics
  <1>9. CASE MetricsRaise
    BY <1>0, <1>9, FaultsAreTyped DEF TypeOK, MetricsRaise
  <1>10. CASE WriteReport
    BY <1>0, <1>10, FaultsAreTyped DEF TypeOK, WriteReport
  <1>11. CASE ReportRaises
    BY <1>11, FaultsAreTyped DEF TypeOK, ReportRaises
  <1>12. ASSUME NEW n \in 0..6, EmitAlerts(n) PROVE TypeOK'
    <2>1. faults' \in 0..MaxFaults
      BY <1>12, FaultsAreTyped DEF EmitAlerts
    <2>2. PICK due : due = {m \in {Metrics[i] : i \in 1..n} :
                              computed /\ verdicts[m] # "meets_target"}
      OBVIOUS
    <2>3. alerts' \subseteq alerts \cup {[key |-> <<ObservedWindow, m>>,
                                          verdict |-> verdicts[m]] : m \in due}
      BY <1>12, <2>2 DEF EmitAlerts, AlertKey
    <2>4. pc = "alerting" /\ broken' \subseteq broken /\ pc' = "commit"
      BY <1>12 DEF EmitAlerts
    <2>5. alerts' \subseteq [key: Window \X MetricIds, verdict: Verdicts \ {"meets_target"}]
      BY <1>0, <2>2, <2>3, <2>4, DueIsTyped DEF TypeOK
    <2> QED BY <1>12, <2>1, <2>4, <2>5 DEF TypeOK, EmitAlerts
  <1>13. CASE Commit
    <2>1. disk' \in Rows /\ pc = "commit"
      BY <1>13 DEF TypeOK, Commit
    <2>2. observations' \in Seq([window: Window, verdicts: [MetricIds -> Verdicts]])
      BY <1>0, <1>13, <2>1 DEF TypeOK, Commit
    <2> QED BY <1>13, <2>1, <2>2, EndingIsTyped, FaultsAreTyped DEF TypeOK, Commit
  <1>14. CASE Abort
    BY <1>14, EndingIsTyped, FaultsAreTyped DEF TypeOK, Abort
  <1>15. CASE UNCHANGED vars
    BY <1>15 DEF TypeOK, vars
  <1>16. ASSUME NEW o \in Occurrences, NEW i \in 1..(MaxRuns + 1), NEW ok \in BOOLEAN,
                OperatorDelivers(o, i, ok)
         PROVE  TypeOK'
    <2>1. disk.attempts[o] \in Seq(Attempt) /\ clock \in Nat
      BY OperationsBoundsAssumption DEF TypeOK, Rows
    <2>2. PICK rows : rows = Sent(disk.attempts[o], i, ok)
      OBVIOUS
    <2>3. rows \in Seq(Attempt) /\ disk' = [disk EXCEPT !.attempts[o] = rows]
      BY <1>16, <2>1, <2>2, SentIs DEF OperatorDelivers
    <2>4. disk' \in Rows
      BY <2>3 DEF TypeOK, Rows
    <2>5. runs' \in 0..MaxRuns
      BY <1>16, OperationsBoundsAssumption DEF TypeOK, OperatorDelivers
    <2> QED BY <1>16, <2>4, <2>5, FaultsAreTyped DEF TypeOK, OperatorDelivers
  <1> QED BY <1>1, <1>2, <1>3, <1>4, <1>5, <1>6, <1>7, <1>8, <1>9, <1>10, <1>11, <1>12,
             <1>13, <1>14, <1>15, <1>16 DEF Next, CycleStep

(***************************************************************************)
(* The session of a cycle.                                                  *)
(***************************************************************************)
LEMMA NothingFreshIs == NothingFresh.attempt = FALSE
  BY DEF NothingFresh

\* What the two kinds of steps change that most invariants are about.
LEMMA StepsInCycles ==
    ASSUME CycleStep
    PROVE  /\ pc # "idle"
           /\ UNCHANGED <<offset, auto, clock, runs>>
           /\ ~Commit => UNCHANGED <<disk, observations>>
           /\ ~Commit /\ ~Abort => pc' # "idle" /\ UNCHANGED target
           /\ Commit \/ Abort => EndCycle
  BY DEF CycleStep, Build, BuildRaises, Deliver, DeliverNothing, ComputeMetrics,
         MetricsRaise, WriteReport, ReportRaises, EmitAlerts, Commit, Abort, EndCycle,
         Setting, Rest, Cycle, Files, Seen

LEMMA StepsBetweenCycles ==
    ASSUME [Next]_vars, ~CycleStep
    PROVE  /\ UNCHANGED <<offset, auto, built, computed, verdicts, reports, alerts, observations,
                          broken>>
           /\ \/ Tick
              \/ \E approved \in SUBSET Occurrences : Review(approved)
              \/ \E o \in Occurrences, i \in 1..(MaxRuns + 1), ok \in BOOLEAN :
                    OperatorDelivers(o, i, ok)
              \/ \E o \in Occurrences, collected \in BOOLEAN : StartCycle(o, collected)
              \/ UNCHANGED vars
  BY DEF Next, vars, Tick, Review, OperatorDelivers, StartCycle, Setting, Rest, Cycle, Files, Seen

LEMMA CyclesAreKept == TypeOK /\ CycleOK /\ [Next]_vars => CycleOK'
  <1> SUFFICES ASSUME TypeOK, CycleOK, [Next]_vars PROVE CycleOK'
    OBVIOUS
  <1> USE DEF Setting, Rest, Cycle, Files, Seen
  <1>1. CASE CycleStep
    <2>1. ASSUME NEW items \in BOOLEAN, Build(items) PROVE CycleOK'
      BY <2>1 DEF Build, CycleOK
    <2>2. ASSUME NEW ok \in BOOLEAN, Deliver(ok) PROVE CycleOK'
      <3>1. fresh'.attempt = TRUE
        BY <2>2 DEF TypeOK, Deliver
      <3> QED BY <2>2, <3>1 DEF Deliver, CycleOK
    <2>3. CASE BuildRaises \/ DeliverNothing \/ ComputeMetrics \/ MetricsRaise
               \/ WriteReport \/ ReportRaises \/ (\E n \in 0..6 : EmitAlerts(n))
      BY <2>3 DEF BuildRaises, DeliverNothing, ComputeMetrics, MetricsRaise, WriteReport,
                  ReportRaises, EmitAlerts, CycleOK
    <2>4. CASE Commit \/ Abort
      BY <2>4, NothingFreshIs DEF Commit, Abort, EndCycle, CycleOK
    <2> QED BY <1>1, <2>1, <2>2, <2>3, <2>4 DEF CycleStep
  <1>2. CASE ~CycleStep
    <2>1. ASSUME NEW o \in Occurrences, NEW collected \in BOOLEAN, StartCycle(o, collected)
          PROVE  CycleOK'
      <3>1. fresh'.attempt = FALSE
        BY <2>1 DEF StartCycle, NothingFresh
      <3> QED BY <2>1, <3>1 DEF StartCycle, CycleOK
    <2>2. CASE UNCHANGED <<pc, target, built, fresh>>
      BY <2>2 DEF CycleOK
    <2> QED BY <1>2, <2>1, <2>2, StepsBetweenCycles DEF Tick, Review, OperatorDelivers, vars
  <1> QED BY <1>1, <1>2

(***************************************************************************)
(* Attempts.                                                                *)
(***************************************************************************)
LEMMA NothingHasNoAttempts == \A o \in Occurrences : NoRows.attempts[o] = <<>>
  BY DEF NoRows

LEMMA AttemptsAreKept == TypeOK /\ CycleOK /\ AttemptsOK /\ [Next]_vars => AttemptsOK'
  <1> SUFFICES ASSUME TypeOK, CycleOK, AttemptsOK, [Next]_vars PROVE AttemptsOK'
    OBVIOUS
  <1> USE DEF Setting, Rest, Cycle, Files, Seen
  <1>1. clock \in Nat
    BY OperationsBoundsAssumption DEF TypeOK
  <1>2. \A rows \in {disk, work} : \A o \in Occurrences :
           /\ rows.attempts[o] \in Seq(Attempt)
           /\ \A i \in DOMAIN rows.attempts[o] :
                 rows.attempts[o][i].at \in Nat /\ rows.attempts[o][i].at <= clock
    <2>1. ASSUME NEW rows \in {disk, work}, NEW o \in Occurrences
          PROVE  rows.attempts[o] \in Seq(Attempt)
      BY DEF TypeOK, Rows
    <2> QED BY <2>1, RowsAreAttempts DEF AttemptsOK
  <1>3. ASSUME UNCHANGED clock,
               \A rows \in {disk', work'} : \/ rows = NoRows
                                            \/ rows.attempts = disk.attempts
                                            \/ rows.attempts = work.attempts
        PROVE  AttemptsOK'
    BY <1>2, <1>3, NothingHasNoAttempts DEF AttemptsOK
  <1>4. CASE Tick
    <2>1. clock' = clock + 1 /\ UNCHANGED <<disk, work>>
      BY <1>4 DEF Tick
    <2> QED BY <1>1, <1>2, <2>1 DEF AttemptsOK
  <1>5. ASSUME NEW o \in Occurrences, NEW i \in 1..(MaxRuns + 1), NEW ok \in BOOLEAN,
               OperatorDelivers(o, i, ok)
        PROVE  AttemptsOK'
    <2>1. PICK rows : rows = Sent(disk.attempts[o], i, ok)
      OBVIOUS
    <2>2. \A j \in DOMAIN rows :
             \/ j \in DOMAIN disk.attempts[o] /\ rows[j] = disk.attempts[o][j]
             \/ rows[j].at = clock
      BY <1>1, <1>2, <1>5, <2>1, SentIs DEF OperatorDelivers
    <2>3. UNCHANGED <<clock, work>> /\ disk' = [disk EXCEPT !.attempts[o] = rows]
      BY <1>5, <2>1 DEF OperatorDelivers
    <2>4. \A p \in Occurrences :
             disk'.attempts[p] = IF p = o THEN rows ELSE disk.attempts[p]
      BY <2>3 DEF TypeOK, Rows
    <2>5. \A p \in Occurrences : \A j \in DOMAIN disk'.attempts[p] :
             disk'.attempts[p][j].at <= clock
      BY <1>1, <1>2, <2>2, <2>4
    <2> QED BY <1>2, <2>3, <2>5 DEF AttemptsOK
  <1>6. ASSUME NEW ok \in BOOLEAN, Deliver(ok) PROVE AttemptsOK'
    <2>1. PICK attempt : attempt = [at |-> clock, ok |-> ok, no |-> 1]
      OBVIOUS
    <2>2. UNCHANGED <<clock, disk>> /\ work' = [work EXCEPT !.attempts[target] = <<attempt>>]
      BY <1>6, <2>1 DEF Deliver
    <2>3. \A p \in Occurrences :
             work'.attempts[p] = IF p = target THEN <<attempt>> ELSE work.attempts[p]
      BY <2>2 DEF TypeOK, Rows
    <2>4. attempt.at = clock /\ DOMAIN <<attempt>> = {1} /\ <<attempt>>[1] = attempt
      BY <2>1
    <2>5. \A p \in Occurrences : \A j \in DOMAIN work'.attempts[p] :
             work'.attempts[p][j].at <= clock
      BY <1>1, <1>2, <2>3, <2>4
    <2> QED BY <1>2, <2>2, <2>5 DEF AttemptsOK
  <1>7. CASE UNCHANGED vars
    BY <1>3, <1>7 DEF vars
  <1>8. ASSUME NEW approved \in SUBSET Occurrences, Review(approved) PROVE AttemptsOK'
    <2>1. disk'.attempts = disk.attempts
      BY <1>8 DEF Review, TypeOK, Rows
    <2> QED BY <1>3, <1>8, <2>1 DEF Review
  <1>9. ASSUME NEW o \in Occurrences, NEW collected \in BOOLEAN, StartCycle(o, collected)
        PROVE  AttemptsOK'
    <2>1. work'.attempts = disk.attempts
      BY <1>9 DEF StartCycle, TypeOK, Rows
    <2> QED BY <1>3, <1>9, <2>1 DEF StartCycle
  <1>10. ASSUME NEW items \in BOOLEAN, Build(items) PROVE AttemptsOK'
    <2>1. work'.attempts = work.attempts
      BY <1>10 DEF Build, TypeOK, Rows
    <2> QED BY <1>3, <1>10, <2>1 DEF Build
  <1>11. CASE BuildRaises \/ DeliverNothing \/ ComputeMetrics \/ MetricsRaise
              \/ WriteReport \/ ReportRaises \/ (\E n \in 0..6 : EmitAlerts(n))
    BY <1>3, <1>11 DEF BuildRaises, DeliverNothing, ComputeMetrics, MetricsRaise, WriteReport,
                       ReportRaises, EmitAlerts
  <1>12. CASE Commit \/ Abort
    BY <1>3, <1>12 DEF Commit, Abort, EndCycle
  <1> QED BY <1>4, <1>5, <1>6, <1>7, <1>8, <1>9, <1>10, <1>11, <1>12 DEF Next, CycleStep

(***************************************************************************)
(* The windows of briefings.                                                *)
(***************************************************************************)
\* A window that is built reaches back to the occurrence before it: earlier
\* briefings are of that one or older, and the schedule has no gap wider than a
\* lookback.
LEMMA StartIsPast ==
    ASSUME TypeOK, offset >= 0, target \in Occurrences,
           NEW t \in 0..clock, SinceLast(t)
    PROVE  WindowStart(target) <= t
  <1>1. t \in 0..Horizon /\ t \in Nat /\ target \in Nat
    BY OccurrencesAssumption, OperationsBoundsAssumption DEF TypeOK
  <1>2. \A p \in Occurrences : ~(t < p /\ p < target)
    BY DEF SinceLast
  <1>3. target - InitialLookback <= t /\ target - MaxLookback <= t
    BY <1>1, <1>2, OperationsSpacingAssumption
  <1>4. PICK requested \in Int :
           /\ WindowStart(target) = IF requested < target - MaxLookback
                                    THEN target - MaxLookback ELSE requested
           /\ \/ requested = target - InitialLookback
              \/ requested \in BuiltIn(work) /\ requested < target
    BY EasternStartIs
  <1>5. requested <= t
    BY <1>1, <1>2, <1>3, <1>4 DEF BuiltIn
  <1> QED BY <1>3, <1>4, <1>5

LEMMA WindowsAreKept ==
    TypeOK /\ CycleOK /\ WindowOK /\ [Next]_vars => WindowOK'
  <1> SUFFICES ASSUME TypeOK, CycleOK, WindowOK, [Next]_vars
               PROVE  WindowOK'
    OBVIOUS
  <1> USE DEF Setting, Rest, Cycle, Files, Seen
  <1>1. ASSUME UNCHANGED <<offset, clock, target, built>>,
               work'.briefing = work.briefing
        PROVE  WindowOK'
    BY <1>1 DEF WindowOK, SinceLast
  <1>2. ASSUME ~built' PROVE WindowOK'
    BY <1>2 DEF WindowOK
  <1>3. ASSUME NEW items \in BOOLEAN, Build(items) PROVE WindowOK'
    <2>1. target \in Occurrences /\ UNCHANGED <<offset, clock, target>>
      BY <1>3 DEF Build, CycleOK
    <2>2. work'.briefing[target].start = WindowStart(target)
      BY <1>3, <2>1 DEF Build, TypeOK, Rows
    <2>3. \A t : SinceLast(t)' <=> SinceLast(t)
      BY <2>1 DEF SinceLast
    <2> QED BY <2>1, <2>2, <2>3, StartIsPast DEF WindowOK
  <1>4. ASSUME NEW ok \in BOOLEAN, Deliver(ok) PROVE WindowOK'
    <2>1. work'.briefing = work.briefing
      BY <1>4 DEF Deliver, TypeOK, Rows
    <2> QED BY <1>1, <1>4, <2>1 DEF Deliver
  <1>5. CASE BuildRaises \/ DeliverNothing \/ ComputeMetrics \/ MetricsRaise
             \/ WriteReport \/ ReportRaises \/ (\E n \in 0..6 : EmitAlerts(n))
    BY <1>1, <1>5 DEF BuildRaises, DeliverNothing, ComputeMetrics, MetricsRaise, WriteReport,
                      ReportRaises, EmitAlerts
  <1>6. CASE Commit \/ Abort
    BY <1>2, <1>6 DEF Commit, Abort, EndCycle
  <1>7. CASE ~CycleStep
    <2>1. CASE UNCHANGED vars
      BY <1>1, <2>1 DEF vars
    <2>2. CASE pc = "idle"
      <3>1. ~built
        BY <2>2 DEF CycleOK
      <3> QED BY <1>2, <1>7, <3>1, StepsBetweenCycles
    <2> QED BY <1>7, <2>1, <2>2, StepsBetweenCycles
            DEF Tick, Review, OperatorDelivers, StartCycle
  <1> QED BY <1>3, <1>4, <1>5, <1>6, <1>7 DEF CycleStep

\* WeeksFollow is about the start and the generation of built briefings only.
LEMMA SameWeeks ==
    ASSUME NEW rows, NEW other,
           BuiltIn(other) = BuiltIn(rows),
           \A o \in BuiltIn(rows) :
              /\ other.briefing[o].start = rows.briefing[o].start
              /\ other.briefing[o].generated = rows.briefing[o].generated,
           WeeksFollow(rows)
    PROVE  WeeksFollow(other)
  BY DEF WeeksFollow, Consecutive

\* A build that comes after its predecessor starts where that ended, or later
\* by no more than the lookback leaves; one that precedes its successor comes
\* too late to be judged.
LEMMA BuildKeepsWeeks ==
    ASSUME TypeOK, CycleOK, WeeksOK, offset >= 0,
           NEW items \in BOOLEAN, Build(items)
    PROVE  WeeksFollow(work')
  <1>1. /\ target \in Occurrences
        /\ \A o \in Occurrences \ {target} : work'.briefing[o] = work.briefing[o]
        /\ work'.briefing[target].start = WindowStart(target)
        /\ work'.briefing[target].generated = clock
    BY DEF Build, CycleOK, TypeOK, Rows
  <1>2. clock \in 0..Horizon /\ clock \in Nat /\ target \in Nat /\ Occurrences \subseteq Nat
    BY <1>1, OccurrencesAssumption, OperationsBoundsAssumption DEF TypeOK
  <1>3. BuiltIn(work') \subseteq BuiltIn(work) \cup {target} /\ BuiltIn(work) \subseteq Occurrences
    BY <1>1 DEF BuiltIn
  <1>4. \A o \in BuiltIn(work) : work.briefing[o].generated <= clock
    BY DEF WeeksOK
  <1> SUFFICES ASSUME NEW o \in BuiltIn(work'), NEW p \in BuiltIn(work'), Adjacent(o, p),
                      work'.briefing[o].generated < o, o <= work'.briefing[p].generated
               PROVE  Consecutive([start |-> work'.briefing[o].start, end |-> o],
                                  [start |-> work'.briefing[p].start, end |-> p])
    BY DEF WeeksFollow
  <1>5. o \in Occurrences /\ p \in Occurrences /\ o < p
    BY <1>1, <1>3 DEF Adjacent
  <1>6. CASE p = target
    <2>1. o # target /\ o \in BuiltIn(work)
      BY <1>2, <1>3, <1>5, <1>6
    <2>2. \A q \in Occurrences : ~(o < q /\ q < target)
      BY <1>6 DEF Adjacent
    <2>3. PICK requested \in Int :
             /\ WindowStart(target) = IF requested < target - MaxLookback
                                      THEN target - MaxLookback ELSE requested
             /\ \/ \A q \in BuiltIn(work) : ~(q < target)
                \/ /\ requested \in BuiltIn(work) /\ requested < target
                   /\ \A q \in BuiltIn(work) : q < target => q <= requested
      BY <1>1, EasternStartIs
    <2>4. requested = o
      <3>1. o \in Nat /\ o < target
        BY <1>2, <1>5, <1>6
      <3>2. requested \in Occurrences /\ requested < target /\ o <= requested
        BY <1>3, <2>1, <2>3, <3>1
      <3>3. requested \in Nat /\ ~(o < requested)
        BY <1>2, <2>2, <3>2
      <3> QED BY <3>1, <3>2, <3>3
    <2>5. o \in 0..Horizon
      <3>1. o <= clock
        BY <1>1, <1>6
      <3>2. o \in Nat
        BY <1>2, <1>5
      <3> QED BY <1>2, <3>1, <3>2, OperationsBoundsAssumption
    <2>6. target - MaxLookback <= o
      BY <1>1, <2>2, <2>5, OperationsSpacingAssumption
    <2>7. WindowStart(target) = o
      BY <1>2, <1>5, <2>3, <2>4, <2>6, LookbacksAssumption
    <2>8. o <= o /\ o - o <= Day
      BY <1>2, <1>5, TargetsAssumption
    <2> QED BY <1>1, <1>6, <2>7, <2>8 DEF Consecutive
  <1>7. CASE p # target /\ o = target
    <2>1. work.briefing[p].generated <= clock /\ work'.briefing[p] = work.briefing[p]
      BY <1>1, <1>3, <1>4, <1>5, <1>7
    <2>2. work.briefing[p].generated \in Int
      BY <1>5 DEF TypeOK, Rows, Briefing, NoBriefing
    <2> QED BY <1>1, <1>2, <1>7, <2>1, <2>2
  <1>8. CASE p # target /\ o # target
    BY <1>1, <1>3, <1>5, <1>8 DEF WeeksOK, WeeksFollow
  <1> QED BY <1>6, <1>7, <1>8

LEMMA NothingHasNoWeeks == BuiltIn(NoRows) = {} /\ WeeksFollow(NoRows)
  BY DEF BuiltIn, NoRows, WeeksFollow

LEMMA WeeksAreKept ==
    TypeOK /\ CycleOK /\ WeeksOK /\ [Next]_vars => WeeksOK'
  <1> SUFFICES ASSUME TypeOK, CycleOK, WeeksOK, [Next]_vars
               PROVE  WeeksOK'
    OBVIOUS
  <1> USE DEF Setting, Rest, Cycle, Files, Seen
  <1>1. clock \in Nat
    BY OperationsBoundsAssumption DEF TypeOK
  <1>2. \A rows \in {disk, work} : \A o \in BuiltIn(rows) :
           rows.briefing[o].generated <= clock /\ rows.briefing[o].generated \in Nat
    BY DEF WeeksOK, TypeOK, Rows, Briefing, BuiltIn
  <1>3. ASSUME UNCHANGED <<offset, clock>>,
               disk' \in {disk, work} \/ disk'.briefing = disk.briefing,
               work' \in {disk, work, NoRows} \/ work'.briefing \in {disk.briefing, work.briefing}
        PROVE  WeeksOK'
    <2>1. \A rows, other : other.briefing = rows.briefing =>
             BuiltIn(other) = BuiltIn(rows) /\ (WeeksFollow(rows) => WeeksFollow(other))
      BY DEF BuiltIn, WeeksFollow
    <2>2. \A rows \in {disk', work'} :
             \/ rows = NoRows
             \/ \E old \in {disk, work} : rows.briefing = old.briefing
      BY <1>3
    <2> QED BY <1>3, <2>1, <2>2, NothingHasNoWeeks DEF WeeksOK
  <1>4. CASE Tick
    <2>1. clock' = clock + 1 /\ UNCHANGED <<offset, disk, work>>
      BY <1>4 DEF Tick
    <2> QED BY <1>1, <1>2, <2>1 DEF WeeksOK
  <1>5. ASSUME NEW approved \in SUBSET Occurrences, Review(approved)
        PROVE  WeeksOK'
    <2>1. /\ \A o \in Occurrences : disk'.briefing[o] =
                [disk.briefing[o] EXCEPT !.approved = @ \/ o \in approved]
          /\ \A o \in approved : ~disk.briefing[o].approved
          /\ UNCHANGED <<offset, clock, work>>
      BY <1>5 DEF Review, TypeOK, Rows
    <2>2. \A o \in Occurrences :
             /\ disk'.briefing[o].start = disk.briefing[o].start
             /\ disk'.briefing[o].generated = disk.briefing[o].generated
      <3>1. \A r \in Briefing \cup {NoBriefing} : \A b \in BOOLEAN :
               /\ [r EXCEPT !.approved = b].start = r.start
               /\ [r EXCEPT !.approved = b].generated = r.generated
        BY DEF Briefing, NoBriefing
      <3>2. \A o \in Occurrences : disk.briefing[o] \in Briefing \cup {NoBriefing}
        BY DEF TypeOK, Rows
      <3>3. \A o \in Occurrences : (disk.briefing[o].approved \/ o \in approved) \in BOOLEAN
        OBVIOUS
      <3> QED BY <2>1, <3>1, <3>2, <3>3
    <2>3. \A o \in Occurrences : disk.briefing[o] \in Briefing =>
             disk'.briefing[o].generated # -1
      BY <2>2 DEF Briefing
    <2>4. \A o \in Occurrences : disk.briefing[o] = NoBriefing => disk'.briefing[o] = NoBriefing
      <3> SUFFICES ASSUME NEW o \in Occurrences, disk.briefing[o] = NoBriefing
                   PROVE  disk'.briefing[o] = NoBriefing
        OBVIOUS
      <3>1. (disk.briefing[o].approved \/ o \in approved) = TRUE
        BY DEF NoBriefing
      <3> QED BY <2>1, <3>1, ApprovalKeepsMissing
    <2>5. NoBriefing.generated = -1
      BY DEF NoBriefing
    <2>6. \A o \in Occurrences : disk'.briefing[o] = NoBriefing <=> disk.briefing[o] = NoBriefing
      BY <2>3, <2>4, <2>5 DEF TypeOK, Rows
    <2>7. BuiltIn(disk') = BuiltIn(disk)
      BY <2>6 DEF BuiltIn
    <2>8. offset >= 0 => WeeksFollow(disk')
      BY <2>2, <2>7, SameWeeks DEF BuiltIn, WeeksOK
    <2>9. \A o \in BuiltIn(disk') : disk'.briefing[o].generated <= clock'
      BY <2>1, <2>2, <2>7 DEF BuiltIn, WeeksOK
    <2> QED BY <2>1, <2>8, <2>9 DEF WeeksOK
  <1>6. ASSUME NEW o \in Occurrences, NEW collected \in BOOLEAN, StartCycle(o, collected)
        PROVE  WeeksOK'
    <2>1. work'.briefing = disk.briefing /\ UNCHANGED <<offset, clock, disk>>
      BY <1>6 DEF StartCycle, TypeOK, Rows
    <2> QED BY <1>3, <2>1
  <1>7. ASSUME NEW items \in BOOLEAN, Build(items)
        PROVE  WeeksOK'
    <2>1. UNCHANGED <<offset, clock, disk>>
      BY <1>7 DEF Build
    <2>2. \A o \in BuiltIn(work') : work'.briefing[o].generated <= clock
      <3>1. target \in Occurrences
        BY <1>7 DEF Build, CycleOK
      <3>2. \A o \in Occurrences : \/ work'.briefing[o] = work.briefing[o]
                                   \/ work'.briefing[o].generated = clock
        BY <1>7, <3>1 DEF Build, TypeOK, Rows
      <3> QED BY <1>1, <3>2 DEF BuiltIn, WeeksOK
    <2> QED BY <1>7, <2>1, <2>2, BuildKeepsWeeks DEF WeeksOK
  <1>8. ASSUME NEW ok \in BOOLEAN, Deliver(ok) PROVE WeeksOK'
    <2>1. work'.briefing = work.briefing /\ UNCHANGED <<offset, clock, disk>>
      BY <1>8 DEF Deliver, TypeOK, Rows
    <2> QED BY <1>3, <2>1
  <1>9. CASE BuildRaises \/ DeliverNothing \/ ComputeMetrics \/ MetricsRaise
             \/ WriteReport \/ ReportRaises \/ (\E n \in 0..6 : EmitAlerts(n))
    BY <1>3, <1>9 DEF BuildRaises, DeliverNothing, ComputeMetrics, MetricsRaise, WriteReport,
                      ReportRaises, EmitAlerts
  <1>10. CASE Commit \/ Abort
    BY <1>3, <1>10 DEF Commit, Abort, EndCycle
  <1>11. CASE UNCHANGED vars
    BY <1>3, <1>11 DEF vars
  <1>12. ASSUME NEW o \in Occurrences, NEW i \in 1..(MaxRuns + 1), NEW ok \in BOOLEAN,
                OperatorDelivers(o, i, ok)
         PROVE  WeeksOK'
    <2>1. disk'.briefing = disk.briefing /\ UNCHANGED <<offset, clock, work>>
      BY <1>12 DEF OperatorDelivers, TypeOK, Rows
    <2> QED BY <1>3, <2>1
  <1> QED BY <1>4, <1>5, <1>6, <1>7, <1>8, <1>9, <1>10, <1>11, <1>12 DEF Next, CycleStep

(***************************************************************************)
(* Files.                                                                   *)
(***************************************************************************)
\* Past the delivery stage the observed window stays.
LEMMA WindowStays ==
    ASSUME UNCHANGED <<work, target, built>>
    PROVE  ObservedWindow' = ObservedWindow
  BY DEF ObservedWindow

LEMMA FilesAreKept == FilesOK /\ [Next]_vars => FilesOK'
  <1> SUFFICES ASSUME FilesOK, [Next]_vars PROVE FilesOK'
    OBVIOUS
  <1> USE DEF Setting, Rest, Cycle, Files, Seen
  <1>1. ASSUME UNCHANGED reports, pc' \notin {"report", "alerting"}
        PROVE  FilesOK'
    BY <1>1 DEF FilesOK
  <1>2. CASE ComputeMetrics \/ MetricsRaise
    <2>1. UNCHANGED <<work, target, built, reports>> /\ broken' = broken \cup {ObservedWindow}
      BY <1>2 DEF ComputeMetrics, MetricsRaise
    <2> QED BY <2>1, WindowStays DEF FilesOK
  <1>3. CASE WriteReport
    <2>1. /\ UNCHANGED <<work, target, built, broken>> /\ pc = "report"
          /\ reports' = {r \in reports : r.window # ObservedWindow}
                           \cup {[window |-> ObservedWindow, verdicts |-> verdicts]}
      BY <1>3 DEF WriteReport
    <2>2. [window |-> ObservedWindow, verdicts |-> verdicts].window = ObservedWindow
      OBVIOUS
    <2>3. \A r, q \in reports' : r.window = q.window => r = q
      BY <2>1, <2>2 DEF FilesOK
    <2> QED BY <2>1, <2>3, WindowStays DEF FilesOK
  <1>4. CASE ReportRaises
    BY <1>4, WindowStays DEF ReportRaises, FilesOK
  <1>5. CASE BuildRaises \/ DeliverNothing \/ Commit \/ Abort
             \/ (\E n \in 0..6 : EmitAlerts(n))
             \/ (\E items \in BOOLEAN : Build(items))
             \/ (\E ok \in BOOLEAN : Deliver(ok))
    BY <1>1, <1>5 DEF BuildRaises, DeliverNothing, Commit, Abort, EndCycle, EmitAlerts, Build,
                      Deliver
  <1>6. CASE ~CycleStep
    <2>1. UNCHANGED reports /\ (pc' \notin {"report", "alerting"} \/ UNCHANGED vars)
      BY <1>6, StepsBetweenCycles
      DEF Tick, Review, OperatorDelivers, StartCycle
    <2>2. CASE UNCHANGED vars
      BY <2>2, WindowStays DEF vars, FilesOK
    <2> QED BY <1>1, <2>1, <2>2
  <1> QED BY <1>2, <1>3, <1>4, <1>5, <1>6 DEF CycleStep

\* A file that is written belongs to the window of the cycle, and that window
\* is broken until its last file is there.
LEMMA AlertsKeepFollowing ==
    TypeOK /\ FilesOK /\ AlertsFollowReports /\ [Next]_vars => AlertsFollowReports'
  <1> SUFFICES ASSUME TypeOK, FilesOK, AlertsFollowReports, [Next]_vars
               PROVE  AlertsFollowReports'
    OBVIOUS
  <1> USE DEF Setting, Rest, Cycle, Files, Seen
  <1>1. ASSUME UNCHANGED <<reports, alerts>>, broken \subseteq broken'
        PROVE  AlertsFollowReports'
    BY <1>1 DEF AlertsFollowReports
  <1>2. CASE WriteReport
    <2>1. /\ UNCHANGED <<alerts, broken>> /\ ObservedWindow \in broken
          /\ reports' = {r \in reports : r.window # ObservedWindow}
                           \cup {[window |-> ObservedWindow, verdicts |-> verdicts]}
      BY <1>2 DEF WriteReport, FilesOK
    <2>2. \A r \in reports' : r.window \notin broken => r \in reports
      BY <2>1
    <2> QED BY <2>1, <2>2 DEF AlertsFollowReports
  <1>3. ASSUME NEW n \in 0..6, EmitAlerts(n) PROVE AlertsFollowReports'
    <2>1. PICK due : due = {m \in {Metrics[i] : i \in 1..n} :
                              computed /\ verdicts[m] # "meets_target"}
      OBVIOUS
    <2>2. PICK w : w = ObservedWindow
      OBVIOUS
    <2>3. PICK mine : mine = [window |-> w, verdicts |-> verdicts]
      OBVIOUS
    <2>4. /\ alerts' = {a \in alerts : a.key \notin {<<w, m>> : m \in due}}
                          \cup {[key |-> <<w, m>>, verdict |-> verdicts[m]] : m \in due}
          /\ broken' = IF n = 6 /\ computed /\ mine \in reports THEN broken \ {w} ELSE broken
          /\ reports' = reports /\ w \in broken
      BY <1>3, <2>1, <2>2, <2>3 DEF EmitAlerts, AlertKey, FilesOK
    <2> SUFFICES ASSUME NEW r \in reports, r.window \notin broken',
                        NEW m \in MetricIds, r.verdicts[m] # "meets_target"
                 PROVE  [key |-> <<r.window, m>>, verdict |-> r.verdicts[m]] \in alerts'
      BY <2>4 DEF AlertsFollowReports
    <2>5. CASE r.window = w
      <3>1. n = 6 /\ computed /\ mine \in reports
        BY <2>4, <2>5
      <3>2. mine.window = w /\ mine.verdicts = verdicts
        BY <2>3
      <3>3. r = mine
        BY <2>5, <3>1, <3>2 DEF FilesOK
      <3>4. m \in due
        BY <2>1, <3>1, <3>2, <3>3, FirstMetrics
      <3> QED BY <2>4, <2>5, <3>2, <3>3, <3>4
    <2>6. CASE r.window # w
      <3>1. r.window \notin broken
        BY <2>4, <2>6
      <3>2. PICK alert : alert = [key |-> <<r.window, m>>, verdict |-> r.verdicts[m]]
        OBVIOUS
      <3>3. alert \in alerts
        BY <3>1, <3>2 DEF AlertsFollowReports
      <3>4. alert.key \notin {<<w, k>> : k \in due}
        BY <2>6, <3>2
      <3> QED BY <2>4, <3>2, <3>3, <3>4
    <2> QED BY <2>5, <2>6
  <1>4. CASE CycleStep /\ ~WriteReport /\ ~(\E n \in 0..6 : EmitAlerts(n))
    BY <1>1, <1>4 DEF CycleStep, Build, BuildRaises, Deliver, DeliverNothing, ComputeMetrics,
                      MetricsRaise, ReportRaises, Commit, Abort, EndCycle
  <1>5. CASE ~CycleStep
    BY <1>1, <1>5, StepsBetweenCycles
  <1> QED BY <1>2, <1>3, <1>4, <1>5

(***************************************************************************)
(* Verdicts on weeks.                                                       *)
(***************************************************************************)
\* What M2 judges has a sample, and a window with a sample is not empty.
LEMMA MeetingHasSample ==
    ASSUME NEW w \in Window, BriefingDelay(w) = "meets_target"
    PROVE  w.start < w.end
  <1>1. Scheduled(w) # {}
    <2>1. Cardinality(Scheduled(w)) # 0
      BY DEF BriefingDelay, Verdict
    <2> QED BY <2>1, FS_EmptySet
  <1>2. PICK o \in Occurrences : InWindow(o, w)
    BY <1>1 DEF Scheduled, BuiltIn
  <1>3. w.start \in Int /\ w.end \in Nat /\ o \in Nat
    BY OccurrencesAssumption DEF Window
  <1> QED BY <1>2, <1>3 DEF InWindow

LEMMA VerdictsAreKept ==
    TypeOK /\ CycleOK /\ VerdictsOK /\ [Next]_vars => VerdictsOK'
  <1> SUFFICES ASSUME TypeOK, CycleOK, VerdictsOK, [Next]_vars
               PROVE  VerdictsOK'
    OBVIOUS
  <1> USE DEF Setting, Rest, Cycle, Files, Seen
  <1>1. ASSUME UNCHANGED <<observations, work, target, built>>,
               verdicts'["M2"] = "meets_target" =>
                  /\ pc' \in {"report", "alerting", "commit"}
                  /\ ObservedWindow.start < ObservedWindow.end
        PROVE  VerdictsOK'
    <2>1. PICK w : w = ObservedWindow
      OBVIOUS
    <2>2. w = ObservedWindow'
      BY <1>1, <2>1, WindowStays
    <2> QED BY <1>1, <2>1, <2>2 DEF VerdictsOK
  <1>2. ASSUME UNCHANGED observations, verdicts'["M2"] # "meets_target" PROVE VerdictsOK'
    BY <1>2 DEF VerdictsOK
  <1>3. CASE ComputeMetrics
    <2>1. /\ UNCHANGED <<observations, work, target, built>> /\ pc = "metrics" /\ pc' = "report"
          /\ verdicts' = Computed(ObservedWindow)
      BY <1>3 DEF ComputeMetrics
    <2>2. verdicts'["M2"] = BriefingDelay(ObservedWindow)
      BY <2>1, VerdictsAre
    <2>3. ObservedWindow \in Window
      BY <2>1, ObservedIsWindow DEF CycleOK
    <2> QED BY <1>1, <2>1, <2>2, <2>3, MeetingHasSample
  <1>4. CASE MetricsRaise \/ WriteReport \/ ReportRaises \/ (\E n \in 0..6 : EmitAlerts(n))
    <2>1. /\ UNCHANGED <<observations, work, target, built, verdicts>>
          /\ pc' \in {"report", "alerting", "commit"}
      BY <1>4 DEF MetricsRaise, WriteReport, ReportRaises, EmitAlerts
    <2> QED BY <1>1, <2>1 DEF VerdictsOK
  <1>5. CASE Abort
    <2>1. verdicts'["M2"] = "insufficient_data" /\ UNCHANGED observations
      BY <1>5 DEF Abort, EndCycle, NoVerdicts, MetricIds
    <2> QED BY <1>2, <2>1
  <1>6. ASSUME UNCHANGED <<observations, verdicts>>, pc \in {"idle", "briefing", "delivery"}
        PROVE  VerdictsOK'
    BY <1>2, <1>6 DEF VerdictsOK
  <1>7. CASE BuildRaises \/ DeliverNothing \/ (\E items \in BOOLEAN : Build(items))
             \/ (\E ok \in BOOLEAN : Deliver(ok))
    BY <1>6, <1>7 DEF BuildRaises, DeliverNothing, Build, Deliver
  <1>8. CASE Commit
    <2>1. PICK now : now = [window |-> ObservedWindow, verdicts |-> verdicts]
      OBVIOUS
    <2>2. observations' = Append(observations, now)
      BY <1>8, <2>1 DEF Commit
    <2>3. now.window = ObservedWindow /\ now.verdicts = verdicts
      BY <2>1
    <2>4. \A s \in DOMAIN observations' :
             \/ s \in DOMAIN observations /\ observations'[s] = observations[s]
             \/ observations'[s] = now
      BY <2>2 DEF TypeOK
    <2>5. verdicts'["M2"] = "insufficient_data"
      BY <1>8 DEF Commit, EndCycle, NoVerdicts, MetricIds
    <2> QED BY <2>3, <2>4, <2>5 DEF VerdictsOK
  <1>9. CASE ~CycleStep
    <2>1. CASE UNCHANGED vars
      BY <1>1, <2>1 DEF vars, VerdictsOK
    <2>2. CASE pc = "idle"
      BY <1>6, <1>9, <2>2, StepsBetweenCycles
    <2> QED BY <1>9, <2>1, <2>2, StepsBetweenCycles
            DEF Tick, Review, OperatorDelivers, StartCycle
  <1> QED BY <1>3, <1>4, <1>5, <1>7, <1>8, <1>9 DEF CycleStep

(***************************************************************************)
(* The inductive invariant.                                                 *)
(***************************************************************************)
LEMMA Initially == Init => IInv
  <1> SUFFICES ASSUME Init PROVE IInv
    OBVIOUS
  <1> USE DEF Init
  <1>1. TypeOK
    <2>1. 0 \in 0..Horizon /\ 0 \in 0..MaxRuns /\ 0 \in 0..MaxFaults
      BY OperationsBoundsAssumption
    <2>2. <<>> \in Seq([window: Window, verdicts: [MetricIds -> Verdicts]])
      OBVIOUS
    <2> QED BY <2>1, <2>2, NothingIsTyped DEF TypeOK
  <1>2. CycleOK /\ WindowOK
    BY NothingFreshIs DEF CycleOK, WindowOK
  <1>3. AttemptsOK
    BY NothingHasNoAttempts DEF AttemptsOK
  <1>4. WeeksOK
    BY NothingHasNoWeeks DEF WeeksOK
  <1>5. FilesOK /\ AlertsFollowReports
    BY DEF FilesOK, AlertsFollowReports
  <1>6. VerdictsOK
    BY DEF VerdictsOK, NoVerdicts, MetricIds
  <1> QED BY <1>1, <1>2, <1>3, <1>4, <1>5, <1>6 DEF IInv

LEMMA Inductive == Spec => []IInv
  <1>1. IInv /\ [Next]_vars => IInv'
    BY Typing, CyclesAreKept, WindowsAreKept, AttemptsAreKept, WeeksAreKept, FilesAreKept,
       VerdictsAreKept, AlertsKeepFollowing
    DEF IInv
  <1> QED BY <1>1, Initially, PTL DEF Spec

(***************************************************************************)
(* Samples.                                                                 *)
(***************************************************************************)
\* An attempt since the last occurrence is in the window, for that reaches back
\* to it, and it is where it was made: without offset, or as an object that was
\* not read back.
LEMMA WeekIsSampled == IInv => AttemptsAreMeasured
  <1> SUFFICES ASSUME IInv, pc = "metrics",
                      NEW o \in Occurrences, NEW i \in DOMAIN work.attempts[o],
                      SinceLast(work.attempts[o][i].at),
                      offset = 0 \/ (offset > 0 /\ Own(o, i))
               PROVE  i \in Sampled(o, ObservedWindow)
    BY DEF AttemptsAreMeasured
  <1>1. PICK t : t = work.attempts[o][i].at
    OBVIOUS
  <1>2. t \in Nat /\ t <= clock /\ clock \in 0..Horizon
    <2>1. work.attempts[o] \in Seq(Attempt)
      BY DEF IInv, TypeOK, Rows
    <2> QED BY <1>1, <2>1, RowsAreAttempts DEF IInv, TypeOK, AttemptsOK
  <1>3. SeenAt(o, i) = t
    BY <1>1, <1>2 DEF SeenAt, Reloaded
  <1>4. /\ t \in 0..clock /\ t \in 0..Horizon
        /\ SinceLast(t) /\ t < target /\ target \in Occurrences
    BY <1>1, <1>2, OperationsBoundsAssumption DEF SinceLast, IInv, CycleOK
  <1>5. ObservedWindow.start <= t
    <2>1. CASE built
      <3>1. offset >= 0
        BY SettingsAssumption DEF IInv, TypeOK
      <3> QED BY <1>4, <2>1, <3>1 DEF IInv, WindowOK, ObservedWindow
    <2>2. CASE ~built
      <3>1. target - Fallback <= t
        BY <1>4, OperationsSpacingAssumption DEF SinceLast
      <3> QED BY <2>2, <3>1 DEF ObservedWindow
    <2> QED BY <2>1, <2>2
  <1>6. ObservedWindow.end = target
    BY DEF ObservedWindow
  <1> QED BY <1>3, <1>4, <1>5, <1>6 DEF Sampled, InWindow

(***************************************************************************)
(* The gate.                                                                *)
(***************************************************************************)
\* An observation has a window, which ends at an occurrence.
LEMMA ObservationsAreTyped ==
    ASSUME TypeOK, NEW s \in DOMAIN observations
    PROVE  /\ s \in 1..Len(observations) /\ Len(observations) \in Nat
           /\ observations[s].window.end \in Nat
           /\ observations[s].window.start \in Int
  <1> DEFINE E == [window: Window, verdicts: [MetricIds -> Verdicts]]
  <1>1. observations \in Seq(E)
    BY DEF TypeOK
  <1>2. observations[s] \in E /\ s \in 1..Len(observations) /\ Len(observations) \in Nat
    <2> HIDE DEF E
    <2> QED BY <1>1
  <1>3. observations[s].window \in Window
    BY <1>2
  <1> QED BY <1>2, <1>3, OccurrencesAssumption DEF Window

\* Of the windows before one some is the last: the latest to end, and of those
\* the latest to come.
LEMMA PredecessorExists ==
    ASSUME TypeOK, NEW is, is \subseteq DOMAIN observations,
           NEW i \in is, NEW j \in is, Precedes(i, j)
    PROVE  \E k \in is : Successive(is, k, j) /\ (k = i \/ Precedes(i, k))
  <1> DEFINE end(m) == observations[m].window.end
             before == {m \in is : Precedes(m, j)}
             ends == {end(m) : m \in before}
  <1>1. \A m \in is : m \in 1..Len(observations) /\ end(m) \in Nat
    BY ObservationsAreTyped
  <1>2. Len(observations) \in Nat
    BY ObservationsAreTyped
  <1>3. PICK e \in ends : \A x \in ends : x <= e
    <2>1. ends \subseteq Nat /\ ends # {} /\ end(j) + 1 \in Nat
      BY <1>1
    <2>2. \A x \in ends : x < end(j) + 1
      BY <1>1 DEF Precedes
    <2> HIDE DEF ends, end
    <2> QED BY <2>1, <2>2, LatestExists
  <1> DEFINE last == {m \in before : end(m) = e}
  <1>4. PICK k \in last : \A m \in last : m <= k
    <2>1. /\ last \subseteq Nat /\ last # {} /\ Len(observations) + 1 \in Nat
          /\ \A m \in last : m < Len(observations) + 1
      BY <1>1, <1>2, <1>3
    <2> HIDE DEF last
    <2> QED BY <2>1, LatestExists
  <1>5. \A m \in before : m = k \/ Precedes(m, k)
    <2> SUFFICES ASSUME NEW m \in before PROVE m = k \/ Precedes(m, k)
      OBVIOUS
    <2>1. end(m) <= e /\ end(k) = e /\ (end(m) = e => m <= k)
      BY <1>3, <1>4
    <2>2. m \in Nat /\ k \in Nat /\ end(m) \in Nat /\ end(k) \in Nat
      BY <1>1, <1>4
    <2> QED BY <2>1, <2>2 DEF Precedes
  <1>6. \A m \in is : ~(Precedes(k, m) /\ (m = k \/ Precedes(m, k)))
    BY <1>1, <1>4 DEF Precedes
  <1>7. Successive(is, k, j)
    BY <1>4, <1>5, <1>6 DEF Successive
  <1> QED BY <1>4, <1>5, <1>7

\* Then the gate compared it with that one, and what comes earlier ends earlier.
LEMMA OpenGateHasWeeks == IInv => EligibleWeeksDiffer
  <1> SUFFICES ASSUME IInv, Eligible,
                      NEW i \in Selected, NEW j \in Selected, Precedes(i, j)
               PROVE  /\ observations[i].window.end <= observations[j].window.start
                      /\ observations[j].window.start < observations[j].window.end
    BY DEF EligibleWeeksDiffer
  <1>1. Selected \subseteq DOMAIN observations /\ TypeOK
    BY DEF Selected, IInv
  <1>2. PICK k \in Selected : Successive(Selected, k, j) /\ (k = i \/ Precedes(i, k))
    BY <1>1, PredecessorExists
  <1>3. Consecutive(observations[k].window, observations[j].window)
    <2>1. <<"continuity", j>> \notin Blockers
      BY DEF Eligible
    <2> QED BY <1>2, <2>1 DEF Blockers
  <1>4. observations[j].window.start < observations[j].window.end
    <2>1. <<"M2", j>> \notin {b \in MetricIds \X Selected :
                                observations[b[2]].verdicts[b[1]] # "meets_target"}
      BY DEF Eligible, Blockers
    <2>2. observations[j].verdicts["M2"] = "meets_target"
      BY <2>1 DEF MetricIds
    <2> QED BY <1>1, <2>2 DEF IInv, VerdictsOK
  <1>5. \A m \in Selected : observations[m].window.end \in Nat
                            /\ observations[m].window.start \in Int
    BY <1>1, ObservationsAreTyped
  <1>6. observations[i].window.end <= observations[k].window.end
    BY <1>2, <1>5 DEF Precedes
  <1> QED BY <1>3, <1>4, <1>5, <1>6 DEF Consecutive

(***************************************************************************)
(* Late briefings.                                                          *)
(***************************************************************************)
\* East of UTC times of generation are read back too early, and a late briefing
\* may pass for one in time; elsewhere the metric says what is documented.
LEMMA LateIsBreached ==
    ASSUME TypeOK, offset <= 0, NEW w, NEW o \in Scheduled(w),
           work.briefing[o].generated - o > DelayLimit
    PROVE  BriefingDelay(w) = "breached"
  <1>1. Cardinality(Scheduled(w)) # 0
    <2>1. Scheduled(w) \in SUBSET Occurrences
      BY DEF Scheduled, BuiltIn
    <2>2. IsFiniteSet(Scheduled(w))
      BY <2>1, OccurrencesAssumption, FS_Subset
    <2> QED BY <2>2, FS_EmptySet
  <1>2. ~(Delay(o) <= DelayLimit)
    <2>1. o \in Nat /\ DelayLimit \in Nat /\ offset \in Int
      BY OccurrencesAssumption, SettingsAssumption, TargetsAssumption
      DEF Scheduled, BuiltIn, TypeOK
    <2>2. work.briefing[o].generated \in Int
      BY DEF TypeOK, Rows, Briefing, NoBriefing, Scheduled, BuiltIn
    <2> QED BY <2>1, <2>2 DEF Delay, Reloaded
  <1> QED BY <1>1, <1>2 DEF BriefingDelay, Verdict

LEMMA LateStaysBreached ==
    ASSUME TypeOK, TypeOK', \A s \in Settings : s.offset <= 0, [Next]_vars,
           computed => pc \in {"report", "alerting", "commit"}, LateBriefingsBreach
    PROVE  /\ computed' => pc' \in {"report", "alerting", "commit"}
           /\ LateBriefingsBreach'
  <1> USE DEF Setting, Rest, Cycle, Files, Seen
  <1>1. CASE ComputeMetrics
    <2>1. /\ UNCHANGED <<work, target, built>> /\ pc' = "report"
          /\ verdicts' = Computed(ObservedWindow)
      BY <1>1 DEF ComputeMetrics
    <2>2. PICK w : w = ObservedWindow
      OBVIOUS
    <2>3. w = ObservedWindow' /\ Scheduled(w)' = Scheduled(w)
      BY <2>1, <2>2, WindowStays DEF Scheduled, BuiltIn
    <2>4. verdicts'["M2"] = BriefingDelay(w)
      BY <2>1, <2>2 DEF Computed, MetricIds
    <2>5. offset <= 0
      BY DEF TypeOK
    <2>6. (\E o \in Scheduled(w) : work.briefing[o].generated - o > DelayLimit)
             => verdicts'["M2"] = "breached"
      BY <2>4, <2>5, LateIsBreached
    <2> QED BY <2>1, <2>3, <2>6 DEF LateBriefingsBreach
  <1>2. CASE CycleStep /\ ~ComputeMetrics
    <2>1. pc' = "report" => ~computed'
      BY <1>2 DEF CycleStep, Build, BuildRaises, Deliver, DeliverNothing, MetricsRaise,
                  WriteReport, ReportRaises, EmitAlerts, Commit, Abort, EndCycle
    <2>2. computed' => pc' \in {"report", "alerting", "commit"}
      BY <1>2 DEF CycleStep, Build, BuildRaises, Deliver, DeliverNothing, MetricsRaise,
                  WriteReport, ReportRaises, EmitAlerts, Commit, Abort, EndCycle
    <2> QED BY <2>1, <2>2 DEF LateBriefingsBreach
  <1>3. CASE ~CycleStep
    <2>1. CASE UNCHANGED vars
      BY <2>1 DEF vars, LateBriefingsBreach, Scheduled, BuiltIn, ObservedWindow
    <2>2. CASE pc = "idle" /\ pc' # "report"
      BY <1>3, <2>2, StepsBetweenCycles DEF LateBriefingsBreach
    <2> QED BY <1>3, <2>1, <2>2, StepsBetweenCycles
            DEF Tick, Review, OperatorDelivers, StartCycle
  <1> QED BY <1>1, <1>2, <1>3 DEF CycleStep

(***************************************************************************)
(* The theorems.                                                            *)
(***************************************************************************)
\* The types of the rows, the running cycle, the files and the observations
\* (orchestration/cycle.py, ops/metrics.py, ops/alerting.py).
THEOREM OperationsTypeCorrect == Spec => []TypeOK
  <1>1. IInv => TypeOK
    BY DEF IInv
  <1> QED BY <1>1, Inductive, PTL

\* For any schedule without a gap wider than the lookbacks, at UTC whatever cycles
\* and operators sent since the last occurrence is in the sample of M4 of the cycles
\* of the next one; east of UTC, what that cycle itself sent
\* (calculate_m4_delivery_failure_rate).
THEOREM WeeksAttemptsAreMeasured == Spec => []AttemptsAreMeasured
  BY Inductive, WeekIsSampled, PTL

\* Report and alert files of a window agree, whatever raises or dies, unless the
\* last cycle of the window did not complete them (emit_metric_alerts).
THEOREM FilesAgree == Spec => []AlertsFollowReports
  <1>1. IInv => AlertsFollowReports
    BY DEF IInv
  <1> QED BY <1>1, Inductive, PTL

\* At UTC and east of it, where zones are smaller than the gaps of the schedule,
\* briefings built one after the other for successive occurrences are consecutive
\* weeks to the gate (_consecutive).
THEOREM GateAcceptsItsWeeks == Spec => []WeeksAreConsecutive
  <1>1. IInv => WeeksAreConsecutive
    BY DEF IInv, WeeksOK, WeeksAreConsecutive
  <1> QED BY <1>1, Inductive, PTL

\* In any zone and for any number of weeks required, an open gate rests on
\* windows that are not empty and share no moment (evaluate_four_week_expansion).
THEOREM OpenGateMeansDifferentWeeks == Spec => []EligibleWeeksDiffer
  BY Inductive, OpenGateHasWeeks, PTL

\* At UTC and west of it a briefing that was generated late is a breach of M2 in
\* every window it is scheduled in (calculate_m2_briefing_delay): what
\* docs/operations-metrics.md:39 says fails in the zones east of it only.
THEOREM LateBriefingsAreBreaches ==
    ASSUME \A s \in Settings : s.offset <= 0
    PROVE  Spec => []LateBriefingsBreach
  <1> DEFINE Inv == /\ computed => pc \in {"report", "alerting", "commit"}
                    /\ LateBriefingsBreach
  <1>1. Init => Inv
    BY DEF Init, LateBriefingsBreach
  <1>2. TypeOK /\ TypeOK' /\ Inv /\ [Next]_vars => Inv'
    BY LateStaysBreached
  <1>3. Inv => LateBriefingsBreach
    OBVIOUS
  <1> HIDE DEF Inv
  <1> QED BY <1>1, <1>2, <1>3, OperationsTypeCorrect, PTL DEF Spec
=================================================================================
