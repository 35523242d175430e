----------------------- MODULE CandidatePipelineProofs -----------------------
(***************************************************************************)
(* Safety of CandidatePipeline for any number of versions, candidates and   *)
(* cycles.                                                                   *)
(***************************************************************************)
EXTENDS CandidatePipeline, FiniteSetTheorems, TLAPS

(***************************************************************************)
(* The transition table.                                                    *)
(***************************************************************************)
\* Every allowed transition climbs, so no sequence of them returns to a state:
\* the reason a version can be compared with its committed copy by rank alone.
THEOREM TransitionsClimb ==
    ASSUME NEW from, NEW to, CanTransition(from, to)
    PROVE  Rank[from] < Rank[to]
BY DEF CanTransition, AllowedTransitions, WorkingStates, TerminalStates, Rank

\* The rows of the table the cycle uses.
LEMMA TransitionsOut ==
    ASSUME NEW to
    PROVE  /\ CanTransition("discovered", to) => to \in {"collected", "access_denied", "failed"}
           /\ CanTransition("classified", to) =>
                  to \in {"extracted", "irrelevant", "background_only"}
           /\ CanTransition("validated", to) => to \in {"needs_review", "rejected"}
           /\ CanTransition("needs_review", to) => to \in {"approved", "rejected", "archived"}
BY DEF CanTransition, AllowedTransitions, WorkingStates

(***************************************************************************)
(* The two ways a stage writes to a store.                                  *)
(***************************************************************************)
\* Setting a version's state leaves the other versions and every row alone.
LEMMA SetState ==
    ASSUME NEW s \in Store, NEW v \in Versions, NEW t \in VersionState
    PROVE  /\ Set(s, v, t) \in Store
           /\ Set(s, v, t).row = s.row
           /\ Set(s, v, t).state[v] = t
           /\ \A w \in Versions : w # v => Set(s, v, t).state[w] = s.state[w]
           /\ Rows(Set(s, v, t)) = Rows(s)
BY DEF Set, Store, Rows

\* Putting a row leaves the versions and the other rows alone.
LEMMA PutRow ==
    ASSUME NEW s \in Store, NEW c \in Candidates, NEW r \in Row
    PROVE  /\ Put(s, c, r) \in Store
           /\ Put(s, c, r).state = s.state
           /\ Put(s, c, r).row[c] = r
           /\ \A d \in Candidates : d # c => Put(s, c, r).row[d] = s.row[d]
BY DEF Put, Store

LEMMA StatesAreVersionStates ==
    ASSUME NEW from, NEW to, CanTransition(from, to)
    PROVE  from \in PipelineState /\ to \in VersionState
BY DEF CanTransition, AllowedTransitions, WorkingStates, TerminalStates,
       PipelineState, VersionState

LEMMA StateNames ==
    {"collected", "access_denied", "failed", "validated"} \subseteq VersionState
BY DEF WorkingStates, AllowedTransitions, TerminalStates, PipelineState, VersionState

\* What extraction leaves in a row: a new row of the current version, or the
\* row that was there.
LEMMA PersistedRow ==
    ASSUME work \in Store, cur \in Versions,
           NEW c \in Candidates, NEW claimed \in ReviewStatus, NEW support \in Support
    PROVE  LET kept == Persist(c, claimed, support) IN
           /\ kept \in Row
           /\ c \in Rows(work) => kept = work.row[c]
           /\ c \notin Rows(work) => kept.owner = cur /\ kept.reviewed = FALSE
BY DEF Persist, SafeStatus, Store, Row, NoRow, ReviewStatus, Rows

\* A decision that is written changes nothing else of a stored row.
LEMMA MarkedRow ==
    ASSUME NEW s \in Store, NEW c \in Rows(s),
           NEW t \in {"approved", "rejected", "archived"}
    PROVE  /\ s.row[c] \in Row
           /\ Marked(s.row[c], t) \in Row
           /\ Marked(s.row[c], t).status = t
           /\ Marked(s.row[c], t).owner = s.row[c].owner
           /\ Marked(s.row[c], t).support = s.row[c].support
<1>1. s.row[c] \in Row
  BY DEF Rows, Store, NoRow
<1> QED
  BY <1>1 DEF Marked, Row, ReviewStatus

LEMMA RanksAreNumbers == \A t \in VersionState : Rank[t] \in Int
BY DEF VersionState, PipelineState, WorkingStates, AllowedTransitions, TerminalStates,
       Absent, Rank

(***************************************************************************)
(* The inductive invariant holds initially.                                 *)
(***************************************************************************)
LEMMA Initially == Init => IInv
<1> SUFFICES ASSUME Init PROVE IInv
  OBVIOUS
<1>1. EmptyStore \in Store /\ Rows(EmptyStore) = {}
  BY DEF EmptyStore, Store, Rows, NoRow, VersionState
<1>2. TypeOK
  <2>1. disk \in Store /\ work \in Store
    BY <1>1 DEF Init
  <2>2. 0 \in 0..MaxCycles
    BY MaxCyclesAssumption
  <2>3. EmptyAudit \in Audit
    BY DEF EmptyAudit, Audit
  <2>4. desk \in [Reviewers -> Candidates \cup {None}]
    BY DEF Init
  <2> QED
    BY <2>1, <2>2, <2>3, <2>4 DEF Init, TypeOK, Steps, NoDraft
<1>3. Consistent(EmptyStore)
  BY <1>1 DEF Consistent, RoutedAreCited, OwnersValidated, OwnersDiffer,
              ReviewedAreDecided, EmptyStore, NoRow, Absent
<1>4. /\ OnlyExtractedMidway(disk) /\ OnlyExtractedMidway(work)
      /\ LoopOK /\ LockOK /\ ListOK /\ WorkAhead
  BY <1>1 DEF Init, OnlyExtractedMidway, LoopOK, LockOK, ListOK, WorkAhead,
              MidwayStates, EmptyStore, EmptyAudit, NoRow, Absent
<1>5. CallsCounted /\ DeskOK
  BY DEF Init, CallsCounted, AuditedOnce, DeskOK, EmptyStore, EmptyAudit, Absent
<1> QED
  BY <1>2, <1>3, <1>4, <1>5 DEF Init, IInv

(***************************************************************************)
(* Steps without a call: a version that is before extraction afterwards was *)
(* so already, and one that is past it was past it or has just been         *)
(* answered.                                                                *)
(***************************************************************************)
BeforeCall == {Absent, "collected", "extracted"}
AfterCall == {"validated", "needs_review", "rejected"}

LEMMA CountsKept ==
    ASSUME IInv, UNCHANGED <<disk, audit>>, pc' # "answer", pc' = "idle" => pc = "idle",
           \A v \in Versions :
              /\ work'.state[v] \in BeforeCall =>
                    work.state[v] \in BeforeCall /\ ~(pc = "answer" /\ v = cur)
              /\ work'.state[v] \in AfterCall =>
                    \/ work.state[v] \in AfterCall
                    \/ work.state[v] = "extracted" /\ pc = "answer" /\ v = cur
    PROVE  CallsCounted'
BY DEF IInv, CallsCounted, AuditedOnce, BeforeCall, AfterCall

(***************************************************************************)
(* Steps that write to neither store.                                       *)
(***************************************************************************)
LEMMA NoWrite ==
    ASSUME IInv, UNCHANGED <<disk, work, audit, desk>>,
           pc \notin {"answer", "commit"},
           pc' # "answer", pc' = "idle" => pc = "idle",
           TypeOK', LoopOK', LockOK', ListOK'
    PROVE  IInv'
<1>1. Consistent(disk)' /\ Consistent(work)'
  BY DEF IInv, Consistent, RoutedAreCited, OwnersValidated, OwnersDiffer,
         ReviewedAreDecided, Rows
<1>2. OnlyExtractedMidway(disk)' /\ OnlyExtractedMidway(work)'
  BY DEF IInv, OnlyExtractedMidway
<1>3. WorkAhead'
  BY DEF IInv, WorkAhead, Rows
<1>4. CallsCounted'
  BY CountsKept
<1>5. DeskOK'
  BY DEF IInv, DeskOK, Rows
<1> QED
  BY <1>1, <1>2, <1>3, <1>4, <1>5 DEF IInv

(***************************************************************************)
(* Steps that move one version in the session.                              *)
(***************************************************************************)
\* A version that owns no row may go to any state that is not a routed one.
LEMMA MovedBeforeRouting ==
    ASSUME NEW s \in Store, Consistent(s), NEW v \in Versions, NEW t \in VersionState,
           s.state[v] \notin {"validated", "needs_review", "rejected"},
           t \notin {"needs_review", "rejected"}
    PROVE  Consistent(Set(s, v, t))
<1> DEFINE n == Set(s, v, t)
<1>1. /\ n.row = s.row /\ Rows(n) = Rows(s) /\ n.state[v] = t
      /\ \A w \in Versions : w # v => n.state[w] = s.state[w]
  BY SetState
<1>2. \A c \in Rows(s) : s.row[c].owner \in Versions /\ s.row[c].owner # v
  BY DEF Consistent, OwnersValidated, Rows, Store, Row, NoRow
<1> HIDE DEF n
<1> QED
  BY <1>1, <1>2 DEF n, Consistent, RoutedAreCited, OwnersValidated, OwnersDiffer,
                    ReviewedAreDecided

\* A validated version that some row cites may be routed.
LEMMA MovedByRouting ==
    ASSUME NEW s \in Store, Consistent(s), NEW v \in Versions,
           NEW t \in VersionState, t \in {"needs_review", "rejected"},
           NEW c \in Rows(s), s.row[c].owner = v, s.row[c].support # "none"
    PROVE  Consistent(Set(s, v, t))
<1> DEFINE n == Set(s, v, t)
<1>1. /\ n.row = s.row /\ Rows(n) = Rows(s) /\ n.state[v] = t
      /\ \A w \in Versions : w # v => n.state[w] = s.state[w]
  BY SetState
<1>2. \A d \in Rows(s) : s.row[d].owner \in Versions
  BY DEF Rows, Store, Row, NoRow
<1> HIDE DEF n
<1> QED
  BY <1>1, <1>2 DEF n, Consistent, RoutedAreCited, OwnersValidated, OwnersDiffer,
                    ReviewedAreDecided

LEMMA VersionMoves ==
    ASSUME IInv, NEW v \in Versions, NEW t \in VersionState,
           work' = Set(work, v, t), disk' = disk, desk' = desk, pc # "commit",
           Rank[work.state[v]] < Rank[t],
           t \in MidwayStates => t = "extracted",
           Consistent(Set(work, v, t)),
           TypeOK', LoopOK', LockOK', ListOK', CallsCounted'
    PROVE  IInv'
<1>1. /\ work'.row = work.row /\ Rows(work') = Rows(work) /\ work'.state[v] = t
      /\ \A w \in Versions : w # v => work'.state[w] = work.state[w]
  <2>1. work \in Store
    BY DEF IInv, TypeOK
  <2> QED
    BY <2>1, SetState
<1>2. Consistent(work)' /\ Consistent(disk)'
  BY DEF IInv, Consistent, RoutedAreCited, OwnersValidated, OwnersDiffer,
         ReviewedAreDecided, Rows
<1>3. OnlyExtractedMidway(disk)' /\ OnlyExtractedMidway(work)'
  BY <1>1 DEF IInv, OnlyExtractedMidway
<1>4. WorkAhead'
  <2>1. \A w \in Versions : disk'.state[w] = disk.state[w] /\ disk.state[w] \in VersionState
                            /\ work.state[w] \in VersionState
    BY DEF IInv, TypeOK, Store
  <2>2. \A w \in Versions : \/ work'.state[w] = disk.state[w]
                            \/ Rank[disk.state[w]] < Rank[work'.state[w]]
    BY <1>1, <2>1, RanksAreNumbers DEF IInv, WorkAhead
  <2> QED
    BY <1>1, <2>2 DEF IInv, WorkAhead, Rows
<1>5. DeskOK'
  BY DEF IInv, DeskOK, Rows
<1> QED
  BY <1>2, <1>3, <1>4, <1>5 DEF IInv

\* Recording a call adds one to the count of the version it is about.
LEMMA RecordedCall ==
    ASSUME audit \in Audit, NEW v \in Versions
    PROVE  /\ Recorded(v) \in Audit
           /\ Recorded(v).disk = audit.disk
           /\ Recorded(v).work[v] = audit.work[v] + 1
           /\ \A w \in Versions : w # v => Recorded(v).work[w] = audit.work[w]
BY DEF Recorded, Audit

(***************************************************************************)
(* Steps that write rows.                                                   *)
(***************************************************************************)
LEMMA DecisionsKeepConsistency ==
    ASSUME NEW s \in Store, NEW n \in Store, Consistent(s), n.state = s.state,
           Rows(n) = Rows(s), ReviewedAreDecided(n),
           \A c \in Rows(s) : /\ n.row[c].owner = s.row[c].owner
                              /\ n.row[c].support = s.row[c].support
    PROVE  Consistent(n)
BY DEF Consistent, RoutedAreCited, OwnersValidated, OwnersDiffer

\* The store after an extraction: the current version validated, and a row of
\* its own unless the payload named a stored candidate.
AfterExtraction(s, v, c, r) == Put(Set(s, v, "validated"), c, r)

LEMMA ExtractionWrites ==
    ASSUME NEW s \in Store, NEW v \in Versions, NEW c \in Candidates, NEW r \in Row
    PROVE  /\ AfterExtraction(s, v, c, r) \in Store
           /\ AfterExtraction(s, v, c, r).state[v] = "validated"
           /\ \A w \in Versions :
                 w # v => AfterExtraction(s, v, c, r).state[w] = s.state[w]
           /\ AfterExtraction(s, v, c, r).row[c] = r
           /\ \A d \in Candidates :
                 d # c => AfterExtraction(s, v, c, r).row[d] = s.row[d]
           /\ Rows(AfterExtraction(s, v, c, r)) = Rows(s) \cup {c}
<1> DEFINE m == Set(s, v, "validated")
           n == Put(m, c, r)
<1>1. /\ m \in Store /\ m.row = s.row /\ m.state[v] = "validated"
      /\ \A w \in Versions : w # v => m.state[w] = s.state[w]
  BY StateNames, SetState
<1> HIDE DEF m
<1>2. /\ n \in Store /\ n.state = m.state /\ n.row[c] = r
      /\ \A d \in Candidates : d # c => n.row[d] = m.row[d]
  BY <1>1, PutRow
<1> HIDE DEF n
<1>3. r.status # "none"
  BY DEF Row, ReviewStatus
<1>4. Rows(n) = Rows(s) \cup {c}
  BY <1>1, <1>2, <1>3 DEF Rows
<1> QED
  BY <1>1, <1>2, <1>4 DEF AfterExtraction, m, n

LEMMA ExtractionKeepsConsistency ==
    ASSUME NEW s \in Store, NEW v \in Versions, NEW c \in Candidates, NEW r \in Row,
           Consistent(s), s.state[v] = "extracted",
           c \in Rows(s) => r = s.row[c],
           c \notin Rows(s) => r.owner = v /\ r.reviewed = FALSE
    PROVE  Consistent(AfterExtraction(s, v, c, r))
<1> DEFINE n == AfterExtraction(s, v, c, r)
<1>2. n.state[v] = "validated" /\ \A w \in Versions : w # v => n.state[w] = s.state[w]
  BY ExtractionWrites
<1>3. n.row[c] = r /\ \A d \in Candidates : d # c => n.row[d] = s.row[d]
  BY ExtractionWrites
<1>5. Rows(n) = Rows(s) \cup {c}
  BY ExtractionWrites
<1> HIDE DEF n
<1>6. \A d \in Rows(s) : s.row[d].owner \in Versions /\ s.row[d].owner # v
  BY DEF Consistent, OwnersValidated, Rows, Store, Row, NoRow
<1>7. RoutedAreCited(n)
  BY <1>2, <1>3, <1>5, <1>6 DEF Consistent, RoutedAreCited, Rows
<1>8. OwnersValidated(n)
  BY <1>2, <1>3, <1>5, <1>6 DEF Consistent, OwnersValidated, Rows
<1>9. OwnersDiffer(n)
  <2>1. \A d \in Rows(s) : d \in Candidates /\ n.row[d].owner = s.row[d].owner
    BY <1>3 DEF Rows
  <2>2. OwnersDiffer(s)
    BY DEF Consistent
  <2>3. CASE c \in Rows(s)
    BY <1>5, <2>1, <2>2, <2>3 DEF OwnersDiffer
  <2>4. CASE c \notin Rows(s)
    <3>1. n.row[c].owner = v
      BY <1>3, <2>4
    <3> QED
      BY <1>5, <1>6, <2>1, <2>2, <3>1 DEF OwnersDiffer
  <2> QED
    BY <2>3, <2>4
<1>10. ReviewedAreDecided(n)
  BY <1>3 DEF Consistent, ReviewedAreDecided
<1> QED
  BY <1>7, <1>8, <1>9, <1>10 DEF n, Consistent

(***************************************************************************)
(* Every step keeps the inductive invariant.                                *)
(***************************************************************************)
LEMMA CollectionSteps ==
    ASSUME IInv, StartCycle \/ Collect
    PROVE  IInv'
<1>1. CASE StartCycle
  <2>1. TypeOK'
    BY <1>1, PoliciesAssumption, MaxCyclesAssumption DEF IInv, TypeOK, StartCycle, Steps, held
  <2>2. LoopOK' /\ LockOK' /\ ListOK'
    BY <1>1 DEF StartCycle, IInv, LoopOK, LockOK, ListOK, held
  <2> QED
    BY <1>1, <2>1, <2>2, NoWrite DEF StartCycle
<1>2. ASSUME NEW v \in Versions, NEW t \in PipelineState, IngestNew(v, t)
      PROVE  IInv'
  <2>1. /\ work \in Store /\ work.state[v] = Absent
        /\ t \in {"collected", "access_denied"} /\ t \in VersionState
    BY <1>2, StateNames DEF IngestNew, IInv, TypeOK
  <2>2. Consistent(Set(work, v, t)) /\ Set(work, v, t) \in Store
    BY <2>1, MovedBeforeRouting, SetState DEF IInv, Absent
  <2>3. TypeOK' /\ LoopOK' /\ LockOK' /\ ListOK'
    BY <1>2, <2>2 DEF IngestNew, IInv, TypeOK, LoopOK, LockOK, ListOK, held
  <2>4. Rank[work.state[v]] < Rank[t]
    BY <2>1 DEF Rank, Absent
  <2>5. CallsCounted'
    <3>1. /\ work' = Set(work, v, t) /\ work'.state[v] = t
          /\ \A w \in Versions : w # v => work'.state[w] = work.state[w]
      BY <1>2, <2>1, SetState DEF IngestNew
    <3> QED
      BY <1>2, <2>1, <3>1, CountsKept DEF IngestNew, BeforeCall, AfterCall, Absent
  <2> QED
    BY <1>2, <2>1, <2>2, <2>3, <2>4, <2>5, VersionMoves DEF IngestNew, MidwayStates
<1>3. ASSUME NEW v \in Versions, IngestKnown(v)
      PROVE  IInv'
  <2>1. TypeOK' /\ LoopOK' /\ LockOK' /\ ListOK'
    BY <1>3 DEF IngestKnown, IInv, TypeOK, LoopOK, LockOK, ListOK, held
  <2> QED
    BY <1>3, <2>1, NoWrite DEF IngestKnown
<1>4. CASE CollectSucceeds
  <2>1. TypeOK' /\ LoopOK' /\ LockOK' /\ ListOK'
    BY <1>4 DEF CollectSucceeds, IInv, TypeOK, LoopOK, Steps, LockOK, ListOK, held
  <2> QED
    BY <1>4, <2>1, NoWrite DEF CollectSucceeds
<1>5. CASE CollectFails
  <2>1. TypeOK' /\ LoopOK' /\ LockOK' /\ ListOK'
    BY <1>5 DEF CollectFails, IInv, TypeOK, LoopOK, Steps, LockOK, ListOK, held
  <2> QED
    BY <1>5, <2>1, NoWrite DEF CollectFails
<1> QED
  BY <1>1, <1>2, <1>3, <1>4, <1>5 DEF Collect

LEMMA LoopSteps ==
    ASSUME IInv, RunStages
    PROVE  IInv'
<1> USE DEF NextVersion
<1>1. ASSUME NEW v \in Versions, Skip(v)
      PROVE  IInv'
  <2>1. TypeOK' /\ LoopOK' /\ LockOK' /\ ListOK'
    BY <1>1 DEF Skip, IInv, TypeOK, LoopOK, LockOK, ListOK, held
  <2> QED
    BY <1>1, <2>1, NoWrite DEF Skip
<1>2. ASSUME NEW v \in Versions, NEW t \in PipelineState, Classify(v, t)
      PROVE  IInv'
  <2>1. /\ work \in Store
        /\ work.state[v] \in ClassifiableStates
        /\ t \in {"extracted", "irrelevant", "background_only"}
        /\ t \in VersionState
    BY <1>2, TransitionsOut DEF Classify, IsClassifiable, IInv, TypeOK, VersionState
  <2>2. /\ Consistent(Set(work, v, t)) /\ Set(work, v, t) \in Store
        /\ Set(work, v, t).state[v] = t
    BY <2>1, MovedBeforeRouting, SetState DEF IInv, ClassifiableStates
  <2>3. TypeOK' /\ LoopOK' /\ LockOK' /\ ListOK'
    BY <1>2, <2>1, <2>2 DEF Classify, IInv, TypeOK, LoopOK, Steps, LockOK, ListOK, held
  <2>4. Rank[work.state[v]] < Rank[t]
    BY <2>1 DEF Rank, ClassifiableStates
  <2>5. CallsCounted'
    <3>1. work.state[v] = "collected"
      BY <1>2, <2>1 DEF Classify, ClassifiableStates, IInv, OnlyExtractedMidway, MidwayStates
    <3>2. work' = Set(work, v, t) /\ \A w \in Versions : w # v => work'.state[w] = work.state[w]
      BY <1>2, <2>1, SetState DEF Classify
    <3>3. UNCHANGED <<disk, audit>> /\ pc = "stages" /\ pc' \in {"stages", "extract"}
      BY <1>2 DEF Classify
    <3> QED
      BY <2>1, <2>2, <3>1, <3>2, <3>3, CountsKept DEF BeforeCall, AfterCall, Absent
  <2> QED
    BY <1>2, <2>1, <2>2, <2>3, <2>4, <2>5, VersionMoves DEF Classify, MidwayStates
<1>3. ASSUME NEW v \in Versions, ClassifyRaises(v)
      PROVE  IInv'
  <2>1. work \in Store /\ work.state[v] \in ClassifiableStates
    BY <1>3 DEF ClassifyRaises, IsClassifiable, IInv, TypeOK
  <2>2. Consistent(Set(work, v, "failed")) /\ Set(work, v, "failed") \in Store
    BY <2>1, StateNames, MovedBeforeRouting, SetState DEF IInv, ClassifiableStates
  <2>3. TypeOK' /\ LoopOK' /\ LockOK' /\ ListOK'
    BY <1>3, <2>2 DEF ClassifyRaises, IInv, TypeOK, LoopOK, LockOK, ListOK, held
  <2>4. Rank[work.state[v]] < Rank["failed"]
    BY <2>1 DEF Rank, ClassifiableStates
  <2>5. CallsCounted'
    <3>1. work' = Set(work, v, "failed")
      BY <1>3 DEF ClassifyRaises
    <3>2. /\ Set(work, v, "failed").state[v] = "failed"
          /\ \A w \in Versions : w # v => Set(work, v, "failed").state[w] = work.state[w]
      BY <2>1, StateNames, SetState
    <3> QED
      BY <1>3, <3>1, <3>2, CountsKept DEF ClassifyRaises, BeforeCall, AfterCall, Absent
  <2> QED
    BY <1>3, <2>2, <2>3, <2>4, <2>5, StateNames, VersionMoves DEF ClassifyRaises, MidwayStates
<1>4. ASSUME ExtractRaises \/ ExtractInvalid
      PROVE  IInv'
  <2>1. cur \in Versions /\ work \in Store /\ work.state[cur] = "extracted"
    BY <1>4 DEF ExtractRaises, ExtractInvalid, IInv, TypeOK, LoopOK
  <2>2. Consistent(Set(work, cur, "failed")) /\ Set(work, cur, "failed") \in Store
    BY <2>1, StateNames, MovedBeforeRouting, SetState DEF IInv
  <2>3. TypeOK' /\ LoopOK' /\ LockOK' /\ ListOK'
    <3>1. CASE ExtractRaises
      <4>1. audit' \in Audit
        BY <2>1, <3>1, RecordedCall DEF ExtractRaises, IInv, TypeOK
      <4> QED
        BY <2>2, <3>1, <4>1
        DEF ExtractRaises, IInv, TypeOK, LoopOK, Steps, NoDraft, LockOK, ListOK, held
    <3>2. CASE ExtractInvalid
      BY <2>2, <3>2 DEF ExtractInvalid, IInv, TypeOK, LoopOK, Steps, NoDraft, LockOK, ListOK, held
    <3> QED
      BY <1>4, <3>1, <3>2
  <2>4. Rank[work.state[cur]] < Rank["failed"]
    BY <2>1 DEF Rank
  <2>5. /\ work' = Set(work, cur, "failed") /\ work'.state[cur] = "failed"
        /\ \A w \in Versions : w # cur => work'.state[w] = work.state[w]
    <3>1. work' = Set(work, cur, "failed")
      BY <1>4 DEF ExtractRaises, ExtractInvalid
    <3>2. /\ Set(work, cur, "failed").state[cur] = "failed"
          /\ \A w \in Versions : w # cur => Set(work, cur, "failed").state[w] = work.state[w]
      BY <2>1, StateNames, SetState
    <3> QED
      BY <3>1, <3>2
  <2>6. CallsCounted'
    <3>1. CASE ExtractRaises
      <4>1. audit' = Recorded(cur) /\ pc = "extract" /\ pc' = "stages" /\ disk' = disk
        BY <3>1 DEF ExtractRaises
      <4>2. /\ audit'.disk = audit.disk
            /\ audit'.work[cur] = audit.work[cur] + 1
            /\ \A w \in Versions : w # cur => audit'.work[w] = audit.work[w]
        BY <2>1, <4>1, RecordedCall DEF IInv, TypeOK
      <4> QED
        BY <2>1, <2>5, <4>1, <4>2 DEF IInv, CallsCounted, AuditedOnce, Absent
    <3>2. CASE ExtractInvalid
      BY <2>5, <3>2, CountsKept DEF ExtractInvalid, BeforeCall, AfterCall, Absent
    <3> QED
      BY <1>4, <3>1, <3>2
  <2> QED
    BY <1>4, <2>1, <2>2, <2>3, <2>4, <2>6, StateNames, VersionMoves
    DEF ExtractRaises, ExtractInvalid, MidwayStates
<1>12. CASE PromptRaises
  <2>1. TypeOK' /\ LoopOK' /\ LockOK' /\ ListOK'
    BY <1>12 DEF PromptRaises, IInv, TypeOK, LoopOK, Steps, NoDraft, LockOK, ListOK, held
  <2> QED
    BY <1>12, <2>1, NoWrite DEF PromptRaises
<1>11. CASE Call
  <2>1. cur \in Versions /\ work.state[cur] = "extracted" /\ pc = "extract"
    BY <1>11 DEF Call, LoopOK, IInv
  <2>2. TypeOK' /\ LoopOK' /\ LockOK' /\ ListOK'
    <3>1. audit' \in Audit
      BY <1>11, <2>1, RecordedCall DEF Call, IInv, TypeOK
    <3> QED
      BY <1>11, <2>1, <3>1 DEF Call, IInv, TypeOK, LoopOK, Steps, LockOK, ListOK, held
  <2>3. CallsCounted'
    <3>1. UNCHANGED <<work, disk, cur>> /\ pc = "extract" /\ pc' = "answer"
      BY <1>11 DEF Call
    <3>2. /\ audit'.disk = audit.disk
          /\ audit'.work[cur] = audit.work[cur] + 1
          /\ \A w \in Versions : w # cur => audit'.work[w] = audit.work[w]
      BY <1>11, <2>1, RecordedCall DEF Call, IInv, TypeOK
    <3> QED
      BY <2>1, <3>1, <3>2 DEF IInv, CallsCounted, AuditedOnce, Absent
  <2>4. OnlyExtractedMidway(disk)' /\ OnlyExtractedMidway(work)' /\ WorkAhead'
    BY <1>11, <2>1 DEF Call, IInv, OnlyExtractedMidway, WorkAhead, Rows
  <2>5. DeskOK'
    BY <1>11 DEF Call, IInv, DeskOK, Rows
  <2> QED
    BY <1>11, <2>2, <2>3, <2>4, <2>5
    DEF Call, IInv, Consistent, RoutedAreCited, OwnersValidated, OwnersDiffer,
        ReviewedAreDecided, Rows
<1>5. ASSUME NEW c \in Candidates, NEW claimed \in ReviewStatus, NEW support \in Support,
             Extract(c, claimed, support)
      PROVE  IInv'
  <2> DEFINE kept == Persist(c, claimed, support)
  <2>1. cur \in Versions /\ work \in Store /\ work.state[cur] = "extracted" /\ pc = "answer"
    BY <1>5 DEF Extract, IInv, TypeOK, LoopOK
  <2>2. /\ kept \in Row
        /\ c \in Rows(work) => kept = work.row[c]
        /\ c \notin Rows(work) => kept.owner = cur /\ kept.reviewed = FALSE
    BY <2>1, PersistedRow
  <2>3. /\ work' = Put(Set(work, cur, "validated"), c, kept)
        /\ draft' = [cand |-> c, cites |-> Cited(kept.owner, kept.support)]
        /\ pc' = "validate"
        /\ UNCHANGED <<disk, todo, cur, skipped, status, auto, cycles, audit, desk, locked, listed>>
    BY <1>5 DEF Extract, held
  <2> HIDE DEF kept
  <2>4. /\ work' \in Store
        /\ Consistent(work')
        /\ work'.state[cur] = "validated"
        /\ \A w \in Versions : w # cur => work'.state[w] = work.state[w]
        /\ work'.row[c] = kept
        /\ \A d \in Candidates : d # c => work'.row[d] = work.row[d]
        /\ Rows(work') = Rows(work) \cup {c}
    <3>1. Consistent(work)
      BY DEF IInv
    <3>2. work' = AfterExtraction(work, cur, c, kept)
      BY <2>3 DEF AfterExtraction
    <3>3. Consistent(AfterExtraction(work, cur, c, kept))
      BY <2>1, <2>2, <3>1, ExtractionKeepsConsistency
    <3>4. Consistent(work')
      BY <3>2, <3>3
    <3> QED
      BY <2>1, <2>2, <3>2, <3>4, ExtractionWrites
  <2>5. TypeOK'
    BY <2>2, <2>3, <2>4 DEF IInv, TypeOK, Steps, Cited, Row
  <2>6. LoopOK' /\ LockOK' /\ ListOK'
    BY <2>1, <2>3, <2>4 DEF IInv, LoopOK, LockOK, ListOK, Rows
  <2>7. OnlyExtractedMidway(disk)' /\ OnlyExtractedMidway(work)'
    BY <2>1, <2>3, <2>4 DEF IInv, OnlyExtractedMidway, MidwayStates
  <2>8. WorkAhead'
    <3>1. \A w \in Versions : disk.state[w] \in VersionState
      BY DEF IInv, TypeOK, Store
    <3>2. \A w \in Versions : \/ work'.state[w] = disk.state[w]
                              \/ Rank[disk.state[w]] < Rank[work'.state[w]]
      BY <2>1, <2>4, <3>1, RanksAreNumbers DEF IInv, WorkAhead, Rank
    <3>3. \A d \in Candidates : \/ work'.row[d] = work.row[d]
                                \/ d = c /\ c \notin Rows(work) /\ ~work'.row[d].reviewed
      BY <2>2, <2>4
    <3>4. \A d \in Candidates : IF d \in Rows(disk) THEN work.row[d] = disk.row[d]
                                                 ELSE ~work.row[d].reviewed
      BY <2>1 DEF IInv, WorkAhead
    <3>5. Rows(disk) \subseteq Rows(work) /\ Rows(disk) \subseteq Candidates
      BY <3>4 DEF Rows
    <3> QED
      BY <2>3, <3>2, <3>3, <3>4, <3>5 DEF WorkAhead, Rows
  <2>9. CallsCounted'
    BY <2>1, <2>3, <2>4, CountsKept DEF BeforeCall, AfterCall, Absent
  <2>10. DeskOK'
    BY <2>3 DEF IInv, DeskOK, Rows
  <2> QED
    BY <2>3, <2>4, <2>5, <2>6, <2>7, <2>8, <2>9, <2>10
    DEF IInv, Consistent, RoutedAreCited, OwnersValidated, OwnersDiffer,
        ReviewedAreDecided, Rows
<1>6. CASE Validate
  <2>1. TypeOK' /\ LoopOK' /\ LockOK' /\ ListOK'
    BY <1>6 DEF Validate, IInv, TypeOK, LoopOK, Steps, NoDraft, LockOK, ListOK, held
  <2> QED
    BY <1>6, <2>1, NoWrite DEF Validate
<1>7. CASE LinkEvidence \/ Score \/ Novelty
  <2>1. TypeOK' /\ LoopOK' /\ LockOK' /\ ListOK'
    BY <1>7 DEF LinkEvidence, Score, Novelty, IInv, TypeOK, LoopOK, Steps, LockOK, ListOK, held
  <2> QED
    BY <1>7, <2>1, NoWrite DEF LinkEvidence, Score, Novelty
<1>8. CASE StageRaises
  <2>1. TypeOK' /\ LoopOK' /\ LockOK' /\ ListOK'
    BY <1>8 DEF StageRaises, IInv, TypeOK, LoopOK, Steps, NoDraft, LockOK, ListOK, held
  <2> QED
    BY <1>8, <2>1, NoWrite DEF StageRaises
<1>9. ASSUME NEW t \in PipelineState, Route(t)
      PROVE  IInv'
  <2>1. /\ cur \in Versions /\ work \in Store /\ work.state[cur] = "validated"
        /\ draft.cand \in Rows(work)
        /\ draft.cites = Cited(work.row[draft.cand].owner, work.row[draft.cand].support)
        /\ draft.cites = cur
    BY <1>9 DEF Route, IInv, TypeOK, LoopOK
  <2>2. t \in {"needs_review", "rejected"} /\ t \in VersionState
    BY <1>9, <2>1, TransitionsOut DEF Route, VersionState
  <2>3. /\ work.row[draft.cand].owner = cur
        /\ work.row[draft.cand].support # "none"
    BY <2>1, NoneAssumption DEF Cited
  <2>4. Consistent(Set(work, cur, t)) /\ Set(work, cur, t) \in Store
    BY <2>1, <2>2, <2>3, MovedByRouting, SetState DEF IInv
  <2>5. TypeOK' /\ LoopOK' /\ LockOK' /\ ListOK'
    BY <1>9, <2>4 DEF Route, IInv, TypeOK, LoopOK, Steps, NoDraft, LockOK, ListOK, held
  <2>6. Rank[work.state[cur]] < Rank[t]
    BY <2>1, <2>2 DEF Rank
  <2>7. CallsCounted'
    <3>1. /\ work' = Set(work, cur, t) /\ work'.state[cur] = t
          /\ \A w \in Versions : w # cur => work'.state[w] = work.state[w]
      BY <1>9, <2>1, <2>2, SetState DEF Route
    <3> QED
      BY <1>9, <2>1, <2>2, <3>1, CountsKept DEF Route, BeforeCall, AfterCall, Absent
  <2> QED
    BY <1>9, <2>1, <2>2, <2>4, <2>5, <2>6, <2>7, VersionMoves DEF Route, MidwayStates
<1>10. CASE StagesEnd
  <2>1. TypeOK' /\ LoopOK' /\ LockOK' /\ ListOK'
    BY <1>10 DEF StagesEnd, IInv, TypeOK, LoopOK, Steps, LockOK, ListOK, held
  <2> QED
    BY <1>10, <2>1, NoWrite DEF StagesEnd
<1> QED
  BY <1>1, <1>2, <1>3, <1>4, <1>5, <1>6, <1>7, <1>8, <1>9, <1>10, <1>11, <1>12 DEF RunStages

LEMMA DecisionSteps ==
    ASSUME IInv,
           \/ ListCandidates
           \/ Publish
           \/ \E r \in Reviewers, t \in PipelineState : Review(r, t)
           \/ \E r \in Reviewers, c \in Candidates : ReviewRead(r, c)
    PROVE  IInv'
<1>0. CASE ListCandidates
  <2>1. /\ pc = "publish" /\ pc' = "approve"
        /\ listed' = IF auto THEN Waiting ELSE {}
        /\ UNCHANGED <<disk, work, locked, todo, cur, draft, skipped, status, auto, cycles,
                       audit, desk>>
    BY <1>0 DEF ListCandidates
  <2>2. \A c \in Waiting : c \in Rows(work) /\ ~work.row[c].reviewed
    BY DEF Waiting, Rows, IInv, Consistent, ReviewedAreDecided
  <2>3. listed' \subseteq Waiting /\ (listed' # {} => auto)
    BY <2>1
  <2>4. TypeOK' /\ LoopOK' /\ LockOK'
    BY <2>1, <2>3 DEF IInv, TypeOK, LoopOK, LockOK, Steps, Waiting
  <2>5. ListOK'
    BY <2>1, <2>2, <2>3 DEF ListOK, Rows
  <2> QED
    BY <2>1, <2>4, <2>5, NoWrite
<1>1. CASE Publish
  <2> DEFINE n == [work EXCEPT !.row =
                     [c \in Candidates |->
                        IF c \in listed THEN Marked(work.row[c], "approved") ELSE work.row[c]]]
  <2>1. work \in Store /\ disk \in Store /\ listed \subseteq Rows(work)
        /\ (listed # {} => auto)
    BY <1>1 DEF Publish, IInv, TypeOK, ListOK
  <2>2. /\ n.state = work.state
        /\ \A c \in Candidates :
             n.row[c] = IF c \in listed THEN Marked(work.row[c], "approved") ELSE work.row[c]
    BY <2>1 DEF Store
  <2>4. ASSUME NEW c \in Candidates
        PROVE  \/ n.row[c] = work.row[c]
               \/ /\ c \in listed
                  /\ work.row[c] \in Row /\ n.row[c] \in Row
                  /\ n.row[c].status \in {"approved", "rejected", "archived"}
                  /\ n.row[c].owner = work.row[c].owner
                  /\ n.row[c].support = work.row[c].support
    <3>1. CASE c \in listed
      <4>1. c \in Rows(work)
        BY <2>1, <3>1
      <4> QED
        BY <2>1, <2>2, <3>1, <4>1, MarkedRow
    <3>2. CASE c \notin listed
      BY <2>2, <3>2
    <3> QED
      BY <3>1, <3>2
  <2>5. n \in Store
    <3>1. \A c \in Candidates : n.row[c] \in Row \cup {NoRow}
      BY <2>1, <2>4 DEF Store
    <3> QED
      BY <2>1, <2>2, <3>1 DEF Store
  <2>6. work' = n
    BY <1>1 DEF Publish
  <2>7. pc = "approve" /\ pc' = "commit" /\ auto \in BOOLEAN /\ locked' = (locked \/ listed # {})
        /\ locked \in BOOLEAN
        /\ UNCHANGED <<disk, todo, cur, draft, skipped, status, listed, auto, cycles, audit, desk>>
    BY <1>1 DEF Publish, IInv, TypeOK
  <2>16. ~locked => work = disk /\ audit.work = audit.disk /\ todo = {}
    BY DEF IInv, LockOK
  <2>17. listed = {} => n.row = work.row
    BY <2>1, <2>2, <2>5 DEF Store
  <2> HIDE DEF n
  <2>8. Rows(n) = Rows(work)
    BY <2>4 DEF Rows, Row, ReviewStatus
  <2>9. ReviewedAreDecided(n)
    BY <2>4 DEF IInv, Consistent, ReviewedAreDecided
  <2>10. Consistent(n)
    <3>1. \A c \in Rows(work) : /\ n.row[c].owner = work.row[c].owner
                                /\ n.row[c].support = work.row[c].support
      BY <2>4 DEF Rows
    <3> QED
      BY <2>1, <2>2, <2>5, <2>8, <2>9, <3>1, DecisionsKeepConsistency DEF IInv
  <2>18. listed = {} => n = work
    BY <2>1, <2>2, <2>5, <2>17 DEF Store
  <2>11. TypeOK' /\ LoopOK' /\ LockOK' /\ ListOK'
    <3>1. TypeOK' /\ LoopOK'
      BY <2>5, <2>6, <2>7 DEF IInv, TypeOK, LoopOK, Steps
    <3>2. LockOK'
      BY <2>6, <2>7, <2>16, <2>18 DEF LockOK
    <3>3. ListOK'
      BY <2>7 DEF ListOK
    <3> QED
      BY <3>1, <3>2, <3>3
  <2>12. OnlyExtractedMidway(disk)' /\ OnlyExtractedMidway(work)'
    BY <2>2, <2>6, <2>7 DEF IInv, OnlyExtractedMidway
  <2>13. WorkAhead'
    <3>1. \A c \in Candidates : IF c \in Rows(disk) THEN work.row[c] = disk.row[c]
                                                 ELSE ~work.row[c].reviewed
      BY <2>7 DEF IInv, WorkAhead
    <3>2. \A c \in Rows(disk) : c \in Candidates
      BY DEF Rows
    <3>3. locked => \A c \in listed : ~work.row[c].reviewed
      BY <2>7 DEF IInv, ListOK
    <3>4. \A v \in Versions : \/ n.state[v] = disk.state[v]
                              \/ Rank[disk.state[v]] < Rank[n.state[v]]
      BY <2>2 DEF IInv, WorkAhead
    <3>5. \A c \in Rows(disk) : /\ n.row[c].owner = disk.row[c].owner
                                /\ n.row[c].support = disk.row[c].support
      BY <2>4, <3>1, <3>2
    <3>6. ~auto => \A c \in Candidates : n.row[c] = work.row[c]
      BY <2>1, <2>4
    <3>7. ASSUME NEW c \in Rows(disk), disk.row[c].reviewed
          PROVE  n.row[c] = disk.row[c] \/ (c \in listed' /\ OnlyItsDecisions')
      <4>1. CASE c \notin listed
        BY <2>2, <3>1, <3>2, <4>1
      <4>2. CASE c \in listed
        <5>1. ~locked /\ auto
          BY <2>1, <3>1, <3>2, <3>3, <3>7, <4>2
        <5>2. n.state = disk.state /\ Rows(n) = Rows(disk)
          BY <2>2, <2>8, <2>16, <5>1
        <5>3. OnlyItsDecisions'
          BY <2>6, <2>7, <5>1, <5>2 DEF OnlyItsDecisions, Rows
        <5> QED
          BY <2>7, <4>2, <5>3
      <4> QED
        BY <4>1, <4>2
    <3> QED
      BY <2>6, <2>7, <3>1, <3>4, <3>5, <3>6, <3>7 DEF WorkAhead, Rows
  <2>14. CallsCounted'
    BY <2>2, <2>6, <2>7, CountsKept
  <2>15. DeskOK'
    BY <2>7 DEF IInv, DeskOK, Rows
  <2> QED
    BY <2>6, <2>7, <2>10, <2>11, <2>12, <2>13, <2>14, <2>15
    DEF IInv, Consistent, RoutedAreCited, OwnersValidated, OwnersDiffer,
        ReviewedAreDecided, Rows
<1>2. ASSUME NEW r \in Reviewers, NEW t \in PipelineState, Review(r, t)
      PROVE  IInv'
  <2> DEFINE c == desk[r]
             n == Put(work, c, Marked(work.row[c], t))
  <2>1. work \in Store /\ work = disk /\ ~locked /\ c \in Rows(work)
    BY <1>2 DEF IInv, TypeOK, LockOK, DeskOK, Review
  <2>2. c \in Candidates /\ t \in {"approved", "rejected", "archived"}
    BY <1>2, <2>1, TransitionsOut DEF Review, Rows
  <2>3. work.row[c] \in Row /\ Marked(work.row[c], t) \in Row
    BY <2>1, <2>2, MarkedRow
  <2>4. n \in Store /\ n.state = work.state /\ n.row[c] = Marked(work.row[c], t)
        /\ \A d \in Candidates : d # c => n.row[d] = work.row[d]
    BY <2>1, <2>2, <2>3, PutRow
  <2>5. work' = n /\ disk' = n /\ desk' = [desk EXCEPT ![r] = None]
        /\ UNCHANGED <<pc, todo, cur, draft, skipped, status, auto, cycles, audit, locked, listed>>
    BY <1>2, <2>1 DEF Review, held
  <2> HIDE DEF n
  <2>6. /\ n.row[c] \in Row
        /\ n.row[c].status \in {"approved", "rejected", "archived"}
        /\ n.row[c].owner = work.row[c].owner
        /\ n.row[c].support = work.row[c].support
    BY <2>1, <2>2, <2>3, <2>4, MarkedRow
  <2>7. Rows(n) = Rows(work)
    BY <2>2, <2>3, <2>4, <2>6 DEF Rows, Row, ReviewStatus
  <2>8. ReviewedAreDecided(n)
    BY <2>4, <2>6 DEF IInv, Consistent, ReviewedAreDecided
  <2>9. Consistent(n)
    <3>1. \A d \in Rows(work) : /\ n.row[d].owner = work.row[d].owner
                                /\ n.row[d].support = work.row[d].support
      BY <2>4, <2>6 DEF Rows
    <3> QED
      BY <2>1, <2>4, <2>7, <2>8, <3>1, DecisionsKeepConsistency DEF IInv
  <2>10. TypeOK'
    BY <2>4, <2>5 DEF IInv, TypeOK
  <2>14. LoopOK' /\ LockOK'
    BY <2>1, <2>5 DEF IInv, LoopOK, LockOK
  <2>15. ListOK'
    <3>1. Rows(work') = Rows(work)
      BY <2>5, <2>7
    <3> QED
      BY <2>1, <2>5, <3>1 DEF IInv, ListOK
  <2>16. OnlyExtractedMidway(disk)' /\ OnlyExtractedMidway(work)'
    BY <2>1, <2>4, <2>5 DEF IInv, OnlyExtractedMidway
  <2>11. WorkAhead'
    <3>1. \A d \in Candidates \ Rows(work) : ~n.row[d].reviewed
      <4>1. \A d \in Candidates \ Rows(work) : d # c /\ work.row[d] = NoRow
        BY <2>1, <2>3 DEF Rows, Store, Row, ReviewStatus
      <4> QED
        BY <2>4, <4>1 DEF NoRow
    <3> QED
      BY <2>5, <2>7, <3>1 DEF WorkAhead, Rows
  <2>12. CallsCounted'
    BY <2>1, <2>4, <2>5 DEF IInv, CallsCounted, AuditedOnce
  <2>13. DeskOK'
    <3>1. \A q \in Reviewers : desk'[q] # None => desk'[q] = desk[q]
      BY <2>5 DEF IInv, TypeOK
    <3> QED
      BY <2>1, <2>5, <2>7, <3>1 DEF IInv, DeskOK, Rows
  <2> QED
    BY <2>5, <2>9, <2>10, <2>11, <2>12, <2>13, <2>14, <2>15, <2>16
    DEF IInv, Consistent, RoutedAreCited, OwnersValidated, OwnersDiffer,
        ReviewedAreDecided, Rows
<1>3. ASSUME NEW r \in Reviewers, NEW c \in Candidates, ReviewRead(r, c)
      PROVE  IInv'
  <2>1. c \in Rows(disk)
    BY <1>3 DEF ReviewRead, Rows, CanTransition, AllowedTransitions, WorkingStates
  <2>2. DeskOK'
    <3>1. \A q \in Reviewers : desk'[q] = desk[q] \/ desk'[q] = c
      BY <1>3 DEF ReviewRead, IInv, TypeOK
    <3>2. disk' = disk
      BY <1>3 DEF ReviewRead
    <3> QED
      BY <2>1, <3>1, <3>2 DEF IInv, DeskOK, Rows
  <2>3. TypeOK'
    BY <1>3 DEF ReviewRead, held, IInv, TypeOK
  <2> QED
    BY <1>3, <2>2, <2>3
    DEF ReviewRead, held, IInv, Consistent, RoutedAreCited, OwnersValidated, OwnersDiffer,
        ReviewedAreDecided, LoopOK, LockOK, ListOK, OnlyExtractedMidway, WorkAhead,
        OnlyItsDecisions, CallsCounted, AuditedOnce, Rows
<1> QED
  BY <1>0, <1>1, <1>2, <1>3

\* The session has every row the committed store has.
LEMMA RowsStay ==
    ASSUME IInv
    PROVE  Rows(disk) \subseteq Rows(work)
<1>1. ASSUME NEW c \in Rows(disk)
      PROVE  c \in Rows(work)
  <2>1. c \in Candidates /\ disk.row[c].owner \in Versions
    BY DEF IInv, TypeOK, Rows, Store, Row, NoRow
  <2>2. work.row[c].owner = disk.row[c].owner
    BY DEF IInv, WorkAhead
  <2>3. work.row[c] # NoRow
    BY <2>1, <2>2, NoneAssumption DEF NoRow
  <2> QED
    BY <2>1, <2>3 DEF IInv, TypeOK, Store, Row, ReviewStatus, Rows
<1> QED
  BY <1>1

LEMMA EndSteps ==
    ASSUME IInv, Commit \/ Abort \/ Rest
    PROVE  IInv'
<1>1. \A s \in Store : \A c \in Candidates : c \notin Rows(s) => ~s.row[c].reviewed
  <2>1. ASSUME NEW s \in Store, NEW c \in Candidates, c \notin Rows(s)
        PROVE  s.row[c] = NoRow
    BY <2>1 DEF Rows, Store, Row, ReviewStatus
  <2> QED
    BY <2>1 DEF NoRow
<1>2. CASE Commit
  <2>1. disk' = work /\ work' = work /\ pc = "commit" /\ pc' = "idle" /\ work \in Store
        /\ locked' = FALSE /\ listed' = {}
        /\ UNCHANGED <<todo, cur, draft, skipped, status, auto, cycles, desk>>
        /\ audit \in Audit /\ audit' = [audit EXCEPT !.disk = audit.work]
    BY <1>2 DEF Commit, IInv, TypeOK
  <2>2. TypeOK' /\ LoopOK' /\ ListOK'
    BY <2>1 DEF IInv, TypeOK, LoopOK, ListOK, Steps, Audit
  <2>7. LockOK'
    <3>1. todo = {}
      BY <2>1 DEF IInv, LoopOK
    <3>2. audit'.disk = audit'.work
      BY <2>1 DEF Audit
    <3> QED
      BY <2>1, <3>1, <3>2 DEF LockOK
  <2>3. OnlyExtractedMidway(disk)' /\ OnlyExtractedMidway(work)'
    BY <2>1 DEF IInv, OnlyExtractedMidway
  <2>4. WorkAhead'
    BY <1>1, <2>1 DEF WorkAhead, Rows
  <2>5. CallsCounted'
    <3>1. audit'.disk = audit.work /\ audit'.work = audit.work
      BY <2>1 DEF Audit
    <3> QED
      BY <2>1, <3>1 DEF IInv, CallsCounted, AuditedOnce
  <2>6. DeskOK'
    <3>1. Rows(disk) \subseteq Rows(work)
      BY RowsStay
    <3> QED
      BY <2>1, <3>1 DEF IInv, DeskOK, Rows
  <2> QED
    BY <2>1, <2>2, <2>3, <2>4, <2>5, <2>6, <2>7
    DEF IInv, Consistent, RoutedAreCited, OwnersValidated, OwnersDiffer,
        ReviewedAreDecided, Rows
<1>3. CASE Abort
  <2>1. disk' = disk /\ work' = disk /\ pc' = "idle" /\ disk \in Store
        /\ locked' = FALSE /\ listed' = {}
        /\ todo' = {} /\ cur' = None /\ draft' = NoDraft /\ skipped' = {}
        /\ UNCHANGED <<status, auto, cycles, desk>>
        /\ audit \in Audit /\ audit' = [audit EXCEPT !.work = audit.disk]
    BY <1>3 DEF Abort, IInv, TypeOK
  <2>2. TypeOK' /\ LoopOK' /\ LockOK' /\ ListOK'
    BY <2>1 DEF IInv, TypeOK, LoopOK, LockOK, ListOK, Steps, NoDraft, Audit
  <2>3. OnlyExtractedMidway(disk)' /\ OnlyExtractedMidway(work)'
    BY <2>1 DEF IInv, OnlyExtractedMidway
  <2>4. WorkAhead'
    BY <1>1, <2>1 DEF WorkAhead, Rows
  <2>5. CallsCounted'
    <3>1. audit'.disk = audit.disk /\ audit'.work = audit.disk
      BY <2>1 DEF Audit
    <3> QED
      BY <2>1, <3>1 DEF IInv, CallsCounted, AuditedOnce
  <2>6. DeskOK'
    BY <2>1 DEF IInv, DeskOK, Rows
  <2> QED
    BY <2>1, <2>2, <2>3, <2>4, <2>5, <2>6
    DEF IInv, Consistent, RoutedAreCited, OwnersValidated, OwnersDiffer,
        ReviewedAreDecided, Rows
<1>4. CASE Rest
  BY <1>4, NoWrite DEF Rest, vars, IInv, TypeOK, LoopOK, LockOK, ListOK
<1> QED
  BY <1>2, <1>3, <1>4

LEMMA Inductive == IInv /\ [Next]_vars => IInv'
<1> SUFFICES ASSUME IInv, [Next]_vars PROVE IInv'
  OBVIOUS
<1>1. CASE Next
  BY <1>1, CollectionSteps, LoopSteps, DecisionSteps, EndSteps DEF Next, CycleStep
<1>2. CASE UNCHANGED vars
  BY <1>2
  DEF vars, IInv, TypeOK, Consistent, RoutedAreCited, OwnersValidated, OwnersDiffer,
      ReviewedAreDecided, LoopOK, LockOK, ListOK, OnlyExtractedMidway, WorkAhead,
      OnlyItsDecisions, Rows, CallsCounted, AuditedOnce, DeskOK
<1> QED
  BY <1>1, <1>2

LEMMA Invariance == Spec => []IInv
BY Initially, Inductive, PTL DEF Spec

(***************************************************************************)
(* The safety properties.                                                   *)
(***************************************************************************)
\* The stores and the cycle's control state are always well formed.
THEOREM TypeCorrect == Spec => []TypeOK
<1>1. IInv => TypeOK
  BY DEF IInv
<1> QED
  BY <1>1, Invariance, PTL

\* A version reaches the review queue or a rejection only with a candidate row
\* whose evidence quotes that very version (link_evidence against the row that
\* extraction returned).
THEOREM RoutingNeedsEvidence == Spec => []RoutedVersionsAreCited
<1>1. IInv => RoutedVersionsAreCited
  BY DEF IInv, Consistent, RoutedVersionsAreCited
<1> QED
  BY <1>1, Invariance, PTL

\* Candidate rows belong to versions that passed extraction, over any number of
\* cycles, aborts and decisions.
THEOREM OwnersAreValidated == Spec => []CandidateOwnersValidated
<1>1. IInv => CandidateOwnersValidated
  BY DEF IInv, Consistent, CandidateOwnersValidated
<1> QED
  BY <1>1, Invariance, PTL

\* However often a version is collected, no two candidate rows belong to it.
THEOREM CandidatesAreOwned == Spec => []OneCandidatePerVersion
<1>1. IInv => OneCandidatePerVersion
  BY DEF IInv, Consistent, OneCandidatePerVersion
<1> QED
  BY <1>1, Invariance, PTL

\* No version is called about twice on record, and none gets past extraction
\* without its llm_run row, whatever is collected again, fails or is aborted.
THEOREM CallsAreCounted == Spec => []OneCallPerVersion
<1>1. IInv => OneCallPerVersion
  BY DEF IInv, CallsCounted, OneCallPerVersion
<1> QED
  BY <1>1, Invariance, PTL

\* The only version a commit leaves in the middle of the stages is one whose prompt
\* could not be built: extracted, never called about, and without a candidate, in
\* every later cycle as well (extract_strategy_candidate, _is_classifiable).
THEOREM MidwayAreStranded == Spec => []MidwayWereNeverCalled
<1>1. IInv => MidwayWereNeverCalled
  BY DEF IInv, OnlyExtractedMidway, CallsCounted, Consistent, OwnersValidated,
         MidwayWereNeverCalled, Rows
<1> QED
  BY <1>1, Invariance, PTL

(***************************************************************************)
(* The action properties: what may become of the committed store.           *)
(***************************************************************************)
LEMMA DiskWriters ==
    ASSUME IInv, [Next]_vars
    PROVE  \/ disk' = disk
           \/ Commit /\ disk' = work
           \/ \E r \in Reviewers, t \in PipelineState : Review(r, t)
BY DEF Next, ReviewRead, CycleStep, Collect, RunStages, vars, StartCycle, IngestNew, IngestKnown,
       CollectSucceeds, CollectFails, Skip, Classify, ClassifyRaises, PromptRaises, Call,
       ExtractRaises, ExtractInvalid, Extract, Validate, LinkEvidence, Score, Novelty, StageRaises,
       Route, StagesEnd, ListCandidates, Publish, Commit, Abort, Rest

LEMMA ReviewWrites ==
    ASSUME IInv, NEW r \in Reviewers, NEW t \in PipelineState, Review(r, t)
    PROVE  /\ disk'.state = disk.state
           /\ desk[r] \in Rows(disk)
           /\ desk'[r] = None
           /\ disk'.row[desk[r]].owner = disk.row[desk[r]].owner
           /\ disk'.row[desk[r]].support = disk.row[desk[r]].support
           /\ \A d \in Candidates : d # desk[r] => disk'.row[d] = disk.row[d]
<1> DEFINE c == desk[r]
<1>1. work \in Store /\ work = disk /\ c \in Rows(work) /\ c \in Candidates
      /\ disk' = Put(work, c, Marked(work.row[c], t))
      /\ desk' = [desk EXCEPT ![r] = None] /\ desk \in [Reviewers -> Candidates \cup {None}]
  BY DEF IInv, TypeOK, LockOK, DeskOK, Rows, Review
<1>2. t \in {"approved", "rejected", "archived"}
  BY TransitionsOut DEF Review
<1>3. /\ Marked(work.row[c], t) \in Row
      /\ Marked(work.row[c], t).owner = work.row[c].owner
      /\ Marked(work.row[c], t).support = work.row[c].support
  BY <1>1, <1>2, MarkedRow
<1> HIDE DEF c
<1> QED
  BY <1>1, <1>3, PutRow DEF c

\* Whatever is collected again and however often a cycle aborts, a committed
\* version only moves up the transition table.
THEOREM VersionsOnlyClimb == Spec => CommittedVersionsClimb
<1> DEFINE Climb == \A v \in Versions :
          disk'.state[v] # disk.state[v] => Rank[disk.state[v]] < Rank[disk'.state[v]]
<1>1. ASSUME IInv, [Next]_vars PROVE Climb
  <2>1. CASE disk' = disk
    BY <2>1
  <2>2. CASE Commit /\ disk' = work
    BY <1>1, <2>2 DEF IInv, WorkAhead
  <2>3. CASE \E r \in Reviewers, t \in PipelineState : Review(r, t)
    BY <1>1, <2>3, ReviewWrites
  <2> QED
    BY <1>1, <2>1, <2>2, <2>3, DiskWriters
<1>2. IInv /\ [Next]_vars => [Climb]_vars
  BY <1>1
<1> HIDE DEF Climb
<1>3. Spec => [][Climb]_vars
  BY <1>2, Invariance, PTL DEF Spec
<1> QED
  BY <1>3 DEF Climb, CommittedVersionsClimb

\* A committed candidate keeps owner and evidence, even when another document's
\* extraction names it, and a committed decision is replaced only by a session that
\* had loaded the row undecided: a reviewer's, or that of an auto_publish cycle
\* which stored nothing of its own before (record_decision, list_candidates).
THEOREM RowsAreKept == Spec => CommittedRowsAreKept
<1> DEFINE Kept == \A c \in Rows(disk) :
          /\ disk'.row[c].owner = disk.row[c].owner
          /\ disk'.row[c].support = disk.row[c].support
          /\ disk.row[c].reviewed /\ disk'.row[c] # disk.row[c] =>
                \/ \E r \in Reviewers : desk[r] = c /\ desk'[r] = None
                \/ /\ pc = "commit" /\ auto /\ c \in listed
                   /\ disk'.state = disk.state
                   /\ Rows(disk') = Rows(disk)
<1>1. ASSUME IInv, [Next]_vars PROVE Kept
  <2>1. CASE disk' = disk
    BY <2>1
  <2>2. CASE Commit /\ disk' = work
    <3>1. OnlyItsDecisions => auto /\ disk'.state = disk.state /\ Rows(disk') = Rows(disk)
      BY <2>2 DEF OnlyItsDecisions, Rows
    <3> QED
      BY <1>1, <2>2, <3>1 DEF Commit, IInv, WorkAhead
  <2>3. CASE \E r \in Reviewers, t \in PipelineState : Review(r, t)
    BY <1>1, <2>3, ReviewWrites DEF Rows
  <2> QED
    BY <1>1, <2>1, <2>2, <2>3, DiskWriters
<1>2. IInv /\ [Next]_vars => [Kept]_vars
  BY <1>1
<1> HIDE DEF Kept
<1>3. Spec => [][Kept]_vars
  BY <1>2, Invariance, PTL DEF Spec
<1> QED
  BY <1>3 DEF Kept, CommittedRowsAreKept

\* A cycle under manual approval approves, rejects and changes no candidate.
THEOREM ManualApprovalHolds == Spec => ManualCyclesDecideNothing
<1> DEFINE Undecided == pc = "commit" /\ pc' = "idle" /\ ~auto =>
          \A c \in Candidates :
              IF c \in Rows(disk) THEN disk'.row[c] = disk.row[c]
                                 ELSE ~disk'.row[c].reviewed
<1>1. ASSUME IInv, [Next]_vars PROVE Undecided
  <2> SUFFICES ASSUME pc = "commit", pc' = "idle", ~auto
               PROVE  \A c \in Candidates :
                         IF c \in Rows(disk) THEN disk'.row[c] = disk.row[c]
                                            ELSE ~disk'.row[c].reviewed
    OBVIOUS
  <2>1. disk' = disk \/ disk' = work
    BY <1>1, DiskWriters DEF Review
  <2>2. \A c \in Candidates : IF c \in Rows(disk) THEN work.row[c] = disk.row[c]
                                               ELSE ~work.row[c].reviewed
    BY <1>1 DEF IInv, WorkAhead
  <2>3. \A c \in Candidates : c \notin Rows(disk) => ~disk.row[c].reviewed
    BY <1>1 DEF IInv, TypeOK, Store, Row, NoRow, Rows, ReviewStatus
  <2> QED
    BY <2>1, <2>2, <2>3
<1>2. IInv /\ [Next]_vars => [Undecided]_vars
  BY <1>1
<1> HIDE DEF Undecided
<1>3. Spec => [][Undecided]_vars
  BY <1>2, Invariance, PTL DEF Spec
<1> QED
  BY <1>3 DEF Undecided, ManualCyclesDecideNothing
(***************************************************************************)
(* What a success means.                                                    *)
(***************************************************************************)
InLoop == {"validate", "evidence", "score", "novelty", "route"}
Routed == {"needs_review", "rejected"}

\* A candidate row has a version, and none that is still before extraction.
LEMMA OwnersAre ==
    ASSUME IInv, NEW c \in Rows(work)
    PROVE  /\ c \in Candidates
           /\ work.row[c].owner \in Versions
           /\ work.state[work.row[c].owner] \in {"validated", "needs_review", "rejected"}
BY DEF IInv, TypeOK, Consistent, OwnersValidated, Rows, Store, Row, NoRow

\* A move of a version that is neither routed nor in the loop of the last stages
\* takes nothing back, if it is in the batch while it is collected.
LEMMA SuccessMoves ==
    ASSUME IInv, SuccessOK, NEW v \in Versions, NEW t \in VersionState,
           work' = Set(work, v, t), disk' = disk, status' = status,
           work.state[v] \notin {"validated", "needs_review", "rejected"},
           pc \notin InLoop,
           t = "collected" => v \in todo',
           t = "extracted" => pc' = "extract" /\ cur' = v,
           pc \in {"extract", "answer"} => v = cur,
           todo \ {v} \subseteq todo'
    PROVE  SuccessOK'
<1>1. /\ work'.row = work.row /\ Rows(work') = Rows(work) /\ work'.state[v] = t
      /\ \A w \in Versions : w # v => work'.state[w] = work.state[w]
  BY SetState DEF IInv, TypeOK
<1>2. \A c \in Rows(work) : work.row[c].owner # v /\ work.row[c].owner \in Versions
  BY OwnersAre
<1> QED
  BY <1>1, <1>2 DEF SuccessOK, InLoop, Rows

\* Steps that write nothing: the batch and the loop go on.
LEMMA SuccessGoesOn ==
    ASSUME SuccessOK, UNCHANGED <<disk, work, status>>,
           \A v \in Versions :
              work.state[v] = "collected" /\ v \in todo => v \in todo',
           pc \in {"extract", "answer"} => pc' \in {"extract", "answer"} /\ cur' = cur,
           pc \in InLoop => pc' \in InLoop /\ draft' = draft
    PROVE  SuccessOK'
BY DEF SuccessOK, InLoop, Rows

LEMMA SuccessStays ==
    ASSUME IInv, SuccessOK, [Next]_vars
    PROVE  SuccessOK'
<1> USE DEF NextVersion
<1>1. ASSUME status' # "success" PROVE SuccessOK'
  BY <1>1 DEF SuccessOK
<1>2. ASSUME work' = disk' PROVE SuccessOK'
  BY <1>2 DEF SuccessOK, Rows
<1>3. CASE \/ CollectFails \/ (\E v \in Versions : ClassifyRaises(v))
           \/ PromptRaises \/ ExtractRaises \/ StageRaises
  BY <1>1, <1>3 DEF CollectFails, ClassifyRaises, PromptRaises, ExtractRaises, StageRaises
<1>4. CASE StartCycle \/ Commit \/ Abort
           \/ \E r \in Reviewers, t \in PipelineState : Review(r, t)
  BY <1>2, <1>4 DEF StartCycle, Commit, Abort, Review, IInv, LoopOK, LockOK
<1>5. ASSUME NEW v \in Versions, NEW t \in PipelineState, IngestNew(v, t)
      PROVE  SuccessOK'
  <2>1. t \in VersionState
    BY DEF VersionState
  <2>2. /\ work' = Set(work, v, t) /\ disk' = disk /\ status' = status
        /\ work.state[v] = Absent /\ pc = "collect" /\ todo' = todo \cup {v}
        /\ t # "extracted"
    BY <1>5 DEF IngestNew
  <2> QED
    BY <2>1, <2>2, SuccessMoves DEF InLoop, Absent
<1>6. ASSUME NEW v \in Versions, NEW t \in PipelineState, Classify(v, t)
      PROVE  SuccessOK'
  <2>1. t \in VersionState /\ t \in {"extracted", "irrelevant", "background_only"}
    BY <1>6, TransitionsOut DEF Classify, VersionState
  <2>2. /\ work' = Set(work, v, t) /\ disk' = disk /\ status' = status
        /\ work.state[v] \in ClassifiableStates /\ pc = "stages" /\ todo' = todo \ {v}
        /\ t = "extracted" => pc' = "extract" /\ cur' = v
    BY <1>6 DEF Classify, IsClassifiable
  <2> QED
    BY <2>1, <2>2, SuccessMoves DEF InLoop, ClassifiableStates
<1>7. CASE ExtractInvalid
  <2>1. /\ cur \in Versions /\ work.state[cur] = "extracted" /\ pc = "answer"
        /\ work' = Set(work, cur, "failed") /\ disk' = disk /\ status' = status /\ todo' = todo
    BY <1>7 DEF ExtractInvalid, IInv, LoopOK
  <2> QED
    BY <2>1, StateNames, SuccessMoves DEF InLoop
<1>8. CASE \/ (\E v \in Versions : IngestKnown(v)) \/ CollectSucceeds \/ StagesEnd \/ Call
           \/ LinkEvidence \/ Score \/ Novelty \/ ListCandidates
  BY <1>8, SuccessGoesOn
  DEF IngestKnown, CollectSucceeds, StagesEnd, Call, LinkEvidence, Score, Novelty,
      ListCandidates, InLoop
<1>9. ASSUME NEW v \in Versions, Skip(v) PROVE SuccessOK'
  BY <1>9, SuccessGoesOn DEF Skip, IsClassifiable, ClassifiableStates, InLoop
<1>10. ASSUME NEW c \in Candidates, NEW claimed \in ReviewStatus, NEW support \in Support,
              Extract(c, claimed, support)
       PROVE  SuccessOK'
  <2> DEFINE kept == Persist(c, claimed, support)
  <2>1. cur \in Versions /\ work \in Store /\ work.state[cur] = "extracted" /\ pc = "answer"
    BY <1>10 DEF Extract, IInv, TypeOK, LoopOK
  <2>2. kept \in Row /\ (c \in Rows(work) => kept = work.row[c])
    BY <2>1, PersistedRow
  <2>3. /\ work' = AfterExtraction(work, cur, c, kept)
        /\ draft' = [cand |-> c, cites |-> Cited(kept.owner, kept.support)]
        /\ pc' = "validate" /\ UNCHANGED <<disk, todo, status>>
    BY <1>10 DEF Extract, AfterExtraction
  <2> HIDE DEF kept
  <2>4. /\ work'.state[cur] = "validated"
        /\ \A w \in Versions : w # cur => work'.state[w] = work.state[w]
        /\ work'.row[c] = kept
        /\ \A d \in Candidates : d # c => work'.row[d] = work.row[d]
        /\ Rows(work') = Rows(work) \cup {c}
    BY <2>1, <2>2, <2>3, ExtractionWrites
  <2>5. \A d \in Rows(work) : d \in Candidates /\ work.row[d].owner \in Versions
                              /\ work.row[d].owner # cur
    BY <2>1, OwnersAre
  <2>6. draft'.cand = c
    BY <2>3
  <2>7. Rows(disk') = Rows(disk)
    BY <2>3 DEF Rows
  <2>8. ASSUME status = "success", NEW v \in Versions, work'.state[v] = "collected"
        PROVE  disk'.state[v] = "collected" \/ v \in todo'
    BY <2>3, <2>4, <2>8 DEF SuccessOK
  <2>10. ASSUME status = "success", NEW v \in Versions, work'.state[v] = "extracted"
         PROVE  disk'.state[v] = "extracted"
    BY <2>1, <2>3, <2>4, <2>10 DEF SuccessOK
  <2>9. ASSUME status = "success", NEW d \in Rows(work') \ Rows(disk),
               work'.row[d].support # "none", d # c
        PROVE  work'.state[work'.row[d].owner] \in {"needs_review", "rejected"}
    BY <2>1, <2>4, <2>5, <2>9 DEF SuccessOK
  <2> QED
    BY <2>3, <2>6, <2>7, <2>8, <2>9, <2>10 DEF SuccessOK
<1>11. CASE Validate
  <2>1. CASE draft.cites = None
    <3>1. /\ draft.cand \in Rows(work)
          /\ draft.cites = Cited(work.row[draft.cand].owner, work.row[draft.cand].support)
      BY <1>11 DEF Validate, IInv, LoopOK
    <3>2. work.row[draft.cand].support = "none"
      BY <2>1, <3>1, OwnersAre, NoneAssumption DEF Cited
    <3> QED
      BY <1>11, <3>2 DEF Validate, SuccessOK, Rows
  <2>2. CASE draft.cites # None
    BY <1>11, <2>2, SuccessGoesOn DEF Validate, InLoop
  <2> QED
    BY <2>1, <2>2
<1>12. ASSUME NEW t \in PipelineState, Route(t) PROVE SuccessOK'
  <2>1. /\ cur \in Versions /\ work \in Store /\ work.state[cur] = "validated"
        /\ draft.cand \in Rows(work)
        /\ draft.cites = Cited(work.row[draft.cand].owner, work.row[draft.cand].support)
        /\ draft.cites = cur
    BY <1>12 DEF Route, IInv, TypeOK, LoopOK
  <2>2. t \in {"needs_review", "rejected"} /\ t \in VersionState
    BY <1>12, <2>1, TransitionsOut DEF Route, VersionState
  <2>3. work.row[draft.cand].owner = cur
    BY <2>1, NoneAssumption DEF Cited
  <2>4. /\ work'.row = work.row /\ Rows(work') = Rows(work) /\ work'.state[cur] = t
        /\ \A w \in Versions : w # cur => work'.state[w] = work.state[w]
    BY <1>12, <2>1, <2>2, SetState DEF Route
  <2>5. UNCHANGED <<disk, todo, status>>
    BY <1>12 DEF Route
  <2>6. \A c \in Rows(work) : work.row[c].owner \in Versions
    BY OwnersAre
  <2> QED
    BY <2>2, <2>3, <2>4, <2>5, <2>6 DEF SuccessOK, Rows
<1>13. CASE Publish
  <2>1. /\ work \in Store /\ listed \subseteq Rows(work) /\ pc = "approve"
        /\ work'.state = work.state
        /\ \A c \in Candidates :
              work'.row[c] = IF c \in listed THEN Marked(work.row[c], "approved")
                                            ELSE work.row[c]
        /\ UNCHANGED <<disk, todo, status>>
    BY <1>13 DEF Publish, IInv, TypeOK, ListOK, Store
  <2>2. ASSUME NEW c \in Candidates
        PROVE  /\ work'.row[c].support = work.row[c].support
               /\ work'.row[c].owner = work.row[c].owner
               /\ c \in Rows(work') => c \in Rows(work)
    <3>1. CASE c \in listed
      BY <2>1, <3>1, MarkedRow
    <3>2. CASE c \notin listed
      BY <2>1, <3>2 DEF Rows
    <3> QED
      BY <3>1, <3>2
  <2>3. Rows(work') \subseteq Candidates /\ Rows(disk') = Rows(disk)
    BY <2>1 DEF Rows
  <2> QED
    BY <2>1, <2>2, <2>3 DEF SuccessOK
<1>14. CASE \/ \E r \in Reviewers, c \in Candidates : ReviewRead(r, c)
            \/ Rest \/ UNCHANGED vars
  BY <1>14, SuccessGoesOn DEF ReviewRead, Rest, vars
<1> QED
  BY <1>3, <1>4, <1>5, <1>6, <1>7, <1>8, <1>9, <1>10, <1>11, <1>12, <1>13, <1>14
  DEF Next, CycleStep, Collect, RunStages

LEMMA BatchStays ==
    ASSUME IInv, BatchOK, [Next]_vars
    PROVE  BatchOK'
<1> USE DEF NextVersion
<1>1. ASSUME NEW v \in Versions, NEW t \in VersionState, work' = Set(work, v, t), t # Absent,
             todo' \subseteq todo \cup {v}
      PROVE  BatchOK'
  <2>1. work'.state[v] = t /\ \A w \in Versions : w # v => work'.state[w] = work.state[w]
    BY <1>1, SetState DEF IInv, TypeOK
  <2> QED
    BY <1>1, <2>1 DEF IInv, TypeOK, BatchOK
<1>2. ASSUME work'.state = work.state, todo' \subseteq todo
      PROVE  BatchOK'
  BY <1>2 DEF BatchOK
<1>3. ASSUME NEW v \in Versions, NEW t \in PipelineState, IngestNew(v, t) PROVE BatchOK'
  <2>1. t \in VersionState /\ t # Absent
    BY <1>3 DEF IngestNew, VersionState, Absent
  <2> QED
    BY <1>1, <1>3, <2>1 DEF IngestNew
<1>4. ASSUME NEW v \in Versions, IngestKnown(v) PROVE BatchOK'
  BY <1>4 DEF IngestKnown, BatchOK
<1>5. ASSUME NEW v \in Versions, NEW t \in PipelineState, Classify(v, t) PROVE BatchOK'
  <2>1. t \in VersionState /\ t # Absent
    BY <1>5, TransitionsOut DEF Classify, VersionState, Absent
  <2> QED
    BY <1>1, <1>5, <2>1 DEF Classify
<1>6. ASSUME NEW v \in Versions, ClassifyRaises(v) PROVE BatchOK'
  BY <1>1, <1>6, StateNames DEF ClassifyRaises, Absent
<1>7. CASE ExtractRaises \/ ExtractInvalid
  <2>1. cur \in Versions
    BY <1>7 DEF ExtractRaises, ExtractInvalid, IInv, LoopOK
  <2> QED
    BY <1>1, <1>7, <2>1, StateNames DEF ExtractRaises, ExtractInvalid, Absent
<1>8. ASSUME NEW c \in Candidates, NEW claimed \in ReviewStatus, NEW support \in Support,
             Extract(c, claimed, support)
      PROVE  BatchOK'
  <2>1. cur \in Versions /\ work \in Store /\ work.state[cur] = "extracted"
    BY <1>8 DEF Extract, IInv, TypeOK, LoopOK
  <2>2. Persist(c, claimed, support) \in Row
    BY <2>1, PersistedRow
  <2>3. /\ work' = AfterExtraction(work, cur, c, Persist(c, claimed, support))
        /\ todo' = todo /\ pc' = "validate"
    BY <1>8 DEF Extract, AfterExtraction
  <2>4. /\ work'.state[cur] = "validated"
        /\ \A w \in Versions : w # cur => work'.state[w] = work.state[w]
    BY <2>1, <2>2, <2>3, ExtractionWrites
  <2> QED
    BY <2>3, <2>4 DEF IInv, TypeOK, BatchOK, Absent
<1>9. ASSUME NEW t \in PipelineState, Route(t) PROVE BatchOK'
  <2>1. cur \in Versions /\ work.state[cur] = "validated"
    BY <1>9 DEF Route, IInv, LoopOK
  <2>2. t \in VersionState /\ t # Absent
    BY <1>9, <2>1, TransitionsOut DEF Route, VersionState, Absent
  <2> QED
    BY <1>1, <1>9, <2>1, <2>2 DEF Route
<1>10. CASE Abort
  BY <1>10 DEF Abort, BatchOK
<1>11. ASSUME NEW r \in Reviewers, NEW t \in PipelineState, Review(r, t) PROVE BatchOK'
  BY <1>2, <1>11 DEF Review, LockOK, IInv, BatchOK
<1>12. CASE Publish
  BY <1>2, <1>12 DEF Publish, BatchOK, IInv, TypeOK, Store
<1>13. CASE \/ StartCycle \/ CollectSucceeds \/ CollectFails \/ (\E v \in Versions : Skip(v))
            \/ PromptRaises \/ Call \/ Validate \/ LinkEvidence \/ Score \/ Novelty
            \/ StageRaises \/ StagesEnd \/ ListCandidates \/ Commit
            \/ (\E r \in Reviewers, c \in Candidates : ReviewRead(r, c)) \/ Rest \/ UNCHANGED vars
  BY <1>2, <1>13
  DEF StartCycle, CollectSucceeds, CollectFails, Skip, PromptRaises, Call, Validate,
      LinkEvidence, Score, Novelty, StageRaises, StagesEnd, ListCandidates, Commit,
      ReviewRead, Rest, vars, BatchOK
<1> QED
  BY <1>3, <1>4, <1>5, <1>6, <1>7, <1>8, <1>9, <1>10, <1>11, <1>12, <1>13
  DEF Next, CycleStep, Collect, RunStages

LEMMA BatchInvariance == Spec => []BatchOK /\ []SuccessOK
<1>1. Init => BatchOK /\ SuccessOK
  BY DEF Init, BatchOK, SuccessOK, Rows
<1>2. IInv /\ BatchOK /\ SuccessOK /\ [Next]_vars => (BatchOK /\ SuccessOK)'
  BY BatchStays, SuccessStays
<1> QED
  BY <1>1, <1>2, Invariance, PTL DEF Spec

\* A success says that every version the cycle stored went through its stages, that
\* none stopped between extraction's state and its call, and that every candidate
\* with evidence was routed (run_candidate_stages).
THEOREM SuccessesAreComplete == Spec => []SuccessIsComplete
<1>1. IInv /\ SuccessOK => SuccessIsComplete
  BY DEF IInv, LoopOK, SuccessOK, SuccessIsComplete, OnItsWay
<1> QED
  BY <1>1, Invariance, BatchInvariance, PTL

(***************************************************************************)
(* Why a cycle ends.                                                        *)
(***************************************************************************)
\* What the steps left are made of.
LEMMA StepsLeftAre ==
    ASSUME IsFiniteSet(Versions), TypeOK
    PROVE  /\ Cardinality(Versions) \in Nat
           /\ Cardinality(todo) \in 0..Cardinality(Versions)
           /\ Cardinality(Versions \ todo) \in Nat
           /\ pc = "idle" => StepsLeft = 0
           /\ pc = "commit" => StepsLeft = 1
           /\ pc = "approve" => StepsLeft = 2
           /\ pc = "publish" => StepsLeft = 3
           /\ pc = "collect" =>
                 StepsLeft = 5 + 8 * Cardinality(Versions) + Cardinality(Versions \ todo)
           /\ pc = "stages" => StepsLeft = 4 + 8 * Cardinality(todo)
           /\ pc = "extract" => StepsLeft = 11 + 8 * Cardinality(todo)
           /\ pc = "answer" => StepsLeft = 10 + 8 * Cardinality(todo)
           /\ pc = "validate" => StepsLeft = 9 + 8 * Cardinality(todo)
           /\ pc = "evidence" => StepsLeft = 8 + 8 * Cardinality(todo)
           /\ pc = "score" => StepsLeft = 7 + 8 * Cardinality(todo)
           /\ pc = "novelty" => StepsLeft = 6 + 8 * Cardinality(todo)
           /\ pc = "route" => StepsLeft = 5 + 8 * Cardinality(todo)
<1>1. /\ Cardinality(Versions) \in Nat
      /\ Cardinality(todo) \in Nat /\ Cardinality(todo) <= Cardinality(Versions)
      /\ Cardinality(Versions \ todo) \in Nat
  <2>1. todo \in SUBSET Versions /\ Versions \ todo \in SUBSET Versions
    BY DEF TypeOK
  <2> QED
    BY <2>1, FS_Subset, FS_CardinalityType
<1> QED
  BY <1>1 DEF StepsLeft, LoopStepsLeft

LEMMA StepsShrink ==
    ASSUME IsFiniteSet(Versions), IInv, IInv', BatchOK, CycleStep
    PROVE  0 <= StepsLeft' /\ StepsLeft' < StepsLeft
<1> USE DEF NextVersion
<1>1. todo \subseteq Versions /\ TypeOK /\ TypeOK'
  BY DEF IInv, TypeOK
<1> DEFINE N == Cardinality(Versions)
           n == Cardinality(todo)
           m == Cardinality(todo')
           r == Cardinality(Versions \ todo)
           q == Cardinality(Versions \ todo')
<1>2. /\ N \in Nat /\ n \in 0..N /\ m \in 0..N /\ r \in Nat /\ q \in Nat
  <2>1. N \in Nat /\ n \in 0..N /\ r \in Nat
    BY <1>1, StepsLeftAre
  <2>2. m \in 0..N /\ q \in Nat
    <3>1. todo' \in SUBSET Versions /\ Versions \ todo' \in SUBSET Versions
      BY <1>1 DEF TypeOK
    <3> QED
      BY <2>1, <3>1, FS_Subset, FS_CardinalityType
  <2> QED
    BY <2>1, <2>2
<1>3. /\ pc' = "idle" => StepsLeft' = 0
      /\ pc' = "commit" => StepsLeft' = 1
      /\ pc' = "approve" => StepsLeft' = 2
      /\ pc' = "publish" => StepsLeft' = 3
      /\ pc' = "collect" => StepsLeft' = 5 + 8 * N + q
      /\ pc' = "stages" => StepsLeft' = 4 + 8 * m
      /\ pc' = "extract" => StepsLeft' = 11 + 8 * m
      /\ pc' = "answer" => StepsLeft' = 10 + 8 * m
      /\ pc' = "validate" => StepsLeft' = 9 + 8 * m
      /\ pc' = "evidence" => StepsLeft' = 8 + 8 * m
      /\ pc' = "score" => StepsLeft' = 7 + 8 * m
      /\ pc' = "novelty" => StepsLeft' = 6 + 8 * m
      /\ pc' = "route" => StepsLeft' = 5 + 8 * m
  BY <1>2 DEF StepsLeft, LoopStepsLeft
<1>4. /\ pc = "commit" => StepsLeft = 1
      /\ pc = "approve" => StepsLeft = 2
      /\ pc = "publish" => StepsLeft = 3
      /\ pc = "collect" => StepsLeft = 5 + 8 * N + r
      /\ pc = "stages" => StepsLeft = 4 + 8 * n
      /\ pc = "extract" => StepsLeft = 11 + 8 * n
      /\ pc = "answer" => StepsLeft = 10 + 8 * n
      /\ pc = "validate" => StepsLeft = 9 + 8 * n
      /\ pc = "evidence" => StepsLeft = 8 + 8 * n
      /\ pc = "score" => StepsLeft = 7 + 8 * n
      /\ pc = "novelty" => StepsLeft = 6 + 8 * n
      /\ pc = "route" => StepsLeft = 5 + 8 * n
  BY <1>1, StepsLeftAre
<1>5. ASSUME NEW v \in Versions, v \notin todo, todo' = todo \cup {v} PROVE q = r - 1
  <2>1. Versions \ todo' = (Versions \ todo) \ {v} /\ v \in Versions \ todo
    BY <1>5
  <2>2. IsFiniteSet(Versions \ todo)
    BY FS_Subset
  <2> QED
    BY <2>1, <2>2, FS_RemoveElement
<1>6. ASSUME NEW v \in todo, todo' = todo \ {v} PROVE m = n - 1
  <2>1. IsFiniteSet(todo)
    BY <1>1, FS_Subset
  <2> QED
    BY <1>6, <2>1, FS_RemoveElement
<1>7. todo' = todo => m = n /\ q = r
  OBVIOUS
<1> HIDE DEF N, n, m, r, q
<1>8. ASSUME NEW v \in Versions, NEW t \in PipelineState, IngestNew(v, t)
      PROVE  0 <= StepsLeft' /\ StepsLeft' < StepsLeft
  <2>1. pc = "collect" /\ pc' = "collect" /\ v \notin todo /\ todo' = todo \cup {v}
    BY <1>8 DEF IngestNew, BatchOK
  <2> QED
    BY <1>2, <1>3, <1>4, <1>5, <2>1
<1>9. ASSUME NEW v \in Versions, IngestKnown(v)
      PROVE  0 <= StepsLeft' /\ StepsLeft' < StepsLeft
  BY <1>2, <1>3, <1>4, <1>5, <1>9 DEF IngestKnown
<1>10. CASE CollectSucceeds \/ CollectFails
  <2>1. pc = "collect" /\ pc' = "stages"
    BY <1>10 DEF CollectSucceeds, CollectFails
  <2> QED
    BY <1>2, <1>3, <1>4, <2>1
<1>11. ASSUME NEW v \in Versions,
              Skip(v) \/ ClassifyRaises(v) \/ \E t \in PipelineState : Classify(v, t)
       PROVE  0 <= StepsLeft' /\ StepsLeft' < StepsLeft
  <2>1. v \in todo /\ todo' = todo \ {v} /\ pc = "stages" /\ pc' \in {"stages", "extract"}
    BY <1>11 DEF Skip, Classify, ClassifyRaises
  <2> QED
    BY <1>2, <1>3, <1>4, <1>6, <2>1
<1>12. CASE \/ PromptRaises \/ Call \/ ExtractRaises \/ ExtractInvalid \/ Validate \/ LinkEvidence
            \/ Score \/ Novelty \/ StageRaises \/ (\E t \in PipelineState : Route(t))
            \/ \E c \in Candidates, claimed \in ReviewStatus, support \in Support :
                  Extract(c, claimed, support)
  <2>1. /\ todo' = todo
        /\ \/ pc = "extract" /\ pc' \in {"answer", "stages"}
           \/ pc = "answer" /\ pc' \in {"validate", "stages"}
           \/ pc = "validate" /\ pc' \in {"evidence", "stages"}
           \/ pc = "evidence" /\ pc' \in {"score", "stages"}
           \/ pc = "score" /\ pc' \in {"novelty", "stages"}
           \/ pc = "novelty" /\ pc' \in {"route", "stages"}
           \/ pc = "route" /\ pc' = "stages"
    BY <1>12 DEF PromptRaises, Call, ExtractRaises, ExtractInvalid, Validate, LinkEvidence, Score,
                 Novelty, StageRaises, Route, Extract
  <2> QED
    BY <1>2, <1>3, <1>4, <1>7, <2>1
<1>13. CASE StagesEnd \/ ListCandidates \/ Publish \/ Commit
  <2>1. \/ pc = "stages" /\ pc' = "publish"
        \/ pc = "publish" /\ pc' = "approve"
        \/ pc = "approve" /\ pc' = "commit"
        \/ pc = "commit" /\ pc' = "idle"
    BY <1>13 DEF StagesEnd, ListCandidates, Publish, Commit
  <2> QED
    BY <1>2, <1>3, <1>4, <2>1
<1> QED
  BY <1>8, <1>9, <1>10, <1>11, <1>12, <1>13 DEF CycleStep, Collect, RunStages

\* A cycle over any finite batch takes a bounded number of steps, whatever is
\* skipped, fails or raises on the way (run_candidate_stages).
THEOREM CyclesAreBounded ==
    ASSUME IsFiniteSet(Versions)
    PROVE  Spec => CyclesShrink
<1> DEFINE Shrink == CycleStep => 0 <= StepsLeft' /\ StepsLeft' < StepsLeft
<1>1. IInv /\ IInv' /\ BatchOK /\ [Next]_vars => [Shrink]_vars
  BY StepsShrink
<1> HIDE DEF Shrink
<1>2. Spec => [][Shrink]_vars
  BY <1>1, Invariance, BatchInvariance, PTL DEF Spec
<1> QED
  BY <1>2 DEF Shrink, CyclesShrink
===============================================================================
