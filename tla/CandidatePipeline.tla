--------------------------- MODULE CandidatePipeline ---------------------------
(***************************************************************************)
(* One orchestration cycle after another over one database: collection,    *)
(* the seven per-version stages of run_candidate_stages, automatic          *)
(* publication, the commit at the end of run_cycle, and the reviewers who   *)
(* decide beside it.                                                        *)
(*                                                                          *)
(* A cycle works in one database session and commits once, so the state is  *)
(* two copies of the same store: `work`, what the session sees, and `disk`, *)
(* what a later process would find.  The session holds SQLite's write lock  *)
(* from its first write on: until then it sees what others commit, and from *)
(* then on nobody else commits.                                             *)
(***************************************************************************)
EXTENDS PipelineStates, FiniteSets

CONSTANTS
    Versions,    \* document versions that collection can return
    Candidates,  \* candidate identifiers the extraction payloads name
    Reviewers,   \* sessions of the review tool and the review API
    Policies,    \* values of "publication_policy is auto_publish" per cycle
    MaxCycles,   \* bound: cycles started
    None         \* no version, no candidate

ASSUME PoliciesAssumption == Policies \subseteq BOOLEAN
ASSUME MaxCyclesAssumption == MaxCycles \in Nat
ASSUME NoneAssumption == None \notin Versions /\ None \notin Candidates

VARIABLES
    disk,     \* the committed store
    work,     \* the store as the open session sees it
    locked,   \* the session has written and holds the database's write lock
    pc,       \* the step run_cycle executes next, "idle" between cycles
    todo,     \* versions of the batch that the loop has not reached
    cur,      \* the version in the loop
    draft,    \* the extraction result: candidate id and the version it cites
    skipped,  \* versions this cycle counted as skipped
    status,   \* summary.status of the last or the running cycle
    listed,   \* candidates automatic publication found waiting and will approve
    auto,     \* whether this cycle publishes without a reviewer
    cycles,   \* cycles started so far
    audit,    \* the llm_run rows of every version, committed and in the session
    desk      \* the candidate each reviewer found waiting and may still decide

vars == <<disk, work, locked, pc, todo, cur, draft, skipped, status, listed, auto,
          cycles, audit, desk>>

\* What a step that writes to nothing of its own leaves alone in the session.
held == <<locked, listed>>

(***************************************************************************)
(* The store: the processing state of every version and the row of every    *)
(* candidate.  A row keeps its review status, the version its Evidence rows *)
(* point to, how many core fields they support and whether a Review row     *)
(* decided it.                                                              *)
(***************************************************************************)
VersionState == PipelineState \cup {Absent}

ReviewStatus == {"pending", "needs_review", "approved", "rejected", "archived"}
Support == {"none", "some", "all"}

Row == [status: ReviewStatus, owner: Versions, support: Support,
        reviewed: BOOLEAN]
NoRow == [status |-> "none", owner |-> None, support |-> "none",
          reviewed |-> FALSE]

Store == [state: [Versions -> VersionState], row: [Candidates -> Row \cup {NoRow}]]
EmptyStore == [state |-> [v \in Versions |-> Absent],
               row |-> [c \in Candidates |-> NoRow]]

\* The audit trail: an llm_run row for each call made about a version.
Audit == [disk: [Versions -> Nat], work: [Versions -> Nat]]
EmptyAudit == [disk |-> [v \in Versions |-> 0], work |-> [v \in Versions |-> 0]]

NoDraft == [cand |-> None, cites |-> None]
Steps == {"idle", "collect", "stages", "extract", "answer", "validate", "evidence",
          "score", "novelty", "route", "publish", "approve", "commit"}

\* The rows that hold a candidate.
Rows(s) == {c \in Candidates : s.row[c].status # "none"}

Set(s, v, target) == [s EXCEPT !.state[v] = target]
Put(s, c, row) == [s EXCEPT !.row[c] = row]

\* Faulty: a failed version is tried again in the next cycle.
ClassifiableAndFailed == {"collected", "normalized", "deduplicated", "classified", "failed"}

\* The states classify_document accepts.
ClassifiableStates == {"collected", "normalized", "deduplicated", "classified"}

IsClassifiable(v) == work.state[v] \in ClassifiableStates

(***************************************************************************)
(* Starting a cycle and collecting.                                         *)
(***************************************************************************)
Init ==
    /\ disk = EmptyStore
    /\ work = EmptyStore
    /\ locked = FALSE
    /\ pc = "idle"
    /\ todo = {}
    /\ cur = None
    /\ draft = NoDraft
    /\ skipped = {}
    /\ status = "success"
    /\ listed = {}
    /\ auto = FALSE
    /\ cycles = 0
    /\ audit = EmptyAudit
    /\ desk = [r \in Reviewers |-> None]

StartCycle ==
    /\ pc = "idle"
    /\ cycles < MaxCycles
    /\ cycles' = cycles + 1
    /\ auto' \in Policies
    /\ status' = "success"
    /\ skipped' = {}
    /\ pc' = "collect"
    /\ UNCHANGED <<disk, work, todo, cur, draft, audit, desk, held>>

\* ingest_document stores a new version: collected, or access_denied when
\* robots.txt does not allow the body.  Both are returned in the batch.
IngestNew(v, target) ==
    /\ pc = "collect"
    /\ work.state[v] = Absent
    /\ target \in {"collected", "access_denied"}
    /\ CanTransition("discovered", target)
    /\ work' = Set(work, v, target)
    /\ locked' = TRUE
    /\ todo' = todo \cup {v}
    /\ UNCHANGED <<disk, pc, cur, draft, skipped, status, auto, cycles, audit, desk,
                   listed>>

\* Faulty: collecting known content starts its processing over.
IngestKnownReopened(v) ==
    /\ pc = "collect"
    /\ work.state[v] # Absent
    /\ v \notin todo
    /\ work' = Set(work, v, "collected")
    /\ locked' = TRUE
    /\ todo' = todo \cup {v}
    /\ UNCHANGED <<disk, pc, cur, draft, skipped, status, auto, cycles, audit, desk,
                   listed>>

\* The same content again: the stored version is returned, whatever its state,
\* and the observation is written to its document.
IngestKnown(v) ==
    /\ pc = "collect"
    /\ work.state[v] # Absent
    /\ v \notin todo
    /\ locked' = TRUE
    /\ todo' = todo \cup {v}
    /\ UNCHANGED <<disk, work, pc, cur, draft, skipped, status, auto, cycles, audit,
                   desk, listed>>

\* A source that returned nothing new is written to as well (last_success_at);
\* without an active source nothing is.
CollectSucceeds ==
    /\ pc = "collect"
    /\ pc' = "stages"
    /\ locked' \in {locked, TRUE}
    /\ UNCHANGED <<disk, work, todo, cur, draft, skipped, status, listed, auto, cycles,
                   audit, desk>>

\* Any source's exception ends the whole stage: run_stage answers with its
\* default, an empty batch, and what was already ingested stays in the session.
\* When the first source raises, the session has written nothing yet.
CollectFails ==
    /\ pc = "collect"
    /\ pc' = "stages"
    /\ todo' = {}
    /\ status' = "partial_success"
    /\ locked' \in {locked, TRUE}
    /\ UNCHANGED <<disk, work, cur, draft, skipped, listed, auto, cycles, audit, desk>>

(***************************************************************************)
(* The per-version loop.  Leaving it for the next version forgets the       *)
(* results of this one.                                                     *)
(***************************************************************************)
NextVersion ==
    /\ pc' = "stages"
    /\ cur' = None
    /\ draft' = NoDraft

\* Faulty: the loop does not move past a version it skips.
SkipInPlace(v) ==
    /\ pc = "stages"
    /\ v \in todo
    /\ ~IsClassifiable(v)
    /\ skipped' = skipped \cup {v}
    /\ UNCHANGED <<disk, work, pc, todo, cur, draft, status, auto, cycles, audit, desk,
                   held>>

Skip(v) ==
    /\ pc = "stages"
    /\ v \in todo
    /\ ~IsClassifiable(v)
    /\ todo' = todo \ {v}
    /\ skipped' = skipped \cup {v}
    /\ UNCHANGED <<disk, work, pc, cur, draft, status, auto, cycles, audit, desk, held>>

\* A relevant version goes through classified to extracted and on to the
\* extraction; the other two verdicts are terminal.
Classify(v, verdict) ==
    /\ pc = "stages"
    /\ v \in todo
    /\ IsClassifiable(v)
    /\ CanTransition("classified", verdict)
    /\ work' = Set(work, v, verdict)
    /\ todo' = todo \ {v}
    /\ IF verdict = "extracted"
         THEN pc' = "extract" /\ cur' = v
         ELSE UNCHANGED <<pc, cur>>
    /\ UNCHANGED <<disk, draft, skipped, status, auto, cycles, audit, desk, held>>

\* Faulty: a failure is recorded under a name the state machine lacks.
ClassifyRaisesError(v) ==
    /\ pc = "stages"
    /\ v \in todo
    /\ IsClassifiable(v)
    /\ work' = Set(work, v, "error")
    /\ todo' = todo \ {v}
    /\ status' = "partial_success"
    /\ UNCHANGED <<disk, pc, cur, draft, skipped, auto, cycles, audit, desk, held>>

ClassifyRaises(v) ==
    /\ pc = "stages"
    /\ v \in todo
    /\ IsClassifiable(v)
    /\ work' = Set(work, v, "failed")
    /\ todo' = todo \ {v}
    /\ status' = "partial_success"
    /\ UNCHANGED <<disk, pc, cur, draft, skipped, auto, cycles, audit, desk, held>>

\* record_llm_run adds a row to the session, whether the call ended or raised.
Recorded(v) == [audit EXCEPT !.work[v] = @ + 1]

\* The prompt cannot be built, because the schema file it quotes is missing or
\* broken: this happens after the version was set to extracted and before the
\* call, so the version stays there and nothing is recorded.
PromptRaises ==
    /\ pc = "extract"
    /\ status' = "partial_success"
    /\ NextVersion
    /\ UNCHANGED <<disk, work, todo, skipped, auto, cycles, audit, desk, held>>

\* The call to the LLM returns.
Call ==
    /\ pc = "extract"
    /\ audit' = Recorded(cur)
    /\ pc' = "answer"
    /\ UNCHANGED <<disk, work, todo, cur, draft, skipped, status, auto, cycles, desk, held>>

\* Faulty: the exception is re-raised before the version is failed.
ExtractRaisesAtOnce ==
    /\ pc = "extract"
    /\ audit' = Recorded(cur)
    /\ status' = "partial_success"
    /\ NextVersion
    /\ UNCHANGED <<disk, work, todo, skipped, auto, cycles, desk, held>>

\* The LLM call fails: the version is failed and the exception re-raised.
ExtractRaises ==
    /\ pc = "extract"
    /\ audit' = Recorded(cur)
    /\ work' = Set(work, cur, "failed")
    /\ status' = "partial_success"
    /\ NextVersion
    /\ UNCHANGED <<disk, todo, skipped, auto, cycles, desk, held>>

\* Faulty: the row is written before the last check of the response.
ExtractInvalidAfterWrite ==
    /\ pc = "answer"
    /\ \E c \in Candidates \ Rows(work) :
          work' = Put(Set(work, cur, "failed"), c,
                      [status |-> "needs_review", owner |-> cur,
                       support |-> "some", reviewed |-> FALSE])
    /\ NextVersion
    /\ UNCHANGED <<disk, todo, skipped, status, auto, cycles, audit, desk, held>>

\* The response breaks the schema or an evidence contract: the version is
\* failed, and a result with an error class is returned, not raised.
ExtractInvalid ==
    /\ pc = "answer"
    /\ work' = Set(work, cur, "failed")
    /\ NextVersion
    /\ UNCHANGED <<disk, todo, skipped, status, auto, cycles, audit, desk, held>>

\* _safe_candidate_payload: a claim without evidence is set to unknown, and
\* the row may then be neither pending nor approved.
SafeStatus(claimed, support) ==
    IF support # "all" /\ claimed \in {"pending", "approved"}
      THEN "needs_review"
      ELSE claimed

Cited(owner, support) == IF support = "none" THEN None ELSE owner

\* Faulty: a payload that names a stored candidate overwrites it.
PersistAlways(c, claimed, support) ==
    [status |-> SafeStatus(claimed, support), owner |-> cur,
     support |-> support, reviewed |-> FALSE]

\* _persist_candidate: a stored candidate of that id is returned as it is,
\* with its own evidence; otherwise row and evidence are written.
Persist(c, claimed, support) ==
    IF work.row[c].status # "none" THEN work.row[c]
    ELSE [status |-> SafeStatus(claimed, support), owner |-> cur,
          support |-> support, reviewed |-> FALSE]

Extract(c, claimed, support) ==
    LET kept == Persist(c, claimed, support) IN
    /\ pc = "answer"
    /\ CanTransition(work.state[cur], "validated")
    /\ work' = Put(Set(work, cur, "validated"), c, kept)
    /\ draft' = [cand |-> c, cites |-> Cited(kept.owner, kept.support)]
    /\ pc' = "validate"
    /\ UNCHANGED <<disk, todo, cur, skipped, status, auto, cycles, audit, desk, held>>

\* Extraction left the version validated, so its payload is taken over.  A
\* result without evidence entries ends here, uncounted.
Validate ==
    /\ pc = "validate"
    /\ work.state[cur] = "validated"
    /\ IF draft.cites = None
         THEN NextVersion
         ELSE pc' = "evidence" /\ UNCHANGED <<cur, draft>>
    /\ UNCHANGED <<disk, work, todo, skipped, status, auto, cycles, audit, desk, held>>

\* Faulty: the entries' document_version_id is not compared.
LinkAnyEvidence ==
    /\ pc = "evidence"
    /\ pc' = "score"
    /\ UNCHANGED <<disk, work, todo, cur, draft, skipped, status, auto, cycles, audit,
                   desk, held>>

\* link_evidence accepts entries only if they cite this very version.
LinkEvidence ==
    /\ pc = "evidence"
    /\ draft.cites = cur
    /\ pc' = "score"
    /\ UNCHANGED <<disk, work, todo, cur, draft, skipped, status, auto, cycles, audit,
                   desk, held>>

\* score_candidate and classify_novelty write to the payload, not to the row.
Score ==
    /\ pc = "score"
    /\ pc' = "novelty"
    /\ UNCHANGED <<disk, work, todo, cur, draft, skipped, status, auto, cycles, audit,
                   desk, held>>

Novelty ==
    /\ pc = "novelty"
    /\ pc' = "route"
    /\ UNCHANGED <<disk, work, todo, cur, draft, skipped, status, auto, cycles, audit,
                   desk, held>>

\* Faulty: the version is handed back for another cycle to retry.
StageRaisesForRetry ==
    /\ pc \in {"evidence", "score", "novelty", "route"}
    /\ work' = Set(work, cur, "collected")
    /\ status' = "partial_success"
    /\ NextVersion
    /\ UNCHANGED <<disk, todo, skipped, auto, cycles, audit, desk, held>>

\* Faulty: the loop goes on without counting the failure.
StageRaisesUncounted ==
    /\ pc \in {"evidence", "score", "novelty", "route"}
    /\ NextVersion
    /\ UNCHANGED <<disk, work, todo, skipped, status, auto, cycles, audit, desk, held>>

\* An exception in any of the four stages after validation: the version and
\* the row stay as they are.
StageRaises ==
    /\ pc \in {"evidence", "score", "novelty", "route"}
    /\ status' = "partial_success"
    /\ NextVersion
    /\ UNCHANGED <<disk, work, todo, skipped, auto, cycles, audit, desk, held>>

\* route_candidate moves the version and writes review_status to the payload;
\* the candidate's row keeps the status extraction gave it.
Route(target) ==
    /\ pc = "route"
    /\ CanTransition(work.state[cur], target)
    /\ work' = Set(work, cur, target)
    /\ NextVersion
    /\ UNCHANGED <<disk, todo, skipped, status, auto, cycles, audit, desk, held>>

StagesEnd ==
    /\ pc = "stages"
    /\ todo = {}
    /\ pc' = "publish"
    /\ UNCHANGED <<disk, work, todo, cur, draft, skipped, status, auto, cycles, audit,
                   desk, held>>

(***************************************************************************)
(* Decisions on candidates.                                                 *)
(***************************************************************************)
Marked(row, decision) == [row EXCEPT !.status = decision, !.reviewed = TRUE]

Waiting == {c \in Candidates : work.row[c].status = "needs_review"}

\* Faulty: the publication policy is not consulted.
ListForAnyPolicy ==
    /\ pc = "publish"
    /\ listed' = Waiting
    /\ pc' = "approve"
    /\ UNCHANGED <<disk, work, locked, todo, cur, draft, skipped, status, auto, cycles,
                   audit, desk>>

\* Under auto_publish the candidates that wait for review are loaded, and the
\* session keeps them as it found them.
ListCandidates ==
    /\ pc = "publish"
    /\ listed' = IF auto THEN Waiting ELSE {}
    /\ pc' = "approve"
    /\ UNCHANGED <<disk, work, locked, todo, cur, draft, skipped, status, auto, cycles,
                   audit, desk>>

\* record_decision checks the loaded status and writes the decision.  The first
\* write takes the lock; no row is read again before it.
Publish ==
    /\ pc = "approve"
    /\ work' =
         [work EXCEPT !.row =
            [c \in Candidates |->
               IF c \in listed THEN Marked(work.row[c], "approved") ELSE work.row[c]]]
    /\ locked' = (locked \/ listed # {})
    /\ pc' = "commit"
    /\ UNCHANGED <<disk, todo, cur, draft, skipped, status, listed, auto, cycles,
                   audit, desk>>

\* The briefing, gate, delivery and operational stages touch no version and
\* no candidate row; the session commits after them.
Commit ==
    /\ pc = "commit"
    /\ disk' = work
    /\ audit' = [audit EXCEPT !.disk = audit.work]
    /\ pc' = "idle"
    /\ locked' = FALSE
    /\ listed' = {}
    /\ UNCHANGED <<work, todo, cur, draft, skipped, status, auto, cycles, desk>>

\* The process dies, or an exception leaves run_cycle: the session closes
\* without a commit and nothing of the cycle is kept.
Abort ==
    /\ pc # "idle"
    /\ work' = disk
    /\ audit' = [audit EXCEPT !.work = audit.disk]
    /\ pc' = "idle"
    /\ locked' = FALSE
    /\ listed' = {}
    /\ todo' = {}
    /\ cur' = None
    /\ draft' = NoDraft
    /\ skipped' = {}
    /\ UNCHANGED <<disk, status, auto, cycles, desk>>

\* A reviewer's session loads the committed row, at any moment, and checks the
\* transition against the status it finds.
ReviewRead(r, c) ==
    /\ \E decision \in PipelineState : CanTransition(disk.row[c].status, decision)
    /\ desk' = [desk EXCEPT ![r] = c]
    /\ UNCHANGED <<disk, work, pc, todo, cur, draft, skipped, status, auto, cycles,
                   audit, held>>

\* It writes and commits, between cycles or while a cycle has written nothing yet.
\* The row is not read again, so a decision that another session committed in
\* between is replaced.  A session that never gets here gave up.
Review(r, decision) ==
    /\ ~locked
    /\ desk[r] # None
    /\ CanTransition("needs_review", decision)
    /\ disk' = Put(disk, desk[r], Marked(disk.row[desk[r]], decision))
    /\ work' = Put(work, desk[r], Marked(disk.row[desk[r]], decision))
    /\ desk' = [desk EXCEPT ![r] = None]
    /\ UNCHANGED <<pc, todo, cur, draft, skipped, status, auto, cycles, audit, held>>

\* No operator invokes another cycle: the bound MaxCycles.
Rest ==
    /\ pc = "idle"
    /\ cycles = MaxCycles
    /\ UNCHANGED vars

Collect ==
    \/ \E v \in Versions, target \in PipelineState : IngestNew(v, target)
    \/ \E v \in Versions : IngestKnown(v)
    \/ CollectSucceeds
    \/ CollectFails

RunStages ==
    \/ \E v \in Versions : Skip(v)
    \/ \E v \in Versions, verdict \in PipelineState : Classify(v, verdict)
    \/ \E v \in Versions : ClassifyRaises(v)
    \/ PromptRaises
    \/ Call
    \/ ExtractRaises
    \/ ExtractInvalid
    \/ \E c \in Candidates, claimed \in ReviewStatus, support \in Support :
          Extract(c, claimed, support)
    \/ Validate
    \/ LinkEvidence
    \/ Score
    \/ Novelty
    \/ StageRaises
    \/ \E target \in PipelineState : Route(target)
    \/ StagesEnd

CycleStep == Collect \/ RunStages \/ ListCandidates \/ Publish \/ Commit

Next ==
    \/ StartCycle
    \/ CycleStep
    \/ Abort
    \/ \E r \in Reviewers, c \in Candidates : ReviewRead(r, c)
    \/ \E r \in Reviewers, decision \in PipelineState : Review(r, decision)
    \/ Rest

Spec == Init /\ [][Next]_vars

\* A started cycle is one thread that keeps running until it ends or dies;
\* nothing makes an operator start a cycle or a reviewer decide.
FairSpec == Spec /\ WF_vars(CycleStep)

(***************************************************************************)
(* Invariants.                                                              *)
(***************************************************************************)
\* Both copies of the store hold only states, rows and statuses the schema
\* allows, and the control state of the cycle is well formed.
TypeOK ==
    /\ disk \in Store
    /\ work \in Store
    /\ locked \in BOOLEAN
    /\ pc \in Steps
    /\ todo \subseteq Versions
    /\ cur \in Versions \cup {None}
    /\ draft \in [cand: Candidates \cup {None}, cites: Versions \cup {None}]
    /\ skipped \subseteq Versions
    /\ status \in {"success", "partial_success"}
    /\ listed \subseteq Candidates
    /\ auto \in BOOLEAN
    /\ cycles \in 0..MaxCycles
    /\ audit \in Audit
    /\ desk \in [Reviewers -> Candidates \cup {None}]

\* A version is routed only on evidence quoted from itself: some candidate
\* row cites it.  (link_evidence, after extraction returned whichever row the
\* payload's candidate_id already named.)
RoutedAreCited(s) ==
    \A v \in Versions :
        s.state[v] \in {"needs_review", "rejected"} =>
            \E c \in Rows(s) : s.row[c].owner = v /\ s.row[c].support # "none"

RoutedVersionsAreCited == RoutedAreCited(work)

\* A candidate row exists only for a version whose extraction validated, and
\* no later failure of a stage takes that back.
OwnersValidated(s) ==
    \A c \in Rows(s) :
        s.state[s.row[c].owner] \in {"validated", "needs_review", "rejected"}

CandidateOwnersValidated == OwnersValidated(work)

\* One version yields at most one candidate row, however often collection
\* returns it and however its later stages end.
OwnersDiffer(s) ==
    \A c, d \in Rows(s) : s.row[c].owner = s.row[d].owner => c = d

OneCandidatePerVersion == OwnersDiffer(work)

\* No version is committed half-way through a stage, where neither the
\* classifier nor any later stage would take it up again, but one: it is
\* extracted, its prompt could not be built, and neither then nor in any later
\* cycle is a call made about it or a candidate its own.
MidwayStates == {"discovered", "normalized", "deduplicated", "classified", "extracted"}

MidwayWereNeverCalled ==
    \A v \in Versions :
        disk.state[v] \in MidwayStates =>
            /\ disk.state[v] = "extracted"
            /\ audit.disk[v] = 0
            /\ \A c \in Rows(disk) : disk.row[c].owner # v

\* Every version that got past extraction has its llm_run row, and none has
\* two: however often the same document is collected and whichever stage of it
\* failed, the store records one LLM call about it (P13).  A cycle that dies
\* takes the record of its calls with it, and they are made again.
AuditedOnce(s, runs) ==
    \A v \in Versions :
        /\ runs[v] <= 1
        /\ s.state[v] \in {"validated", "needs_review", "rejected"} => runs[v] = 1

OneCallPerVersion == AuditedOnce(work, audit.work)

\* A cycle that reports success left nothing on its way: every version it stored
\* went through the stages and stopped between no two of them, and every candidate
\* with evidence it added came to its routing.  Whatever raised in between is
\* counted (run_stage); a failed extraction is a result and no failure of the cycle
\* (pipeline/extract.py:634), but it leaves neither.
OnItsWay == {"collected", "extracted"}

SuccessIsComplete ==
    pc = "commit" /\ status = "success" =>
        /\ \A v \in Versions :
              work.state[v] \in OnItsWay => disk.state[v] = work.state[v]
        /\ \A c \in Rows(work) \ Rows(disk) :
              work.row[c].support # "none" =>
                  work.state[work.row[c].owner] \in {"needs_review", "rejected"}

(***************************************************************************)
(* Why they hold: the inductive invariant.                                  *)
(***************************************************************************)
\* A Review row ends a candidate's review.
ReviewedAreDecided(s) ==
    \A c \in Candidates :
        s.row[c].reviewed => s.row[c].status \in {"approved", "rejected", "archived"}

Consistent(s) ==
    /\ RoutedAreCited(s)
    /\ OwnersValidated(s)
    /\ OwnersDiffer(s)
    /\ ReviewedAreDecided(s)

\* What the loop knows of the version and the draft it works on.
LoopOK ==
    /\ pc = "idle" => work = disk /\ ~locked
    /\ pc \in {"idle", "publish", "approve", "commit"} => todo = {}
    /\ pc \in {"extract", "answer"} => cur \in Versions /\ work.state[cur] = "extracted"
    /\ pc \in {"validate", "evidence", "score", "novelty", "route"} =>
          /\ cur \in Versions
          /\ work.state[cur] = "validated"
          /\ draft.cand \in Rows(work)
          /\ draft.cites =
                Cited(work.row[draft.cand].owner, work.row[draft.cand].support)
    /\ pc \in {"score", "novelty", "route"} => draft.cites = cur

\* Until the session writes it sees the committed store, and only what collects
\* nothing gets past collection without writing.
LockOK ==
    ~locked => /\ work = disk
               /\ audit.work = audit.disk
               /\ todo = {}
               /\ pc \in {"idle", "collect", "stages", "publish", "approve", "commit"}

\* What automatic publication found: under the lock it is still so.
ListOK ==
    /\ pc = "approve" => /\ listed \subseteq Rows(work)
                         /\ listed # {} => auto
                         /\ locked => \A c \in listed : ~work.row[c].reviewed
    /\ pc = "commit" /\ listed # {} => locked

\* The states classification and extraction pass through are left in one step,
\* but for the last.
OnlyExtractedMidway(s) ==
    \A v \in Versions : s.state[v] \in MidwayStates => s.state[v] = "extracted"

\* A decision that this cycle is about to replace: it was taken after the cycle
\* had found the candidate undecided, and before it wrote anything.
OnlyItsDecisions ==
    /\ auto
    /\ work.state = disk.state
    /\ \A c \in Candidates : c \in Rows(work) <=> c \in Rows(disk)

\* The session is ahead of the committed store, never beside it.
WorkAhead ==
    /\ \A v \in Versions :
          \/ work.state[v] = disk.state[v]
          \/ Rank[disk.state[v]] < Rank[work.state[v]]
    /\ \A c \in Rows(disk) :
          /\ work.row[c].owner = disk.row[c].owner
          /\ work.row[c].support = disk.row[c].support
          /\ disk.row[c].reviewed =>
                work.row[c] = disk.row[c] \/ (c \in listed /\ OnlyItsDecisions)
    /\ pc # "commit" \/ ~auto =>
          \A c \in Candidates :
              IF c \in Rows(disk) THEN work.row[c] = disk.row[c]
                                 ELSE ~work.row[c].reviewed

\* Before extraction no call was made about a version, except the one whose
\* answer is being read.
CallsCounted ==
    /\ AuditedOnce(disk, audit.disk)
    /\ AuditedOnce(work, audit.work)
    /\ \A v \in Versions :
          disk.state[v] \in {Absent, "collected", "extracted"} => audit.disk[v] = 0
    /\ \A v \in Versions :
          work.state[v] \in {Absent, "collected", "extracted"} =>
              audit.work[v] = IF pc = "answer" /\ v = cur THEN 1 ELSE 0
    /\ pc = "idle" => audit.work = audit.disk

\* A reviewer holds a committed candidate.
DeskOK == \A r \in Reviewers : desk[r] # None => desk[r] \in Rows(disk)

\* The batch is of stored versions.
BatchOK == \A v \in todo : work.state[v] # Absent

\* Unless something was counted as a failure, a version that was just stored is
\* still to come, and a candidate that was is routed or in the loop.
SuccessOK ==
    status = "success" =>
        /\ \A v \in Versions :
              /\ work.state[v] = "collected" => disk.state[v] = "collected" \/ v \in todo
              /\ work.state[v] = "extracted" =>
                    \/ disk.state[v] = "extracted"
                    \/ pc \in {"extract", "answer"} /\ v = cur
        /\ \A c \in Rows(work) \ Rows(disk) :
              work.row[c].support # "none" =>
                  \/ work.state[work.row[c].owner] \in {"needs_review", "rejected"}
                  \/ /\ pc \in {"validate", "evidence", "score", "novelty", "route"}
                     /\ c = draft.cand

IInv ==
    /\ TypeOK
    /\ Consistent(disk)
    /\ Consistent(work)
    /\ OnlyExtractedMidway(disk)
    /\ OnlyExtractedMidway(work)
    /\ LoopOK
    /\ LockOK
    /\ ListOK
    /\ WorkAhead
    /\ CallsCounted
    /\ DeskOK

(***************************************************************************)
(* Action properties.                                                       *)
(***************************************************************************)
\* Across commits, aborts and restarts a version only climbs: collecting the
\* same content again never reopens a version that was finished.
CommittedVersionsClimb ==
    [][\A v \in Versions :
          disk'.state[v] # disk.state[v] => Rank[disk.state[v]] < Rank[disk'.state[v]]]_vars

\* A committed candidate keeps its evidence and its owner, whichever payload
\* names its id again.  A committed decision is replaced only by somebody who had
\* found the candidate undecided: a reviewer, or an auto_publish cycle, and the
\* cycle only if it comes to its commit with no version moved and no candidate
\* added, because anything it had written would have kept the reviewer out.
CommittedRowsAreKept ==
    [][\A c \in Rows(disk) :
          /\ disk'.row[c].owner = disk.row[c].owner
          /\ disk'.row[c].support = disk.row[c].support
          /\ disk.row[c].reviewed /\ disk'.row[c] # disk.row[c] =>
                \/ \E r \in Reviewers : desk[r] = c /\ desk'[r] = None
                \/ /\ pc = "commit" /\ auto /\ c \in listed
                   /\ disk'.state = disk.state
                   /\ Rows(disk') = Rows(disk)]_vars

\* A cycle under manual approval leaves every candidate it found as it was and
\* decides none it adds: only a reviewer's session does.
ManualCyclesDecideNothing ==
    [][pc = "commit" /\ pc' = "idle" /\ ~auto =>
          \A c \in Candidates :
              IF c \in Rows(disk) THEN disk'.row[c] = disk.row[c]
                                 ELSE ~disk'.row[c].reviewed]_vars

\* The steps a cycle may still take: eight for a version in the batch.
LoopStepsLeft ==
    [stages |-> 0, extract |-> 7, answer |-> 6, validate |-> 5, evidence |-> 4,
     score |-> 3, novelty |-> 2, route |-> 1]

StepsLeft ==
    IF pc = "idle" THEN 0
    ELSE IF pc = "commit" THEN 1
    ELSE IF pc = "approve" THEN 2
    ELSE IF pc = "publish" THEN 3
    ELSE IF pc = "collect"
      THEN 5 + 8 * Cardinality(Versions) + Cardinality(Versions \ todo)
    ELSE 4 + 8 * Cardinality(todo) + LoopStepsLeft[pc]

\* Every step of a cycle, whatever it raises or finds stored, brings its end
\* nearer: the loop over the batch goes back to no version and no stage.
CyclesShrink == [][CycleStep => 0 <= StepsLeft' /\ StepsLeft' < StepsLeft]_vars

(***************************************************************************)
(* Liveness: a started cycle ends, committed or given up.                   *)
(***************************************************************************)
CyclesEnd == pc # "idle" ~> pc = "idle"

(***************************************************************************)
(* What comments and documents say and the code does not do.                *)
(***************************************************************************)
\* "Route a validated candidate to needs_review or rejected" (routing.py): a
\* candidate whose version was routed to rejected does not wait for review.
RejectedLeaveTheQueue ==
    \A c \in Rows(disk) :
        disk.state[disk.row[c].owner] = "rejected" => disk.row[c].status # "needs_review"

\* "it does not ... automatically approve a candidate"
\* (docs/orchestration-cycle.md): an approved candidate was decided on.
ApprovedWereDecided ==
    \A c \in Rows(work) : work.row[c].status = "approved" => work.row[c].reviewed
===============================================================================
