# Verification of scalping_briefing

TLA+ models of the briefing system under `src/src/scalping_briefing/`, the TLC
configurations that check them on small instances, and TLAPS proofs of their
main properties for every value of the constants. Paths below are relative to
`src/src/scalping_briefing/` unless they start with `src/`.

## The system

An operator (or a cron job) runs one *orchestration cycle* per invocation. A
cycle collects documents from configured sources, takes every document version
through seven stages that end in a strategy candidate waiting for review, builds
a briefing from the candidates of a time window, and, under `auto_publish`,
approves and delivers it to a Telegram channel. Reviewers decide on candidates
and on briefings, and deliver briefings, with `review-cli` and a local HTTP API.
All processes share one database (SQLite by default, `config.py:67`).

| component | state it keeps | operations | who it talks to |
| --- | --- | --- | --- |
| orchestration (`orchestration/cycle.py`, `collect.py`) | nothing of its own; one database session per cycle, committed once at the end | `run_cycle`, `run_stage`, `run_candidate_stages`, `collect_documents` | every stage below, by function calls in a fixed order |
| state machine (`pipeline/state_machine.py`) | the transition table | `can_transition`, `transition` | called by the document store, classify, extract, routing, review |
| document store (`repository/documents.py`) | documents and versions, their processing state, hashes, robots decision | `ingest_document`, lookups | collection; file storage for the bodies |
| stages (`pipeline/classify.py` ... `routing.py`) | processing state of a version; candidate and evidence rows | one function per stage | each other through the payload that extraction returns |
| review (`review/`) | `Review` rows, `review_status`, `publication_status` | `record_decision`, `record_briefing_decision`, listings, `briefing-deliver` | state machine, delivery |
| publishing (`publishing/`) | the briefing row, its items, the archived markdown | `build_briefing`, `gate_briefing`, rendering | cursor and schedule, candidate rows |
| delivery (`delivery/`) | `Delivery` rows under a unique idempotency key | `deliver_briefing`, `send` | the gate, the channel |
| cursor, window, schedule (`pipeline/briefing_cursor.py`, `sources/window.py`, `pipeline/schedule.py`) | none: computed from earlier briefing rows | `advance_cursor`, `calculate_collection_window`, `next_occurrence` | briefing build |
| fetching (`net/`, `sources/`) | token buckets, retry state, the cursor of every source | `SourceRegistry.collect`, `HTTPTransport.request`, `acquire_or_wait`, `RetryPolicy.run` | HTTP servers or fixtures |
| LLM (`llm/`) | `LLMRun` audit rows | `audited_complete` | extraction |
| operations (`ops/`, `alerts.py`) | archived reports and alert files | `compute_all_metrics`, `archive_operational_report`, `emit_metric_alerts`, `evaluate_four_week_expansion` | reads everything, last in the cycle |

### What is hard in it

* A cycle is one uncommitted session from its first write to its last line. A
  death anywhere keeps nothing of the database, while what was sent stays sent.
* A stage may fail for one version, and the loop goes on. Rows it wrote before
  stay in the session and are committed with everything else.
* The same content is collected again and again, in whatever state an earlier
  cycle left its version.
* Payloads come from a model: they may name a stored candidate, claim any
  review status and leave evidence out.
* Briefing commands of an operator run beside cycles that rebuild the very
  briefing. They read header, delivery rows and items in separate statements.
* The channel answers late or never, message by message, and the delivery row
  is written only after the last message.
* Windows, carry-over and the item limit of briefings decide over many runs
  whether a candidate is ever shown.
* A source is asked only for what changed since its stored cursor. What is lost
  after the cursor was stored is not listed again.
* Two sessions may decide on one candidate or one briefing: each checks what it
  loaded and writes later. A cycle under `auto_publish` is one of them: it lists
  the waiting candidates before it writes, and SQLite is locked by its first write
  only.
* Requests go through redirects, token sleeps and attempts, each with a limit of
  its own and each begun anew by the one outside it.
* A metric looks back from an occurrence at rows that are made after it, on a
  time line where the rows of this cycle have a zone and stored rows have none;
  operators add and rewrite those rows between cycles.

### What makes each component correct

* *Pipeline*: a version only climbs through the states, across commits, aborts
  and restarts; it is routed on evidence quoted from itself; one version yields
  one candidate; what is committed between two stages never had a call or a
  candidate; a decision is replaced only by who had found the candidate undecided;
  a cycle that reports success left no version it stored unread and no candidate
  with evidence unrouted.
* *Review and publication*: only a reviewer or `auto_publish` decides; what is
  sent was approved.
* *Delivery*: a cycle never repeats a delivery on record, a repetition needs an
  approval, the ledger records only what went out whole, a command that reports
  a delivery has its row.
* *Briefing queue*: windows of successful runs tile the time line, a candidate
  that was shown and not decided is shown again, and none is lost but by the
  item limit, a failed build or a late run.
* *Collection*: a cursor is never ahead of the store; a stored version reaches
  the stages of a cycle unless the stage that stored it raised; versions are
  only appended and a denied document has no body.
* *Fetching*: no source is called faster than its policy, a sleep suffices for
  a token, a call sends a bounded number of requests, and a run that gives up
  says so once.
* *Audit*: one LLM call per version is on record, and none is missing.
* *Operations*: a cycle measures the delivery attempts since the occurrence
  before its own, whoever made them; report and alerts agree; an open expansion
  gate rests on different weeks, and weeks built in turn follow one another.

## The modules

| module | what it is |
| --- | --- |
| `PipelineStates` | the transition table of `state_machine.py` |
| `CandidatePipeline` | collection, the stages, auto publication, commit and abort of cycle after cycle, and reviewers beside them |
| `MCCandidatePipeline` | its instance for TLC (symmetry over versions and candidates, for the violation runs) |
| `CandidatePipelineProofs` | its theorems |
| `DeliveryLedger` | what delivery promises, whoever delivers |
| `Delivery` | one briefing: builds, decisions, gate, send and record by cycles and by `briefing-deliver` commands |
| `MCDelivery` | its instance for TLC (symmetry over commands, for the violation run) |
| `DeliveryProofs` | its theorems |
| `DeliveryLedgerProofs` | its theorems about attempt numbers and the ledger |
| `VersionArchive` | what the document store promises, whatever collection does |
| `Collect` | the collection stage of cycle after cycle, and of `run_briefing()`, over changing sources |
| `MCCollect` | its instance for TLC |
| `CollectProofs` | its theorems |
| `RequestGuards` | the URLs, responses and redirects `net/guards.py` lets through |
| `Fetch` | the calls of a stage: requests, tokens and retries on a clock |
| `MCFetch` | its instance for TLC |
| `FetchProofs` | its theorems |
| `Operations` | metrics, report, alerts and the four-week gate, cycle after cycle, with what operators deliver between them |
| `MCOperations` | its instance for TLC |
| `OperationsProofs` | its theorems |
| `BriefingQueue` | the briefings of successive occurrences: windows, carry-over, item limit, rebuilds |
| `BriefingQueueProofs` | its theorems |

### CandidatePipeline

The state is two copies of one store: `work`, what the cycle's session sees, and
`disk`, what is committed. A store maps every version to its processing state
(or `Absent`) and every candidate id to its row: review status, the version its
`Evidence` rows cite (`owner`), how many core fields they support (`support`) and
whether a `Review` row decided it. `pc` is the statement of `run_cycle` that
runs next; `todo`, `cur` and `draft` are the batch, the loop variable and the
extraction result of `run_candidate_stages`; `status` is `summary.status`.
`audit` counts the `llm_run` rows of every version, in the session and
committed; `desk` is the candidate each reviewer's session has loaded. `locked`
says that the session has written: SQLite's driver begins a transaction at the first
`INSERT` or `UPDATE`, so until then the cycle sees what reviewers commit, and from
then on none of them commits. A cycle that collects nothing, because its first
source raised, has written nothing when it comes to automatic publication; `listed`
is what it found waiting there, in one statement, and decides in a later one.

| code | action |
| --- | --- |
| `run_cycle` up to the collect stage | `StartCycle` |
| `ingest_document` of new content, of known content | `IngestNew`, `IngestKnown` |
| the collect stage ends, or raises and answers with its default | `CollectSucceeds`, `CollectFails` |
| a version that is not classifiable is skipped | `Skip` |
| `classify_document` returns, raises | `Classify`, `ClassifyRaises` |
| the prompt of an extraction cannot be built (`pipeline/extract.py:577`) | `PromptRaises` |
| `audited_complete`: the call and its `llm_run` row | `Call` |
| `extract_strategy_candidate` returns a candidate, returns a failure, raises | `Extract`, `ExtractInvalid`, `ExtractRaises` |
| validation of the extraction result, with or without entries | `Validate` |
| `link_evidence`, `score_candidate`, `classify_novelty`, `route_candidate` | `LinkEvidence`, `Score`, `Novelty`, `Route` |
| any of those four raises | `StageRaises` |
| `auto_publish`: `list_candidates`, `record_decision` of each | `ListCandidates`, `Publish` |
| the commit, a death of the process or an escaping exception | `Commit`, `Abort` |
| `record_decision`: load the candidate and check the transition; write and commit | `ReviewRead`, `Review` |

Batches are sets: the order of versions in a batch is a nondeterministic choice,
which includes the order the code has. A payload is any candidate id, claimed
status and support; text rules are a choice between the outcomes of a stage.

A version whose prompt raised is committed as `extracted`, because that is set
before the `try` that marks failures (`pipeline/extract.py:570` and `582`). No later
cycle takes it up (`orchestration/cycle.py:65`); the cycle does report the failure.

### Delivery

`db` is the committed briefing: the number of the build whose content it holds,
`publication_status`, what its items need (`empty`, `waiting`, `approved`) and,
for every content, the attempt number of its `Delivery` row (0 for no row). `work`
is the same for the running cycle. A content is a pair `<<header, items>>` of
builds: a cycle renders both from its own build, a command may load the header
before and the items after a rebuild. `sent` counts the Telegram messages each
sender got through. `approvals` remembers the builds that
were approved; `desk` is the set of operators whose session found the briefing
pending.

| code | action |
| --- | --- |
| `build_briefing` | `Build` |
| the approval under `auto_publish` | `Publish` |
| `gate_briefing` in the cycle and inside `deliver_briefing` | `GatePasses`, `GateRefuses` |
| one `sendMessage` call, and one that raises | `Send`, `SendRaises`; `DeliverSend`, `DeliverSendRaises` |
| the `Delivery` row | `Record`; `DeliverRecord`, `DeliverRecordRaises` |
| commit, death of the cycle | `Commit`, `Abort` |
| `briefing-decide`: load and check the status; write and commit | `DecideRead`, `Decide` |
| `candidate decide` of the last undecided item | `ApproveItems` |
| `briefing-deliver`: load the header, load rows and items and pass the gate, be refused, be killed | `DeliverRead`, `DeliverLoad`, `DeliverRefused`, `DeliverKilled` |

The database is SQLite: one writer at a time. A cycle writes with its first
build step and holds the write lock to its commit, so in the model decisions and
delivery rows are committed only while `cycle = "idle"`; a command that meets the
lock for longer than the driver's timeout raises (`DeliverRecordRaises`). Reads
see what is committed at each statement. Under PostgreSQL, which the URL would
allow, writers could overlap; that is not modelled. The connector is the live
one; a dry run is the case where no call raises. `DELIVERY_MODE`, the
allow-list and the text rules of the gate are one nondeterministic refusal.

### BriefingQueue

Where `Delivery` looks at one briefing, this module looks at all of them.
`clock` is the time; `briefing` maps every pair of occurrence and trigger to the
stored briefing: the start its window was asked for, the start it has after
`max_lookback_days`, and the candidates of its items. `status` and `created` are
the columns of the candidate rows; `target` and `fresh` are the occurrence and
the new rows of the running cycle. `left` is a history variable: the candidates
a cycle has left out of its briefing, with the reasons in `Build` and
`BuildRaises`.

| code | action or operator |
| --- | --- |
| `run_cycle`: `next_occurrence`, or a given occurrence again | `StartCycle` |
| `_persist_candidate` of a new row | `Arrive` |
| `auto_publish` of waiting candidates | `Publish` |
| `build_briefing` and the commit | `Build` |
| `build_briefing` raises; the commit keeps the rows of the stages | `BuildRaises` |
| `record_decision` | `Decide` |
| `_success_run`, `calculate_collection_window` | `Requests`, `Bounded` |
| `_in_window`, the lists `current_candidates` and `carried`, their order, the limit | `InWindow`, `Current`, `Carried`, `Group`, `Before`, `Stored` |

A cycle holds the write lock from its first collected document to its commit, so
decisions come between cycles, and a cycle that dies is one that did not happen.
(What a reviewer may do beside a cycle that has collected nothing is in
`CandidatePipeline`.)
Candidates are numbers in the order `_candidate_sort_key` gives them: scores and
times do not change after creation. A candidate without `Evidence` rows
(`Candidates \ Cited`) is skipped by the build; `queue` has none, the proofs
allow any. `run_cycle` takes the occurrence as a parameter: the model runs the
next one or any earlier one, never one beyond the next. `SpacingAssumption`
relates schedule and lookbacks: from any time, the next occurrence looks back far
enough. It holds for the twice-weekly schedule with lookbacks of 14 and 30 days;
if a lookback were shorter than a gap of the schedule, candidates would be lost
to it.

### Collect

The document store has two copies again, `disk` and `work`: for every document
whether it was collected or denied, its versions in order, and for every source
the stored cursor. `published` is what every source has listed so far; the index
of a listing is its ETag. `source`, `denied`, `items` and `batch` are the
variables of the loop, `etag` the cursor in the registry. Three histories,
`returned`, `skipped` and `stranded`, say what became of every content.

| code | action |
| --- | --- |
| a source publishes, changes or drops a document | `Publish` |
| the collect stage of a cycle, `run_briefing()` | `StartCycle`, `StartCollection` |
| `registry.collect` with items, with 304 | `FeedAnswers`, `FeedUnchanged` |
| `_load_robots_text` and the decisions it leads to | `LoadRobots` |
| a collected body that is denied now | `SkipDenied` |
| `ingest_document` | `Ingest` |
| `_persist_source_cursor`, the next source | `Persist` |
| any exception of the stage, of `run_briefing()` | `Raises`, `CollectionRaises` |
| the commit of the cycle, of `run_briefing()`, a death | `Commit`, `CommitCollection`, `Abort` |

`Ingest` is disabled where `InvalidTransition` is raised: a document that was
denied and may be collected now ends the stage (`repository/documents.py:377`),
in every cycle that lists it. What the model shows about the way from a source to
the stages:

* Versions whose stage raised stay in the store, and the cursors of the sources
  before it too. The sources answer 304 from then on, so those versions are not
  handed to the stages until their document changes: they are in `stranded`,
  although `src/docs/orchestration-cycle.md:236` says that collection returns
  every ingested version. The same holds of what `run_briefing()` collects
  (`make run-briefing`) into the same database.
* A content that robots.txt denied once for a collected document is skipped
  while the cursor moves on; it is seen again only when its source publishes.

The body of a version is a file written before the commit; a death leaves a file
no row names, which nothing reads. That is not modelled, and neither is a
registry that a caller supplies and keeps between cycles.

### Fetch and RequestGuards

`RequestGuards` holds the pure decisions: the allowlist, forbidden addresses,
the limits on responses and redirects. `Fetch` is one thread that makes calls one
after another. `pc` is where the call is, `clock` counts ticks, `bucket` is the
token bucket of every source in ticks of refill, `http` the request (URL,
redirects so far, whether a second page follows), `retry` the `RetryState`,
`seen` what the call has sent and written so far, `done` the call that ended
last. `grants` is the history of tokens.

| code | action |
| --- | --- |
| `registry.collect`, `_load_robots_text`, the token of an item, `RetryPolicy.run` | `Start` |
| `acquire` with and without a token | `Acquire`, `AcquireDenied` |
| the sleep of `acquire_or_wait` ends; `max_waits` is reached | `Wake`, `GiveUp` |
| `HTTPTransport.request`: a response, one that is refused, a timeout | `Answer`, `AnswerRefused`, `TimesOut` |
| the second request of a GitHub source | `AskMore` |
| a 3xx with a Location, one that is refused; a URL that is refused | `Redirect`, `RedirectRefused`, `Refuse` |
| who catches: a connector, `_load_robots_text` | `FeedRaises`, `RobotsUnknown` |
| `record_failure`, the backoff, the next attempt | `RecordFailure`, `Sleep`, `Again` |
| `record_failure` at the cap, its log and alert | `RecordTerminal`, `EmitAlert` |

`Early` is the number of ticks by which the rounding of floats, or of the
operating system, may end a sleep early; sleeps may also last longer. Noted while
modelling: no collector calls `RetryPolicy.run`, though
`src/docs/operations.md:18` says that each source uses it, and the docstring at
`net/retry.py:258` counts an initial try plus three retries where
the code makes three attempts; the request of a feed takes no token, the token
of an item sends no request, and the buckets are new in every stage; only feeds
and paper metadata send `If-None-Match`. `EmitAlert` always succeeds: an alert directory
that cannot be written is left out.

### Operations

The rows the metrics read (`disk`, `work`), one cycle's way through briefing,
delivery, metrics, report, alerting and commit (`pc`), the files (`reports`,
`alerts`) and the observations the operator keeps for the expansion gate.
`offset` is the offset of the configured zone: a row read back is that much
earlier on the time line than one of this cycle (`fresh`). `auto` is the
publication policy. `broken` is a history. An attempt is a `Delivery` row: when it
was sent last, whether that succeeded and how often it was sent; a briefing has one
for each of its contents.

| code | action |
| --- | --- |
| `run_cycle` up to the briefing | `StartCycle` |
| the briefing stage returns, raises | `Build`, `BuildRaises` |
| the first attempt of the delivery stage, none | `Deliver`, `DeliverNothing` |
| `compute_all_metrics`, or the stage raises | `ComputeMetrics`, `MetricsRaise` |
| `archive_operational_report`, or the stage raises | `WriteReport`, `ReportRaises` |
| `emit_metric_alerts`, up to the file that cannot be written | `EmitAlerts` |
| the commit, a death | `Commit`, `Abort` |
| reviewers between cycles | `Review` |
| `briefing-deliver` between cycles: a first row, or a resend that rewrites one | `OperatorDelivers` |
| `_load_previous_briefings`, `calculate_collection_window` | `Earlier`, `WindowStart` |
| `evaluate_four_week_expansion` | `Selected`, `Successive`, `Consecutive`, `Blockers`, `Eligible` |

Under `manual_approval`, the default, `briefing-deliver` is the way to deliver: a
build leaves the briefing pending, the gate of the cycle refuses it, and an operator
sends it after it was approved. `OperatorDelivers` is one step there; what a command
does between reading and recording is in `Delivery`. An operator may deliver any
approved briefing at any time, so a past week may get an attempt after it was
judged, and a resend moves an attempt of a judged week to now. What
`AttemptsAreMeasured` promises is therefore about the other end: a cycle that
measures has in its sample whatever was sent since the occurrence before its own.
Two kinds of attempt are measured by no cycle: what an operator sends before an
occurrence, after its last cycle, because the next window begins at the occurrence;
and what is sent in a week whose own next occurrence is never run. The attempt of a
cycle itself still has its zone; what was sent before and is read back is seen
`offset` earlier, so east of UTC the promise is made for the cycle's own attempt
only, and west of UTC for none.

`scheduled_for` is stored as local time and read back as UTC
(`publishing/briefing_build.py:280`). West of UTC a briefing that is built again
therefore finds itself among the earlier ones and gets an empty window, and the
weeks of its observations do not follow; `WeeksAreConsecutive` is stated for UTC
and east of it. That the gate is not fooled by such a week is
`EligibleWeeksDiffer`, in every zone: M2 has no sample in an empty window.
`BriefingQueue` has one time line and so the same limit: what it says of reruns
is about UTC and zones east of it.

The repository's connectors answer `success` or raise, so an attempt on record that
failed (`ok` false) stands for a connector a caller supplies. No step of the program
creates the jobs M1 counts, so `Jobs` are rows of a collector outside it; without
them M1 is `insufficient_data` and the gate stays shut. M5 and M6 count samples
only: the store keeps no version twice and a build adds no item without evidence.
The gate is called by no cycle; the model asks it in every state. When the metrics
stage raises, the report says `insufficient_data` and no alert is written.
Processing the same window and metric again rewrites its alert file
(`src/docs/operations-metrics.md:101`), but a metric that has recovered writes
nothing, so the old file stays. `OperationsSpacingAssumption` says that the
lookbacks are longer than the gaps of the schedule, as they are for slots that fire
every week with 14 and 30 days; `OperationsZonesAssumption` that no zone is as far
from UTC as two occurrences are apart.

## The runs

| run | question | bounds | result |
| --- | --- | --- | --- |
| `pipeline` | invariants, what a success stands for, action properties, cycles end | 2 versions, 2 candidate ids, 1 reviewer, both policies, 2 cycles; fairness, no symmetry | passes, 1,076,293 states |
| `pipeline_rejected` | rejected candidates leave the queue (`routing.py` docstring) | the same, 2 reviewers, manual policy, symmetry | violated |
| `pipeline_approved` | nothing is approved automatically (`src/docs/orchestration-cycle.md:6`) | 〃 | violated |
| `delivery` | invariants, refinement of `DeliveryLedger`, commands end | 2 commands, 2 operators, both policies, 2 messages per content, 2 builds; fairness, no symmetry | passes, 592,127 states |
| `delivery_once` | a content is delivered once (`src/docs/orchestration-cycle.md:83`) | the same, symmetry | violated |
| `queue` | windows leave no gap, undecided candidates are kept and carried over | 2 candidates, occurrences at 2, 4 and 6, lookbacks 2 and 3, one item per briefing, both policies | passes, 1,377,204 states |
| `queue_kept` | undecided candidates are not pushed out (`src/intent-docs/scalping_strategy_briefing_intent.md:160`) | the same, manual policy | violated |
| `collect` | cursors, versions on their way, refinement of `VersionArchive`, stages end | 2 sources, one asked with its cursor, a document each, 2 contents or none, 1 change per source, 2 runs | passes, 329,894 states |
| `fetch` | rate, sleeps, alerts, bound on requests, backoff, calls end | 2 sources (interval 2 and 1, burst 1 and 2), one with two requests; 2 URLs, 1 redirect, 2 sleeps, 3 attempts, backoff 2 capped at 3, 3 calls, sleeps a tick short | passes, 410,373 states |
| `fetch_304` | 304 is an answer (`src/docs/operations.md:24`) | the same | violated |
| `operations` | attempts measured, report and alerts agree, the weeks of the gate | occurrences 1, 3 and 5, time up to 3, 3 cycles or deliveries, 1 fault, offset 0 under either policy, 1 and -1 under `auto_publish`, two windows required, lookbacks 3 and 4 | passes, 2,748,607 states |
| `operations_delay` | a late briefing breaches M2 (`src/docs/operations-metrics.md:39`) | the same, offset 1 | violated |

Two versions and two candidate ids are what the pipeline needs to have a payload
name the row of another version; the second cycle meets everything the first left
behind, after a commit or an abort. One reviewer whose decision lands after an
`auto_publish` cycle committed, or between its listing and its first write, is the
race of two writers; the theorems hold for any number. Two commands and two builds
are the least with which a command renders a torn content, two first sends race for
one key, a resend meets a resend and a rebuild overtakes a decision; two operators
may both have found the briefing pending; two messages make a content that is partly
sent. `MaxCycles`, `MaxBuilds`, `MaxRuns`, `MaxChanges`, `MaxCalls`, `MaxFaults` and
`Horizon` are the only cut-offs; `Rest` stutters when they are reached so that
deadlock stays checked. `operations` is the exception: it really stops after
`MaxRuns` cycles and deliveries with the clock at `Horizon`, and it checks safety
only, so its cfg switches the deadlock check off.

Three occurrences are the least for which a run in the middle may be missing and
be made up for later; a lookback of 3 between occurrences 4 apart truncates, one
item for two candidates crowds one out. Two triggers with two occurrences
(3,348,656 states) and three candidates with two occurrences (5,003,484 states)
were checked as well, and so was the inductive invariant of each module that has
one.

In `collect` the second source is collected after the first and may raise when the
first has stored items and cursor; the second run then meets cursors that are ahead
of what was handed on. One document per source with two contents has every case of
`ingest_document`: new, known, changed, denied, dropped from the feed. In `fetch`
the burst of 2 and the interval of 2 separate a bucket that is capped from one that
is not; three attempts have a backoff below and at its cap; two calls for one source
may be followed by one for the other. In `operations` three occurrences and three
runs allow two weeks and a rerun, late run or delivery of an operator among them;
time stops at 3, so the third occurrence is only run early. At UTC and west of it
the gate opens on two different weeks within that time; east of it only with the
clock at 4, in a run that takes too long to keep. Required is 2 where the code says
4, because two weeks are what following one another and differing is about; the
theorems hold for any number.

The violated properties are sentences of the repository that the code does not
keep; each is quoted in its module and listed with its line under "findings" in
`PROJECT.json`:

* `RejectedLeaveTheQueue`: routing moves the version to `rejected`; the row of
  the candidate keeps `needs_review`.
* `ApprovedWereDecided`: a payload that supports every core field and claims
  `approved` is stored as approved.
* `DeliveredOnce`: the row is written after the send; when the last call raises
  although Telegram took the message, the next command sends it all again.
* `QueueKept`: only stored items are carried over, so an undecided candidate
  beyond the item limit is in no later window and in no briefing.
* `NotModifiedIsAnAnswer`: the live transport wants an approved `Content-Type` of
  every response, and a 304 seldom has one.
* `LateBriefingsBreach`: `generated_at` loses its zone in SQLite and is read back
  as local time, nine hours early in `Asia/Seoul`.

Four more were seen and need no run, each being one step of the code: a version
whose evidence, scoring, novelty or routing stage failed stays `validated`, which
no later cycle takes up (`orchestration/cycle.py:758`); one whose prompt could not
be built stays `extracted` for the same reason; an extraction that fails
is a returned result, so the cycle ends as a success (what a success stands for
nevertheless is `SuccessIsComplete`); and a decision on a
briefing names the row, not the build the operator looked at
(`review/service.py:224`).

### Fairness

`pipeline` assumes weak fairness of the steps of a started cycle: it is one
thread that runs until it returns or dies. Nobody is obliged to start a cycle or
to decide. `delivery` assumes weak fairness of every started command: it is a
process that runs until it ends; it does not wait for the cycle, whose own steps
need no fairness, since a locked database makes it raise. `collect` assumes it
of the steps of a started run, one thread again. `fetch` assumes it of the steps
of a call, because every request has a timeout, and of the clock while the thread
sleeps. Starting anything, killing it, publishing and deciding are not fair.

## The proofs

The `...Proofs` modules prove, for all versions, candidates, commands,
policies, numbers of messages, schedules, lookbacks, sources, limits and bounds,
from the named assumptions of the modules and nothing else:

| theorem | statement |
| --- | --- |
| `TransitionsClimb` | every allowed transition raises the rank of a state |
| `TypeCorrect`, `DeliveryTypeCorrect`, `QueueTypeCorrect`, `FetchTypeCorrect`, `CollectTypeCorrect`, `OperationsTypeCorrect` | `Spec => []TypeOK` |
| `RoutingNeedsEvidence` | `Spec => []RoutedVersionsAreCited` |
| `OwnersAreValidated` | `Spec => []CandidateOwnersValidated` |
| `CandidatesAreOwned` | `Spec => []OneCandidatePerVersion` |
| `CallsAreCounted` | `Spec => []OneCallPerVersion` |
| `MidwayAreStranded` | `Spec => []MidwayWereNeverCalled` |
| `VersionsOnlyClimb` | `Spec => CommittedVersionsClimb` |
| `RowsAreKept` | `Spec => CommittedRowsAreKept` |
| `ManualApprovalHolds` | `Spec => ManualCyclesDecideNothing` |
| `SuccessesAreComplete` | `Spec => []SuccessIsComplete` |
| `CyclesAreBounded` | `Spec => CyclesShrink`, for finitely many versions |
| `NothingUnapprovedIsSent` | `Spec => []SentHeadersWereApproved` |
| `CyclesNeverRepeat` | `Spec => []CyclesSendFirst` |
| `ReportsAreTrue` | `Spec => []ReportedAreRecorded` |
| `RepeatsNeedApproval` | `Spec => []RepeatsWereApproved` |
| `LedgerIsKept` | `Spec => ImplementsLedger` |
| `CommandsAreBounded` | `Spec => CommandsShrink` |
| `CursorsAreCovered` | `Spec => []CursorCovers` |
| `NothingIsLostOnTheWay` | `Spec => []ReturnedOrStranded` |
| `ArchiveIsKept` | `Spec => ImplementsArchive` |
| `RunsAreBounded` | `Spec => StagesShrink`, for finitely many documents |
| `NoUnreportedGaps` | `Spec => []WindowsTile` |
| `UndecidedAreKept` | `Spec => []KeptUnlessLeft` |
| `QueueIsCarried` | `Spec => CarriedUntilDecided` |
| `SourcesAreNotRushed` | `Spec => []RateKept` |
| `SleepsAreExact` | `Spec => []OneSleepSuffices` |
| `ExhaustionIsReported` | `Spec => []ExhaustedAreAlerted` |
| `RequestsAreBounded` | `Spec => []RequestsBounded` |
| `RetriesAreLate` | `Spec => RetriesWait` |
| `CallsAreBounded` | `Spec => CallsShrink` |
| `WeeksAttemptsAreMeasured` | `Spec => []AttemptsAreMeasured` |
| `FilesAgree` | `Spec => []AlertsFollowReports` |
| `GateAcceptsItsWeeks` | `Spec => []WeeksAreConsecutive` |
| `OpenGateMeansDifferentWeeks` | `Spec => []EligibleWeeksDiffer` |
| `LateBriefingsAreBreaches` | `Spec => []LateBriefingsBreach`, if no zone is east of UTC |

Each module has one inductive invariant `IInv`, stated with the model, and one
lemma per action or per conjunct. Some theorems need more and get it on top of
that invariant: `Delivery` adds `CountsOK` for what is counted, `CandidatePipeline`
adds `BatchOK` and `SuccessOK`.

*Pipeline.* The safety invariants are not inductive: that a routed version is
cited depends on what the loop knows between extraction and routing. `LoopOK`
says so: from `validate` on, the version is `validated`, the draft's candidate
has a row, and the draft cites what that row cites; after evidence linking it
cites the version in the loop. `OnlyExtractedMidway` says that `extracted` is the
one state between two stages a version can be left in. `CallsCounted` says that a
version up to that state has no `llm_run` row but the one whose answer is being
read, and `OwnersValidated` that it has no candidate: so whatever is committed there
is a version whose prompt raised. `LockOK` says that a session that has not written
sees the committed store, its audit included, and has an empty batch. `WorkAhead`
relates the session to the committed store: states only climb (by
`TransitionsClimb`), committed rows keep owner and evidence, and decided rows are the
same in both, but for those that automatic publication had listed before a reviewer
decided them, which takes a session without a write until then (`OnlyItsDecisions`).
The two-state properties follow because only `Commit` and `Review` write `disk`, and
`Abort` copies back. For `SuccessIsComplete`, `SuccessOK` says where the work
still is while nothing was counted as a failure: a version the cycle stored is
handed on or still in the batch, a candidate it added is routed or the draft in the
loop. When the batch is empty nothing is left.

*Delivery.* `StatusOK` carries "an approved status is an approval of this very
build" through the store, the session and the copies commands hold; `CommandsOK`
that a command has sent nothing before it passed the gate; `SessionOK` that the
session differs from the store in the build, the approval and, at the end, its
own row only. With them a chunk that goes out has an approved header whatever is
rebuilt meanwhile, and no row appears between a cycle's gate and its commit.

*Delivery ledger.* `CountsOK` compares attempt numbers with sets of senders.
`RowsCounted` bounds a number on record by the senders that got the content
through, and, past the first, by those that had the approval to resend;
`KnownCounted` bounds the number a command has read in the same way by the others
than itself, which holds because it had sent nothing when it read. When it records
one more it has sent its last chunk and is itself the sender to count. Concurrent
resends that overwrite each other's number only make it smaller. The refinement
maps a step to an approval, the last chunk of one sender, a row or a stutter; the
row a cycle adds is counted by `SessionCounted` until its commit.

*Collection.* `StageOK` says that every document the answer listed is still an
item of the loop or dealt with, so that the cursor stored after the loop is
covered. `Covered` is kept for the session and for the store, because a commit
makes the one the other and an abort the reverse; `SessionOK` says that the
session only adds to the store, which makes a commit a step of the archive.
`BatchOK` relates what is stored to what is handed on; where the stage ends early
the rest is `stranded`.

*Briefing queue.* That an undecided candidate is an item of some briefing is not
inductive: the briefing that has it may be built again, with another window.
`HomesOK` names the one that cannot lose it, its home: the earliest occurrence run
after the candidate was created. No run lies between the two, so whenever the home
is built again its window is asked to start at or before the creation, the
lookbacks reach (`SpacingAssumption`, carried in `Home`), and the candidate is
listed again. When an occurrence nearer to the creation is run later, that one
becomes the home. A listed candidate is stored or cut off, and then in `left`.
That the limit leaves a carried candidate out only of a full briefing is a
statement about one build: the first candidate left out, by group and number, has
`MaxItems` others before it, and all of those are stored. `WindowsTile` follows
from `RequestsOK`, that a window was asked to start where some earlier run ended:
a run made up for later is either before that start or in a window of its own.

*Fetch.* The rate of a source is a statement about its whole past; `BucketOK`
keeps the account of it: for every token taken so far, the tokens since then and
what the bucket holds came out of one burst and the refill of the time since. A
refill adds no more than the time, the cap only takes away, a grant pays from the
bucket, so the account stays and `RateKept` is its value at two grants. `WaitOK`
says that at the end of a sleep there is a token in the bucket, because nobody
else takes one meanwhile. `CountOK` bounds the requests of a call by the attempts
that failed, the page before this one and the redirects followed; multiplied out
it is `RequestsBounded`. `RetryOK` ties the count to the place of the call, and
`next_retry_at` to the end of the sleep.

*Operations.* Every time is looked back to by the next occurrence
(`OperationsSpacingAssumption`). `WindowOK` carries that over to what was built: the
window of the cycle's briefing reaches back to every time since the occurrence before
its own, because the cursor stands at an earlier occurrence or a lookback is long
enough; a cycle whose build failed takes the fixed window, which is. So what was sent
since lies in the window, if it is seen where it was (`WeekIsSampled`): at UTC, or
while it still has its zone. `CycleOK` says which row that is. `FilesOK`: from the
metrics to the last alert the window of a cycle is in `broken`, and there is one
report per window. `WeeksOK` carries `WeeksFollow` through both stores: when a
briefing is built after the occurrence before its own, and that one was built in time,
the cursor stands at that occurrence and the lookback reaches it, so the one window
starts where the other ends; when the earlier of the two is built again later, it is
no longer one built in time. East of UTC the zone does not move an earlier occurrence
past its own (`OperationsZonesAssumption`, `EarlierIs`).

For the open gate, `VerdictsOK` says that a verdict of M2 that meets its target has a
sample, so its window is not empty. The gate compares each window with its immediate
predecessor in the order of ends; `PredecessorExists` finds that one among finitely
many, and every earlier window ends no later than it (`OpenGateHasWeeks`).
`LateBriefingsBreach`, which the run `operations_delay` violates east of UTC, is
proved for all other zones: there a time that is read back is never earlier than it
was.

*Termination.* Liveness under fairness is outside what the installed provers
handle: `CyclesEnd`, `CommandsEnd`, `StagesEnd` and `CallsEnd` are checked by TLC
only. The half that depends on the data is proved. `CyclesShrink`, `CommandsShrink`,
`StagesShrink` and `CallsShrink` give each of them a variant, a natural number
every step makes smaller: eight steps for a version of the batch; a step per chunk;
the items of every source to come; pages and redirects within attempts within
sleeps. `CommandsShrink` says besides that nobody else makes a command's number
larger. What remains for TLC is that a step is possible until the end.
No run checks these four: a run that checked them would ask `CyclesEnd` and its like
again. `CyclesShrink` is stated with its model, the other three with their proofs.

## What is not modelled, and the plan

Next, in order of importance:

1. The body files and the archived markdown, written before the commit and never
   read back by a modelled component.
2. A promise for the pipeline as a whole, in the manner of `DeliveryLedger` and
   `VersionArchive`, that the committed store implements.

Left out for good:

* `pipeline/validate.py` and `publishing/gate.py`: no cycle and no command
  reaches their entry points (extraction validates with the schema guard, the
  briefing gate is `publishing/briefing_gate.py`).
* The arithmetic of scoring and the comparison of structures: floating point and
  text. They write to the payload only: no score is stored, though the intent
  document's P14 says so, and novelty is computed against a store that already
  has the row of the candidate itself.
* Rendering, the text rules of gate and evidence, the parsing of feeds, pages,
  robots files and URLs, storage of bodies, logging, configuration: pure
  functions or plain I/O whose outcomes the models choose freely.
* `amend_field`, which appends to a JSON column and is called by no command and no
  route; two sessions of it would lose one amendment.
* The alert file of a failed stage (`run_stage`) and the retry inside the Ollama
  client, which makes up to two HTTP calls for one `llm_run` row.
* PostgreSQL, which the database URL would allow: there writers may overlap
  between statements and not only between load and write.
