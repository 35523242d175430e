-------------------------------- MODULE Collect --------------------------------
(***************************************************************************)
(* The collection stage of cycle after cycle: sources in their order, the   *)
(* conditional request for a feed, its robots.txt, the items of the feed    *)
(* into the document store, and the cursor of the source after its items.   *)
(* Sources publish, robots files change and requests fail at any time.      *)
(*                                                                          *)
(* The stage writes to the session of its cycle.  An exception ends the     *)
(* stage, not the cycle: what the stage wrote until then is committed.      *)
(* run_briefing(), which `make run-briefing` starts on the same database,   *)
(* is the same loop without a cycle: it commits at its end or not at all.   *)
(***************************************************************************)
EXTENDS Naturals, Sequences

CONSTANTS
    NSources,      \* active sources, numbered in the order of the policy
    Docs,          \* the documents the sources may list
    SourceOf,      \* the source of each document
    Contents,      \* the contents a document may have
    Gone,          \* a document a feed does not list
    Conditional,   \* the sources asked with the cursor: feeds and metadata
    MaxChanges,    \* bound: times a source publishes
    MaxRuns        \* bound: runs

Sources == 1..NSources

ASSUME SourcesAssumption == NSources \in Nat
ASSUME SourceOfAssumption == SourceOf \in [Docs -> Sources]
ASSUME GoneAssumption == Gone \notin Contents
ASSUME ConditionalAssumption == Conditional \subseteq Sources
ASSUME CollectBoundsAssumption == MaxChanges \in Nat /\ MaxRuns \in Nat

VARIABLES
    published,   \* what each source has listed so far; the last one is current,
                 \* and its number is the ETag
    disk,        \* the document store as committed
    work,        \* the same as the session of the cycle sees it
    entry,       \* what was started: a cycle, or a collection on its own
    pc,          \* the step of the stage, "idle" between runs, "end" after it
    source,      \* the source being collected
    etag,        \* the cursor the registry holds for it
    denied,      \* the documents its robots.txt denies, or that are unknown
    items,       \* the documents of the result still to be ingested
    batch,       \* the versions the stage returns
    returned,    \* history: versions the stages of a committed cycle were given
    skipped,     \* history: contents skipped because access was denied
    stranded,    \* history: versions whose stage raised, or that had no cycle
    runs         \* runs so far

vars == <<published, disk, work, entry, pc, source, etag, denied, items, batch, returned,
          skipped, stranded, runs>>

A == INSTANCE VersionArchive WITH access <- disk.access, versions <- disk.versions

Access == {"absent", "collected", "access_denied"}

\* A document, the versions kept of it, the cursor of every source (0: none).
Store == [access: [Docs -> Access], versions: [Docs -> Seq(A!Version)],
          cursor: [Sources -> Nat]]

EmptyStore == [access |-> [d \in Docs |-> "absent"],
               versions |-> [d \in Docs |-> <<>>],
               cursor |-> [s \in Sources |-> 0]]

Listings == [Docs -> Contents \cup {Gone}]

DocsOf(s) == {d \in Docs : SourceOf[d] = s}

\* What the feed being collected listed for d.
Listed(d) == published[source][etag][d]

Init ==
    /\ published \in [Sources -> {<<listing>> : listing \in Listings}]
    /\ \A s \in Sources, d \in Docs : SourceOf[d] # s => published[s][1][d] = Gone
    /\ disk = EmptyStore
    /\ work = EmptyStore
    /\ entry = "cycle"
    /\ pc = "idle"
    /\ source = 1
    /\ etag = 0
    /\ denied = {}
    /\ items = {}
    /\ batch = {}
    /\ returned = {}
    /\ skipped = {}
    /\ stranded = {}
    /\ runs = 0

Stage == <<work, entry, pc, source, etag, denied, items, batch>>
History == <<returned, skipped, stranded>>

\* What no step of a running stage writes.
Given == <<published, disk, entry, runs>>

\* A source lists another content of d, or none.
Publish(d, content) ==
    LET s == SourceOf[d] IN
    /\ Len(published[s]) <= MaxChanges
    /\ content # published[s][Len(published[s])][d]
    /\ published' = [published EXCEPT ![s] =
                       Append(@, [@[Len(@)] EXCEPT ![d] = content])]
    /\ UNCHANGED <<disk, Stage, History, runs>>

(***************************************************************************)
(* The stage.                                                               *)
(***************************************************************************)
\* A session on the committed store; the cursors come from the Source rows.
Start(e) ==
    /\ pc = "idle"
    /\ runs < MaxRuns
    /\ runs' = runs + 1
    /\ entry' = e
    /\ work' = disk
    /\ pc' = IF NSources = 0 THEN "end" ELSE "feed"
    /\ source' = 1
    /\ etag' = 0
    /\ batch' = {}
    /\ UNCHANGED <<published, disk, denied, items, History>>

StartCycle == Start("cycle")

\* run_briefing(), the entry point that only collects.
StartCollection == Start("collection")

\* Faulty: entries the feed has dropped are still in the result.
FeedAnswersAll ==
    /\ pc = "feed"
    /\ etag' = Len(published[source])
    /\ items' = DocsOf(source)
    /\ pc' = "robots"
    /\ UNCHANGED <<Given, work, source, denied, batch, History>>

\* Faulty: the cursor is stored when the feed has answered.
FeedAnswersPersisting ==
    /\ pc = "feed"
    /\ etag' = Len(published[source])
    /\ work' = [work EXCEPT !.cursor[source] = Len(published[source])]
    /\ items' = {d \in DocsOf(source) :
                   published[source][Len(published[source])][d] # Gone}
    /\ pc' = "robots"
    /\ UNCHANGED <<Given, source, denied, batch, History>>

\* The feed is answered: its items, and its ETag into the registry's cursor.
FeedAnswers ==
    /\ pc = "feed"
    /\ etag' = Len(published[source])
    /\ items' = {d \in DocsOf(source) :
                   published[source][Len(published[source])][d] # Gone}
    /\ pc' = "robots"
    /\ UNCHANGED <<Given, work, source, denied, batch, History>>

\* The source answers 304 to the cursor: no items.
FeedUnchanged ==
    /\ pc = "feed"
    /\ source \in Conditional
    /\ work.cursor[source] = Len(published[source])
    /\ etag' = work.cursor[source]
    /\ items' = {}
    /\ pc' = "robots"
    /\ UNCHANGED <<Given, work, source, denied, batch, History>>

\* robots.txt denies some documents; one that cannot be read denies all.
LoadRobots(ds) ==
    /\ pc = "robots"
    /\ denied' = ds
    /\ pc' = "items"
    /\ UNCHANGED <<Given, work, source, etag, items, batch, History>>

\* A body that was collected and may not be collected now: not in the batch.
SkipDenied(d) ==
    /\ pc = "items"
    /\ d \in items \cap denied
    /\ work.access[d] = "collected"
    /\ items' = items \ {d}
    /\ skipped' = skipped \cup {<<d, Listed(d)>>}
    /\ UNCHANGED <<Given, work, pc, source, etag, denied, batch, returned,
                   stranded>>

\* The state the decision asks for: collected is left for access_denied by no
\* transition, and access_denied is terminal.
Target(d) == IF d \in denied THEN "access_denied" ELSE "collected"

\* A content that is stored already is that version again, whichever it is; a
\* denied one is stored without body.
Ingested(d) ==
    LET vs == work.versions[d] IN
    IF Listed(d) \in A!ContentsOf(vs) THEN vs
    ELSE Append(vs, [content |-> Listed(d), body |-> d \notin denied])

\* Faulty: access may be granted to a document it was denied for.
IngestReopening(d) ==
    /\ pc = "items"
    /\ d \in items
    /\ work.access[d] # "collected" \/ d \notin denied
    /\ work' = [work EXCEPT !.access[d] = Target(d), !.versions[d] = Ingested(d)]
    /\ items' = items \ {d}
    /\ batch' = batch \cup {<<d, Listed(d)>>}
    /\ UNCHANGED <<Given, pc, source, etag, denied, History>>

\* ingest_document of one item.
Ingest(d) ==
    /\ pc = "items"
    /\ d \in items
    /\ work.access[d] \in {"absent", Target(d)}
    /\ work' = [work EXCEPT !.access[d] = Target(d), !.versions[d] = Ingested(d)]
    /\ items' = items \ {d}
    /\ batch' = batch \cup {<<d, Listed(d)>>}
    /\ UNCHANGED <<Given, pc, source, etag, denied, History>>

\* Faulty: the loop stays with its source.
NextSourceAgain(s) == s

NextSource(s) == s + 1

\* Faulty: every source begins the list of versions anew.
PersistBeginsAnew ==
    /\ pc = "items"
    /\ items = {}
    /\ work' = [work EXCEPT !.cursor[source] = etag]
    /\ batch' = {v \in batch : SourceOf[v[1]] = source}
    /\ IF source = NSources
         THEN pc' = "end" /\ UNCHANGED source
         ELSE pc' = "feed" /\ source' = NextSource(source)
    /\ UNCHANGED <<Given, etag, denied, items, History>>

\* _persist_source_cursor, after the last item; then the next source.
Persist ==
    /\ pc = "items"
    /\ items = {}
    /\ work' = [work EXCEPT !.cursor[source] = etag]
    /\ IF source = NSources
         THEN pc' = "end" /\ UNCHANGED source
         ELSE pc' = "feed" /\ source' = NextSource(source)
    /\ UNCHANGED <<Given, etag, denied, items, batch, History>>

\* A request, a token or a URL raises, or an item whose document was denied
\* before may be collected now (InvalidTransition): the stage returns nothing,
\* of this source and of those before it.  The cycle goes on and commits.
Raises ==
    /\ pc \in {"feed", "robots", "items"}
    /\ entry = "cycle"
    /\ pc' = "end"
    /\ items' = {}
    /\ batch' = {}
    /\ stranded' = stranded \cup (batch \ returned)
    /\ UNCHANGED <<Given, work, source, etag, denied, returned, skipped>>

\* The same in run_briefing(): nothing of the session is kept.
CollectionRaises ==
    /\ pc \in {"feed", "robots", "items"}
    /\ entry = "collection"
    /\ work' = disk
    /\ pc' = "idle"
    /\ items' = {}
    /\ batch' = {}
    /\ UNCHANGED <<Given, source, etag, denied, History>>

(***************************************************************************)
(* The end of the run.                                                      *)
(***************************************************************************)
\* Whatever the other stages did with the batch, the session is committed.
Commit ==
    /\ pc = "end"
    /\ entry = "cycle"
    /\ disk' = work
    /\ returned' = returned \cup batch
    /\ batch' = {}
    /\ pc' = "idle"
    /\ UNCHANGED <<published, entry, runs, work, source, etag, denied, items, skipped,
                   stranded>>

\* run_briefing() commits its versions and hands them to nobody.
CommitCollection ==
    /\ pc = "end"
    /\ entry = "collection"
    /\ disk' = work
    /\ stranded' = stranded \cup (batch \ returned)
    /\ batch' = {}
    /\ pc' = "idle"
    /\ UNCHANGED <<published, entry, runs, work, source, etag, denied, items, skipped,
                   returned>>

\* The process dies: nothing of the session is kept.
Abort ==
    /\ pc # "idle"
    /\ work' = disk
    /\ items' = {}
    /\ batch' = {}
    /\ pc' = "idle"
    /\ UNCHANGED <<Given, source, etag, denied, History>>

StageStep ==
    \/ FeedAnswers
    \/ FeedUnchanged
    \/ \E ds \in SUBSET DocsOf(source) : LoadRobots(ds)
    \/ \E d \in Docs : SkipDenied(d) \/ Ingest(d)
    \/ Persist
    \/ Raises
    \/ CollectionRaises

Rest ==
    /\ pc = "idle" /\ runs = MaxRuns
    /\ \A s \in Sources : Len(published[s]) > MaxChanges
    /\ UNCHANGED vars

Next ==
    \/ \E d \in Docs, content \in Contents \cup {Gone} : Publish(d, content)
    \/ StartCycle
    \/ StartCollection
    \/ StageStep
    \/ Commit
    \/ CommitCollection
    \/ Abort
    \/ Rest

Spec == Init /\ [][Next]_vars

\* A started run is one thread that runs until it returns or dies.
FairSpec == Spec /\ WF_vars(StageStep \/ Commit \/ CommitCollection)

(***************************************************************************)
(* Correctness.                                                             *)
(***************************************************************************)
\* Every variable has its type.
TypeOK ==
    /\ published \in [Sources -> Seq(Listings)]
    /\ \A s \in Sources : Len(published[s]) \in 1..(MaxChanges + 1)
    /\ disk \in Store
    /\ entry \in {"cycle", "collection"}
    /\ work \in Store
    /\ pc \in {"idle", "feed", "robots", "items", "end"}
    /\ source \in Nat
    /\ etag \in Nat
    /\ denied \subseteq Docs
    /\ items \subseteq Docs
    /\ batch \subseteq Docs \X Contents
    /\ returned \subseteq Docs \X Contents
    /\ skipped \subseteq Docs \X Contents
    /\ stranded \subseteq Docs \X Contents
    /\ runs \in 0..MaxRuns

\* A content has been dealt with: it is a stored version, or it was skipped
\* because robots.txt denied a document collected before.
Dealt(store, d, content) ==
    content \in A!ContentsOf(store.versions[d]) \/ <<d, content>> \in skipped

\* A cursor never gets ahead of the store: what a source listed under the
\* committed cursor, and so will not list again until it publishes anew, is
\* stored or was skipped, whichever exception, death or change of the feed came
\* between the answer, the items and the cursor (orchestration/collect.py:190).
CursorCovers ==
    \A s \in Sources : disk.cursor[s] # 0 =>
        \A d \in DocsOf(s) :
            LET content == published[s][disk.cursor[s]][d]
            IN content # Gone => Dealt(disk, d, content)

\* Every stored version was handed to the stages of a committed cycle, unless
\* the stage that stored it raised or run_briefing() did: nothing is lost on
\* the way from the items of several sources to the one list that
\* collect_documents returns.
ReturnedOrStranded ==
    \A d \in Docs : \A content \in A!ContentsOf(disk.versions[d]) :
        <<d, content>> \in returned \cup stranded

\* A started run ends: the loops over sources and items are finite.
StagesEnd == pc # "idle" ~> pc = "idle"

\* The committed store keeps the promises of VersionArchive: no version is
\* overwritten, stored twice or stored with a body robots.txt denied
\* (docs/operations.md:20 and :27).
ImplementsArchive == A!ArchiveSpec

(***************************************************************************)
(* The inductive invariant.                                                 *)
(***************************************************************************)
\* CursorCovers of any store; a cursor is the number of a listing.
Covered(store) ==
    \A s \in Sources : store.cursor[s] # 0 =>
        /\ store.cursor[s] <= Len(published[s])
        /\ \A d \in DocsOf(s) :
              LET content == published[s][store.cursor[s]][d]
              IN content # Gone => Dealt(store, d, content)

StoresOK ==
    \A store \in {disk, work} :
        /\ Covered(store)
        /\ \A d \in Docs : A!WellFormed(store.access[d], store.versions[d])

\* The session only adds to the committed store.
SessionOK ==
    \A d \in Docs :
        /\ disk.access[d] \in {"absent", work.access[d]}
        /\ A!Extends(work.versions[d], disk.versions[d])

\* The documents the answer lists are still to be ingested or dealt with.
StageOK ==
    /\ pc \in {"feed", "robots", "items"} => source \in Sources
    /\ pc \in {"robots", "items"} =>
        /\ etag \in 1..Len(published[source])
        /\ \A d \in items : d \in DocsOf(source) /\ Listed(d) # Gone
        /\ \A d \in DocsOf(source) :
              Listed(d) = Gone \/ d \in items \/ Dealt(work, d, Listed(d))

\* What is handed on is stored, and what is stored is handed on or accounted for.
BatchOK ==
    /\ \A r \in batch : r[2] \in A!ContentsOf(work.versions[r[1]])
    /\ \A r \in returned : r[2] \in A!ContentsOf(disk.versions[r[1]])
    /\ \A d \in Docs : \A content \in A!ContentsOf(work.versions[d]) :
          <<d, content>> \in returned \cup stranded \cup batch

IInv ==
    /\ TypeOK
    /\ StoresOK
    /\ SessionOK
    /\ StageOK
    /\ BatchOK
    /\ ReturnedOrStranded
===============================================================================
