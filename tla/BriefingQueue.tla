----------------------------- MODULE BriefingQueue -----------------------------
(***************************************************************************)
(* The briefings of successive occurrences of the schedule and the queue    *)
(* of undecided candidates they report: cycles that create candidates and   *)
(* build or rebuild a briefing, reviewers between them, and time.           *)
(*                                                                          *)
(* A cycle commits once at its end and one that dies leaves nothing, so the *)
(* state between cycles is the committed one and an aborted cycle is a      *)
(* cycle that did not happen.                                               *)
(***************************************************************************)
EXTENDS Integers, FiniteSets

CONSTANTS
    Candidates,       \* numbers: the order _candidate_sort_key gives them
    Cited,            \* the candidates that have Evidence rows
    Occurrences,      \* the times the schedule fires
    Triggers,         \* "scheduled", "manual": part of a briefing's id
    InitialLookback,  \* initial_lookback_days
    MaxLookback,      \* max_lookback_days
    MaxItems,         \* briefing_max_items
    Policies,         \* values of "publication_policy is auto_publish"
    Horizon           \* bound: the last point in time

\* The schedule is weekly and both lookbacks are longer: between a time and the
\* occurrence that looks back too little to reach it there is another one.
LookbackReaches(o, t) ==
    \/ o - InitialLookback <= t /\ o - MaxLookback <= t
    \/ \E p \in Occurrences : t < p /\ p < o

ASSUME CandidatesAssumption == Candidates \subseteq Nat /\ IsFiniteSet(Candidates)
ASSUME CitedAssumption == Cited \subseteq Candidates
ASSUME OccurrencesAssumption == Occurrences \subseteq Nat
ASSUME LookbacksAssumption == InitialLookback \in Nat /\ MaxLookback \in Nat \ {0}
ASSUME MaxItemsAssumption == MaxItems \in Nat
ASSUME QueuePoliciesAssumption == Policies \subseteq BOOLEAN
ASSUME HorizonAssumption == Horizon \in Nat
ASSUME SpacingAssumption == \A o \in Occurrences, t \in 0..Horizon : LookbackReaches(o, t)

VARIABLES
    clock,     \* now
    pc,        \* "idle" between cycles, "stages" before the briefing stage,
               \* "briefing" at it
    target,    \* the briefing the cycle builds, NoTarget between cycles
    fresh,     \* the candidates this cycle created
    status,    \* review_status of every candidate
    created,   \* created_at of every candidate
    briefing,  \* the stored briefings
    left       \* history: candidates that a cycle has left out, see Build

vars == <<clock, pc, target, fresh, status, created, briefing, left>>

\* A briefing is identified by its occurrence and its trigger.
Keys == Occurrences \X Triggers
NoTarget == <<0, "none">>

\* "closed" is rejected or archived.
Undecided == {"pending", "needs_review"}
ReviewStatus == Undecided \cup {"approved", "closed"}

\* Where the window was asked to start, where it starts, and the candidates
\* of the stored items.  Every window ends at the occurrence.
Briefing == [requested: Int, start: Int, items: SUBSET Cited]
NoBriefing == [requested |-> 1, start |-> 0, items |-> {}]

Built == {k \in Keys : briefing[k] # NoBriefing}

\* _load_previous_briefings: the runs of strictly earlier occurrences.
Earlier(k) == {p \in Built : p[1] < k[1]}

Init ==
    /\ clock = 0
    /\ pc = "idle"
    /\ target = NoTarget
    /\ fresh = {}
    /\ status = [c \in Candidates |-> "absent"]
    /\ created = [c \in Candidates |-> 0]
    /\ briefing = [k \in Keys |-> NoBriefing]
    /\ left = {}

Tick ==
    /\ clock < Horizon
    /\ clock' = clock + 1
    /\ UNCHANGED <<pc, target, fresh, status, created, briefing, left>>

(***************************************************************************)
(* What a briefing reports.                                                 *)
(***************************************************************************)
\* Faulty: the latest run counts, whichever occurrence it was for.
RequestsFromLatest(k) ==
    IF Built = {} THEN {k[1] - InitialLookback}
    ELSE {p[1] : p \in {p \in Built : \A q \in Built : q[1] <= p[1]}}

\* advance_cursor: the window starts where the latest earlier run ended; the
\* first one looks back.
Requests(k) ==
    IF Earlier(k) = {} THEN {k[1] - InitialLookback}
    ELSE {p[1] : p \in {p \in Earlier(k) : \A q \in Earlier(k) : q[1] <= p[1]}}

\* calculate_collection_window: but never beyond max_lookback_days.
Bounded(k, requested) ==
    IF requested < k[1] - MaxLookback THEN k[1] - MaxLookback ELSE requested

\* Faulty: an instant that ends one window is not taken to begin the next.
InHalfOpenWindow(c, k, start) == start < created[c] /\ created[c] <= k[1]

InWindow(c, k, start) == start <= created[c] /\ created[c] <= k[1]

Current(k, start) ==
    {c \in Candidates : status[c] \in Undecided \cup {"approved"} /\ InWindow(c, k, start)}

\* Faulty: only the briefing before is looked at.
CarriedFromLast(k) ==
    {c \in Candidates :
        /\ status[c] \in Undecided
        /\ \E p \in Earlier(k) :
              c \in briefing[p].items /\ \A q \in Earlier(k) : q[1] <= p[1]}

\* Undecided candidates among the stored items of any earlier briefing.
Carried(k) ==
    {c \in Candidates :
        status[c] \in Undecided /\ \E p \in Earlier(k) : c \in briefing[p].items}

\* A candidate without evidence is skipped.
Listed(k, start) == (Current(k, start) \cup Carried(k)) \cap Cited

\* Approved ones come first, then undecided ones of this window, then carried.
Group(c, k, start) ==
    IF c \notin Current(k, start) THEN 3 ELSE IF status[c] = "approved" THEN 1 ELSE 2

Before(d, c, k, start) ==
    \/ Group(d, k, start) < Group(c, k, start)
    \/ Group(d, k, start) = Group(c, k, start) /\ d < c

\* The first MaxItems of them are stored.
Stored(k, start) ==
    LET listed == Listed(k, start) IN
    {c \in listed : Cardinality({d \in listed : Before(d, c, k, start)}) < MaxItems}

Reported(k, requested) ==
    LET start == Bounded(k, requested) IN
    [requested |-> requested, start |-> start, items |-> Stored(k, start)]

CutOff(k, requested) ==
    LET start == Bounded(k, requested) IN Listed(k, start) \ Stored(k, start)

(***************************************************************************)
(* A cycle.                                                                 *)
(***************************************************************************)
\* It is for the next occurrence, or it runs an earlier one again.
StartCycle(k) ==
    /\ pc = "idle"
    /\ \A o \in Occurrences : clock < o => k[1] <= o
    /\ pc' = "stages"
    /\ target' = k
    /\ fresh' = {}
    /\ UNCHANGED <<clock, status, created, briefing, left>>

\* The stages create a candidate; its payload claims any review status.
Arrive(c, claimed) ==
    /\ pc = "stages"
    /\ status[c] = "absent"
    /\ status' = [status EXCEPT ![c] = claimed]
    /\ created' = [created EXCEPT ![c] = clock]
    /\ fresh' = fresh \cup {c}
    /\ UNCHANGED <<clock, pc, target, briefing, left>>

\* Faulty: a candidate gets the status of a published document.
PublishAsPublished(auto) ==
    /\ pc = "stages"
    /\ status' = [c \in Candidates |->
                    IF auto /\ status[c] = "needs_review" THEN "published" ELSE status[c]]
    /\ pc' = "briefing"
    /\ UNCHANGED <<clock, target, fresh, created, briefing, left>>

\* Under auto_publish whatever waits for review is approved.
Publish(auto) ==
    /\ pc = "stages"
    /\ status' = [c \in Candidates |->
                    IF auto /\ status[c] = "needs_review" THEN "approved" ELSE status[c]]
    /\ pc' = "briefing"
    /\ UNCHANGED <<clock, target, fresh, created, briefing, left>>

\* build_briefing and the commit.  It leaves out what the limit cuts off, and
\* what the cycle created too late for the occurrence it runs.
Build ==
    /\ pc = "briefing"
    /\ \E requested \in Requests(target) :
          /\ briefing' = [briefing EXCEPT ![target] = Reported(target, requested)]
          /\ left' = left \cup CutOff(target, requested)
                          \cup {c \in fresh : target[1] < created[c]}
    /\ pc' = "idle"
    /\ target' = NoTarget
    /\ fresh' = {}
    /\ UNCHANGED <<clock, status, created>>

\* Rendering or the wording check raises: the stage fails, the cycle commits
\* the candidates it created.
BuildRaises ==
    /\ pc = "briefing"
    /\ left' = left \cup fresh
    /\ pc' = "idle"
    /\ target' = NoTarget
    /\ fresh' = {}
    /\ UNCHANGED <<clock, status, created, briefing>>

\* record_decision: only what waits for review can be decided.
Decide(c, decision) ==
    /\ pc = "idle"
    /\ status[c] = "needs_review"
    /\ status' = [status EXCEPT ![c] = decision]
    /\ UNCHANGED <<clock, pc, target, fresh, created, briefing, left>>

Next ==
    \/ Tick
    \/ \E k \in Keys : StartCycle(k)
    \/ \E c \in Candidates, claimed \in ReviewStatus : Arrive(c, claimed)
    \/ \E auto \in Policies : Publish(auto)
    \/ Build
    \/ BuildRaises
    \/ \E c \in Candidates, decision \in {"approved", "closed"} : Decide(c, decision)

Spec == Init /\ [][Next]_vars

(***************************************************************************)
(* Invariants.                                                              *)
(***************************************************************************)
TypeOK ==
    /\ clock \in 0..Horizon
    /\ pc \in {"idle", "stages", "briefing"}
    /\ target \in Keys \cup {NoTarget}
    /\ fresh \subseteq Candidates
    /\ status \in [Candidates -> ReviewStatus \cup {"absent"}]
    /\ created \in [Candidates -> 0..Horizon]
    /\ briefing \in [Keys -> Briefing \cup {NoBriefing}]
    /\ left \subseteq Candidates

\* Whatever the order in which occurrences were run and run again, the window
\* of a briefing was asked to start no later than the run before it ended: an
\* instant between two runs is in the later window or in the truncation that
\* the later briefing reports.  (A first run looks back on its own.)
WindowsTile ==
    \A k \in Built : \A p \in Earlier(k) :
        \/ briefing[k].requested <= p[1]
        \/ \E q \in Earlier(k) : p[1] < q[1]
        \/ briefing[k].requested = k[1] - InitialLookback

Shown(c) == \E k \in Built : c \in briefing[k].items

\* An undecided candidate is an item of a stored briefing, however often
\* briefings are rebuilt, decided upon and run out of order, unless a cycle
\* left it out: because the limit cut it off, because the build raised or
\* because the cycle that created it ran an occurrence that had passed.
KeptUnlessLeft ==
    \A c \in Cited \ (fresh \cup left) : status[c] \in Undecided => Shown(c)

(***************************************************************************)
(* Why they hold: the inductive invariant.                                  *)
(***************************************************************************)
\* A cycle runs no occurrence beyond the next one, neither seen from now nor
\* from the time it created a candidate.
RunOK ==
    /\ pc = "idle" => fresh = {}
    /\ pc # "idle" =>
          /\ target \in Keys
          /\ \A o \in Occurrences : clock < o => target[1] <= o
          /\ \A c \in fresh, o \in Occurrences : created[c] < o => target[1] <= o

\* A window was asked to start where some earlier run ended.
RequestsOK ==
    \A k \in Built :
        \/ briefing[k].requested = k[1] - InitialLookback
        \/ \E p \in Earlier(k) : briefing[k].requested = p[1]

\* The briefing that keeps c: of the earliest occurrence run after its creation,
\* and with a window that reaches back to it whenever it is built again.
Home(c, k) ==
    /\ c \in briefing[k].items
    /\ created[c] <= k[1]
    /\ \A q \in Built : ~(created[c] < q[1] /\ q[1] < k[1])
    /\ k[1] - MaxLookback <= created[c]
    /\ \/ k[1] - InitialLookback <= created[c]
       \/ \E e \in Earlier(k) : e[1] <= created[c]

HomesOK ==
    \A c \in Cited \ (fresh \cup left) :
        status[c] \in Undecided => \E k \in Built : Home(c, k)

IInv ==
    /\ TypeOK
    /\ RunOK
    /\ RequestsOK
    /\ WindowsTile
    /\ HomesOK

(***************************************************************************)
(* Action properties.                                                       *)
(***************************************************************************)
\* A candidate stays in the queue until it is decided: a briefing has every
\* undecided candidate that any earlier briefing had, or is full, even if
\* briefings in between had no room for it.
CarriedUntilDecided ==
    [][\A k \in Keys, c \in Candidates :
          /\ briefing'[k] # briefing[k]
          /\ status[c] \in Undecided
          /\ \E p \in Earlier(k) : c \in briefing[p].items
          => c \in briefing'[k].items \/ Cardinality(briefing'[k].items) >= MaxItems]_vars

(***************************************************************************)
(* What a document says and the code does not do.                           *)
(***************************************************************************)
\* Candidates left unapproved "are not pushed out of the cursor" but stay in
\* the queue (scalping_strategy_briefing_intent.md): an undecided candidate
\* from before a briefing whose time has come is an item of some briefing.
QueueKept ==
    pc = "idle" =>
        \A c \in Cited :
            /\ status[c] \in Undecided
            /\ \E k \in Built : created[c] < k[1] /\ k[1] <= clock
            => Shown(c)
===============================================================================
