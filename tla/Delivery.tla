------------------------------- MODULE Delivery -------------------------------
(***************************************************************************)
(* One briefing from its build to the channel: orchestration cycles that    *)
(* rebuild it (and, under auto_publish, deliver it), an operator who looks  *)
(* at it and decides, and briefing-deliver commands that send what was      *)
(* approved.  All of them share one SQLite database and one channel.        *)
(*                                                                          *)
(* A cycle writes first when it builds and commits at its end, and SQLite   *)
(* admits one writer: from its build to its commit no other process can     *)
(* write, while all of them can still read what is committed.               *)
(***************************************************************************)
EXTENDS Naturals, FiniteSets

CONSTANTS
    Commands,   \* invocations of briefing-deliver
    Operators,  \* sessions that decide on the briefing
    Policies,   \* values of "publication_policy is auto_publish" per cycle
    NChunks,    \* Telegram messages the rendered briefing is split into
    MaxBuilds   \* bound: cycles that build this briefing

ASSUME CommandsAssumption == IsFiniteSet(Commands)
ASSUME DeliveryPoliciesAssumption == Policies \subseteq BOOLEAN
ASSUME NChunksAssumption == NChunks \in Nat \ {0}
ASSUME MaxBuildsAssumption == MaxBuilds \in Nat
ASSUME SendersAssumption == Commands \cap Nat = {}

VARIABLES
    db,         \* the briefing and its delivery rows as committed
    work,       \* the same as the running cycle's session sees them
    cycle,      \* the step the cycle executes next, "idle" between cycles
    builds,     \* builds so far: a build never repeats its content
    command,    \* the state of every briefing-deliver command
    sent,       \* how many chunks of its message each sender got through
    approvals,  \* history: the builds that were approved
    desk        \* the operators who found the briefing pending

vars == <<db, work, cycle, builds, command, sent, approvals, desk>>

Builds == 1..MaxBuilds

\* Every cycle renders the content of its own build; a command can render the
\* header of one build over the items of another (DeliverRead, DeliverLoad).
Contents == Builds \X Builds

\* A cycle is named by the build it makes.
Senders == Commands \cup Builds

PublicationStatus == {"pending_approval", "approved", "rejected", "archived"}

\* Faulty: a publication decision is checked against the review statuses.
ReviewDecisions == {"needs_review", "approved", "rejected", "archived"}

Decisions == {"approved", "rejected", "archived"}

\* No items at all, an item whose candidate is not approved, or all approved.
Items == {"empty", "waiting", "approved"}

Briefing == [build: 0..MaxBuilds, status: PublicationStatus, items: Items,
             attempt: [Contents -> Nat]]

NoBriefing == [build |-> 0, status |-> "pending_approval", items |-> "empty",
               attempt |-> [c \in Contents |-> 0]]

\* Where a command is, the header and the items it read, the attempt number
\* of the row it found for that content, and whether the operator passed
\* --resend-reason and --resend-approved-by.
Command == [pc: {"new", "read", "send", "delivered", "empty", "failed"},
            header: 0..MaxBuilds, status: PublicationStatus,
            items: 0..MaxBuilds, known: Nat, resend: BOOLEAN]

NewCommand == [pc |-> "new", header |-> 0, status |-> "pending_approval",
               items |-> 0, known |-> 0, resend |-> FALSE]

\* The content a sender sends.
ContentOf(s) ==
    IF s \in Commands THEN <<command[s].header, command[s].items>> ELSE <<s, s>>

\* The senders that got content c through to its last chunk.
Complete(c) == {s \in Senders : sent[s] = NChunks /\ ContentOf(s) = c}

\* The commands among them that had the approval to resend.
Resent(c) == {i \in Complete(c) \cap Commands : command[i].resend}

\* The briefing with the delivery row of content c at attempt n.
Recorded(briefing, c, n) ==
    [briefing EXCEPT !.attempt = [@ EXCEPT ![c] = n]]

NoRows(briefing) == \A c \in Contents : briefing.attempt[c] = 0

\* next_attempt_no: a further attempt needs both resend fields.
MayResend(briefing, resend) == NoRows(briefing) \/ resend

Init ==
    /\ db = NoBriefing
    /\ work = NoBriefing
    /\ cycle = "idle"
    /\ builds = 0
    /\ command = [i \in Commands |-> NewCommand]
    /\ sent = [s \in Senders |-> 0]
    /\ approvals = {}
    /\ desk = {}

(***************************************************************************)
(* The cycle.                                                               *)
(***************************************************************************)
\* Faulty: a rebuild keeps the status the operator gave the old content.
BuildKeepsDecision(items) ==
    /\ cycle = "idle"
    /\ builds < MaxBuilds
    /\ builds' = builds + 1
    /\ work' = [db EXCEPT !.build = builds + 1, !.items = items]
    /\ cycle' = "publish"
    /\ UNCHANGED <<db, command, sent, approvals, desk>>

\* build_briefing: the row of this (scheduled_for, trigger_type) is rewritten
\* with new items and content, and waits for approval again.  Its delivery
\* rows stay.
Build(items) ==
    /\ cycle = "idle"
    /\ builds < MaxBuilds
    /\ builds' = builds + 1
    /\ work' = [db EXCEPT !.build = builds + 1, !.items = items,
                          !.status = "pending_approval"]
    /\ cycle' = "publish"
    /\ UNCHANGED <<db, command, sent, approvals, desk>>

\* Under auto_publish the cycle approves what it just built.
Publish(auto) ==
    /\ cycle = "publish"
    /\ cycle' = "gate"
    /\ IF auto
         THEN /\ work' = [work EXCEPT !.status = "approved"]
              /\ approvals' = approvals \cup {work.build}
         ELSE UNCHANGED <<work, approvals>>
    /\ UNCHANGED <<db, builds, command, sent, desk>>

\* Faulty: only rows of the very content being sent are looked at.
GatePassesOnContent ==
    /\ cycle = "gate"
    /\ work.status = "approved"
    /\ work.items # "waiting"
    /\ work.attempt[<<work.build, work.build>>] = 0
    /\ cycle' = IF work.items = "empty" THEN "operate" ELSE "send"
    /\ UNCHANGED <<db, work, builds, command, sent, approvals, desk>>

\* gate_briefing, once for the cycle and once more inside deliver_briefing:
\* approved, every item approved, and no delivery row of this briefing, of
\* whatever content, since a cycle has no approval to resend.
GatePasses ==
    /\ cycle = "gate"
    /\ work.status = "approved"
    /\ work.items # "waiting"
    /\ NoRows(work)
    /\ cycle' = IF work.items = "empty" THEN "operate" ELSE "send"
    /\ UNCHANGED <<db, work, builds, command, sent, approvals, desk>>

\* Any of these, or of the gate's content rules, stops the delivery only.
GateRefuses ==
    /\ cycle = "gate"
    /\ cycle' = "operate"
    /\ UNCHANGED <<db, work, builds, command, sent, approvals, desk>>

\* One sendMessage call that Telegram answers.
Send ==
    /\ cycle = "send"
    /\ sent[work.build] < NChunks
    /\ sent' = [sent EXCEPT ![work.build] = @ + 1]
    /\ UNCHANGED <<db, work, cycle, builds, command, approvals, desk>>

\* The call raises, a timeout possibly after Telegram took the message; the
\* failed stage is recorded in the summary and no delivery row is written.
SendRaises ==
    /\ cycle = "send"
    /\ sent[work.build] < NChunks
    /\ \E n \in {0, 1} : sent' = [sent EXCEPT ![work.build] = @ + n]
    /\ cycle' = "operate"
    /\ UNCHANGED <<db, work, builds, command, approvals, desk>>

\* Faulty: the delivery row is written without waiting for every chunk.
RecordAtOnce ==
    /\ cycle = "send"
    /\ work' = Recorded(work, <<work.build, work.build>>, 1)
    /\ cycle' = "operate"
    /\ UNCHANGED <<db, builds, command, sent, approvals, desk>>

\* The Delivery row of the first attempt.
Record ==
    /\ cycle = "send"
    /\ sent[work.build] = NChunks
    /\ work' = Recorded(work, <<work.build, work.build>>, 1)
    /\ cycle' = "operate"
    /\ UNCHANGED <<db, builds, command, sent, approvals, desk>>

\* Metrics, report and alerting leave the briefing alone; then the commit.
Commit ==
    /\ cycle = "operate"
    /\ db' = work
    /\ cycle' = "idle"
    /\ UNCHANGED <<work, builds, command, sent, approvals, desk>>

\* The process dies: nothing it wrote is kept, what it sent stays sent.
Abort ==
    /\ cycle # "idle"
    /\ work' = db
    /\ cycle' = "idle"
    /\ UNCHANGED <<db, builds, command, sent, approvals, desk>>

(***************************************************************************)
(* The operator.                                                            *)
(***************************************************************************)
\* An operator's session loads the committed briefing, which waits for a
\* decision.
DecideRead(o) ==
    /\ db.build # 0
    /\ db.status = "pending_approval"
    /\ desk' = desk \cup {o}
    /\ UNCHANGED <<db, work, cycle, builds, command, sent, approvals>>

\* record_briefing_decision writes and commits.  It names the briefing, not the
\* build, and what it checked is the status it had loaded: meanwhile another
\* operator may have decided, or a cycle may have rebuilt the briefing.
Decide(o, decision) ==
    /\ cycle = "idle"
    /\ o \in desk
    /\ db' = [db EXCEPT !.status = decision]
    /\ work' = db'
    /\ desk' = desk \ {o}
    /\ IF decision = "approved"
         THEN approvals' = approvals \cup {db.build}
         ELSE UNCHANGED approvals
    /\ UNCHANGED <<cycle, builds, command, sent>>

\* The last candidate among the items is approved by a reviewer.
ApproveItems ==
    /\ cycle = "idle"
    /\ db.items = "waiting"
    /\ db' = [db EXCEPT !.items = "approved"]
    /\ work' = db'
    /\ UNCHANGED <<cycle, builds, command, sent, approvals, desk>>

(***************************************************************************)
(* briefing-deliver.                                                        *)
(***************************************************************************)
Step(i, now) == command' = [command EXCEPT ![i] = now]
Go(i, target) == Step(i, [command[i] EXCEPT !.pc = target])

\* session.get loads the row of the briefing.
DeliverRead(i, resend) ==
    /\ command[i].pc = "new"
    /\ db.build # 0
    /\ Step(i, [command[i] EXCEPT !.pc = "read", !.header = db.build,
                                  !.status = db.status, !.resend = resend])
    /\ UNCHANGED <<db, work, cycle, builds, sent, approvals, desk>>

\* Faulty: the delivery rows are not shown to the gate.
DeliverLoadBlindly(i) ==
    /\ command[i].pc = "read"
    /\ command[i].status = "approved"
    /\ db.items # "waiting"
    /\ Step(i, [command[i] EXCEPT
                   !.items = db.build,
                   !.known = db.attempt[<<command[i].header, db.build>>],
                   !.pc = IF db.items = "empty" THEN "empty" ELSE "send"])
    /\ UNCHANGED <<db, work, cycle, builds, sent, approvals, desk>>

\* Delivery rows and items are loaded by later statements, which see what is
\* committed by then.  The gate wants the header approved, every item approved
\* and, if this briefing has any delivery row, the approval to resend.
DeliverLoad(i) ==
    /\ command[i].pc = "read"
    /\ command[i].status = "approved"
    /\ db.items # "waiting"
    /\ MayResend(db, command[i].resend)
    /\ Step(i, [command[i] EXCEPT
                   !.items = db.build,
                   !.known = db.attempt[<<command[i].header, db.build>>],
                   !.pc = IF db.items = "empty" THEN "empty" ELSE "send"])
    /\ UNCHANGED <<db, work, cycle, builds, sent, approvals, desk>>

\* One of those, or one of the gate's content rules, raises.
DeliverRefused(i) ==
    /\ command[i].pc = "read"
    /\ Go(i, "failed")
    /\ UNCHANGED <<db, work, cycle, builds, sent, approvals, desk>>

DeliverSend(i) ==
    /\ command[i].pc = "send"
    /\ sent[i] < NChunks
    /\ sent' = [sent EXCEPT ![i] = @ + 1]
    /\ UNCHANGED <<db, work, cycle, builds, command, approvals, desk>>

DeliverSendRaises(i) ==
    /\ command[i].pc = "send"
    /\ sent[i] < NChunks
    /\ \E n \in {0, 1} : sent' = [sent EXCEPT ![i] = @ + n]
    /\ Go(i, "failed")
    /\ UNCHANGED <<db, work, cycle, builds, approvals, desk>>

\* The row and its commit.  A command that found no row inserts one, which the
\* unique idempotency key admits once; one that found a row updates it.
DeliverRecord(i) ==
    /\ command[i].pc = "send"
    /\ sent[i] = NChunks
    /\ cycle = "idle"
    /\ command[i].known = 0 => db.attempt[ContentOf(i)] = 0
    /\ db' = Recorded(db, ContentOf(i), command[i].known + 1)
    /\ work' = db'
    /\ Go(i, "delivered")
    /\ UNCHANGED <<cycle, builds, sent, approvals, desk>>

\* Faulty: the command answers as if the row were there.
DeliverRecordIgnored(i) ==
    /\ command[i].pc = "send"
    /\ sent[i] = NChunks
    /\ \/ cycle # "idle"
       \/ command[i].known = 0 /\ db.attempt[ContentOf(i)] # 0
    /\ Go(i, "delivered")
    /\ UNCHANGED <<db, work, cycle, builds, sent, approvals, desk>>

\* Faulty: the command starts over instead of giving up.
DeliverRecordRetries(i) ==
    /\ command[i].pc = "send"
    /\ sent[i] = NChunks
    /\ \/ cycle # "idle"
       \/ command[i].known = 0 /\ db.attempt[ContentOf(i)] # 0
    /\ Go(i, "read")
    /\ UNCHANGED <<db, work, cycle, builds, sent, approvals, desk>>

\* The insert violates the unique key, or the database stays locked by the
\* cycle for longer than the driver waits: the message is out, without a row.
DeliverRecordRaises(i) ==
    /\ command[i].pc = "send"
    /\ sent[i] = NChunks
    /\ \/ cycle # "idle"
       \/ command[i].known = 0 /\ db.attempt[ContentOf(i)] # 0
    /\ Go(i, "failed")
    /\ UNCHANGED <<db, work, cycle, builds, sent, approvals, desk>>

\* The command is killed.
DeliverKilled(i) ==
    /\ command[i].pc \in {"read", "send"}
    /\ Go(i, "failed")
    /\ UNCHANGED <<db, work, cycle, builds, sent, approvals, desk>>

\* Everybody is done with this briefing: the bound MaxBuilds.
Rest ==
    /\ cycle = "idle"
    /\ builds = MaxBuilds
    /\ UNCHANGED vars

CycleStep ==
    \/ \E auto \in Policies : Publish(auto)
    \/ GatePasses
    \/ GateRefuses
    \/ Send
    \/ SendRaises
    \/ Record
    \/ Commit

CommandStep(i) ==
    \/ DeliverLoad(i)
    \/ DeliverRefused(i)
    \/ DeliverSend(i)
    \/ DeliverSendRaises(i)
    \/ DeliverRecord(i)
    \/ DeliverRecordRaises(i)

Next ==
    \/ \E items \in Items : Build(items)
    \/ CycleStep
    \/ Abort
    \/ \E o \in Operators : DecideRead(o)
    \/ \E o \in Operators, decision \in Decisions : Decide(o, decision)
    \/ ApproveItems
    \/ \E i \in Commands, resend \in BOOLEAN : DeliverRead(i, resend)
    \/ \E i \in Commands : CommandStep(i) \/ DeliverKilled(i)
    \/ Rest

Spec == Init /\ [][Next]_vars

\* A command is a process that runs until it ends.
FairSpec == Spec /\ \A i \in Commands : WF_vars(CommandStep(i))

(***************************************************************************)
(* Invariants.                                                              *)
(***************************************************************************)
TypeOK ==
    /\ db \in Briefing
    /\ work \in Briefing
    /\ cycle \in {"idle", "publish", "gate", "send", "operate"}
    /\ builds \in 0..MaxBuilds
    /\ command \in [Commands -> Command]
    /\ sent \in [Senders -> 0..NChunks]
    /\ approvals \subseteq Builds
    /\ desk \subseteq Operators

\* Whatever reaches the channel, even a single chunk, carries the header of a
\* build that was approved, although commands send what they read earlier and
\* cycles rebuild the briefing under them.
SentHeadersWereApproved ==
    \A s \in Senders : sent[s] > 0 => ContentOf(s)[1] \in approvals

\* A cycle sends only a briefing that nobody has on record as delivered, in
\* whatever version: between its gate and its commit no command can slip a
\* delivery row in.
CyclesSendFirst == cycle = "send" => NoRows(db)

\* An attempt beyond the first is on record only if as many senders with
\* the approval to resend sent that very content whole, even when concurrent
\* resends overwrite each other's attempt number.
RepeatsWereApproved ==
    \A c \in Contents : db.attempt[c] <= 1 + Cardinality(Resent(c))

\* A command that answers with a delivery has sent its message whole, and the
\* row of that very message is committed and is never lost again.
ReportedAreRecorded ==
    \A i \in Commands :
        command[i].pc = "delivered" =>
            sent[i] = NChunks /\ db.attempt[ContentOf(i)] >= 1

(***************************************************************************)
(* Why they hold: the inductive invariant.                                  *)
(***************************************************************************)
\* The cycle's session is the committed briefing but for the build it made,
\* the approval of that build and, last of all, its own delivery row.  Who
\* decides has found a briefing.
SessionOK ==
    /\ cycle = "idle" => work = db
    /\ cycle # "idle" => work.build = builds /\ builds \in Builds
    /\ cycle \in {"publish", "gate", "send"} => work.attempt = db.attempt
    /\ \A c \in Contents : db.attempt[c] >= 1 => work.attempt[c] >= 1
    /\ desk # {} => db.build # 0

\* An approved status is never more than an approval of that very build, in
\* the store, in the session and in what a command has read.
StatusOK ==
    /\ db.status = "approved" => db.build \in approvals
    /\ work.status = "approved" => work.build \in approvals
    /\ cycle = "send" => work.status = "approved"
    /\ \A i \in Commands :
          command[i].status = "approved" => command[i].header \in approvals

\* A command has sent nothing before it passed the gate.
CommandsOK ==
    \A i \in Commands :
        /\ command[i].pc # "new" => db.build # 0
        /\ command[i].pc \in {"new", "read"} => sent[i] = 0
        /\ command[i].pc \in {"send", "delivered"} =>
              /\ command[i].status = "approved"
              /\ ContentOf(i) \in Contents

IInv ==
    /\ TypeOK
    /\ SessionOK
    /\ StatusOK
    /\ CommandsOK
    /\ SentHeadersWereApproved
    /\ CyclesSendFirst
    /\ ReportedAreRecorded

\* An attempt number on record counts senders that got the content through.
RowsCounted ==
    \A c \in Contents :
        /\ db.attempt[c] <= Cardinality(Complete(c))
        /\ db.attempt[c] <= 1 + Cardinality(Resent(c))

\* The row the cycle adds is the one of the message it got through.
SessionCounted ==
    \A c \in Contents :
        \/ work.attempt[c] = db.attempt[c]
        \/ /\ cycle = "operate" /\ c = <<work.build, work.build>>
           /\ work.attempt[c] = 1 /\ sent[work.build] = NChunks

\* The number a command has read counts senders before itself, and a number
\* beyond none was shown only to a command with the approval to resend.
KnownCounted ==
    \A i \in Commands : command[i].pc = "send" =>
        /\ command[i].known <= Cardinality(Complete(ContentOf(i)) \ {i})
        /\ command[i].known # 0 =>
              /\ command[i].resend
              /\ command[i].known <= 1 + Cardinality(Resent(ContentOf(i)) \ {i})

CountsOK ==
    /\ RowsCounted
    /\ SessionCounted
    /\ KnownCounted

(***************************************************************************)
(* Liveness: a command that started ends, whatever the cycles do.           *)
(***************************************************************************)
CommandsEnd ==
    \A i \in Commands :
        command[i].pc = "read" ~> command[i].pc \in {"delivered", "empty", "failed"}

(***************************************************************************)
(* The promise this implements.                                             *)
(***************************************************************************)
Ledger == INSTANCE DeliveryLedger WITH
    approved <- approvals,
    delivered <- {<<s, ContentOf(s)>> : s \in {r \in Senders : sent[r] = NChunks}},
    attempts <- db.attempt

ImplementsLedger == Ledger!LedgerSpec

(***************************************************************************)
(* What documents say and the code does not do.                             *)
(***************************************************************************)
\* "the existing delivery guard prevents a second delivery for the same
\* briefing, channel, and content" (docs/orchestration-cycle.md): of those who
\* have no approval to resend, one at most gets a content through.
DeliveredOnce ==
    \A c \in Contents :
        Cardinality({s \in Complete(c) : s \in Commands => ~command[s].resend}) <= 1
===============================================================================
