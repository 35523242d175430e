---------------------------- MODULE DeliveryProofs ----------------------------
(***************************************************************************)
(* Delivery: the inductive invariant and what follows from it.              *)
(***************************************************************************)
EXTENDS Delivery, Integers, TLAPS

(***************************************************************************)
(* Facts about the operators.                                               *)
(***************************************************************************)
\* What a delivery row changes in a briefing: the attempt of its content.
LEMMA RecordedIsBriefing ==
    ASSUME NEW b \in Briefing, NEW c \in Contents, NEW n \in Nat
    PROVE  /\ Recorded(b, c, n) \in Briefing
           /\ Recorded(b, c, n).build = b.build
           /\ Recorded(b, c, n).status = b.status
           /\ Recorded(b, c, n).items = b.items
           /\ Recorded(b, c, n).attempt[c] = n
           /\ \A d \in Contents : d # c => Recorded(b, c, n).attempt[d] = b.attempt[d]
<1> DEFINE a == [b.attempt EXCEPT ![c] = n]
<1>1. a \in [Contents -> Nat] /\ a[c] = n /\ \A d \in Contents : d # c => a[d] = b.attempt[d]
  BY DEF Briefing
<1>2. Recorded(b, c, n) = [b EXCEPT !.attempt = a]
  BY DEF Recorded
<1> HIDE DEF a
<1> QED
  BY <1>1, <1>2 DEF Briefing

\* A command changes its own state only.
LEMMA StepIsLocal ==
    ASSUME TypeOK, NEW i \in Commands, NEW now \in Command, Step(i, now)
    PROVE  /\ command' \in [Commands -> Command]
           /\ command'[i] = now
           /\ \A j \in Commands : j # i => command'[j] = command[j]
BY DEF TypeOK, Step

\* Moving on to another step of the command changes nothing it has read.
LEMMA GoIsLocal ==
    ASSUME TypeOK, NEW i \in Commands,
           NEW target \in {"send", "delivered", "empty", "failed"}, Go(i, target)
    PROVE  /\ command' \in [Commands -> Command]
           /\ command'[i] = [command[i] EXCEPT !.pc = target]
           /\ \A j \in Commands : j # i => command'[j] = command[j]
<1>1. [command[i] EXCEPT !.pc = target] \in Command
  BY DEF TypeOK, Command
<1> QED
  BY <1>1, StepIsLocal DEF Go

\* The content of a sender follows from what it has read.
LEMMA ContentKept ==
    ASSUME NEW s, s \in Commands => /\ command'[s].header = command[s].header
                                    /\ command'[s].items = command[s].items
    PROVE  ContentOf(s)' = ContentOf(s)
BY DEF ContentOf

\* One more chunk, or none, through for sender s.
LEMMA SentOneMore ==
    ASSUME TypeOK, NEW s \in Senders, NEW n \in {0, 1}, sent[s] < NChunks,
           sent' = [sent EXCEPT ![s] = @ + n]
    PROVE  /\ sent' \in [Senders -> 0..NChunks]
           /\ \A r \in Senders : r # s => sent'[r] = sent[r]
<1>1. sent[s] \in 0..NChunks /\ sent[s] + n \in 0..NChunks
  BY NChunksAssumption DEF TypeOK
<1> QED
  BY <1>1 DEF TypeOK

(***************************************************************************)
(* The invariant.                                                           *)
(***************************************************************************)
LEMMA InitInv == Init => IInv
<1> SUFFICES ASSUME Init PROVE IInv
  OBVIOUS
<1> USE DEF Init
<1>1. NoBriefing \in Briefing
  BY MaxBuildsAssumption DEF NoBriefing, Briefing, PublicationStatus, Items, Contents
<1>2. NewCommand \in Command
  BY MaxBuildsAssumption DEF NewCommand, Command, PublicationStatus
<1>3. TypeOK
  BY <1>1, <1>2, MaxBuildsAssumption, NChunksAssumption DEF TypeOK
<1>4. SessionOK
  BY DEF SessionOK, NoBriefing
<1>5. StatusOK
  BY DEF StatusOK, NoBriefing, NewCommand
<1>6. CommandsOK
  BY DEF CommandsOK, NewCommand, Senders
<1>7. SentHeadersWereApproved /\ CyclesSendFirst /\ ReportedAreRecorded
  BY DEF SentHeadersWereApproved, CyclesSendFirst, ReportedAreRecorded, NewCommand
<1> QED
  BY <1>3, <1>4, <1>5, <1>6, <1>7 DEF IInv

LEMMA BuildInv ==
    ASSUME IInv, NEW items \in Items, Build(items)
    PROVE  IInv'
<1> USE DEF Build
<1>1. /\ db \in Briefing
      /\ work' = [db EXCEPT !.build = builds + 1, !.items = items,
                            !.status = "pending_approval"]
      /\ builds + 1 \in Builds /\ builds + 1 \in 0..MaxBuilds
  BY MaxBuildsAssumption DEF IInv, TypeOK, Builds
<1>2. /\ work' \in Briefing
      /\ work'.build = builds + 1
      /\ work'.status = "pending_approval"
      /\ work'.attempt = db.attempt
  BY <1>1 DEF Briefing, PublicationStatus
<1>3. TypeOK'
  BY <1>1, <1>2 DEF IInv, TypeOK, Builds, Senders, Command
<1>4. SessionOK'
  BY <1>1, <1>2 DEF IInv, SessionOK
<1>5. StatusOK'
  BY <1>2 DEF IInv, StatusOK
<1>6. CommandsOK' /\ SentHeadersWereApproved' /\ CyclesSendFirst' /\ ReportedAreRecorded'
  BY DEF IInv, CommandsOK, SentHeadersWereApproved, CyclesSendFirst,
         ReportedAreRecorded, ContentOf
<1> QED
  BY <1>3, <1>4, <1>5, <1>6 DEF IInv

LEMMA PublishInv ==
    ASSUME IInv, NEW auto \in Policies, Publish(auto)
    PROVE  IInv'
<1> USE DEF Publish
<1>1. CASE auto
  <2>1. /\ work' = [work EXCEPT !.status = "approved"]
        /\ approvals' = approvals \cup {work.build}
        /\ work \in Briefing
        /\ work.build \in Builds
    BY <1>1 DEF IInv, TypeOK, SessionOK
  <2>2. work' \in Briefing /\ work'.build = work.build /\ work'.attempt = work.attempt
    BY <2>1 DEF Briefing, PublicationStatus
  <2>3. work.build \in approvals' /\ approvals \subseteq approvals'
    BY <2>1
  <2>4. TypeOK'
    BY <2>1, <2>2 DEF IInv, TypeOK, Senders, Command
  <2>5. SessionOK'
    BY <2>2 DEF IInv, SessionOK
  <2>6. StatusOK'
    BY <2>2, <2>3 DEF IInv, StatusOK
  <2>7. SentHeadersWereApproved'
    BY <2>3 DEF IInv, SentHeadersWereApproved, ContentOf
  <2>8. CommandsOK' /\ CyclesSendFirst' /\ ReportedAreRecorded'
    BY DEF IInv, CommandsOK, CyclesSendFirst, ReportedAreRecorded, ContentOf
  <2> QED
    BY <2>4, <2>5, <2>6, <2>7, <2>8 DEF IInv
<1>2. CASE ~auto
  BY <1>2 DEF IInv, TypeOK, SessionOK, StatusOK, CommandsOK,
              SentHeadersWereApproved, CyclesSendFirst, ReportedAreRecorded, ContentOf
<1> QED
  BY <1>1, <1>2

LEMMA GatePassesInv ==
    ASSUME IInv, GatePasses
    PROVE  IInv'
<1> USE DEF GatePasses
<1>1. TypeOK' /\ SessionOK'
  BY DEF IInv, TypeOK, SessionOK
<1>2. StatusOK'
  BY DEF IInv, StatusOK
<1>3. CyclesSendFirst'
  BY DEF IInv, CyclesSendFirst, SessionOK, NoRows
<1>4. CommandsOK' /\ SentHeadersWereApproved' /\ ReportedAreRecorded'
  BY DEF IInv, CommandsOK, SentHeadersWereApproved, ReportedAreRecorded,
         ContentOf
<1> QED
  BY <1>1, <1>2, <1>3, <1>4 DEF IInv

LEMMA GateRefusesInv ==
    ASSUME IInv, GateRefuses
    PROVE  IInv'
BY DEF GateRefuses, IInv, TypeOK, SessionOK, StatusOK, CommandsOK,
       SentHeadersWereApproved, CyclesSendFirst, ReportedAreRecorded, ContentOf

\* The cycle gets another chunk through, and goes on or gives up.
LEMMA CycleSendsInv ==
    ASSUME IInv, cycle = "send", sent[work.build] < NChunks,
           NEW n \in {0, 1}, sent' = [sent EXCEPT ![work.build] = @ + n],
           cycle' \in {"send", "operate"},
           UNCHANGED <<db, work, builds, command, approvals, desk>>
    PROVE  IInv'
<1>1. /\ work.build \in Builds
      /\ work.build \notin Commands
      /\ work.build \in approvals
      /\ work.build \in Senders
  BY SendersAssumption, MaxBuildsAssumption
     DEF IInv, SessionOK, StatusOK, Builds, Senders
<1>2. /\ sent' \in [Senders -> 0..NChunks]
      /\ \A r \in Senders : r # work.build => sent'[r] = sent[r]
  BY <1>1, SentOneMore DEF IInv
<1>3. TypeOK'
  BY <1>2 DEF IInv, TypeOK
<1>4. SessionOK' /\ StatusOK'
  BY DEF IInv, SessionOK, StatusOK
<1>5. ASSUME NEW i \in Commands
      PROVE  sent'[i] = sent[i]
  BY <1>1, <1>2 DEF Senders
<1>6. CommandsOK' /\ ReportedAreRecorded'
  BY <1>5 DEF IInv, CommandsOK, ReportedAreRecorded, ContentOf
<1>7. SentHeadersWereApproved'
  <2> SUFFICES ASSUME NEW s \in Senders, sent'[s] > 0
               PROVE  ContentOf(s)'[1] \in approvals'
    BY DEF SentHeadersWereApproved, Senders, Builds
  <2>1. CASE s = work.build
    BY <1>1, <2>1 DEF ContentOf
  <2>2. CASE s # work.build
    BY <1>2, <2>2 DEF IInv, SentHeadersWereApproved, ContentOf
  <2> QED
    BY <2>1, <2>2
<1>8. CyclesSendFirst'
  BY DEF IInv, CyclesSendFirst, NoRows
<1> QED
  BY <1>3, <1>4, <1>6, <1>7, <1>8 DEF IInv

LEMMA RecordInv ==
    ASSUME IInv, Record
    PROVE  IInv'
<1> DEFINE c == <<work.build, work.build>>
<1>1. work \in Briefing /\ c \in Contents /\ work.build \in Builds
  BY DEF Record, IInv, TypeOK, SessionOK, Contents
<1>2. /\ work' \in Briefing
      /\ work'.build = work.build
      /\ work'.status = work.status
      /\ work'.attempt[c] = 1
      /\ \A d \in Contents : d # c => work'.attempt[d] = work.attempt[d]
  BY <1>1, RecordedIsBriefing DEF Record
<1> HIDE DEF c
<1> USE DEF Record
<1>3. TypeOK'
  BY <1>2 DEF IInv, TypeOK
<1>4. SessionOK'
  BY <1>2 DEF IInv, SessionOK
<1>5. StatusOK'
  BY <1>2 DEF IInv, StatusOK
<1>6. CommandsOK' /\ SentHeadersWereApproved' /\ CyclesSendFirst' /\ ReportedAreRecorded'
  BY DEF IInv, CommandsOK, SentHeadersWereApproved, CyclesSendFirst,
         ReportedAreRecorded, ContentOf
<1> QED
  BY <1>3, <1>4, <1>5, <1>6 DEF IInv

LEMMA CommitInv ==
    ASSUME IInv, Commit
    PROVE  IInv'
<1> USE DEF Commit
<1>1. TypeOK'
  BY DEF IInv, TypeOK
<1>2. work.build # 0
  BY DEF IInv, SessionOK, Builds
<1>3. SessionOK'
  BY <1>2 DEF IInv, SessionOK
<1>4. StatusOK'
  BY DEF IInv, StatusOK
<1>5. CommandsOK'
  BY <1>2 DEF IInv, CommandsOK, ContentOf
<1>6. SentHeadersWereApproved' /\ CyclesSendFirst'
  BY DEF IInv, SentHeadersWereApproved, CyclesSendFirst, ContentOf
<1>7. ReportedAreRecorded'
  <2> SUFFICES ASSUME NEW i \in Commands, command[i].pc = "delivered"
               PROVE  sent[i] = NChunks /\ work.attempt[ContentOf(i)] >= 1
    BY DEF ReportedAreRecorded, ContentOf
  <2>1. ContentOf(i) \in Contents /\ sent[i] = NChunks /\ db.attempt[ContentOf(i)] >= 1
    BY DEF IInv, CommandsOK, ReportedAreRecorded
  <2> QED
    BY <2>1 DEF IInv, SessionOK
<1> QED
  BY <1>1, <1>3, <1>4, <1>5, <1>6, <1>7 DEF IInv

LEMMA AbortInv ==
    ASSUME IInv, Abort
    PROVE  IInv'
<1> USE DEF Abort
<1>1. TypeOK' /\ SessionOK'
  BY DEF IInv, TypeOK, SessionOK
<1>2. StatusOK'
  BY DEF IInv, StatusOK
<1>3. CommandsOK' /\ SentHeadersWereApproved' /\ CyclesSendFirst' /\ ReportedAreRecorded'
  BY DEF IInv, CommandsOK, SentHeadersWereApproved, CyclesSendFirst,
         ReportedAreRecorded, ContentOf
<1> QED
  BY <1>1, <1>2, <1>3 DEF IInv

\* A session between cycles rewrites status or items of the briefing; whoever
\* approves a build is on record.
LEMMA DecisionInv ==
    ASSUME IInv, cycle = "idle",
           db' \in Briefing, work' = db',
           db'.build = db.build, db'.attempt = db.attempt, desk' \subseteq desk,
           approvals \subseteq approvals',
           approvals' \subseteq Builds,
           db'.status = "approved" => db.build \in approvals',
           UNCHANGED <<cycle, builds, command, sent>>
    PROVE  IInv'
<1>1. approvals \subseteq approvals'
  OBVIOUS
<1>2. TypeOK'
  BY DEF IInv, TypeOK
<1>3. SessionOK' /\ CyclesSendFirst'
  BY DEF IInv, TypeOK, Briefing, SessionOK, CyclesSendFirst
<1>4. StatusOK'
  BY <1>1 DEF IInv, StatusOK
<1>5. CommandsOK' /\ ReportedAreRecorded'
  BY DEF IInv, CommandsOK, ReportedAreRecorded, ContentOf
<1>6. SentHeadersWereApproved'
  BY <1>1 DEF IInv, SentHeadersWereApproved, ContentOf
<1> QED
  BY <1>2, <1>3, <1>4, <1>5, <1>6 DEF IInv

LEMMA DecideReadInv ==
    ASSUME IInv, NEW o \in Operators, DecideRead(o)
    PROVE  IInv'
BY DEF DecideRead, IInv, TypeOK, SessionOK, StatusOK, CommandsOK,
       SentHeadersWereApproved, CyclesSendFirst, NoRows, ReportedAreRecorded, ContentOf

LEMMA DecideInv ==
    ASSUME IInv, NEW o \in Operators, NEW decision \in Decisions, Decide(o, decision)
    PROVE  IInv'
<1>1. /\ db' = [db EXCEPT !.status = decision]
      /\ db \in Briefing
      /\ db.build \in Builds
  BY MaxBuildsAssumption DEF Decide, IInv, TypeOK, SessionOK, Briefing, Builds
<1>2. /\ db' \in Briefing
      /\ db'.build = db.build
      /\ db'.attempt = db.attempt
      /\ db'.status = decision
  BY <1>1 DEF Briefing, Decisions, PublicationStatus
<1>3. CASE decision = "approved"
  <2>1. approvals' = approvals \cup {db.build}
    BY <1>3 DEF Decide
  <2>2. db.build \in approvals'
    BY <2>1
  <2>3. approvals' \subseteq Builds
    BY <2>1, <1>1 DEF IInv, TypeOK
  <2> QED
    BY <1>2, <2>1, <2>2, <2>3, DecisionInv DEF Decide
<1>4. CASE decision # "approved"
  <2>1. approvals' = approvals /\ approvals' \subseteq Builds
    BY <1>4 DEF Decide, IInv, TypeOK
  <2> QED
    BY <1>2, <1>4, <2>1, DecisionInv DEF Decide
<1> QED
  BY <1>3, <1>4

LEMMA ApproveItemsInv ==
    ASSUME IInv, ApproveItems
    PROVE  IInv'
<1>1. db' = [db EXCEPT !.items = "approved"] /\ db \in Briefing
  BY DEF ApproveItems, IInv, TypeOK
<1>2. /\ db' \in Briefing
      /\ db'.build = db.build
      /\ db'.attempt = db.attempt
      /\ db'.status = db.status
  BY <1>1 DEF Briefing, Items
<1>3. approvals' \subseteq Builds
  BY DEF ApproveItems, IInv, TypeOK
<1>4. db'.status = "approved" => db.build \in approvals'
  BY <1>2 DEF ApproveItems, IInv, StatusOK
<1> QED
  BY <1>2, <1>3, <1>4, DecisionInv DEF ApproveItems

\* What a command's step that writes nothing to the store has to show.
LEMMA CommandInv ==
    ASSUME IInv, NEW i \in Commands,
           command' \in [Commands -> Command],
           \A j \in Commands : j # i => command'[j] = command[j],
           sent' \in [Senders -> 0..NChunks],
           \A r \in Senders : r # i => sent'[r] = sent[r],
           command'[i].status = "approved" => command'[i].header \in approvals,
           command'[i].pc # "new" => db.build # 0,
           command'[i].pc \in {"new", "read"} => sent'[i] = 0,
           command'[i].pc = "send" =>
              command'[i].status = "approved" /\ ContentOf(i)' \in Contents,
           command'[i].pc # "delivered",
           sent'[i] > 0 => command'[i].header \in approvals,
           UNCHANGED <<db, work, cycle, builds, approvals, desk>>
    PROVE  IInv'
<1>1. approvals' = approvals
  OBVIOUS
<1>2. ASSUME NEW s, s # i
      PROVE  ContentOf(s)' = ContentOf(s)
  BY <1>2 DEF ContentOf
<1>3. TypeOK'
  BY DEF IInv, TypeOK
<1>4. SessionOK' /\ CyclesSendFirst'
  BY DEF IInv, SessionOK, CyclesSendFirst, NoRows
<1>5. StatusOK'
  BY <1>1 DEF IInv, StatusOK
<1>6. CommandsOK'
  <2> SUFFICES ASSUME NEW j \in Commands
               PROVE  /\ command'[j].pc # "new" => db.build # 0
                      /\ command'[j].pc \in {"new", "read"} => sent'[j] = 0
                      /\ command'[j].pc \in {"send", "delivered"} =>
                            /\ command'[j].status = "approved"
                            /\ ContentOf(j)' \in Contents
    BY DEF CommandsOK, Contents, Builds
  <2>1. CASE j = i
    BY <2>1
  <2>2. CASE j # i
    <3>1. sent'[j] = sent[j] /\ ContentOf(j)' = ContentOf(j)
      BY <2>2, <1>2 DEF Senders
    <3> QED
      BY <2>2, <3>1 DEF IInv, CommandsOK
  <2> QED
    BY <2>1, <2>2
<1>7. SentHeadersWereApproved'
  <2> SUFFICES ASSUME NEW s \in Senders, sent'[s] > 0
               PROVE  ContentOf(s)'[1] \in approvals
    BY <1>1 DEF SentHeadersWereApproved, Senders, Builds
  <2>1. CASE s = i
    BY <2>1 DEF ContentOf
  <2>2. CASE s # i
    BY <2>2, <1>2 DEF IInv, SentHeadersWereApproved
  <2> QED
    BY <2>1, <2>2
<1>8. ReportedAreRecorded'
  <2> SUFFICES ASSUME NEW j \in Commands, command'[j].pc = "delivered"
               PROVE  sent'[j] = NChunks /\ db.attempt[ContentOf(j)'] >= 1
    BY DEF ReportedAreRecorded
  <2>1. j # i
    OBVIOUS
  <2>2. sent'[j] = sent[j] /\ ContentOf(j)' = ContentOf(j) /\ command'[j] = command[j]
    BY <2>1, <1>2 DEF Senders
  <2> QED
    BY <2>2 DEF IInv, ReportedAreRecorded
<1> QED
  BY <1>3, <1>4, <1>5, <1>6, <1>7, <1>8 DEF IInv

LEMMA DeliverReadInv ==
    ASSUME IInv, NEW i \in Commands, NEW resend \in BOOLEAN, DeliverRead(i, resend)
    PROVE  IInv'
<1> DEFINE now == [command[i] EXCEPT !.pc = "read", !.header = db.build,
                                     !.status = db.status, !.resend = resend]
<1>1. now \in Command /\ now.pc = "read" /\ now.header = db.build /\ now.status = db.status
  BY DEF IInv, TypeOK, Command, Briefing
<1>2. Step(i, now)
  BY DEF DeliverRead
<1> HIDE DEF now
<1>3. /\ command' \in [Commands -> Command]
      /\ command'[i] = now
      /\ \A j \in Commands : j # i => command'[j] = command[j]
  BY <1>1, <1>2, StepIsLocal DEF IInv
<1>4. sent'[i] = 0
  BY DEF DeliverRead, IInv, CommandsOK
<1>5. now.status = "approved" => now.header \in approvals
  BY <1>1 DEF IInv, StatusOK
<1>6. sent' \in [Senders -> 0..NChunks] /\ db.build # 0 /\ sent' = sent
  BY DEF DeliverRead, IInv, TypeOK
<1> QED
  BY <1>1, <1>3, <1>4, <1>5, <1>6, CommandInv DEF DeliverRead

LEMMA DeliverLoadInv ==
    ASSUME IInv, NEW i \in Commands, DeliverLoad(i)
    PROVE  IInv'
<1> DEFINE target == IF db.items = "empty" THEN "empty" ELSE "send"
           row == db.attempt[<<command[i].header, db.build>>]
           now == [command[i] EXCEPT !.items = db.build, !.known = row, !.pc = target]
<1>1. /\ command[i] \in Command /\ command[i].status = "approved"
      /\ command[i].header \in Builds
      /\ db.build \in Builds /\ db.build \in 0..MaxBuilds
  BY MaxBuildsAssumption
     DEF DeliverLoad, IInv, TypeOK, StatusOK, CommandsOK, Briefing, Builds
<1>2. row \in Nat
  BY <1>1 DEF IInv, TypeOK, Briefing, Contents
<1>3. target \in {"empty", "send"}
  OBVIOUS
<1>4. Step(i, now)
  BY DEF DeliverLoad
<1> HIDE DEF target, row
<1>5. /\ now \in Command /\ now.pc = target /\ now.items = db.build
      /\ now.header = command[i].header /\ now.status = command[i].status
  BY <1>1, <1>2, <1>3 DEF Command
<1> HIDE DEF now
<1>6. /\ command' \in [Commands -> Command]
      /\ command'[i] = now
      /\ \A j \in Commands : j # i => command'[j] = command[j]
  BY <1>4, <1>5, StepIsLocal DEF IInv
<1>7. ContentOf(i)' \in Contents
  BY <1>1, <1>5, <1>6 DEF ContentOf, Contents
<1>8. command[i].header \in approvals
  BY <1>1 DEF IInv, StatusOK
<1>9. sent' \in [Senders -> 0..NChunks] /\ sent' = sent
  BY DEF DeliverLoad, IInv, TypeOK
<1> QED
  BY <1>1, <1>3, <1>5, <1>6, <1>7, <1>8, <1>9, CommandInv DEF DeliverLoad, Builds

\* A command that ends without writing: refused, or killed.
LEMMA GivesUpInv ==
    ASSUME IInv, NEW i \in Commands, command[i].pc \in {"read", "send"},
           Go(i, "failed"),
           sent' \in [Senders -> 0..NChunks],
           \A r \in Senders : r # i => sent'[r] = sent[r],
           command[i].pc = "send" \/ sent'[i] = 0,
           UNCHANGED <<db, work, cycle, builds, approvals, desk>>
    PROVE  IInv'
<1>1. /\ command' \in [Commands -> Command]
      /\ command'[i] = [command[i] EXCEPT !.pc = "failed"]
      /\ \A j \in Commands : j # i => command'[j] = command[j]
  BY GoIsLocal DEF IInv
<1>2. /\ command'[i].pc = "failed"
      /\ command'[i].status = command[i].status
      /\ command'[i].header = command[i].header
  BY <1>1 DEF IInv, TypeOK, Command
<1>3. command[i].status = "approved" => command[i].header \in approvals
  BY DEF IInv, StatusOK
<1>4. db.build # 0 /\ (command[i].pc = "send" => command[i].status = "approved")
  BY DEF IInv, CommandsOK
<1>5. sent'[i] > 0 => command[i].header \in approvals
  BY <1>3, <1>4
<1>6. command'[i].pc \notin {"new", "read", "send", "delivered"}
  BY <1>2
<1> QED
  BY <1>1, <1>2, <1>3, <1>4, <1>5, <1>6, CommandInv

LEMMA DeliverSendInv ==
    ASSUME IInv, NEW i \in Commands, DeliverSend(i)
    PROVE  IInv'
<1>1. /\ sent' \in [Senders -> 0..NChunks]
      /\ \A r \in Senders : r # i => sent'[r] = sent[r]
  BY SentOneMore DEF DeliverSend, IInv, Senders
<1>2. /\ command' \in [Commands -> Command]
      /\ command' = command
      /\ command[i].pc = "send" /\ command[i].status = "approved"
      /\ ContentOf(i)' \in Contents
      /\ db.build # 0
  BY DEF DeliverSend, IInv, TypeOK, CommandsOK, ContentOf
<1>3. command[i].header \in approvals
  BY <1>2 DEF IInv, StatusOK
<1> QED
  BY <1>1, <1>2, <1>3, CommandInv DEF DeliverSend

LEMMA DeliverSendRaisesInv ==
    ASSUME IInv, NEW i \in Commands, DeliverSendRaises(i)
    PROVE  IInv'
<1>1. PICK n \in {0, 1} : sent' = [sent EXCEPT ![i] = @ + n]
  BY DEF DeliverSendRaises
<1>2. /\ sent' \in [Senders -> 0..NChunks]
      /\ \A r \in Senders : r # i => sent'[r] = sent[r]
  BY <1>1, SentOneMore DEF DeliverSendRaises, IInv, Senders
<1> QED
  BY <1>2, GivesUpInv DEF DeliverSendRaises

LEMMA DeliverEndsInv ==
    ASSUME IInv, NEW i \in Commands,
           DeliverRefused(i) \/ DeliverRecordRaises(i) \/ DeliverKilled(i)
    PROVE  IInv'
<1>1. /\ command[i].pc \in {"read", "send"} /\ Go(i, "failed")
      /\ UNCHANGED <<db, work, cycle, builds, sent, approvals, desk>>
  BY DEF DeliverRefused, DeliverRecordRaises, DeliverKilled
<1>2. sent' \in [Senders -> 0..NChunks]
  BY <1>1 DEF IInv, TypeOK
<1>3. command[i].pc = "send" \/ sent'[i] = 0
  BY <1>1 DEF IInv, CommandsOK
<1> QED
  BY <1>1, <1>2, <1>3, GivesUpInv

LEMMA DeliverRecordInv ==
    ASSUME IInv, NEW i \in Commands, DeliverRecord(i)
    PROVE  IInv'
<1> DEFINE c == ContentOf(i)
           n == command[i].known + 1
<1>1. /\ db \in Briefing /\ c \in Contents /\ n \in Nat /\ n >= 1
      /\ cycle = "idle" /\ work' = db'
      /\ sent[i] = NChunks
      /\ command[i].pc = "send" /\ command[i].status = "approved"
  BY DEF DeliverRecord, IInv, TypeOK, CommandsOK, Command
<1>2. db' = Recorded(db, c, n)
  BY DEF DeliverRecord
<1> HIDE DEF n
<1>3. /\ db' \in Briefing
      /\ db'.build = db.build
      /\ db'.status = db.status
      /\ db'.attempt[c] = n
      /\ \A d \in Contents : d # c => db'.attempt[d] = db.attempt[d]
  BY <1>1, <1>2, RecordedIsBriefing
<1>4. /\ command' \in [Commands -> Command]
      /\ command'[i] = [command[i] EXCEPT !.pc = "delivered"]
      /\ \A j \in Commands : j # i => command'[j] = command[j]
  BY GoIsLocal DEF DeliverRecord, IInv
<1>5. /\ command'[i].status = command[i].status
      /\ command'[i].header = command[i].header
      /\ command'[i].items = command[i].items
      /\ command'[i].pc = "delivered"
  BY <1>4 DEF IInv, TypeOK, Command
<1>6. ASSUME NEW s
      PROVE  ContentOf(s)' = ContentOf(s)
  BY <1>4, <1>5, ContentKept
<1>7. approvals' = approvals
  BY DEF DeliverRecord
<1>8. TypeOK'
  BY <1>1, <1>3, <1>4 DEF DeliverRecord, IInv, TypeOK
<1>9. SessionOK' /\ CyclesSendFirst'
  BY <1>1, <1>3 DEF DeliverRecord, IInv, SessionOK, CyclesSendFirst
<1>10. StatusOK'
  BY <1>1, <1>3, <1>4, <1>5, <1>7 DEF DeliverRecord, IInv, StatusOK
<1>11. CommandsOK'
  <2> SUFFICES ASSUME NEW j \in Commands
               PROVE  /\ command'[j].pc # "new" => db.build # 0
                      /\ command'[j].pc \in {"new", "read"} => sent[j] = 0
                      /\ command'[j].pc \in {"send", "delivered"} =>
                            /\ command'[j].status = "approved"
                            /\ ContentOf(j)' \in Contents
    BY <1>3 DEF CommandsOK, DeliverRecord, Contents, Builds
  <2>1. CASE j = i
    BY <2>1, <1>1, <1>5, <1>6 DEF IInv, CommandsOK
  <2>2. CASE j # i
    BY <2>2, <1>4, <1>6 DEF IInv, CommandsOK
  <2> QED
    BY <2>1, <2>2
<1>12. SentHeadersWereApproved'
  BY <1>6, <1>7 DEF DeliverRecord, IInv, SentHeadersWereApproved, Senders, Builds
<1>13. ReportedAreRecorded'
  <2> SUFFICES ASSUME NEW j \in Commands, command'[j].pc = "delivered"
               PROVE  sent[j] = NChunks /\ db'.attempt[ContentOf(j)] >= 1
    BY <1>6 DEF ReportedAreRecorded, DeliverRecord
  <2>1. CASE j = i
    BY <2>1, <1>1, <1>3
  <2>2. CASE j # i
    <3>1. /\ ContentOf(j) \in Contents
          /\ sent[j] = NChunks /\ db.attempt[ContentOf(j)] >= 1
      BY <2>2, <1>4 DEF IInv, CommandsOK, ReportedAreRecorded
    <3>2. CASE ContentOf(j) = c
      BY <3>1, <3>2, <1>1, <1>3
    <3>3. CASE ContentOf(j) # c
      BY <3>1, <3>3, <1>3
    <3> QED
      BY <3>2, <3>3
  <2> QED
    BY <2>1, <2>2
<1> QED
  BY <1>8, <1>9, <1>10, <1>11, <1>12, <1>13 DEF IInv

LEMMA StutterInv ==
    ASSUME IInv, UNCHANGED vars
    PROVE  IInv'
BY DEF vars, IInv, TypeOK, SessionOK, StatusOK, CommandsOK,
       SentHeadersWereApproved, CyclesSendFirst, NoRows, ReportedAreRecorded, ContentOf

LEMMA NextInv ==
    ASSUME IInv, [Next]_vars
    PROVE  IInv'
<1>1. CASE \E items \in Items : Build(items)
  BY <1>1, BuildInv
<1>2. CASE CycleStep
  <2>1. CASE \E auto \in Policies : Publish(auto)
    BY <2>1, PublishInv
  <2>2. CASE GatePasses \/ GateRefuses
    BY <2>2, GatePassesInv, GateRefusesInv
  <2>3. CASE Send
    BY <2>3, CycleSendsInv DEF Send
  <2>4. CASE SendRaises
    <3>1. PICK n \in {0, 1} : sent' = [sent EXCEPT ![work.build] = @ + n]
      BY <2>4 DEF SendRaises
    <3> QED
      BY <2>4, <3>1, CycleSendsInv DEF SendRaises
  <2>5. CASE Record \/ Commit
    BY <2>5, RecordInv, CommitInv
  <2> QED
    BY <1>2, <2>1, <2>2, <2>3, <2>4, <2>5 DEF CycleStep
<1>3. CASE Abort \/ ApproveItems
  BY <1>3, AbortInv, ApproveItemsInv
<1>4. CASE \/ \E o \in Operators : DecideRead(o)
           \/ \E o \in Operators, decision \in Decisions : Decide(o, decision)
  BY <1>4, DecideReadInv, DecideInv
<1>5. CASE \E i \in Commands, resend \in BOOLEAN : DeliverRead(i, resend)
  BY <1>5, DeliverReadInv
<1>6. CASE \E i \in Commands : CommandStep(i) \/ DeliverKilled(i)
  BY <1>6, DeliverLoadInv, DeliverSendInv, DeliverSendRaisesInv, DeliverRecordInv,
     DeliverEndsInv DEF CommandStep
<1>7. CASE Rest \/ UNCHANGED vars
  BY <1>7, StutterInv DEF Rest
<1> QED
  BY <1>1, <1>2, <1>3, <1>4, <1>5, <1>6, <1>7 DEF Next

LEMMA Inductive == Spec => []IInv
<1>1. Init => IInv
  BY InitInv
<1>2. IInv /\ [Next]_vars => IInv'
  BY NextInv
<1> QED
  BY <1>1, <1>2, PTL DEF Spec

(***************************************************************************)
(* The theorems.                                                            *)
(***************************************************************************)
\* The store, the session, the commands and the approvals keep their types.
THEOREM DeliveryTypeCorrect == Spec => []TypeOK
<1>1. IInv => TypeOK
  BY DEF IInv
<1> QED
  BY <1>1, Inductive, PTL

\* No message, not even its first chunk, goes out under the header of a build
\* that nobody approved, however many cycles rebuild the briefing under the
\* commands that are sending it.
THEOREM NothingUnapprovedIsSent == Spec => []SentHeadersWereApproved
<1>1. IInv => SentHeadersWereApproved
  BY DEF IInv
<1> QED
  BY <1>1, Inductive, PTL

\* While a cycle sends, no delivery row of the briefing is committed: what a
\* cycle delivers nobody has on record.
THEOREM CyclesNeverRepeat == Spec => []CyclesSendFirst
<1>1. IInv => CyclesSendFirst
  BY DEF IInv
<1> QED
  BY <1>1, Inductive, PTL

\* A delivery a command has answered with went out whole and its row stays
\* committed, whatever cycles and other commands do afterwards.
THEOREM ReportsAreTrue == Spec => []ReportedAreRecorded
<1>1. IInv => ReportedAreRecorded
  BY DEF IInv
<1> QED
  BY <1>1, Inductive, PTL

(***************************************************************************)
(* How long a command takes.                                                *)
(***************************************************************************)
\* The steps a started command may still take.
CommandLeft(i) ==
    CASE command[i].pc = "read" -> NChunks + 2
      [] command[i].pc = "send" -> NChunks + 1 - sent[i]
      [] command[i].pc \notin {"read", "send"} -> 0

\* Every step of a command brings its end nearer, and nobody else sends it back:
\* no rebuild, decision or delivery by others makes it read or send again.
CommandsShrink ==
    [][\A i \in Commands :
          /\ CommandStep(i) => 0 <= CommandLeft(i)' /\ CommandLeft(i)' < CommandLeft(i)
          /\ command[i].pc # "new" => CommandLeft(i)' <= CommandLeft(i)]_vars

LEMMA CommandLeftIs ==
    ASSUME TypeOK, NEW i \in Commands
    PROVE  /\ sent[i] \in 0..NChunks /\ NChunks \in Nat
           /\ CommandLeft(i) \in 0..(NChunks + 2)
           /\ command[i].pc = "read" => CommandLeft(i) = NChunks + 2
           /\ command[i].pc = "send" => CommandLeft(i) = NChunks + 1 - sent[i]
           /\ command[i].pc \notin {"read", "send"} => CommandLeft(i) = 0
<1>1. sent[i] \in 0..NChunks /\ NChunks \in Nat
  BY NChunksAssumption DEF TypeOK, Senders
<1> QED
  BY <1>1 DEF CommandLeft

\* A sender that is not the command leaves it as it is.
LEMMA LeftStays ==
    ASSUME NEW i \in Commands, command'[i] = command[i], sent'[i] = sent[i]
    PROVE  CommandLeft(i)' = CommandLeft(i)
BY DEF CommandLeft

LEMMA CommandShrinks ==
    ASSUME IInv, IInv', NEW i \in Commands, CommandStep(i)
    PROVE  0 <= CommandLeft(i)' /\ CommandLeft(i)' < CommandLeft(i)
<1>1. TypeOK /\ TypeOK'
  BY DEF IInv
<1>2. /\ sent'[i] \in 0..NChunks /\ sent[i] \in 0..NChunks /\ NChunks \in Nat
      /\ command[i].pc = "read" => CommandLeft(i) = NChunks + 2
      /\ command[i].pc = "send" => CommandLeft(i) = NChunks + 1 - sent[i]
      /\ command'[i].pc = "send" => CommandLeft(i)' = NChunks + 1 - sent'[i]
      /\ command'[i].pc \notin {"read", "send"} => CommandLeft(i)' = 0
  <2>1. sent'[i] \in 0..NChunks
    BY <1>1 DEF TypeOK, Senders
  <2> QED
    BY <1>1, <2>1, CommandLeftIs DEF CommandLeft
<1>3. \/ command[i].pc = "read" /\ command'[i].pc \in {"send", "empty", "failed"}
      \/ /\ command[i].pc = "send" /\ command'[i].pc = "send"
         /\ sent'[i] = sent[i] + 1
      \/ command[i].pc = "send" /\ command'[i].pc \in {"delivered", "failed"}
  <2>1. CASE DeliverLoad(i)
    <3> DEFINE now == [command[i] EXCEPT
                         !.items = db.build,
                         !.known = db.attempt[<<command[i].header, db.build>>],
                         !.pc = IF db.items = "empty" THEN "empty" ELSE "send"]
    <3>1. command'[i] = now
      BY <1>1, <2>1 DEF DeliverLoad, Step, TypeOK
    <3>2. now.pc \in {"empty", "send"}
      BY <1>1 DEF TypeOK, Command
    <3> QED
      BY <2>1, <3>1, <3>2 DEF DeliverLoad
  <2>2. ASSUME NEW target \in {"delivered", "failed"}, Go(i, target)
        PROVE  command'[i].pc = target
    BY <1>1, <2>2, GoIsLocal DEF TypeOK, Command
  <2>3. CASE DeliverSend(i)
    BY <1>1, <2>3 DEF DeliverSend, TypeOK, Senders
  <2>4. CASE \/ DeliverRefused(i) \/ DeliverSendRaises(i) \/ DeliverRecord(i)
             \/ DeliverRecordRaises(i)
    BY <2>2, <2>4
    DEF DeliverRefused, DeliverSendRaises, DeliverRecord, DeliverRecordRaises
  <2> QED
    BY <2>1, <2>3, <2>4 DEF CommandStep
<1> QED
  BY <1>2, <1>3

LEMMA OthersKeepCommands ==
    ASSUME IInv, IInv', [Next]_vars, NEW i \in Commands, command[i].pc # "new"
    PROVE  CommandLeft(i)' <= CommandLeft(i)
<1>1. TypeOK /\ TypeOK' /\ SessionOK
  BY DEF IInv
<1>2. CommandLeft(i) \in Nat /\ CommandLeft(i)' \in Nat
  <2>1. sent'[i] \in 0..NChunks
    BY <1>1 DEF TypeOK, Senders
  <2>2. CommandLeft(i)' \in Nat
    BY <2>1, NChunksAssumption DEF CommandLeft
  <2> QED
    BY <1>1, <2>2, CommandLeftIs
<1>3. CASE command'[i] = command[i] /\ sent'[i] = sent[i]
  BY <1>2, <1>3, LeftStays
<1>4. CASE CommandStep(i)
  BY <1>2, <1>4, CommandShrinks
<1>5. CASE DeliverKilled(i)
  <2>1. command'[i].pc = "failed"
    BY <1>1, <1>5, GoIsLocal DEF DeliverKilled, TypeOK, Command
  <2>2. CommandLeft(i)' = 0
    BY <2>1 DEF CommandLeft
  <2> QED
    BY <1>2, <2>2
<1>6. ASSUME NEW j \in Commands, j # i, CommandStep(j) \/ DeliverKilled(j)
      PROVE  command'[i] = command[i] /\ sent'[i] = sent[i]
  <2>1. command'[i] = command[i]
    BY <1>1, <1>6
    DEF CommandStep, DeliverLoad, DeliverRefused, DeliverSend, DeliverSendRaises,
        DeliverRecord, DeliverRecordRaises, DeliverKilled, Go, Step, TypeOK
  <2>2. sent'[i] = sent[i]
    BY <1>1, <1>6
    DEF CommandStep, DeliverLoad, DeliverRefused, DeliverSend, DeliverSendRaises,
        DeliverRecord, DeliverRecordRaises, DeliverKilled, TypeOK, Senders
  <2> QED
    BY <2>1, <2>2
<1>7. ASSUME NEW j \in Commands, NEW resend \in BOOLEAN, DeliverRead(j, resend)
      PROVE  command'[i] = command[i] /\ sent'[i] = sent[i]
  BY <1>1, <1>7 DEF DeliverRead, Step, TypeOK
<1>8. CASE Send \/ SendRaises
  <2>1. work.build \notin Commands
    BY <1>1, <1>8, SendersAssumption DEF Send, SendRaises, SessionOK, Builds
  <2>2. command' = command /\ sent'[i] = sent[i]
    BY <1>1, <1>8, <2>1 DEF Send, SendRaises, TypeOK, Senders
  <2> QED
    BY <1>3, <2>2
<1>9. CASE \/ \E items \in Items : Build(items)
           \/ \E auto \in Policies : Publish(auto)
           \/ GatePasses \/ GateRefuses \/ Record \/ Commit \/ Abort
           \/ \E o \in Operators : DecideRead(o)
           \/ \E o \in Operators, decision \in Decisions : Decide(o, decision)
           \/ ApproveItems \/ Rest \/ UNCHANGED vars
  <2>1. command' = command /\ sent' = sent
    BY <1>9 DEF Build, Publish, GatePasses, GateRefuses, Record, Commit, Abort, DecideRead,
                Decide, ApproveItems, Rest, vars
  <2> QED
    BY <1>3, <2>1
<1> QED
  BY <1>3, <1>4, <1>5, <1>6, <1>7, <1>8, <1>9 DEF Next, CycleStep

\* A command ends after a number of its own steps that depends on the length of
\* its message only, whatever cycles, operators and other commands do meanwhile
\* (deliver_briefing, send).
THEOREM CommandsAreBounded == Spec => CommandsShrink
<1> DEFINE Shrink ==
      \A i \in Commands :
          /\ CommandStep(i) => 0 <= CommandLeft(i)' /\ CommandLeft(i)' < CommandLeft(i)
          /\ command[i].pc # "new" => CommandLeft(i)' <= CommandLeft(i)
<1>1. IInv /\ IInv' /\ [Next]_vars => [Shrink]_vars
  BY CommandShrinks, OthersKeepCommands
<1> HIDE DEF Shrink
<1>2. Spec => [][Shrink]_vars
  BY <1>1, Inductive, PTL DEF Spec
<1> QED
  BY <1>2 DEF Shrink, CommandsShrink
===============================================================================
