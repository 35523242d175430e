-------------------------- MODULE DeliveryLedgerProofs --------------------------
(***************************************************************************)
(* Delivery implements DeliveryLedger: the attempt numbers on record count  *)
(* messages that went out whole.                                            *)
(***************************************************************************)
EXTENDS DeliveryProofs, FiniteSetTheorems

(***************************************************************************)
(* Counting senders.                                                        *)
(***************************************************************************)
LEMMA SendersAreFinite == IsFiniteSet(Senders)
<1>1. 1 \in Int /\ MaxBuilds \in Int
  BY MaxBuildsAssumption
<1>2. IsFiniteSet(Builds)
  BY <1>1, FS_Interval DEF Builds
<1> QED
  BY <1>2, CommandsAssumption, FS_Union DEF Senders

\* A larger finite set counts at least as much.
LEMMA MoreCountMore ==
    ASSUME NEW T, IsFiniteSet(T), NEW S \in SUBSET T
    PROVE  /\ IsFiniteSet(S)
           /\ Cardinality(S) \in Nat /\ Cardinality(T) \in Nat
           /\ Cardinality(S) <= Cardinality(T)
BY FS_Subset, FS_CardinalityType

LEMMA CompleteIsFinite ==
    ASSUME NEW c
    PROVE  /\ IsFiniteSet(Complete(c)) /\ IsFiniteSet(Resent(c))
           /\ IsFiniteSet(Complete(c)') /\ IsFiniteSet(Resent(c)')
           /\ Complete(c) \subseteq Senders /\ Complete(c)' \subseteq Senders
<1>1. Complete(c) \in SUBSET Senders /\ Complete(c)' \in SUBSET Senders
  BY DEF Complete, Senders, Builds
<1>2. Resent(c) \in SUBSET Senders /\ Resent(c)' \in SUBSET Senders
  BY <1>1 DEF Resent
<1> QED
  BY <1>1, <1>2, SendersAreFinite, MoreCountMore

(***************************************************************************)
(* What a sender has begun to send it sends to the end.                     *)
(***************************************************************************)
\* A command past its gate keeps what it read, and goes back to no gate.
LEMMA ReadOnce ==
    ASSUME IInv, [Next]_vars, NEW i \in Commands, command[i].pc \notin {"new", "read"}
    PROVE  /\ command'[i].header = command[i].header
           /\ command'[i].items = command[i].items
           /\ command'[i].known = command[i].known
           /\ command'[i].resend = command[i].resend
           /\ command'[i].pc = "send" => command[i].pc = "send"
<1>1. /\ command \in [Commands -> Command]
      /\ TypeOK
  BY DEF IInv, TypeOK
<1>2. CASE command' = command
  BY <1>2
<1>3. ASSUME NEW j \in Commands, NEW resend \in BOOLEAN, DeliverRead(j, resend)
      PROVE  command'[i] = command[i]
  BY <1>1, <1>3 DEF DeliverRead, Step
<1>4. ASSUME NEW j \in Commands, DeliverLoad(j)
      PROVE  command'[i] = command[i]
  BY <1>1, <1>4 DEF DeliverLoad, Step
<1>5. ASSUME NEW j \in Commands, NEW target \in {"delivered", "failed"}, Go(j, target)
      PROVE  command'[i] = command[i] \/ command'[i] = [command[i] EXCEPT !.pc = target]
  BY <1>1, <1>5, GoIsLocal
<1>6. \/ command' = command
      \/ \E j \in Commands : \/ \E resend \in BOOLEAN : DeliverRead(j, resend)
                             \/ DeliverLoad(j)
                             \/ \E target \in {"delivered", "failed"} : Go(j, target)
  BY DEF Next, CycleStep, CommandStep, Build, Publish, GatePasses, GateRefuses, Send,
         SendRaises, Record, Commit, Abort, DecideRead, Decide, ApproveItems,
         DeliverRefused, DeliverSend, DeliverSendRaises, DeliverRecord,
         DeliverRecordRaises, DeliverKilled, Rest, vars
<1> QED
  BY <1>1, <1>2, <1>3, <1>4, <1>5, <1>6 DEF Command

\* What is sent is not taken back.
LEMMA SentGrows ==
    ASSUME IInv, [Next]_vars, NEW s \in Senders
    PROVE  sent'[s] >= sent[s]
<1>1. sent \in [Senders -> 0..NChunks] /\ NChunks \in Nat
  BY NChunksAssumption DEF IInv, TypeOK
<1>2. \/ sent' = sent
      \/ \E r \in Senders, n \in {0, 1} : sent' = [sent EXCEPT ![r] = @ + n]
  <2>1. CASE Send \/ SendRaises
    <3>1. work.build \in Senders
      BY <2>1 DEF Send, SendRaises, IInv, SessionOK, Senders
    <3> QED
      BY <2>1, <3>1 DEF Send, SendRaises
  <2>2. ASSUME NEW i \in Commands, DeliverSend(i) \/ DeliverSendRaises(i)
        PROVE  \E r \in Senders, n \in {0, 1} : sent' = [sent EXCEPT ![r] = @ + n]
    BY <2>2 DEF DeliverSend, DeliverSendRaises, Senders
  <2> QED
    BY <2>1, <2>2
       DEF Next, CycleStep, CommandStep, Build, Publish, GatePasses, GateRefuses,
           Record, Commit, Abort, DecideRead, Decide, ApproveItems, DeliverRead,
           DeliverLoad, DeliverRefused, DeliverRecord,
           DeliverRecordRaises, DeliverKilled, Rest, vars
<1> QED
  BY <1>1, <1>2

LEMMA ContentStays ==
    ASSUME IInv, [Next]_vars, NEW s \in Senders, sent[s] > 0
    PROVE  /\ ContentOf(s)' = ContentOf(s)
           /\ s \in Commands => command'[s].resend = command[s].resend
<1>1. s \in Commands => command[s].pc \notin {"new", "read"}
  BY NChunksAssumption DEF IInv, TypeOK, CommandsOK
<1> QED
  BY <1>1, ReadOnce, ContentKept

LEMMA CompleteGrows ==
    ASSUME IInv, IInv', [Next]_vars, NEW c
    PROVE  Complete(c) \subseteq Complete(c)' /\ Resent(c) \subseteq Resent(c)'
<1>1. ASSUME NEW s \in Complete(c)
      PROVE  /\ s \in Complete(c)'
             /\ s \in Commands => command'[s].resend = command[s].resend
  <2>1. s \in Senders /\ sent[s] = NChunks /\ sent[s] > 0 /\ ContentOf(s) = c
    BY NChunksAssumption DEF Complete
  <2>2. sent'[s] = NChunks
    <3>1. sent'[s] \in 0..NChunks /\ sent'[s] >= sent[s]
      BY <2>1, SentGrows DEF IInv, TypeOK, Senders, Builds
    <3> QED
      BY <2>1, <3>1, NChunksAssumption
  <2>3. s \in Senders'
    BY <2>1 DEF Senders, Builds
  <2> QED
    BY <2>1, <2>2, <2>3, ContentStays DEF Complete
<1> QED
  BY <1>1 DEF Resent

\* So counts of them do not shrink, even with one left out.
LEMMA CountsGrow ==
    ASSUME IInv, IInv', [Next]_vars, NEW c
    PROVE  /\ Cardinality(Complete(c)) \in Nat /\ Cardinality(Complete(c)') \in Nat
           /\ Cardinality(Resent(c)) \in Nat /\ Cardinality(Resent(c)') \in Nat
           /\ Cardinality(Complete(c)) <= Cardinality(Complete(c)')
           /\ Cardinality(Resent(c)) <= Cardinality(Resent(c)')
<1>1. IsFiniteSet(Complete(c)') /\ IsFiniteSet(Resent(c)')
  BY CompleteIsFinite
<1>2. Complete(c) \in SUBSET (Complete(c)') /\ Resent(c) \in SUBSET (Resent(c)')
  BY CompleteGrows
<1> QED
  BY <1>1, <1>2, MoreCountMore

LEMMA CountsOfOthersGrow ==
    ASSUME IInv, IInv', [Next]_vars, NEW c, NEW i
    PROVE  /\ Cardinality(Complete(c) \ {i}) \in Nat /\ Cardinality(Complete(c)' \ {i}) \in Nat
           /\ Cardinality(Resent(c) \ {i}) \in Nat /\ Cardinality(Resent(c)' \ {i}) \in Nat
           /\ Cardinality(Complete(c) \ {i}) <= Cardinality(Complete(c)' \ {i})
           /\ Cardinality(Resent(c) \ {i}) <= Cardinality(Resent(c)' \ {i})
<1>1. IsFiniteSet(Complete(c)' \ {i}) /\ IsFiniteSet(Resent(c)' \ {i})
  BY CompleteIsFinite, FS_RemoveElement
<1>2. /\ Complete(c) \ {i} \in SUBSET (Complete(c)' \ {i})
      /\ Resent(c) \ {i} \in SUBSET (Resent(c)' \ {i})
  BY CompleteGrows
<1> QED
  BY <1>1, <1>2, MoreCountMore

LEMMA CountWithoutOne ==
    ASSUME NEW S, IsFiniteSet(S), NEW x \in S
    PROVE  /\ Cardinality(S) \in Nat /\ Cardinality(S \ {x}) \in Nat
           /\ Cardinality(S) = Cardinality(S \ {x}) + 1
<1>1. Cardinality(S) \in Nat
  BY FS_CardinalityType
<1>2. IsFiniteSet(S \ {x}) /\ Cardinality(S \ {x}) = Cardinality(S) - 1
  BY FS_RemoveElement
<1>3. Cardinality(S \ {x}) \in Nat
  BY <1>2, FS_CardinalityType
<1> QED
  BY <1>1, <1>2, <1>3

(***************************************************************************)
(* The invariant.                                                           *)
(***************************************************************************)
LEMMA InitCounts == Init => CountsOK
<1> SUFFICES ASSUME Init PROVE CountsOK
  OBVIOUS
<1>1. /\ db = NoBriefing /\ work = NoBriefing
      /\ \A c \in Contents : NoBriefing.attempt[c] = 0
      /\ \A i \in Commands : command[i].pc = "new"
  BY DEF Init, NoBriefing, NewCommand
<1>2. \A c \in Contents : Cardinality(Complete(c)) \in Nat /\ Cardinality(Resent(c)) \in Nat
  BY CompleteIsFinite, FS_CardinalityType
<1>3. RowsCounted
  BY <1>1, <1>2 DEF RowsCounted
<1>4. SessionCounted /\ KnownCounted
  BY <1>1 DEF SessionCounted, KnownCounted
<1> QED
  BY <1>3, <1>4 DEF CountsOK

\* Whatever has the content of c in the store is counted by now.
LEMMA RowsStayCounted ==
    ASSUME IInv, IInv', CountsOK, [Next]_vars, NEW c \in Contents
    PROVE  /\ db.attempt[c] \in Nat
           /\ db.attempt[c] <= Cardinality(Complete(c)')
           /\ db.attempt[c] <= 1 + Cardinality(Resent(c)')
<1>1. /\ db.attempt[c] \in Nat
      /\ db.attempt[c] <= Cardinality(Complete(c))
      /\ db.attempt[c] <= 1 + Cardinality(Resent(c))
  BY DEF IInv, TypeOK, Briefing, CountsOK, RowsCounted
<1> QED
  BY <1>1, CountsGrow

\* The cycle that got its message through is a sender of it.
LEMMA CycleCounts ==
    ASSUME IInv, NEW b \in Builds, sent[b] = NChunks
    PROVE  Cardinality(Complete(<<b, b>>)) >= 1
<1>1. b \in Complete(<<b, b>>)
  BY SendersAssumption, MaxBuildsAssumption DEF Complete, ContentOf, Senders, Builds
<1>2. IsFiniteSet(Complete(<<b, b>>))
  BY CompleteIsFinite
<1>3. Cardinality(Complete(<<b, b>>)) \in Nat /\ Cardinality(Complete(<<b, b>>)) # 0
  BY <1>1, <1>2, FS_CardinalityType, FS_EmptySet
<1> QED
  BY <1>3

\* The number a command writes counts itself and those it had read of.
LEMMA CommandCounts ==
    ASSUME IInv, CountsOK, NEW i \in Commands, DeliverRecord(i)
    PROVE  /\ command[i].known \in Nat
           /\ command[i].known + 1 <= Cardinality(Complete(ContentOf(i)))
           /\ command[i].known + 1 <= 1 + Cardinality(Resent(ContentOf(i)))
<1> PICK c : c = ContentOf(i)
  OBVIOUS
<1> PICK n : n = command[i].known
  OBVIOUS
<1>1. /\ n \in Nat /\ i \in Complete(c)
      /\ n <= Cardinality(Complete(c) \ {i})
      /\ n # 0 => command[i].resend /\ n <= 1 + Cardinality(Resent(c) \ {i})
  BY DEF DeliverRecord, IInv, TypeOK, Command, CountsOK, KnownCounted, Complete, Senders
<1>2. IsFiniteSet(Complete(c)) /\ IsFiniteSet(Resent(c))
  BY CompleteIsFinite
<1>3. n + 1 <= Cardinality(Complete(c))
  BY <1>1, <1>2, CountWithoutOne
<1>4. n + 1 <= 1 + Cardinality(Resent(c))
  <2>1. Cardinality(Resent(c)) \in Nat
    BY <1>2, FS_CardinalityType
  <2>2. CASE n = 0
    BY <2>1, <2>2
  <2>3. CASE n # 0
    <3>1. i \in Resent(c)
      BY <1>1, <2>3 DEF Resent
    <3>2. Cardinality(Resent(c)) = Cardinality(Resent(c) \ {i}) + 1
            /\ Cardinality(Resent(c) \ {i}) \in Nat
      BY <1>2, <3>1, CountWithoutOne
    <3> QED
      BY <1>1, <2>1, <2>3, <3>2
  <2> QED
    BY <2>2, <2>3
<1> QED
  BY <1>1, <1>3, <1>4

\* Two steps change the rows of the store: the cycle's commit and a command's
\* record.
LEMMA RowsStep ==
    ASSUME IInv, IInv', CountsOK, [Next]_vars
    PROVE  RowsCounted'
<1>1. CASE db'.attempt = db.attempt
  BY <1>1, RowsStayCounted DEF RowsCounted, Contents, Builds
<1>2. CASE Commit
  <2> SUFFICES ASSUME NEW c \in Contents
               PROVE  /\ work.attempt[c] <= Cardinality(Complete(c)')
                      /\ work.attempt[c] <= 1 + Cardinality(Resent(c)')
    BY <1>2 DEF Commit, RowsCounted, Contents, Builds
  <2>1. CASE work.attempt[c] = db.attempt[c]
    BY <2>1, RowsStayCounted
  <2>2. CASE work.attempt[c] # db.attempt[c]
    <3>1. c = <<work.build, work.build>> /\ work.attempt[c] = 1 /\ sent[work.build] = NChunks
      BY <2>2 DEF CountsOK, SessionCounted
    <3>2. work.build \in Builds
      BY <1>2 DEF Commit, IInv, SessionOK
    <3>3. Cardinality(Complete(c)) >= 1
      BY <3>1, <3>2, CycleCounts
    <3> QED
      BY <3>1, <3>3, CountsGrow
  <2> QED
    BY <2>1, <2>2
<1>3. ASSUME NEW i \in Commands, DeliverRecord(i)
      PROVE  RowsCounted'
  <2>1. /\ ContentOf(i) \in Contents /\ db \in Briefing
        /\ command[i].known \in Nat /\ command[i].known + 1 \in Nat
    BY <1>3, CommandCounts DEF DeliverRecord, IInv, TypeOK, CommandsOK
  <2>2. /\ db'.attempt[ContentOf(i)] = command[i].known + 1
        /\ \A d \in Contents : d # ContentOf(i) => db'.attempt[d] = db.attempt[d]
    BY <1>3, <2>1, RecordedIsBriefing DEF DeliverRecord
  <2> SUFFICES ASSUME NEW c \in Contents
               PROVE  /\ db'.attempt[c] <= Cardinality(Complete(c)')
                      /\ db'.attempt[c] <= 1 + Cardinality(Resent(c)')
    BY DEF RowsCounted, Contents, Builds
  <2>3. CASE c = ContentOf(i)
    <3>1. /\ command[i].known + 1 <= Cardinality(Complete(c))
          /\ command[i].known + 1 <= 1 + Cardinality(Resent(c))
      BY <1>3, <2>3, CommandCounts
    <3> QED
      BY <2>1, <2>2, <2>3, <3>1, CountsGrow
  <2>4. CASE c # ContentOf(i)
    BY <2>2, <2>4, RowsStayCounted
  <2> QED
    BY <2>3, <2>4
<1>4. \/ Commit
      \/ \E i \in Commands : DeliverRecord(i)
      \/ db'.attempt = db.attempt
  <2>1. ASSUME NEW o \in Operators, NEW decision \in Decisions, Decide(o, decision)
        PROVE  db'.attempt = db.attempt
    BY <2>1 DEF Decide, IInv, TypeOK, Briefing
  <2>2. CASE ApproveItems
    BY <2>2 DEF ApproveItems, IInv, TypeOK, Briefing
  <2> QED
    BY <2>1, <2>2
       DEF Next, CycleStep, CommandStep, Build, Publish, GatePasses, GateRefuses, Send,
           SendRaises, Record, Abort, DecideRead, DeliverRead, DeliverLoad,
           DeliverRefused, DeliverSend, DeliverSendRaises,
           DeliverRecordRaises, DeliverKilled, Rest, vars
<1> QED
  BY <1>1, <1>2, <1>3, <1>4

LEMMA SessionCountedStep ==
    ASSUME IInv, IInv', CountsOK, [Next]_vars
    PROVE  SessionCounted'
<1>1. CASE work'.attempt = db'.attempt
  BY <1>1 DEF SessionCounted
<1>2. CASE Record
  <2> DEFINE b == work.build
  <2>1. /\ work \in Briefing /\ <<b, b>> \in Contents /\ sent' = sent /\ sent[b] = NChunks
        /\ cycle' = "operate" /\ db' = db /\ work.attempt = db.attempt
    BY <1>2 DEF Record, IInv, TypeOK, SessionOK, Contents
  <2>2. work' = Recorded(work, <<b, b>>, 1)
    BY <1>2 DEF Record
  <2> HIDE DEF b
  <2>3. /\ work'.build = work.build /\ work'.attempt[<<b, b>>] = 1
        /\ \A d \in Contents : d # <<b, b>> => work'.attempt[d] = work.attempt[d]
    BY <2>1, <2>2, RecordedIsBriefing
  <2> QED
    BY <2>1, <2>3 DEF SessionCounted, b, Contents, Builds
<1>3. CASE UNCHANGED <<db, work, cycle>>
  <2>1. ASSUME cycle = "operate"
        PROVE  /\ work.build \in Senders /\ sent'[work.build] \in 0..NChunks
               /\ sent'[work.build] >= sent[work.build]
    <3>1. work.build \in Senders
      BY <2>1 DEF IInv, SessionOK, Senders
    <3>2. sent'[work.build] \in 0..NChunks
      BY <3>1 DEF IInv, TypeOK, Senders, Builds
    <3> QED
      BY <3>1, <3>2, SentGrows
  <2>2. cycle = "operate" /\ sent[work.build] = NChunks => sent'[work.build] = NChunks
    BY <2>1, NChunksAssumption
  <2> QED
    BY <1>3, <2>2 DEF CountsOK, SessionCounted, Contents, Builds
<1>4. CASE cycle' \in {"publish", "gate", "send"}
  BY <1>1, <1>4 DEF IInv, SessionOK
<1>5. CASE cycle \in {"gate", "send"} /\ UNCHANGED <<db, work>>
  BY <1>1, <1>5 DEF IInv, SessionOK
<1>6. CASE cycle' = "idle"
  BY <1>1, <1>6 DEF IInv, SessionOK
<1> QED
  BY <1>2, <1>3, <1>4, <1>5, <1>6
     DEF Next, CycleStep, CommandStep, Build, Publish, GatePasses, GateRefuses, Send,
         SendRaises, Commit, Abort, DecideRead, Decide, ApproveItems, DeliverRead,
         DeliverLoad, DeliverRefused, DeliverSend, DeliverSendRaises, DeliverRecord,
         DeliverRecordRaises, DeliverKilled, Rest, vars

\* What a command knows, said of its content c.
LEMMA KnownOf ==
    ASSUME NEW i \in Commands, NEW c, ContentOf(i)' = c,
           /\ command'[i].known <= Cardinality(Complete(c)' \ {i})
           /\ command'[i].known # 0 =>
                 /\ command'[i].resend
                 /\ command'[i].known <= 1 + Cardinality(Resent(c)' \ {i})
    PROVE  (/\ command[i].known <= Cardinality(Complete(ContentOf(i)) \ {i})
            /\ command[i].known # 0 =>
                  /\ command[i].resend
                  /\ command[i].known <= 1 + Cardinality(Resent(ContentOf(i)) \ {i}))'
<1>1. Complete(ContentOf(i))' = Complete(c)'
  BY DEF Complete
<1>2. Resent(ContentOf(i))' = Resent(c)'
  BY <1>1 DEF Resent
<1> QED
  BY <1>1, <1>2

\* The number a command reads is on record when it passes its gate, and it has
\* sent nothing by then.
LEMMA LoadCounts ==
    ASSUME IInv, IInv', CountsOK, [Next]_vars, NEW i \in Commands, DeliverLoad(i),
           command'[i].pc = "send"
    PROVE  (/\ command[i].known <= Cardinality(Complete(ContentOf(i)) \ {i})
            /\ command[i].known # 0 =>
                  /\ command[i].resend
                  /\ command[i].known <= 1 + Cardinality(Resent(ContentOf(i)) \ {i}))'
<1> PICK c : c = <<command[i].header, db.build>>
  OBVIOUS
<1>1. /\ command \in [Commands -> Command] /\ command[i] \in Command
      /\ MayResend(db, command[i].resend)
      /\ command' = [command EXCEPT ![i] =
            [command[i] EXCEPT !.items = db.build, !.known = db.attempt[c],
                               !.pc = IF db.items = "empty" THEN "empty" ELSE "send"]]
      /\ sent' = sent
  BY DEF DeliverLoad, Step, IInv, TypeOK
<1>2. /\ command'[i].known = db.attempt[c] /\ command'[i].resend = command[i].resend
      /\ command'[i].header = command[i].header /\ command'[i].items = db.build
  BY <1>1 DEF Command
<1>3. ContentOf(i)' = c /\ c \in Contents
  <2>1. ContentOf(i)' = c
    BY <1>2 DEF ContentOf
  <2> QED
    BY <2>1 DEF IInv, CommandsOK, Contents, Builds
<1>4. i \notin Complete(c)'
  BY <1>1, NChunksAssumption DEF DeliverLoad, IInv, CommandsOK, Complete
<1>5. Complete(c)' \ {i} = Complete(c)' /\ Resent(c)' \ {i} = Resent(c)'
  BY <1>4 DEF Resent
<1>6. /\ db.attempt[c] <= Cardinality(Complete(c)')
      /\ db.attempt[c] <= 1 + Cardinality(Resent(c)')
  BY <1>3, RowsStayCounted
<1>7. db.attempt[c] # 0 => command[i].resend
  BY <1>1, <1>3 DEF MayResend, NoRows
<1> QED
  BY <1>2, <1>3, <1>5, <1>6, <1>7, KnownOf

LEMMA KnownStep ==
    ASSUME IInv, IInv', CountsOK, [Next]_vars
    PROVE  KnownCounted'
<1> SUFFICES ASSUME NEW i \in Commands, command'[i].pc = "send"
             PROVE  (/\ command[i].known <= Cardinality(Complete(ContentOf(i)) \ {i})
                     /\ command[i].known # 0 =>
                           /\ command[i].resend
                           /\ command[i].known <= 1 + Cardinality(Resent(ContentOf(i)) \ {i}))'
  BY DEF KnownCounted
<1>1. CASE DeliverLoad(i)
  BY <1>1, LoadCounts
<1>2. CASE command[i].pc = "send"
  <2> PICK c : c = ContentOf(i)
    OBVIOUS
  <2>1. /\ command'[i].known = command[i].known /\ command'[i].resend = command[i].resend
        /\ ContentOf(i)' = c
    BY <1>2, ReadOnce, ContentKept
  <2>2. /\ command[i].known \in Nat
        /\ command[i].known <= Cardinality(Complete(c) \ {i})
        /\ command[i].known # 0 =>
              /\ command[i].resend
              /\ command[i].known <= 1 + Cardinality(Resent(c) \ {i})
    BY <1>2 DEF CountsOK, KnownCounted, IInv, TypeOK, Command
  <2>3. /\ Cardinality(Complete(c) \ {i}) \in Nat /\ Cardinality(Complete(c)' \ {i}) \in Nat
        /\ Cardinality(Resent(c) \ {i}) \in Nat /\ Cardinality(Resent(c)' \ {i}) \in Nat
        /\ Cardinality(Complete(c) \ {i}) <= Cardinality(Complete(c)' \ {i})
        /\ Cardinality(Resent(c) \ {i}) <= Cardinality(Resent(c)' \ {i})
    BY CountsOfOthersGrow
  <2>4. /\ command'[i].known <= Cardinality(Complete(c)' \ {i})
        /\ command'[i].known # 0 =>
              /\ command'[i].resend
              /\ command'[i].known <= 1 + Cardinality(Resent(c)' \ {i})
    <3>1. command'[i].known <= Cardinality(Complete(c)' \ {i})
      BY <2>1, <2>2, <2>3
    <3>2. ASSUME command'[i].known # 0
          PROVE  command'[i].known <= 1 + Cardinality(Resent(c)' \ {i})
      BY <2>1, <2>2, <2>3, <3>2
    <3>3. command'[i].known # 0 => command'[i].resend
      BY <2>1, <2>2
    <3> QED
      BY <3>1, <3>2, <3>3
  <2> QED
    BY <2>1, <2>4, KnownOf
<1>3. ~DeliverLoad(i) => command[i].pc = "send"
  <2>1. command \in [Commands -> Command] /\ TypeOK
    BY DEF IInv, TypeOK
  <2>2. ASSUME NEW j \in Commands, NEW resend \in BOOLEAN, DeliverRead(j, resend)
        PROVE  command'[i].pc = "send" => command[i].pc = "send"
    BY <2>1, <2>2 DEF DeliverRead, Step, Command
  <2>3. ASSUME NEW j \in Commands, DeliverLoad(j), j # i
        PROVE  command'[i] = command[i]
    BY <2>1, <2>3 DEF DeliverLoad, Step
  <2>4. ASSUME NEW j \in Commands, NEW target \in {"delivered", "failed"}, Go(j, target)
        PROVE  command'[i].pc = "send" => command[i].pc = "send"
    BY <2>1, <2>4, GoIsLocal DEF Command
  <2> QED
    BY <2>2, <2>3, <2>4
       DEF Next, CycleStep, CommandStep, Build, Publish, GatePasses, GateRefuses, Send,
           SendRaises, Record, Commit, Abort, DecideRead, Decide, ApproveItems,
           DeliverRefused, DeliverSend, DeliverSendRaises, DeliverRecord,
           DeliverRecordRaises, DeliverKilled, Rest, vars
<1> QED
  BY <1>1, <1>2, <1>3

LEMMA CountsInductive == Spec => [](IInv /\ CountsOK)
<1>1. Init => IInv /\ CountsOK
  BY InitInv, InitCounts
<1>2. IInv /\ CountsOK /\ [Next]_vars => (IInv /\ CountsOK)'
  BY NextInv, RowsStep, SessionCountedStep, KnownStep DEF CountsOK
<1> QED
  BY <1>1, <1>2, PTL DEF Spec
(***************************************************************************)
(* The theorems.                                                            *)
(***************************************************************************)
\* An attempt beyond the first is on record only if as many senders with the
\* approval to resend got that very content through, even when concurrent
\* resends overwrite each other's number.
THEOREM RepeatsNeedApproval == Spec => []RepeatsWereApproved
<1>1. CountsOK => RepeatsWereApproved
  BY DEF CountsOK, RowsCounted, RepeatsWereApproved
<1> QED
  BY <1>1, CountsInductive, PTL

Delivered == {<<s, ContentOf(s)>> : s \in {r \in Senders : sent[r] = NChunks}}

\* The ledger counts as this module does.
LEMMA SameCardinality == \A S : Ledger!Cardinality(S) = Cardinality(S)
BY DEF Ledger!Cardinality, Cardinality

\* The senders the ledger counts for a content are those that completed it.
LEMMA CompleteAreDelivered ==
    ASSUME NEW c
    PROVE  {s \in Senders : <<s, c>> \in Delivered} = Complete(c)
BY DEF Delivered, Complete

LEMMA InitLedger == Init => Ledger!LInit
<1> SUFFICES ASSUME Init PROVE Ledger!LInit
  OBVIOUS
<1>1. {r \in Senders : sent[r] = NChunks} = {}
  BY NChunksAssumption DEF Init
<1> QED
  BY <1>1 DEF Init, NoBriefing, Ledger!LInit

\* A step that sends nothing delivers nothing.
LEMMA NothingDelivered ==
    ASSUME IInv, [Next]_vars, sent' = sent
    PROVE  Delivered' = Delivered
<1>1. \A s \in Senders : sent[s] = NChunks => ContentOf(s)' = ContentOf(s)
  BY NChunksAssumption, ContentStays
<1> QED
  BY <1>1 DEF Delivered, Senders, Builds

\* A step that sends a chunk of s delivers nothing, or the content of s.
LEMMA DeliveredByOne ==
    ASSUME IInv, IInv', [Next]_vars, NEW s \in Senders, NEW n \in {0, 1},
           sent[s] < NChunks, sent' = [sent EXCEPT ![s] = @ + n],
           ContentOf(s) \in Contents, ContentOf(s)' = ContentOf(s)
    PROVE  \/ Delivered' = Delivered
           \/ \E c \in Contents : c[1] \in approvals' /\ Delivered' = Delivered \cup {<<s, c>>}
<1>1. \A r \in Senders : r # s => sent'[r] = sent[r]
  BY SentOneMore DEF IInv
<1>2. \A r \in Senders : sent[r] = NChunks => ContentOf(r)' = ContentOf(r)
  BY NChunksAssumption, ContentStays
<1>3. s \notin {r \in Senders : sent[r] = NChunks}
  BY NChunksAssumption DEF IInv, TypeOK
<1>4. CASE sent'[s] # NChunks
  <2>1. {r \in Senders : sent'[r] = NChunks} = {r \in Senders : sent[r] = NChunks}
    BY <1>1, <1>3, <1>4
  <2> QED
    BY <1>2, <2>1 DEF Delivered, Senders, Builds
<1>5. CASE sent'[s] = NChunks
  <2> PICK c : c = ContentOf(s)'
    OBVIOUS
  <2>1. {r \in Senders : sent'[r] = NChunks} = {r \in Senders : sent[r] = NChunks} \cup {s}
    BY <1>1, <1>3, <1>5
  <2>2. Delivered' = Delivered \cup {<<s, c>>}
    BY <1>2, <2>1 DEF Delivered, Senders, Builds
  <2>3. c[1] \in approvals'
    BY <1>5, NChunksAssumption DEF IInv, SentHeadersWereApproved, Senders, Builds
  <2>4. c \in Contents
    OBVIOUS
  <2> QED
    BY <2>2, <2>3, <2>4
<1> QED
  BY <1>4, <1>5
\* The steps of the ledger, with what was delivered as a set.
LEMMA StepLedger ==
    ASSUME IInv, IInv', CountsOK, CountsOK', [Next]_vars
    PROVE  \/ UNCHANGED <<approvals, Delivered, db.attempt>>
           \/ \E c \in Contents : /\ approvals' = approvals \cup {c[1]}
                                  /\ UNCHANGED <<Delivered, db.attempt>>
           \/ \E s \in Senders, c \in Contents :
                 /\ c[1] \in approvals
                 /\ Delivered' = Delivered \cup {<<s, c>>}
                 /\ UNCHANGED <<approvals, db.attempt>>
           \/ \E c \in Contents : \E n \in 1..Cardinality(Complete(c)) :
                 /\ db'.attempt = [db.attempt EXCEPT ![c] = n]
                 /\ UNCHANGED <<approvals, Delivered>>
<1>1. ASSUME NEW auto \in Policies, Publish(auto)
      PROVE  \/ UNCHANGED <<approvals, Delivered, db.attempt>>
             \/ \E c \in Contents : /\ approvals' = approvals \cup {c[1]}
                                    /\ UNCHANGED <<Delivered, db.attempt>>
  <2>1. Delivered' = Delivered /\ db' = db
    BY <1>1, NothingDelivered DEF Publish
  <2>2. <<work.build, work.build>> \in Contents
    BY <1>1 DEF Publish, IInv, SessionOK, Contents
  <2> QED
    BY <1>1, <2>1, <2>2 DEF Publish
<1>2. ASSUME NEW o \in Operators, NEW decision \in Decisions, Decide(o, decision)
      PROVE  \/ UNCHANGED <<approvals, Delivered, db.attempt>>
             \/ \E c \in Contents : /\ approvals' = approvals \cup {c[1]}
                                    /\ UNCHANGED <<Delivered, db.attempt>>
  <2>1. Delivered' = Delivered
    BY <1>2, NothingDelivered DEF Decide
  <2>2. db'.attempt = db.attempt /\ db.build \in Builds
    BY <1>2, MaxBuildsAssumption DEF Decide, IInv, TypeOK, Briefing, SessionOK, Builds
  <2>3. <<db.build, db.build>> \in Contents
    BY <2>2 DEF Contents
  <2> QED
    BY <1>2, <2>1, <2>2, <2>3 DEF Decide
<1>3. ASSUME NEW s \in Senders, NEW n \in {0, 1}, sent[s] < NChunks,
             sent' = [sent EXCEPT ![s] = @ + n],
             ContentOf(s) \in Contents, ContentOf(s)' = ContentOf(s),
             approvals' = approvals, db' = db
      PROVE  \/ UNCHANGED <<approvals, Delivered, db.attempt>>
             \/ \E r \in Senders, c \in Contents :
                   /\ c[1] \in approvals
                   /\ Delivered' = Delivered \cup {<<r, c>>}
                   /\ UNCHANGED <<approvals, db.attempt>>
  BY <1>3, DeliveredByOne
<1>4. CASE Send \/ SendRaises
  <2>1. /\ work.build \in Senders /\ work.build \notin Commands /\ work.build \in Builds
        /\ sent[work.build] < NChunks /\ approvals' = approvals /\ db' = db
    BY <1>4, SendersAssumption, MaxBuildsAssumption
       DEF Send, SendRaises, IInv, SessionOK, Senders, Builds
  <2>2. ContentOf(work.build) \in Contents
    BY <2>1 DEF ContentOf, Contents
  <2> PICK b : b = work.build
    OBVIOUS
  <2>3. ContentOf(b)' = ContentOf(b)
    BY <2>1, ContentKept
  <2>4. \E n \in {0, 1} : sent' = [sent EXCEPT ![b] = @ + n]
    BY <1>4 DEF Send, SendRaises
  <2> QED
    BY <1>3, <2>1, <2>2, <2>3, <2>4
<1>5. ASSUME NEW i \in Commands, DeliverSend(i) \/ DeliverSendRaises(i)
      PROVE  \/ UNCHANGED <<approvals, Delivered, db.attempt>>
             \/ \E r \in Senders, c \in Contents :
                   /\ c[1] \in approvals
                   /\ Delivered' = Delivered \cup {<<r, c>>}
                   /\ UNCHANGED <<approvals, db.attempt>>
  <2>1. /\ command[i].pc = "send" /\ sent[i] < NChunks /\ i \in Senders
        /\ ContentOf(i) \in Contents /\ approvals' = approvals /\ db' = db
    BY <1>5 DEF DeliverSend, DeliverSendRaises, IInv, CommandsOK, Senders
  <2>2. ContentOf(i)' = ContentOf(i)
    BY <2>1, ReadOnce, ContentKept
  <2>3. \E n \in {0, 1} : sent' = [sent EXCEPT ![i] = @ + n]
    BY <1>5 DEF DeliverSend, DeliverSendRaises
  <2> QED
    BY <1>3, <2>1, <2>2, <2>3
<1>6. ASSUME NEW i \in Commands, DeliverRecord(i)
      PROVE  \E c \in Contents : \E n \in 1..Cardinality(Complete(c)) :
                /\ db'.attempt = [db.attempt EXCEPT ![c] = n]
                /\ UNCHANGED <<approvals, Delivered>>
  <2> PICK c : c = ContentOf(i)
    OBVIOUS
  <2> PICK n : n = command[i].known + 1
    OBVIOUS
  <2>1. /\ c \in Contents /\ db \in Briefing
        /\ db' = Recorded(db, c, n)
    BY <1>6 DEF DeliverRecord, IInv, TypeOK, CommandsOK
  <2>2. n \in 1..Cardinality(Complete(c))
    <3>1. command[i].known \in Nat /\ command[i].known + 1 <= Cardinality(Complete(ContentOf(i)))
      BY <1>6, CommandCounts
    <3>2. Cardinality(Complete(c)) \in Nat
      BY CompleteIsFinite, FS_CardinalityType
    <3> QED
      BY <3>1, <3>2
  <2>3. db'.attempt = [db.attempt EXCEPT ![c] = n]
    BY <2>1 DEF Recorded, Briefing
  <2>4. approvals' = approvals /\ Delivered' = Delivered
    BY <1>6, NothingDelivered DEF DeliverRecord
  <2> QED
    BY <2>1, <2>2, <2>3, <2>4
<1>7. ASSUME Commit
      PROVE  \/ UNCHANGED <<approvals, Delivered, db.attempt>>
             \/ \E c \in Contents : \E n \in 1..Cardinality(Complete(c)) :
                   /\ db'.attempt = [db.attempt EXCEPT ![c] = n]
                   /\ UNCHANGED <<approvals, Delivered>>
  <2> PICK c : c = <<work.build, work.build>>
    OBVIOUS
  <2>1. /\ c \in Contents /\ work.build \in Builds
        /\ db.attempt \in [Contents -> Nat] /\ work.attempt \in [Contents -> Nat]
        /\ db'.attempt = work.attempt
    BY <1>7 DEF Commit, IInv, TypeOK, SessionOK, Briefing, Contents
  <2>2. approvals' = approvals /\ Delivered' = Delivered
    BY <1>7, NothingDelivered DEF Commit
  <2>3. \A d \in Contents : d # c => work.attempt[d] = db.attempt[d]
    BY DEF CountsOK, SessionCounted
  <2>4. CASE work.attempt[c] = db.attempt[c]
    <3>1. work.attempt = db.attempt
      BY <2>1, <2>3, <2>4
    <3> QED
      BY <2>1, <2>2, <3>1
  <2>5. CASE work.attempt[c] # db.attempt[c]
    <3>1. work.attempt[c] = 1 /\ sent[work.build] = NChunks
      BY <2>1, <2>5 DEF CountsOK, SessionCounted
    <3>2. work.attempt = [db.attempt EXCEPT ![c] = 1]
      BY <2>1, <2>3, <3>1
    <3>3. Cardinality(Complete(c)) >= 1 /\ Cardinality(Complete(c)) \in Nat
      BY <2>1, <3>1, CycleCounts, CompleteIsFinite, FS_CardinalityType
    <3>4. 1 \in 1..Cardinality(Complete(c))
      BY <3>3
    <3> QED
      BY <2>1, <2>2, <3>2, <3>4
  <2> QED
    BY <2>4, <2>5
<1>8. CASE ApproveItems
  <2>1. db'.attempt = db.attempt /\ approvals' = approvals /\ sent' = sent
    BY <1>8 DEF ApproveItems, IInv, TypeOK, Briefing
  <2> QED
    BY <2>1, NothingDelivered
<1>9. CASE UNCHANGED <<db, approvals, sent>>
  BY <1>9, NothingDelivered
<1>10. \/ UNCHANGED <<db, approvals, sent>>
       \/ Commit \/ ApproveItems \/ Send \/ SendRaises
       \/ \E auto \in Policies : Publish(auto)
       \/ \E o \in Operators, decision \in Decisions : Decide(o, decision)
       \/ \E i \in Commands : DeliverSend(i) \/ DeliverSendRaises(i) \/ DeliverRecord(i)
  BY DEF Next, CycleStep, CommandStep, Build, GatePasses, GateRefuses, Record, Abort,
         DecideRead, DeliverRead, DeliverLoad, DeliverRefused,
         DeliverRecordRaises, DeliverKilled, Rest, vars
<1> QED
  BY <1>1, <1>2, <1>4, <1>5, <1>6, <1>7, <1>8, <1>9, <1>10

LEMMA StepImplements ==
    IInv /\ IInv' /\ CountsOK /\ CountsOK' /\ [Next]_vars =>
        [Ledger!LNext]_<<approvals,
            {<<s, ContentOf(s)>> : s \in {r \in Senders : sent[r] = NChunks}}, db.attempt>>
<1> SUFFICES ASSUME IInv, IInv', CountsOK, CountsOK', [Next]_vars
             PROVE  Ledger!LNext \/ UNCHANGED <<approvals, Delivered, db.attempt>>
  BY DEF Delivered
<1>1. CASE UNCHANGED <<approvals, Delivered, db.attempt>>
  BY <1>1
<1>2. ASSUME NEW c \in Contents, approvals' = approvals \cup {c[1]},
             UNCHANGED <<Delivered, db.attempt>>
      PROVE  Ledger!LNext
  BY <1>2 DEF Ledger!LNext, Ledger!Approve, Delivered
<1>3. ASSUME NEW s \in Senders, NEW c \in Contents, c[1] \in approvals,
             Delivered' = Delivered \cup {<<s, c>>}, UNCHANGED <<approvals, db.attempt>>
      PROVE  Ledger!LNext
  BY <1>3 DEF Ledger!LNext, Ledger!Deliver, Delivered
<1>4. ASSUME NEW c \in Contents, NEW n \in 1..Cardinality(Complete(c)),
             db'.attempt = [db.attempt EXCEPT ![c] = n], UNCHANGED <<approvals, Delivered>>
      PROVE  Ledger!LNext
  <2>1. {s \in Senders : <<s, c>> \in Delivered} = Complete(c)
    BY CompleteAreDelivered
  <2>2. Cardinality(Complete(c)) <= Cardinality(Senders) /\ Cardinality(Senders) \in Nat
          /\ Cardinality(Complete(c)) \in Nat
    BY SendersAreFinite, CompleteIsFinite, MoreCountMore
  <2>3. n \in 1..Cardinality(Senders)
    BY <2>2
  <2>4. n \in 1..Cardinality({s \in Senders : <<s, c>> \in Delivered})
    BY <2>1
  <2>5. \E m \in 1..Cardinality(Senders) :
           /\ m \in 1..Cardinality({s \in Senders : <<s, c>> \in Delivered})
           /\ db'.attempt = [db.attempt EXCEPT ![c] = m]
           /\ UNCHANGED <<approvals, Delivered>>
    BY <1>4, <2>3, <2>4
  <2> QED
    BY <2>5, SameCardinality, Zenon DEF Ledger!LNext, Ledger!Record, Delivered
<1> QED
  BY <1>1, <1>2, <1>3, <1>4, StepLedger

\* Whoever delivers: what goes out was approved, nothing is taken back, and the
\* delivery rows claim no more attempts than messages that went out whole.
THEOREM LedgerIsKept == Spec => ImplementsLedger
BY InitLedger, StepImplements, CountsInductive, PTL
   DEF Spec, ImplementsLedger, Ledger!LedgerSpec
=================================================================================
