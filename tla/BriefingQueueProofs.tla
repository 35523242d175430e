-------------------------- MODULE BriefingQueueProofs --------------------------
(***************************************************************************)
(* Theorems about BriefingQueue: for any schedule, lookbacks, limit and     *)
(* candidates, windows leave no unreported gap and an undecided candidate   *)
(* stays in a stored briefing unless a cycle left it out.                   *)
(***************************************************************************)
EXTENDS BriefingQueue, FiniteSetTheorems, WellFoundedInduction, TLAPS

(***************************************************************************)
(* What a build reports.                                                    *)
(***************************************************************************)
\* Occurrences are points in time.
LEMMA KeysInTime == \A k \in Keys : k[1] \in Nat /\ k[1] \in Occurrences
  BY OccurrencesAssumption DEF Keys

\* A window never starts before the start it was asked for.
LEMMA BoundedClimbs ==
    ASSUME NEW k \in Keys, NEW requested \in Int
    PROVE  /\ Bounded(k, requested) \in Int
           /\ requested <= Bounded(k, requested)
  <1>1. k[1] \in Nat
    BY KeysInTime
  <1> QED BY <1>1, LookbacksAssumption DEF Bounded

\* Hence a built briefing is never mistaken for a missing one.
LEMMA ReportedIsBriefing ==
    ASSUME NEW k \in Keys, NEW requested \in Int
    PROVE  /\ Reported(k, requested) \in Briefing
           /\ Reported(k, requested) # NoBriefing
           /\ Reported(k, requested).requested = requested
           /\ Reported(k, requested).items = Stored(k, Bounded(k, requested))
  <1>1. Stored(k, Bounded(k, requested)) \in SUBSET Cited
    BY DEF Stored, Listed
  <1> DEFINE start == Bounded(k, requested)
             items == Stored(k, start)
  <1>2. /\ Reported(k, requested) = [requested |-> requested, start |-> start, items |-> items]
        /\ start \in Int /\ requested <= start /\ items \in SUBSET Cited
    BY <1>1, BoundedClimbs DEF Reported
  <1> HIDE DEF start, items
  <1>3. /\ Reported(k, requested) \in Briefing
        /\ Reported(k, requested).requested = requested
        /\ Reported(k, requested).items = items
    BY <1>2 DEF Briefing
  <1>4. Reported(k, requested) # NoBriefing
    <2> SUFFICES ASSUME Reported(k, requested) = NoBriefing PROVE FALSE
      OBVIOUS
    <2>1. Reported(k, requested).start = start /\ Reported(k, requested).requested = requested
      BY <1>2
    <2>2. NoBriefing.start = 0 /\ NoBriefing.requested = 1
      BY DEF NoBriefing
    <2> QED BY <2>1, <2>2, <1>2
  <1> QED BY <1>3, <1>4 DEF start, items

\* The window is asked to start at an earlier run's end that no other earlier
\* run's end exceeds, or looks back if there is none.
LEMMA RequestsAreEnds ==
    ASSUME NEW k \in Keys, NEW requested \in Requests(k)
    PROVE  /\ requested \in Int
           /\ \/ Earlier(k) = {} /\ requested = k[1] - InitialLookback
              \/ \E p \in Earlier(k) :
                    requested = p[1] /\ \A q \in Earlier(k) : q[1] <= p[1]
  <1>1. k[1] \in Nat /\ \A p \in Keys : p[1] \in Nat
    BY OccurrencesAssumption DEF Keys
  <1>2. CASE Earlier(k) = {}
    BY <1>1, <1>2, LookbacksAssumption DEF Requests
  <1>3. CASE Earlier(k) # {}
    BY <1>1, <1>3 DEF Requests, Earlier, Built
  <1> QED BY <1>2, <1>3

(***************************************************************************)
(* Type correctness.                                                        *)
(***************************************************************************)
LEMMA Typing == TypeOK /\ RunOK /\ [Next]_vars => TypeOK'
  <1> SUFFICES ASSUME TypeOK, RunOK, [Next]_vars PROVE TypeOK'
    OBVIOUS
  <1> USE DEF TypeOK
  <1>1. CASE Tick
    BY <1>1, HorizonAssumption DEF Tick
  <1>2. ASSUME NEW k \in Keys, StartCycle(k) PROVE TypeOK'
    BY <1>2 DEF StartCycle
  <1>3. ASSUME NEW c \in Candidates, NEW claimed \in ReviewStatus, Arrive(c, claimed)
        PROVE TypeOK'
    BY <1>3 DEF Arrive
  <1>4. ASSUME NEW auto \in Policies, Publish(auto) PROVE TypeOK'
    <2>1. status' \in [Candidates -> ReviewStatus \cup {"absent"}]
      BY <1>4 DEF Publish, ReviewStatus
    <2> QED BY <1>4, <2>1 DEF Publish
  <1>5. CASE Build
    <2>1. target \in Keys /\ pc = "briefing"
      BY <1>5 DEF Build, RunOK
    <2>2. PICK requested \in Requests(target) :
             /\ briefing' = [briefing EXCEPT ![target] = Reported(target, requested)]
             /\ left' = left \cup CutOff(target, requested)
                             \cup {c \in fresh : target[1] < created[c]}
      BY <1>5 DEF Build
    <2>3. Reported(target, requested) \in Briefing
      BY <2>1, <2>2, RequestsAreEnds, ReportedIsBriefing
    <2>4. CutOff(target, requested) \subseteq Candidates
      BY CitedAssumption DEF CutOff, Listed
    <2>5. briefing' \in [Keys -> Briefing \cup {NoBriefing}]
      BY <2>1, <2>2, <2>3
    <2>6. left' \subseteq Candidates
      BY <2>2, <2>4
    <2> QED BY <1>5, <2>5, <2>6 DEF Build
  <1>6. CASE BuildRaises
    BY <1>6 DEF BuildRaises
  <1>7. ASSUME NEW c \in Candidates, NEW decision \in {"approved", "closed"},
               Decide(c, decision)
        PROVE TypeOK'
    BY <1>7 DEF Decide, ReviewStatus
  <1>8. CASE UNCHANGED vars
    BY <1>8 DEF vars
  <1> QED BY <1>1, <1>2, <1>3, <1>4, <1>5, <1>6, <1>7, <1>8 DEF Next

(***************************************************************************)
(* The run of a cycle.                                                      *)
(***************************************************************************)
LEMMA RunsKeepTime == TypeOK /\ RunOK /\ [Next]_vars => RunOK'
  <1> SUFFICES ASSUME TypeOK, RunOK, [Next]_vars PROVE RunOK'
    OBVIOUS
  <1>1. CASE Tick
    <2>1. \A o \in Occurrences : clock' < o => clock < o
      BY <1>1, OccurrencesAssumption DEF TypeOK, Tick
    <2> QED BY <1>1, <2>1 DEF RunOK, Tick
  <1>2. ASSUME NEW k \in Keys, StartCycle(k) PROVE RunOK'
    BY <1>2 DEF RunOK, StartCycle
  <1>3. ASSUME NEW c \in Candidates, NEW claimed \in ReviewStatus, Arrive(c, claimed)
        PROVE RunOK'
    <2>1. pc = "stages" /\ UNCHANGED <<clock, pc, target>> /\ fresh' = fresh \cup {c}
      BY <1>3 DEF Arrive
    <2>2. \A d \in Candidates : created'[d] = IF d = c THEN clock ELSE created[d]
      BY <1>3 DEF Arrive, TypeOK
    <2>3. \A d \in fresh', o \in Occurrences : created'[d] < o => target'[1] <= o
      BY <2>1, <2>2 DEF RunOK, TypeOK
    <2> QED BY <2>1, <2>3 DEF RunOK
  <1>4. ASSUME NEW auto \in Policies, Publish(auto) PROVE RunOK'
    BY <1>4 DEF RunOK, Publish
  <1>5. CASE Build
    BY <1>5 DEF RunOK, Build
  <1>6. CASE BuildRaises
    BY <1>6 DEF RunOK, BuildRaises
  <1>7. ASSUME NEW c \in Candidates, NEW decision \in {"approved", "closed"},
               Decide(c, decision)
        PROVE RunOK'
    BY <1>7 DEF RunOK, Decide
  <1>8. CASE UNCHANGED vars
    BY <1>8 DEF RunOK, vars
  <1> QED BY <1>1, <1>2, <1>3, <1>4, <1>5, <1>6, <1>7, <1>8 DEF Next

(***************************************************************************)
(* What a build changes.                                                    *)
(***************************************************************************)
\* Building t adds t to the built briefings, with a window that was asked to
\* start where the latest earlier run ended; the others stay as they are.
LEMMA BuildAddsTarget ==
    ASSUME TypeOK, RunOK, NEW requested \in Requests(target), pc = "briefing",
           briefing' = [briefing EXCEPT ![target] = Reported(target, requested)]
    PROVE  /\ target \in Keys
           /\ Built' = Built \cup {target}
           /\ \A k \in Keys : k # target => briefing'[k] = briefing[k]
           /\ briefing'[target].requested = requested
           /\ briefing'[target].items = Stored(target, Bounded(target, requested))
  <1>1. target \in Keys
    BY DEF RunOK
  <1>2. /\ briefing'[target] = Reported(target, requested)
        /\ \A k \in Keys : k # target => briefing'[k] = briefing[k]
    BY <1>1 DEF TypeOK
  <1>3. requested \in Int
    BY <1>1, RequestsAreEnds
  <1>4. /\ briefing'[target] # NoBriefing
        /\ briefing'[target].requested = requested
        /\ briefing'[target].items = Stored(target, Bounded(target, requested))
    BY <1>1, <1>2, <1>3, ReportedIsBriefing
  <1>5. Built' = Built \cup {target}
    BY <1>1, <1>2, <1>4 DEF Built
  <1> QED BY <1>1, <1>2, <1>4, <1>5

\* Every step that is no build leaves the briefings alone.
LEMMA OthersKeepBriefings ==
    ASSUME [Next]_vars, ~Build
    PROVE  UNCHANGED briefing
  BY DEF Next, vars, Tick, StartCycle, Arrive, Publish, BuildRaises, Decide

(***************************************************************************)
(* Windows.                                                                 *)
(***************************************************************************)
LEMMA RequestsAreRuns ==
    TypeOK /\ RunOK /\ RequestsOK /\ [Next]_vars => RequestsOK'
  <1> SUFFICES ASSUME TypeOK, RunOK, RequestsOK, [Next]_vars PROVE RequestsOK'
    OBVIOUS
  <1>1. CASE Build
    <2>1. PICK requested \in Requests(target) :
             /\ pc = "briefing"
             /\ briefing' = [briefing EXCEPT ![target] = Reported(target, requested)]
      BY <1>1 DEF Build
    <2>2. /\ target \in Keys
          /\ Built' = Built \cup {target}
          /\ \A k \in Keys : k # target => briefing'[k] = briefing[k]
          /\ briefing'[target].requested = requested
      BY <2>1, BuildAddsTarget
    <2>3. \A k \in Keys : Earlier(k) \subseteq Earlier(k)'
      BY <2>2 DEF Earlier
    <2> SUFFICES ASSUME NEW k \in Built'
                 PROVE  \/ briefing'[k].requested = k[1] - InitialLookback
                        \/ \E p \in Earlier(k)' : briefing'[k].requested = p[1]
      BY DEF RequestsOK
    <2>4. CASE k = target
      BY <2>2, <2>3, <2>4, RequestsAreEnds
    <2>5. CASE k # target
      <3>1. k \in Built /\ k \in Keys /\ briefing'[k] = briefing[k]
        BY <2>2, <2>5 DEF Built
      <3> QED BY <2>3, <3>1 DEF RequestsOK
    <2> QED BY <2>4, <2>5
  <1>2. CASE ~Build
    <2>1. UNCHANGED briefing
      BY <1>2, OthersKeepBriefings
    <2> QED BY <2>1 DEF RequestsOK, Built, Earlier
  <1> QED BY <1>1, <1>2

LEMMA WindowsKeepTiling ==
    TypeOK /\ RunOK /\ RequestsOK /\ WindowsTile /\ [Next]_vars => WindowsTile'
  <1> SUFFICES ASSUME TypeOK, RunOK, RequestsOK, WindowsTile, [Next]_vars
               PROVE  WindowsTile'
    OBVIOUS
  <1>1. CASE Build
    <2>1. PICK requested \in Requests(target) :
             /\ pc = "briefing"
             /\ briefing' = [briefing EXCEPT ![target] = Reported(target, requested)]
      BY <1>1 DEF Build
    <2>2. /\ target \in Keys
          /\ Built' = Built \cup {target}
          /\ \A k \in Keys : k # target => briefing'[k] = briefing[k]
          /\ briefing'[target].requested = requested
      BY <2>1, BuildAddsTarget
    <2> SUFFICES ASSUME NEW k \in Built', NEW p \in Earlier(k)'
                 PROVE  \/ briefing'[k].requested <= p[1]
                        \/ \E q \in Earlier(k)' : p[1] < q[1]
                        \/ briefing'[k].requested = k[1] - InitialLookback
      BY DEF WindowsTile
    <2>3. \A b \in Keys : Earlier(b)' = {a \in Built \cup {target} : a[1] < b[1]}
      BY <2>2 DEF Earlier
    <2>4. k \in Keys /\ p \in Keys /\ p \in Built \cup {target} /\ p[1] < k[1]
      BY <2>2, <2>3 DEF Built, Earlier
    <2>5. CASE k = target
      \* The latest earlier run is where the window was asked to start.
      <3>1. p \in Earlier(k)
        BY <2>4, <2>5, KeysInTime DEF Earlier
      <3>2. PICK e \in Earlier(k) : requested = e[1] /\ \A q \in Earlier(k) : q[1] <= e[1]
        BY <2>1, <2>2, <2>5, <3>1, RequestsAreEnds
      <3>3. e \in Keys /\ e \in Earlier(k)'
        BY <2>2, <2>3, <2>4, <3>2 DEF Earlier, Built
      <3> QED BY <2>2, <2>4, <2>5, <3>1, <3>2, <3>3, KeysInTime
    <2>6. CASE k # target
      <3>1. k \in Built /\ briefing'[k] = briefing[k] /\ Earlier(k) \subseteq Earlier(k)'
        BY <2>2, <2>3, <2>4, <2>6 DEF Built, Earlier
      <3>2. CASE p \in Earlier(k)
        BY <3>1, <3>2 DEF WindowsTile
      <3>3. CASE p \notin Earlier(k)
        \* p is new: the run k was asked to continue lies before it, or between.
        <4>1. CASE briefing[k].requested = k[1] - InitialLookback
          BY <3>1, <4>1
        <4>2. ASSUME NEW e \in Earlier(k), briefing[k].requested = e[1]
              PROVE  \/ briefing'[k].requested <= p[1]
                     \/ \E q \in Earlier(k)' : p[1] < q[1]
          <5>1. e \in Keys /\ e \in Earlier(k)'
            BY <3>1, <4>2 DEF Earlier, Built
          <5> QED BY <2>4, <3>1, <4>2, <5>1, KeysInTime
        <4> QED BY <3>1, <4>1, <4>2 DEF RequestsOK
      <3> QED BY <3>2, <3>3
    <2> QED BY <2>5, <2>6
  <1>2. CASE ~Build
    <2>1. UNCHANGED briefing
      BY <1>2, OthersKeepBriefings
    <2> QED BY <2>1 DEF WindowsTile, Built, Earlier
  <1> QED BY <1>1, <1>2

(***************************************************************************)
(* The queue.                                                               *)
(***************************************************************************)
\* Whatever a build lists is among its items, or left out from then on.
LEMMA ListedIsStoredOrLeft ==
    ASSUME NEW k, NEW requested, NEW c \in Listed(k, Bounded(k, requested))
    PROVE  c \in Stored(k, Bounded(k, requested)) \/ c \in CutOff(k, requested)
  BY DEF CutOff

\* A window reaches back to a candidate that is within both lookbacks and not
\* older than the run the window continues.
LEMMA WindowReaches ==
    ASSUME TypeOK, NEW k \in Keys, NEW requested \in Requests(k), NEW c \in Cited,
           status[c] \in Undecided,
           created[c] <= k[1],
           k[1] - MaxLookback <= created[c],
           \/ k[1] - InitialLookback <= created[c]
           \/ \E e \in Earlier(k) : e[1] <= created[c],
           \A p \in Earlier(k) : p[1] <= created[c]
    PROVE  c \in Listed(k, Bounded(k, requested))
  <1>1. c \in Candidates /\ created[c] \in Nat
    BY CitedAssumption DEF TypeOK
  <1>2. requested \in Int /\ requested <= created[c]
    <2>1. CASE Earlier(k) = {} /\ requested = k[1] - InitialLookback
      BY <2>1, KeysInTime, LookbacksAssumption
    <2>2. CASE \E p \in Earlier(k) : requested = p[1]
      BY <2>2, RequestsAreEnds
    <2> QED BY <2>1, <2>2, RequestsAreEnds
  <1>3. Bounded(k, requested) <= created[c]
    BY <1>2 DEF Bounded
  <1> QED BY <1>1, <1>3 DEF Listed, Current, InWindow

\* The candidates a cycle created, and its own occurrence does not come too
\* late for, are in the window of its briefing, and no run lies in between.
LEMMA FreshAreInWindow ==
    ASSUME TypeOK, RunOK, pc = "briefing", NEW c \in fresh, c \in Cited,
           created[c] <= target[1]
    PROVE  /\ target[1] - MaxLookback <= created[c]
           /\ target[1] - InitialLookback <= created[c]
           /\ \A q \in Keys : ~(created[c] < q[1] /\ q[1] < target[1])
  <1>1. target \in Keys /\ \A o \in Occurrences : created[c] < o => target[1] <= o
    BY DEF RunOK
  <1>2. created[c] \in 0..Horizon /\ target[1] \in Nat /\ target[1] \in Occurrences
    BY <1>1, CitedAssumption, KeysInTime DEF TypeOK
  <1>3. \A o \in Occurrences : ~(created[c] < o /\ o < target[1])
    BY <1>1, <1>2, OccurrencesAssumption
  <1>4. LookbackReaches(target[1], created[c])
    BY <1>2, SpacingAssumption
  <1> QED BY <1>3, <1>4, KeysInTime DEF LookbackReaches

\* A step without a build keeps the home of every candidate that was
\* undecided and accounted for before.
LEMMA HomesStay ==
    ASSUME HomesOK, UNCHANGED briefing,
           \A c \in Cited \ (fresh' \cup left') :
              status'[c] \in Undecided =>
                 /\ c \notin fresh \cup left
                 /\ status[c] \in Undecided
                 /\ created'[c] = created[c]
    PROVE  HomesOK'
  <1>1. UNCHANGED Built /\ \A k : UNCHANGED Earlier(k)
    BY DEF Built, Earlier
  <1>2. ASSUME NEW c, NEW k, created'[c] = created[c], Home(c, k) PROVE Home(c, k)'
    BY <1>1, <1>2 DEF Home
  <1> SUFFICES ASSUME NEW c \in (Cited \ (fresh \cup left))', status'[c] \in Undecided
               PROVE  \E k \in Built' : Home(c, k)'
    BY DEF HomesOK
  <1>3. c \in Cited \ (fresh \cup left) /\ status[c] \in Undecided /\ created'[c] = created[c]
    OBVIOUS
  <1>4. PICK k \in Built : Home(c, k)
    BY <1>3 DEF HomesOK
  <1> QED BY <1>1, <1>2, <1>3, <1>4

\* A build keeps homes or moves them to an earlier occurrence, and gives one
\* to the candidates its cycle created.
LEMMA BuildKeepsHomes ==
    ASSUME TypeOK, RunOK, HomesOK, Build
    PROVE  HomesOK'
  <1>1. PICK requested \in Requests(target) :
           /\ pc = "briefing"
           /\ briefing' = [briefing EXCEPT ![target] = Reported(target, requested)]
           /\ left' = left \cup CutOff(target, requested)
                           \cup {c \in fresh : target[1] < created[c]}
    BY DEF Build
  <1>2. /\ target \in Keys
        /\ Built' = Built \cup {target}
        /\ \A k \in Keys : k # target => briefing'[k] = briefing[k]
        /\ briefing'[target].items = Stored(target, Bounded(target, requested))
    BY <1>1, BuildAddsTarget
  \* t names the briefing that is built: target itself is reset by the step.
  <1>t. PICK t \in Keys : t = target
    BY <1>2
  <1>3. fresh' = {} /\ UNCHANGED <<status, created>>
    BY DEF Build
  <1>4. \A k \in Keys : Earlier(k)' = {a \in Built \cup {t} : a[1] < k[1]}
    BY <1>2, <1>t DEF Earlier
  <1> SUFFICES ASSUME NEW c \in Cited, c \notin left', status[c] \in Undecided
               PROVE  \E k \in Built' : Home(c, k)'
    BY <1>3 DEF HomesOK
  <1>5. created[c] \in Nat
    BY CitedAssumption DEF TypeOK
  \* What makes the target a home: it lists c, and no run lies in between.
  <1>6. ASSUME created[c] <= target[1],
               \A q \in Built : ~(created[c] < q[1] /\ q[1] < target[1]),
               target[1] - MaxLookback <= created[c],
               \/ target[1] - InitialLookback <= created[c]
               \/ \E e \in Earlier(target) : e[1] <= created[c]
        PROVE  Home(c, t)'
    <2>1. \A p \in Earlier(target) : p[1] <= created[c]
      BY <1>5, <1>6, KeysInTime DEF Earlier, Built
    <2>2. c \in Listed(target, Bounded(target, requested))
      BY <1>2, <1>6, <2>1, WindowReaches
    <2>3. c \in briefing'[target].items
      BY <1>1, <1>2, <2>2, ListedIsStoredOrLeft
    <2>4. \A q \in Built' : ~(created[c] < q[1] /\ q[1] < target[1])
      BY <1>2, <1>6, KeysInTime
    <2>5. Earlier(t) \subseteq Earlier(t)'
      BY <1>4 DEF Earlier
    <2> QED BY <1>3, <1>6, <1>t, <2>3, <2>4, <2>5 DEF Home
  <1>7. CASE c \in fresh
    <2>1. created[c] <= target[1]
      BY <1>1, <1>2, <1>5, <1>7, KeysInTime
    <2>2. /\ target[1] - MaxLookback <= created[c]
          /\ target[1] - InitialLookback <= created[c]
          /\ \A q \in Keys : ~(created[c] < q[1] /\ q[1] < target[1])
      BY <1>1, <1>7, <2>1, FreshAreInWindow
    <2>3. Home(c, t)'
      BY <1>6, <2>1, <2>2 DEF Built
    <2> QED BY <1>2, <1>t, <2>3
  <1>8. CASE c \notin fresh
    <2>1. c \notin left
      BY <1>1
    <2>2. PICK k \in Built : Home(c, k)
      BY <1>8, <2>1 DEF HomesOK
    <2>3. k \in Keys /\ k[1] \in Nat /\ target[1] \in Nat
      BY <1>2, KeysInTime DEF Built
    <2>4. CASE k = target
      <3>1. Home(c, t)'
        BY <1>6, <2>2, <2>4 DEF Home
      <3> QED BY <1>2, <1>t, <3>1
    <2>5. CASE created[c] < target[1] /\ target[1] < k[1]
      \* The target is run for the first time and is nearer than the home was.
      <3>1. \A q \in Built : ~(created[c] < q[1] /\ q[1] < target[1])
        BY <1>5, <2>2, <2>3, <2>5, KeysInTime DEF Home, Built
      <3>2. target[1] - MaxLookback <= created[c]
        BY <1>5, <2>2, <2>3, <2>5, LookbacksAssumption DEF Home
      <3>3. \/ target[1] - InitialLookback <= created[c]
            \/ \E e \in Earlier(target) : e[1] <= created[c]
        <4>1. CASE k[1] - InitialLookback <= created[c]
          BY <1>5, <2>3, <2>5, <4>1, LookbacksAssumption
        <4>2. ASSUME NEW e \in Earlier(k), e[1] <= created[c]
              PROVE  e \in Earlier(target)
          BY <1>5, <2>3, <2>5, <4>2, KeysInTime DEF Earlier, Built
        <4> QED BY <2>2, <4>1, <4>2 DEF Home
      <3>4. created[c] <= target[1]
        BY <1>5, <2>3, <2>5
      <3>5. Home(c, t)'
        BY <1>6, <3>1, <3>2, <3>3, <3>4
      <3> QED BY <1>2, <1>t, <3>5
    <2>6. CASE k # target /\ ~(created[c] < target[1] /\ target[1] < k[1])
      <3>1. briefing'[k] = briefing[k] /\ Earlier(k) \subseteq Earlier(k)'
        BY <1>2, <1>4, <1>t, <2>3, <2>6 DEF Earlier
      <3>2. \A q \in Built' : ~(created[c] < q[1] /\ q[1] < k[1])
        BY <1>2, <2>2, <2>6 DEF Home
      <3>3. Home(c, k)'
        BY <1>3, <2>2, <3>1, <3>2 DEF Home
      <3> QED BY <1>2, <3>3
    <2> QED BY <2>4, <2>5, <2>6
  <1> QED BY <1>7, <1>8

LEMMA HomesAreKept == TypeOK /\ RunOK /\ HomesOK /\ [Next]_vars => HomesOK'
  <1> SUFFICES ASSUME TypeOK, RunOK, HomesOK, [Next]_vars PROVE HomesOK'
    OBVIOUS
  <1>1. CASE Tick
    BY <1>1, HomesStay DEF Tick
  <1>2. ASSUME NEW k \in Keys, StartCycle(k) PROVE HomesOK'
    BY <1>2, HomesStay DEF StartCycle, RunOK
  <1>3. ASSUME NEW c \in Candidates, NEW claimed \in ReviewStatus, Arrive(c, claimed)
        PROVE HomesOK'
    <2>1. \A d \in Cited \ (fresh' \cup left') :
             /\ d \notin fresh \cup left
             /\ status'[d] = status[d]
             /\ created'[d] = created[d]
      BY <1>3, CitedAssumption DEF Arrive, TypeOK
    <2> QED BY <1>3, <2>1, HomesStay DEF Arrive
  <1>4. ASSUME NEW auto \in Policies, Publish(auto) PROVE HomesOK'
    <2>1. \A d \in Cited : status'[d] \in Undecided => status[d] \in Undecided
      BY <1>4, CitedAssumption DEF Publish, Undecided
    <2> QED BY <1>4, <2>1, HomesStay DEF Publish
  <1>5. CASE Build
    BY <1>5, BuildKeepsHomes
  <1>6. CASE BuildRaises
    BY <1>6, HomesStay DEF BuildRaises
  <1>7. ASSUME NEW c \in Candidates, NEW decision \in {"approved", "closed"},
               Decide(c, decision)
        PROVE HomesOK'
    <2>1. \A d \in Cited : status'[d] \in Undecided => status[d] \in Undecided
      BY <1>7, CitedAssumption DEF Decide, Undecided, TypeOK
    <2> QED BY <1>7, <2>1, HomesStay DEF Decide
  <1>8. CASE UNCHANGED vars
    BY <1>8, HomesStay DEF vars
  <1> QED BY <1>1, <1>2, <1>3, <1>4, <1>5, <1>6, <1>7, <1>8 DEF Next

(***************************************************************************)
(* The limit.                                                               *)
(***************************************************************************)
LEMMA LeastNatural ==
    ASSUME NEW T, T \subseteq Nat, T # {}
    PROVE  \E x \in T : \A y \in T : x <= y
  <1>1. PICK x \in T : \A y \in T : ~(<<y, x>> \in OpToRel(<, Nat))
    BY NatLessThanWellFounded, WFMin
  <1>2. \A y \in T : ~(y < x)
    BY <1>1 DEF OpToRel
  <1> QED BY <1>2

\* A listed candidate is left out only by a briefing that is full: the first
\* of those left out has MaxItems candidates before it, all of them stored.
LEMMA LeftOutOnlyOfFull ==
    ASSUME NEW k \in Keys, NEW start \in Int,
           NEW c \in Listed(k, start), c \notin Stored(k, start)
    PROVE  Cardinality(Stored(k, start)) >= MaxItems
  <1> DEFINE listed == Listed(k, start)
             out == listed \ Stored(k, start)
             groups == {Group(d, k, start) : d \in out}
  <1>1. listed \subseteq Candidates /\ Stored(k, start) \subseteq listed
    BY CitedAssumption DEF Listed, Stored
  <1>2. \A d \in listed : Group(d, k, start) \in Nat
    BY DEF Group
  <1>3. PICK g \in groups : \A h \in groups : g <= h
    <2>1. groups \subseteq Nat /\ groups # {}
      BY <1>2
    <2> HIDE DEF groups
    <2> QED BY <2>1, LeastNatural
  <1> DEFINE first == {d \in out : Group(d, k, start) = g}
  <1>4. PICK m \in first : \A d \in first : m <= d
    <2>1. first \subseteq Nat /\ first # {}
      BY <1>1, <1>3, CandidatesAssumption
    <2> HIDE DEF first
    <2> QED BY <2>1, LeastNatural
  <1> DEFINE ahead == {d \in listed : Before(d, m, k, start)}
  <1>5. ahead \subseteq Stored(k, start)
    <2> SUFFICES ASSUME NEW d \in out, Before(d, m, k, start) PROVE FALSE
      OBVIOUS
    <2>1. g <= Group(d, k, start) /\ Group(m, k, start) = g
      BY <1>3, <1>4
    <2>2. g \in Nat /\ Group(d, k, start) \in Nat /\ d \in Nat /\ m \in Nat
      BY <1>1, <1>2, <1>3, <1>4, CandidatesAssumption
    <2>3. Group(d, k, start) = g /\ d < m
      BY <2>1, <2>2 DEF Before
    <2> QED BY <1>4, <2>2, <2>3
  <1>6. ~(Cardinality(ahead) < MaxItems)
    BY <1>4 DEF Stored
  <1>7. IsFiniteSet(Stored(k, start))
    BY <1>1, CandidatesAssumption, FS_Subset
  <1>8. /\ Cardinality(ahead) <= Cardinality(Stored(k, start))
        /\ Cardinality(ahead) \in Nat /\ Cardinality(Stored(k, start)) \in Nat
    <2> HIDE DEF ahead
    <2> QED BY <1>5, <1>7, FS_Subset, FS_CardinalityType
  <1> HIDE DEF ahead
  <1> QED BY <1>6, <1>8, MaxItemsAssumption

(***************************************************************************)
(* The theorems.                                                            *)
(***************************************************************************)
LEMMA Inductive == Spec => []IInv
  <1>1. Init => IInv
    <2> SUFFICES ASSUME Init PROVE IInv
      OBVIOUS
    <2>1. TypeOK /\ RunOK
      BY HorizonAssumption DEF Init, TypeOK, RunOK
    <2>2. Built = {}
      BY DEF Init, Built
    <2>3. \A c \in Cited : status[c] = "absent"
      BY CitedAssumption DEF Init
    <2> QED BY <2>1, <2>2, <2>3 DEF IInv, RequestsOK, WindowsTile, HomesOK, Undecided
  <1>2. IInv /\ [Next]_vars => IInv'
    BY Typing, RunsKeepTime, RequestsAreRuns, WindowsKeepTiling, HomesAreKept DEF IInv
  <1> QED BY <1>1, <1>2, PTL DEF Spec

\* The types of the clock, the running cycle, the candidates and the stored
\* briefings (build_briefing, run_cycle).
THEOREM QueueTypeCorrect == Spec => []TypeOK
  <1>1. IInv => TypeOK
    BY DEF IInv
  <1> QED BY <1>1, Inductive, PTL

\* For any schedule and lookbacks, and occurrences run and run again in any
\* order, the windows of advance_cursor leave no gap but the truncations they
\* report.
THEOREM NoUnreportedGaps == Spec => []WindowsTile
  <1>1. IInv => WindowsTile
    BY DEF IInv
  <1> QED BY <1>1, Inductive, PTL

\* An undecided candidate with evidence stays an item of a stored briefing
\* unless a cycle left it out: build_briefing loses a candidate to its limit,
\* to a stage that raised or to a late run, and to nothing else.
THEOREM UndecidedAreKept == Spec => []KeptUnlessLeft
  <1>1. IInv => KeptUnlessLeft
    <2> SUFFICES ASSUME IInv, NEW c \in Cited \ (fresh \cup left), status[c] \in Undecided
                 PROVE  Shown(c)
      BY DEF KeptUnlessLeft
    <2>1. PICK k \in Built : Home(c, k)
      BY DEF IInv, HomesOK
    <2> QED BY <2>1 DEF Shown, Home
  <1> QED BY <1>1, Inductive, PTL

\* For any limit and any order of occurrences, a briefing that build_briefing
\* stores has every undecided candidate of the earlier ones, or it is full.
THEOREM QueueIsCarried == Spec => CarriedUntilDecided
  <1>1. TypeOK /\ RunOK /\ [Next]_vars
        => [\A k \in Keys, c \in Candidates :
              /\ briefing'[k] # briefing[k]
              /\ status[c] \in Undecided
              /\ \E p \in Earlier(k) : c \in briefing[p].items
              => c \in briefing'[k].items \/ Cardinality(briefing'[k].items) >= MaxItems]_vars
    <2> SUFFICES ASSUME TypeOK, RunOK, [Next]_vars,
                        NEW k \in Keys, NEW c \in Candidates,
                        briefing'[k] # briefing[k],
                        status[c] \in Undecided,
                        NEW p \in Earlier(k), c \in briefing[p].items
                 PROVE  \/ c \in briefing'[k].items
                        \/ Cardinality(briefing'[k].items) >= MaxItems
      OBVIOUS
    <2>1. Build
      BY OthersKeepBriefings
    <2>2. PICK requested \in Requests(target) :
             /\ pc = "briefing"
             /\ briefing' = [briefing EXCEPT ![target] = Reported(target, requested)]
      BY <2>1 DEF Build
    <2>3. PICK start : start = Bounded(target, requested)
      OBVIOUS
    <2>4. k = target /\ briefing'[k].items = Stored(k, start)
      BY <2>2, <2>3, BuildAddsTarget
    <2>5. start \in Int
      BY <2>2, <2>3, <2>4, RequestsAreEnds, BoundedClimbs
    <2>6. briefing[p].items \subseteq Cited
      BY DEF TypeOK, Briefing, NoBriefing, Earlier, Built
    <2>7. c \in Listed(k, start)
      BY <2>6 DEF Listed, Carried
    <2> QED BY <2>4, <2>5, <2>7, LeftOutOnlyOfFull
  <1>2. IInv => TypeOK /\ RunOK
    BY DEF IInv
  <1> QED BY <1>1, <1>2, Inductive, PTL DEF Spec, CarriedUntilDecided
===============================================================================
