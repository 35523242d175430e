----------------------------- MODULE CollectProofs -----------------------------
(***************************************************************************)
(* What holds of collection for any sources, documents, contents and        *)
(* bounds.                                                                  *)
(***************************************************************************)
EXTENDS Collect, Integers, FiniteSetTheorems, TLAPS

(***************************************************************************)
(* The operators of the model.                                              *)
(***************************************************************************)
LEMMA ExtendsItself ==
  ASSUME NEW vs \in Seq(A!Version) PROVE A!Extends(vs, vs)
BY DEF A!Extends

\* A longer list of versions has the contents of the shorter one.
LEMMA ExtendsContents ==
  ASSUME NEW later, NEW earlier, A!Extends(later, earlier)
  PROVE  A!ContentsOf(earlier) \subseteq A!ContentsOf(later)
BY DEF A!Extends, A!ContentsOf

LEMMA DocsHaveSources ==
  ASSUME NEW d \in Docs PROVE SourceOf[d] \in Sources /\ d \in DocsOf(SourceOf[d])
BY SourceOfAssumption DEF DocsOf

\* What is listed for a document is a content or that it is gone.
LEMMA ListedIsContent ==
  ASSUME TypeOK, NEW s \in Sources, NEW n \in 1..Len(published[s]), NEW d \in Docs
  PROVE  published[s][n][d] \in Contents \cup {Gone}
<1>1. published[s] \in Seq(Listings)
  BY DEF TypeOK
<1>2. published[s][n] \in Listings
  BY <1>1
<1> QED BY <1>2 DEF Listings

\* What one ingested item does to the versions of its document.
LEMMA AddedVersion ==
  ASSUME NEW vs \in Seq(A!Version), NEW v \in A!Version
  PROVE  /\ Append(vs, v) \in Seq(A!Version)
         /\ A!Extends(Append(vs, v), vs)
         /\ A!ContentsOf(Append(vs, v)) = A!ContentsOf(vs) \cup {v.content}
<1> DEFINE vs2 == Append(vs, v)
<1>1. vs2 \in Seq(A!Version) /\ Len(vs) \in Nat
  OBVIOUS
<1>2. /\ DOMAIN vs = 1..Len(vs) /\ DOMAIN vs2 = 1..(Len(vs) + 1)
      /\ \A i \in 1..Len(vs) : vs2[i] = vs[i]
      /\ vs2[Len(vs) + 1] = v
  OBVIOUS
<1> HIDE DEF vs2
<1>3. DOMAIN vs2 = DOMAIN vs \cup {Len(vs) + 1}
  BY <1>1, <1>2
<1>4. A!Extends(vs2, vs)
  BY <1>2, <1>3 DEF A!Extends
<1>5. A!ContentsOf(vs2) = A!ContentsOf(vs) \cup {v.content}
  BY <1>2, <1>3 DEF A!ContentsOf
<1> QED BY <1>1, <1>4, <1>5 DEF vs2

\* A new content with a body where bodies are allowed keeps the list in order.
LEMMA WellFormedAdded ==
  ASSUME NEW vs \in Seq(A!Version), NEW v \in A!Version, NEW a,
         v.content \notin A!ContentsOf(vs),
         A!WellFormed("absent", vs) \/ A!WellFormed(a, vs),
         a # "absent", v.body = (a = "collected")
  PROVE  A!WellFormed(a, Append(vs, v))
<1> DEFINE vs2 == Append(vs, v)
<1>1. /\ DOMAIN vs = 1..Len(vs) /\ DOMAIN vs2 = 1..(Len(vs) + 1) /\ Len(vs) \in Nat
      /\ \A i \in 1..Len(vs) : vs2[i] = vs[i]
      /\ vs2[Len(vs) + 1] = v
  OBVIOUS
<1> HIDE DEF vs2
<1>2. DOMAIN vs2 = DOMAIN vs \cup {Len(vs) + 1} /\ Len(vs) + 1 \notin DOMAIN vs
  BY <1>1
<1>3. \A i \in DOMAIN vs : vs[i].content # v.content
  BY DEF A!ContentsOf
<1>4. A!WellFormed(a, vs)
  <2>1. ASSUME A!WellFormed("absent", vs) PROVE DOMAIN vs = {}
    <3>1. vs = <<>>
      BY <2>1 DEF A!WellFormed
    <3> QED BY <3>1
  <2> QED BY <2>1 DEF A!WellFormed
<1>5. ASSUME NEW i \in DOMAIN vs2, NEW j \in DOMAIN vs2, vs2[i].content = vs2[j].content
      PROVE  i = j
  BY <1>1, <1>2, <1>3, <1>4, <1>5 DEF A!WellFormed
<1>6. ASSUME NEW i \in DOMAIN vs2 PROVE vs2[i].body = (a = "collected")
  BY <1>1, <1>2, <1>4, <1>6 DEF A!WellFormed
<1>7. A!WellFormed(a, vs2)
  BY <1>5, <1>6 DEF A!WellFormed
<1> QED BY <1>7 DEF vs2

(***************************************************************************)
(* Types.                                                                   *)
(***************************************************************************)
LEMMA InitType == Init => TypeOK
<1> SUFFICES ASSUME Init PROVE TypeOK
  OBVIOUS
<1>1. EmptyStore \in Store
  BY DEF EmptyStore, Store, Access
<1>2. /\ published \in [Sources -> Seq(Listings)]
      /\ \A s \in Sources : Len(published[s]) \in 1..(MaxChanges + 1)
  <2>1. PICK f \in [Sources -> {<<listing>> : listing \in Listings}] : published = f
    BY DEF Init
  <2>2. ASSUME NEW s \in Sources PROVE f[s] \in Seq(Listings) /\ Len(f[s]) = 1
    <3>1. PICK listing \in Listings : f[s] = <<listing>>
      OBVIOUS
    <3> QED BY <3>1
  <2>3. f \in [Sources -> Seq(Listings)]
    BY <2>2
  <2>4. 1 \in 1..(MaxChanges + 1)
    BY CollectBoundsAssumption
  <2> QED BY <2>1, <2>2, <2>3, <2>4
<1> QED BY <1>1, <1>2, CollectBoundsAssumption DEF Init, TypeOK

\* The item of an Ingest step.
LEMMA IngestTypes ==
  ASSUME TypeOK, StageOK, NEW d \in Docs, d \in items, pc = "items"
  PROVE  /\ source \in Sources /\ etag \in 1..Len(published[source])
         /\ Listed(d) \in Contents
         /\ Target(d) \in Access /\ Target(d) # "absent"
<1>1. source \in Sources /\ etag \in 1..Len(published[source]) /\ Listed(d) # Gone
  BY DEF StageOK
<1>2. Listed(d) \in Contents
  BY <1>1, ListedIsContent DEF Listed
<1> QED BY <1>1, <1>2 DEF Target, Access

\* Its document afterwards.
LEMMA IngestedDocument ==
  ASSUME TypeOK, StageOK, NEW d \in Docs, d \in items, pc = "items"
  PROVE  /\ Ingested(d) \in Seq(A!Version)
         /\ A!Extends(Ingested(d), work.versions[d])
         /\ A!ContentsOf(Ingested(d)) = A!ContentsOf(work.versions[d]) \cup {Listed(d)}
         /\ A!WellFormed(work.access[d], work.versions[d])
               /\ work.access[d] \in {"absent", Target(d)}
               => A!WellFormed(Target(d), Ingested(d))
<1> DEFINE vs == work.versions[d]
           v == [content |-> Listed(d), body |-> d \notin denied]
<1>1. vs \in Seq(A!Version)
  BY DEF TypeOK, Store
<1>2. v \in A!Version /\ v.content = Listed(d)
  BY IngestTypes DEF A!Version
<1>3. v.body = (Target(d) = "collected") /\ Target(d) # "absent"
  BY DEF Target
<1>4. Ingested(d) = IF Listed(d) \in A!ContentsOf(vs) THEN vs ELSE Append(vs, v)
  BY DEF Ingested
<1> HIDE DEF vs, v
<1>5. CASE Listed(d) \in A!ContentsOf(vs)
  <2>1. Ingested(d) = vs
    BY <1>4, <1>5
  <2>2. vs # <<>>
    BY <1>5 DEF A!ContentsOf
  <2>3. A!WellFormed(work.access[d], vs) /\ work.access[d] \in {"absent", Target(d)}
          => A!WellFormed(Target(d), vs)
    BY <2>2 DEF A!WellFormed
  <2> QED BY <1>1, <1>5, <2>1, <2>3, ExtendsItself DEF vs
<1>6. CASE Listed(d) \notin A!ContentsOf(vs)
  <2>1. Ingested(d) = Append(vs, v)
    BY <1>4, <1>6
  <2>2. A!WellFormed(work.access[d], vs) /\ work.access[d] \in {"absent", Target(d)}
          => A!WellFormed(Target(d), Append(vs, v))
    BY <1>1, <1>2, <1>3, <1>6, WellFormedAdded
  <2> QED BY <1>1, <1>2, <2>1, <2>2, AddedVersion DEF vs
<1> QED BY <1>5, <1>6

LEMMA TypeStep == TypeOK /\ StageOK /\ [Next]_vars => TypeOK'
<1> SUFFICES ASSUME TypeOK, StageOK, [Next]_vars PROVE TypeOK'
  OBVIOUS
<1> USE DEF Stage, History, Given
<1>1. ASSUME NEW d \in Docs, NEW c \in Contents \cup {Gone}, Publish(d, c) PROVE TypeOK'
  <2> DEFINE s == SourceOf[d]
             new == [published[s][Len(published[s])] EXCEPT ![d] = c]
  <2>1. s \in Sources
    BY DocsHaveSources
  <2>2. published[s] \in Seq(Listings) /\ Len(published[s]) \in 1..(MaxChanges + 1)
    BY <2>1 DEF TypeOK
  <2>3. published[s][Len(published[s])] \in Listings
    BY <2>2
  <2>4. new \in Listings
    BY <2>3 DEF Listings
  <2>5. published' = [published EXCEPT ![s] = Append(published[s], new)]
    BY <1>1 DEF Publish
  <2> HIDE DEF new, s
  <2>6. /\ Append(published[s], new) \in Seq(Listings)
        /\ Len(Append(published[s], new)) = Len(published[s]) + 1
    BY <2>2, <2>4
  <2>7. Len(published[s]) <= MaxChanges
    BY <1>1 DEF Publish, s
  <2>8. Len(Append(published[s], new)) \in 1..(MaxChanges + 1)
    BY <2>2, <2>6, <2>7, CollectBoundsAssumption
  <2>9. /\ published' \in [Sources -> Seq(Listings)]
        /\ \A t \in Sources : Len(published'[t]) \in 1..(MaxChanges + 1)
    BY <2>1, <2>5, <2>6, <2>8 DEF TypeOK
  <2> QED BY <1>1, <2>9 DEF Publish, TypeOK
<1>2. ASSUME NEW e \in {"cycle", "collection"}, Start(e) PROVE TypeOK'
  BY <1>2, CollectBoundsAssumption DEF Start, TypeOK
<1>3. CASE FeedAnswers
  <2>1. source \in Sources /\ Len(published[source]) \in Nat
    BY <1>3 DEF FeedAnswers, StageOK, TypeOK
  <2> QED BY <1>3, <2>1 DEF FeedAnswers, TypeOK, DocsOf
<1>4. CASE FeedUnchanged
  <2>1. source \in Sources
    BY <1>4 DEF FeedUnchanged, StageOK
  <2>2. work.cursor[source] \in Nat
    BY <2>1 DEF TypeOK, Store
  <2> QED BY <1>4, <2>2 DEF FeedUnchanged, TypeOK
<1>5. ASSUME NEW ds \in SUBSET DocsOf(source), LoadRobots(ds) PROVE TypeOK'
  BY <1>5 DEF LoadRobots, TypeOK, DocsOf
<1>6. ASSUME NEW d \in Docs, SkipDenied(d) PROVE TypeOK'
  <2>1. Listed(d) \in Contents
    BY <1>6, IngestTypes DEF SkipDenied
  <2> QED BY <1>6, <2>1 DEF SkipDenied, TypeOK
<1>7. ASSUME NEW d \in Docs, Ingest(d) PROVE TypeOK'
  <2>1. Listed(d) \in Contents /\ Target(d) \in Access
    BY <1>7, IngestTypes DEF Ingest
  <2>2. Ingested(d) \in Seq(A!Version)
    BY <1>7, IngestedDocument DEF Ingest
  <2>3. work' \in Store
    BY <1>7, <2>1, <2>2 DEF Ingest, TypeOK, Store
  <2> QED BY <1>7, <2>1, <2>3 DEF Ingest, TypeOK
<1>8. CASE Persist
  <2>1. source \in Sources /\ etag \in Nat
    BY <1>8 DEF Persist, StageOK, TypeOK
  <2>2. work' \in Store
    BY <1>8, <2>1 DEF Persist, TypeOK, Store
  <2>3. source' \in Nat /\ pc' \in {"idle", "feed", "robots", "items", "end"}
    BY <1>8 DEF Persist, TypeOK, NextSource
  <2> QED BY <1>8, <2>2, <2>3 DEF Persist, TypeOK
<1>9. CASE Raises
  BY <1>9 DEF Raises, TypeOK
<1>10. CASE CollectionRaises
  BY <1>10 DEF CollectionRaises, TypeOK
<1>11. CASE Commit
  BY <1>11 DEF Commit, TypeOK
<1>12. CASE CommitCollection
  BY <1>12 DEF CommitCollection, TypeOK
<1>13. CASE Abort
  BY <1>13 DEF Abort, TypeOK
<1>14. CASE UNCHANGED vars
  BY <1>14 DEF vars, TypeOK
<1> QED BY <1>1, <1>2, <1>3, <1>4, <1>5, <1>6, <1>7, <1>8, <1>9, <1>10, <1>11, <1>12,
           <1>13, <1>14 DEF Next, StageStep, StartCycle, StartCollection, Rest

(***************************************************************************)
(* The rest of the invariant.                                               *)
(***************************************************************************)
\* What is dealt with stays so when versions and histories grow.
LEMMA DealtStays ==
  ASSUME NEW store, NEW store2, NEW d \in Docs, NEW c,
         A!Extends(store2.versions[d], store.versions[d]),
         skipped \subseteq skipped',
         Dealt(store, d, c)
  PROVE  c \in A!ContentsOf(store2.versions[d]) \/ <<d, c>> \in skipped'
BY ExtendsContents DEF Dealt

\* Listings are never taken back.
LEMMA ListingsStay ==
  ASSUME TypeOK, [Next]_vars
  PROVE  \A s \in Sources : /\ Len(published[s]) <= Len(published'[s])
                            /\ \A n \in 1..Len(published[s]) :
                                  published'[s][n] = published[s][n]
<1> USE DEF Stage, History, Given
<1>1. CASE published' = published
  <2>1. \A s \in Sources : Len(published[s]) \in Nat
    BY DEF TypeOK
  <2> QED BY <1>1, <2>1
<1>2. ASSUME NEW d \in Docs, NEW c \in Contents \cup {Gone}, Publish(d, c),
             NEW s \in Sources
      PROVE  /\ Len(published[s]) <= Len(published'[s])
             /\ \A n \in 1..Len(published[s]) : published'[s][n] = published[s][n]
  <2> DEFINE o == SourceOf[d]
             new == [published[o][Len(published[o])] EXCEPT ![d] = c]
  <2>1. published' = [published EXCEPT ![o] = Append(published[o], new)]
    BY <1>2 DEF Publish
  <2>2. /\ published \in [Sources -> Seq(Listings)] /\ o \in Sources
        /\ published[s] \in Seq(Listings) /\ published[o] \in Seq(Listings)
        /\ Len(published[s]) \in 1..(MaxChanges + 1)
    BY DocsHaveSources DEF TypeOK
  <2>3. published[o][Len(published[o])] \in Listings
    <3>1. Len(published[o]) \in 1..(MaxChanges + 1)
      BY <2>2 DEF TypeOK
    <3> QED BY <2>2, <3>1
  <2>4. new \in Listings
    BY <2>3 DEF Listings
  <2> HIDE DEF new, o
  <2>5. CASE s = o
    BY <2>1, <2>2, <2>4, <2>5
  <2>6. CASE s # o
    BY <2>1, <2>2, <2>6
  <2> QED BY <2>5, <2>6
<1>3. (\E d \in Docs, c \in Contents \cup {Gone} : Publish(d, c)) \/ published' = published
  BY DEF Next, StageStep, StartCycle, StartCollection, Rest, Start, FeedAnswers,
         FeedUnchanged, LoadRobots, SkipDenied, Ingest, Persist, Raises, CollectionRaises,
         Commit, CommitCollection, Abort, vars
<1> QED BY <1>1, <1>2, <1>3

LEMMA InitInvariant == Init => IInv
<1> SUFFICES ASSUME Init PROVE IInv
  OBVIOUS
<1>1. TypeOK
  BY InitType
<1>2. /\ disk = EmptyStore /\ work = EmptyStore
      /\ \A s \in Sources : EmptyStore.cursor[s] = 0
      /\ \A d \in Docs : EmptyStore.access[d] = "absent" /\ EmptyStore.versions[d] = <<>>
  BY DEF Init, EmptyStore
<1>3. A!WellFormed("absent", <<>>) /\ A!ContentsOf(<<>>) = {} /\ A!Extends(<<>>, <<>>)
  BY DEF A!WellFormed, A!ContentsOf, A!Extends
<1>4. StoresOK
  BY <1>2, <1>3 DEF StoresOK, Covered
<1>5. SessionOK
  BY <1>2, <1>3 DEF SessionOK
<1>6. StageOK
  BY DEF Init, StageOK
<1>7. BatchOK /\ ReturnedOrStranded
  BY <1>2, <1>3 DEF Init, BatchOK, ReturnedOrStranded
<1> QED BY <1>1, <1>4, <1>5, <1>6, <1>7 DEF IInv
\* What a step does to the two stores: nothing, the session is given up or
\* committed, an item is ingested, a cursor is stored.  Histories grow.
LEMMA StepShape ==
  ASSUME [Next]_vars
  PROVE  /\ \/ UNCHANGED <<disk, work>>
            \/ disk' = disk /\ work' = disk
            \/ disk' = work /\ work' = work
            \/ \E d \in Docs : Ingest(d)
            \/ Persist
         /\ skipped \subseteq skipped'
         /\ returned \subseteq returned'
         /\ stranded \subseteq stranded'
<1> USE DEF Stage, History, Given
<1>1. ASSUME NEW d \in Docs, NEW c \in Contents \cup {Gone}, Publish(d, c)
      PROVE  UNCHANGED <<disk, work, skipped, returned, stranded>>
  BY <1>1 DEF Publish
<1>2. ASSUME NEW e, Start(e)
      PROVE  disk' = disk /\ work' = disk /\ UNCHANGED <<skipped, returned, stranded>>
  BY <1>2 DEF Start
<1>3. ASSUME \/ FeedAnswers \/ FeedUnchanged
             \/ (\E ds \in SUBSET DocsOf(source) : LoadRobots(ds))
      PROVE  UNCHANGED <<disk, work, skipped, returned, stranded>>
  BY <1>3 DEF FeedAnswers, FeedUnchanged, LoadRobots
<1>4. ASSUME NEW d \in Docs, SkipDenied(d)
      PROVE  UNCHANGED <<disk, work, returned, stranded>> /\ skipped \subseteq skipped'
  BY <1>4 DEF SkipDenied
<1>5. ASSUME NEW d \in Docs, Ingest(d) PROVE UNCHANGED <<skipped, returned, stranded>>
  BY <1>5 DEF Ingest
<1>6. ASSUME Persist PROVE UNCHANGED <<skipped, returned, stranded>>
  BY <1>6 DEF Persist
<1>7. ASSUME Raises
      PROVE  UNCHANGED <<disk, work, skipped, returned>> /\ stranded \subseteq stranded'
  BY <1>7 DEF Raises
<1>8. ASSUME CollectionRaises \/ Abort
      PROVE  disk' = disk /\ work' = disk /\ UNCHANGED <<skipped, returned, stranded>>
  BY <1>8 DEF CollectionRaises, Abort
<1>9. ASSUME Commit \/ CommitCollection
      PROVE  /\ disk' = work /\ work' = work /\ UNCHANGED skipped
             /\ returned \subseteq returned' /\ stranded \subseteq stranded'
  BY <1>9 DEF Commit, CommitCollection
<1>10. ASSUME UNCHANGED vars
       PROVE  UNCHANGED <<disk, work, skipped, returned, stranded>>
  BY <1>10 DEF vars
<1> QED BY <1>1, <1>2, <1>3, <1>4, <1>5, <1>6, <1>7, <1>8, <1>9, <1>10
        DEF Next, StageStep, StartCycle, StartCollection, Rest

\* A store that keeps its cursors and adds versions stays covered.
LEMMA CoveredStays ==
  ASSUME TypeOK, TypeOK', [Next]_vars, NEW store, NEW store2, Covered(store),
         store.cursor \in [Sources -> Nat], store2.cursor = store.cursor,
         \A d \in Docs : A!Extends(store2.versions[d], store.versions[d])
  PROVE  Covered(store2)'
<1>1. SUFFICES ASSUME NEW s \in Sources, store2.cursor[s] # 0
               PROVE  /\ store2.cursor[s] <= Len(published'[s])
                      /\ \A d \in DocsOf(s) :
                            published'[s][store2.cursor[s]][d] # Gone =>
                              \/ published'[s][store2.cursor[s]][d]
                                   \in A!ContentsOf(store2.versions[d])
                              \/ <<d, published'[s][store2.cursor[s]][d]>> \in skipped'
  BY DEF Covered, Dealt, DocsOf
<1> DEFINE n == store.cursor[s]
<1>2. /\ n \in Nat /\ n # 0 /\ n <= Len(published[s]) /\ Len(published[s]) \in Nat
      /\ \A d \in DocsOf(s) : published[s][n][d] # Gone => Dealt(store, d, published[s][n][d])
  BY <1>1 DEF Covered, TypeOK
<1>3. /\ Len(published[s]) <= Len(published'[s]) /\ published'[s][n] = published[s][n]
      /\ Len(published'[s]) \in Nat
  <2>1. n \in 1..Len(published[s])
    BY <1>2
  <2>2. Len(published'[s]) \in Nat
    BY DEF TypeOK
  <2> QED BY <1>2, <2>1, <2>2, ListingsStay
<1>4. skipped \subseteq skipped'
  BY StepShape
<1> HIDE DEF n
<1>5. ASSUME NEW d \in DocsOf(s), published[s][n][d] # Gone
      PROVE  \/ published[s][n][d] \in A!ContentsOf(store2.versions[d])
             \/ <<d, published[s][n][d]>> \in skipped'
  <2>1. d \in Docs /\ Dealt(store, d, published[s][n][d])
    BY <1>2, <1>5 DEF DocsOf
  <2> QED BY <1>4, <2>1, DealtStays
<1> QED BY <1>2, <1>3, <1>5 DEF n
\* The store that gets a cursor is covered: no item of the answer is left.
LEMMA PersistCovers ==
  ASSUME TypeOK, StageOK, Covered(work), Persist
  PROVE  Covered(work)'
<1>1. /\ source \in Sources /\ etag \in 1..Len(published[source]) /\ items = {}
      /\ work' = [work EXCEPT !.cursor[source] = etag]
      /\ published' = published /\ skipped' = skipped
      /\ \A d \in DocsOf(source) : Listed(d) = Gone \/ Dealt(work, d, Listed(d))
  BY DEF Persist, StageOK, Given, History
<1>2. /\ work'.versions = work.versions
      /\ \A s \in Sources : work'.cursor[s] = IF s = source THEN etag ELSE work.cursor[s]
  BY <1>1 DEF TypeOK, Store
<1>3. Len(published[source]) \in Nat
  BY <1>1 DEF TypeOK
<1>4. ASSUME NEW s \in Sources, work'.cursor[s] # 0
      PROVE  /\ work'.cursor[s] <= Len(published[s])
             /\ \A d \in DocsOf(s) : published[s][work'.cursor[s]][d] # Gone
                   => Dealt(work, d, published[s][work'.cursor[s]][d])
  <2>1. CASE s = source
    BY <1>1, <1>2, <1>3, <2>1 DEF Listed
  <2>2. CASE s # source
    BY <1>2, <1>4, <2>2 DEF Covered
  <2> QED BY <2>1, <2>2
<1> QED BY <1>1, <1>2, <1>4 DEF Covered, Dealt, DocsOf

LEMMA StoresStep ==
  ASSUME TypeOK, TypeOK', StoresOK, StageOK, [Next]_vars
  PROVE  StoresOK'
<1>1. /\ Covered(disk) /\ Covered(work)
      /\ \A d \in Docs : /\ A!WellFormed(disk.access[d], disk.versions[d])
                         /\ A!WellFormed(work.access[d], work.versions[d])
  BY DEF StoresOK
<1>2. /\ disk \in Store /\ work \in Store
      /\ disk.cursor \in [Sources -> Nat] /\ work.cursor \in [Sources -> Nat]
      /\ \A d \in Docs : disk.versions[d] \in Seq(A!Version) /\ work.versions[d] \in Seq(A!Version)
  BY DEF TypeOK, Store
<1>3. \A d \in Docs : /\ A!Extends(disk.versions[d], disk.versions[d])
                      /\ A!Extends(work.versions[d], work.versions[d])
  BY <1>2, ExtendsItself
<1>4. /\ disk' = disk => Covered(disk)'
      /\ work' = work => Covered(work)'
      /\ work' = disk => Covered(work)'
      /\ disk' = work => Covered(disk)'
  <2>1. disk' = disk => Covered(disk)'
    BY <1>1, <1>2, <1>3, CoveredStays
  <2>2. work' = work => Covered(work)'
    BY <1>1, <1>2, <1>3, CoveredStays
  <2>3. work' = disk => Covered(work)'
    BY <1>1, <1>2, <1>3, CoveredStays
  <2>4. disk' = work => Covered(disk)'
    BY <1>1, <1>2, <1>3, CoveredStays
  <2> QED BY <2>1, <2>2, <2>3, <2>4
<1>5. ASSUME NEW d \in Docs, Ingest(d) PROVE StoresOK'
  <2>1. /\ pc = "items" /\ d \in items /\ work.access[d] \in {"absent", Target(d)}
        /\ work' = [work EXCEPT !.access[d] = Target(d), !.versions[d] = Ingested(d)]
        /\ disk' = disk
    BY <1>5 DEF Ingest, Given
  <2>2. /\ work'.cursor = work.cursor
        /\ \A e \in Docs :
              /\ work'.access[e] = IF e = d THEN Target(d) ELSE work.access[e]
              /\ work'.versions[e] = IF e = d THEN Ingested(d) ELSE work.versions[e]
    BY <1>2, <2>1 DEF Store
  <2>3. /\ A!Extends(Ingested(d), work.versions[d])
        /\ A!WellFormed(Target(d), Ingested(d))
    BY <1>1, <2>1, IngestedDocument
  <2>4. \A e \in Docs : A!Extends(work'.versions[e], work.versions[e])
    BY <1>3, <2>2, <2>3
  <2>5. Covered(work)'
    BY <1>1, <1>2, <2>2, <2>4, CoveredStays
  <2>6. \A e \in Docs : A!WellFormed(work'.access[e], work'.versions[e])
    BY <1>1, <2>2, <2>3
  <2> QED BY <1>1, <1>4, <2>1, <2>5, <2>6 DEF StoresOK
<1>6. CASE Persist
  <2>1. disk' = disk /\ work'.access = work.access /\ work'.versions = work.versions
    BY <1>2, <1>6 DEF Persist, Store, Given
  <2>2. Covered(work)'
    BY <1>1, <1>6, PersistCovers
  <2> QED BY <1>1, <1>4, <2>1, <2>2 DEF StoresOK
<1>7. CASE UNCHANGED <<disk, work>>
  BY <1>1, <1>4, <1>7 DEF StoresOK
<1>8. CASE disk' = disk /\ work' = disk
  BY <1>1, <1>4, <1>8 DEF StoresOK
<1>9. CASE disk' = work /\ work' = work
  BY <1>1, <1>4, <1>9 DEF StoresOK
<1> QED BY <1>5, <1>6, <1>7, <1>8, <1>9, StepShape

LEMMA SessionStep ==
  ASSUME TypeOK, SessionOK, StageOK, [Next]_vars
  PROVE  SessionOK'
<1>1. /\ disk \in Store /\ work \in Store
      /\ \A d \in Docs : disk.versions[d] \in Seq(A!Version) /\ work.versions[d] \in Seq(A!Version)
  BY DEF TypeOK, Store
<1>2. \A d \in Docs : /\ A!Extends(disk.versions[d], disk.versions[d])
                      /\ A!Extends(work.versions[d], work.versions[d])
  BY <1>1, ExtendsItself
<1>3. ASSUME NEW d \in Docs, Ingest(d) PROVE SessionOK'
  <2>1. /\ pc = "items" /\ d \in items /\ work.access[d] \in {"absent", Target(d)}
        /\ work' = [work EXCEPT !.access[d] = Target(d), !.versions[d] = Ingested(d)]
        /\ disk' = disk
    BY <1>3 DEF Ingest, Given
  <2>2. \A e \in Docs :
              /\ work'.access[e] = IF e = d THEN Target(d) ELSE work.access[e]
              /\ work'.versions[e] = IF e = d THEN Ingested(d) ELSE work.versions[e]
    BY <1>1, <2>1 DEF Store
  <2>3. A!Extends(Ingested(d), disk.versions[d])
    <3>1. A!Extends(Ingested(d), work.versions[d]) /\ A!Extends(work.versions[d], disk.versions[d])
      BY <2>1, IngestedDocument DEF SessionOK
    <3> QED BY <3>1 DEF A!Extends
  <2> QED BY <2>1, <2>2, <2>3 DEF SessionOK
<1>4. CASE Persist
  <2>1. disk' = disk /\ work'.access = work.access /\ work'.versions = work.versions
    BY <1>1, <1>4 DEF Persist, Store, Given
  <2> QED BY <2>1 DEF SessionOK
<1>5. CASE UNCHANGED <<disk, work>>
  BY <1>5 DEF SessionOK
<1>6. CASE disk' = disk /\ work' = disk
  BY <1>2, <1>6 DEF SessionOK
<1>7. CASE disk' = work /\ work' = work
  BY <1>2, <1>7 DEF SessionOK
<1> QED BY <1>3, <1>4, <1>5, <1>6, <1>7, StepShape
LEMMA StageStepKeeps ==
  ASSUME TypeOK, StoresOK, StageOK, [Next]_vars
  PROVE  StageOK'
<1> USE DEF Stage, History, Given
<1>1. /\ \A s \in Sources : Len(published[s]) \in Nat \ {0}
      /\ work \in Store
  BY DEF TypeOK
<1>2. ASSUME NEW d \in Docs, NEW c \in Contents \cup {Gone}, Publish(d, c) PROVE StageOK'
  <2>1. UNCHANGED <<pc, source, etag, items, work, skipped>>
    BY <1>2 DEF Publish
  <2>2. ASSUME pc \in {"robots", "items"}
        PROVE  /\ source \in Sources
               /\ etag \in 1..Len(published'[source])
               /\ published'[source][etag] = published[source][etag]
    <3>1. source \in Sources /\ etag \in 1..Len(published[source])
      BY <2>2 DEF StageOK
    <3>2. published'[source] \in Seq(Listings)
      BY <3>1, TypeStep DEF TypeOK
    <3> QED BY <1>1, <3>1, <3>2, ListingsStay
  <2> QED BY <2>1, <2>2 DEF StageOK, Listed, Dealt, DocsOf
<1>3. ASSUME NEW e, Start(e) PROVE StageOK'
  <2>1. NSources # 0 => 1 \in Sources
    BY SourcesAssumption DEF Sources
  <2> QED BY <1>3, <2>1 DEF Start, StageOK
<1>4. CASE FeedAnswers
  <2>1. source \in Sources
    BY <1>4 DEF FeedAnswers, StageOK
  <2> QED BY <1>1, <1>4, <2>1 DEF FeedAnswers, StageOK, Listed
<1>5. CASE FeedUnchanged
  <2>1. /\ source \in Sources /\ etag' = Len(published[source]) /\ items' = {}
        /\ work.cursor[source] = Len(published[source]) /\ pc' = "robots"
        /\ UNCHANGED <<published, source, work, skipped>>
    BY <1>5 DEF FeedUnchanged, StageOK
  <2>2. Covered(work)
    BY DEF StoresOK
  <2>3. \A d \in DocsOf(source) : LET content == published[source][work.cursor[source]][d]
                                   IN content # Gone => Dealt(work, d, content)
    BY <1>1, <2>1, <2>2 DEF Covered
  <2> QED BY <1>1, <2>1, <2>3 DEF StageOK, Listed, Dealt, DocsOf
<1>6. ASSUME NEW ds, LoadRobots(ds) PROVE StageOK'
  BY <1>6 DEF LoadRobots, StageOK, Listed, Dealt, DocsOf
<1>7. ASSUME NEW d \in Docs, SkipDenied(d) PROVE StageOK'
  BY <1>7 DEF SkipDenied, StageOK, Listed, Dealt, DocsOf
<1>8. ASSUME NEW d \in Docs, Ingest(d) PROVE StageOK'
  <2>1. /\ pc = "items" /\ d \in items /\ items' = items \ {d}
        /\ work' = [work EXCEPT !.access[d] = Target(d), !.versions[d] = Ingested(d)]
        /\ UNCHANGED <<published, pc, source, etag, skipped>>
    BY <1>8 DEF Ingest
  <2>2. A!ContentsOf(Ingested(d)) = A!ContentsOf(work.versions[d]) \cup {Listed(d)}
    BY <2>1, IngestedDocument
  <2>3. \A e \in Docs :
           work'.versions[e] = IF e = d THEN Ingested(d) ELSE work.versions[e]
    BY <1>1, <2>1 DEF Store
  <2>4. ASSUME NEW e \in DocsOf(source)
        PROVE  Listed(e) = Gone \/ e \in items' \/ Dealt(work', e, Listed(e))
    <3>1. e \in Docs /\ (Listed(e) = Gone \/ e \in items \/ Dealt(work, e, Listed(e)))
      BY <2>1 DEF StageOK, DocsOf
    <3> QED BY <2>1, <2>2, <2>3, <3>1 DEF Dealt
  <2> QED BY <2>1, <2>4 DEF StageOK, Listed, Dealt, DocsOf
<1>9. CASE Persist
  <2>1. source' \in Sources \/ pc' = "end"
    BY <1>9, SourcesAssumption DEF Persist, StageOK, Sources, NextSource
  <2>2. pc' \in {"end", "feed"}
    BY <1>9 DEF Persist
  <2> QED BY <2>1, <2>2 DEF StageOK
<1>10. CASE Raises \/ CollectionRaises \/ Commit \/ CommitCollection \/ Abort
  BY <1>10 DEF Raises, CollectionRaises, Commit, CommitCollection, Abort, StageOK
<1>11. CASE UNCHANGED vars
  BY <1>11 DEF vars, StageOK, Listed, Dealt, DocsOf
<1> QED BY <1>2, <1>3, <1>4, <1>5, <1>6, <1>7, <1>8, <1>9, <1>10, <1>11
        DEF Next, StageStep, StartCycle, StartCollection, Rest

LEMMA BatchStep ==
  ASSUME TypeOK, SessionOK, StageOK, BatchOK, ReturnedOrStranded, [Next]_vars
  PROVE  BatchOK'
<1> USE DEF Stage, History, Given
<1>1. /\ \A r \in batch \cup returned : r[1] \in Docs
      /\ work \in Store
  BY DEF TypeOK
<1>2. \A d \in Docs : A!ContentsOf(disk.versions[d]) \subseteq A!ContentsOf(work.versions[d])
  BY ExtendsContents DEF SessionOK
<1>3. CASE UNCHANGED <<disk, work, batch, returned, stranded>>
  BY <1>3 DEF BatchOK
<1>4. CASE disk' = disk /\ work' = disk /\ batch' = {} /\ UNCHANGED <<returned, stranded>>
  BY <1>4 DEF BatchOK, ReturnedOrStranded
<1>5. ASSUME NEW d \in Docs, Ingest(d) PROVE BatchOK'
  <2>1. /\ pc = "items" /\ d \in items /\ batch' = batch \cup {<<d, Listed(d)>>}
        /\ work' = [work EXCEPT !.access[d] = Target(d), !.versions[d] = Ingested(d)]
        /\ UNCHANGED <<disk, returned, stranded>>
    BY <1>5 DEF Ingest
  <2>2. A!ContentsOf(Ingested(d)) = A!ContentsOf(work.versions[d]) \cup {Listed(d)}
    BY <2>1, IngestedDocument
  <2>3. \A e \in Docs :
           work'.versions[e] = IF e = d THEN Ingested(d) ELSE work.versions[e]
    BY <1>1, <2>1 DEF Store
  <2>4. \A r \in batch' : r[2] \in A!ContentsOf(work'.versions[r[1]])
    BY <1>1, <2>1, <2>2, <2>3 DEF BatchOK
  <2>5. ASSUME NEW e \in Docs, NEW c \in A!ContentsOf(work'.versions[e])
        PROVE  <<e, c>> \in returned \cup stranded \cup batch'
    BY <2>1, <2>2, <2>3, <2>5 DEF BatchOK
  <2> QED BY <2>1, <2>4, <2>5 DEF BatchOK
<1>6. CASE Persist
  <2>1. work'.versions = work.versions /\ UNCHANGED <<disk, batch, returned, stranded>>
    BY <1>1, <1>6 DEF Persist, Store
  <2> QED BY <2>1 DEF BatchOK
<1>7. CASE Raises
  BY <1>7 DEF Raises, BatchOK
<1>8. CASE Commit
  BY <1>1, <1>2, <1>8 DEF Commit, BatchOK
<1>9. CASE CommitCollection
  BY <1>1, <1>2, <1>9 DEF CommitCollection, BatchOK
<1> QED BY <1>3, <1>4, <1>5, <1>6, <1>7, <1>8, <1>9
        DEF Next, StageStep, StartCycle, StartCollection, Rest, Publish, Start, FeedAnswers,
            FeedUnchanged, LoadRobots, SkipDenied, CollectionRaises, Abort, vars

LEMMA AccountStep ==
  ASSUME BatchOK, ReturnedOrStranded, [Next]_vars
  PROVE  ReturnedOrStranded'
<1> USE DEF Stage, History, Given
<1>1. CASE disk' = disk
  BY <1>1, StepShape DEF ReturnedOrStranded
<1>2. CASE Commit
  BY <1>2 DEF Commit, BatchOK, ReturnedOrStranded
<1>3. CASE CommitCollection
  BY <1>3 DEF CommitCollection, BatchOK, ReturnedOrStranded
<1> QED BY <1>1, <1>2, <1>3
        DEF Next, StageStep, StartCycle, StartCollection, Rest, Publish, Start, FeedAnswers,
            FeedUnchanged, LoadRobots, SkipDenied, Ingest, Persist, Raises,
            CollectionRaises, Abort, vars

LEMMA StepInvariant == IInv /\ [Next]_vars => IInv'
<1> SUFFICES ASSUME IInv, [Next]_vars PROVE IInv'
  OBVIOUS
<1>1. TypeOK /\ StoresOK /\ SessionOK /\ StageOK /\ BatchOK /\ ReturnedOrStranded
  BY DEF IInv
<1>2. TypeOK'
  BY <1>1, TypeStep
<1>3. StoresOK' /\ SessionOK' /\ StageOK' /\ BatchOK' /\ ReturnedOrStranded'
  BY <1>1, <1>2, StoresStep, SessionStep, StageStepKeeps, BatchStep, AccountStep
<1> QED BY <1>2, <1>3 DEF IInv

LEMMA Invariance == Spec => []IInv
BY InitInvariant, StepInvariant, PTL DEF Spec

(***************************************************************************)
(* The theorems.                                                            *)
(***************************************************************************)
\* Every variable keeps its type.
THEOREM CollectTypeCorrect == Spec => []TypeOK
<1>1. IInv => TypeOK
  BY DEF IInv
<1> QED BY <1>1, Invariance, PTL

\* A cursor never gets ahead of the store: what a source listed under it is
\* stored or was skipped because robots.txt denied it, whatever exceptions,
\* deaths and changes come between the answer, the items and the cursor.
THEOREM CursorsAreCovered == Spec => []CursorCovers
<1>1. IInv => CursorCovers
  BY DEF IInv, StoresOK, Covered, CursorCovers
<1> QED BY <1>1, Invariance, PTL

\* Every stored version is handed to the stages of a committed cycle, or the
\* stage that stored it raised, or run_briefing() stored it.
THEOREM NothingIsLostOnTheWay == Spec => []ReturnedOrStranded
<1>1. IInv => ReturnedOrStranded
  BY DEF IInv
<1> QED BY <1>1, Invariance, PTL

\* Initially the archive is empty.
LEMMA InitArchive == Init => A!AInit
BY DEF Init, EmptyStore, A!AInit

\* A step commits to the archive or leaves it alone.
LEMMA StepArchive ==
  IInv /\ IInv' /\ [Next]_vars => [A!Archive]_<<disk.access, disk.versions, returned>>
<1> SUFFICES ASSUME IInv, IInv', [Next]_vars
             PROVE  [A!Archive]_<<disk.access, disk.versions, returned>>
  OBVIOUS
<1> USE DEF Stage, History, Given
<1>1. CASE disk' = disk /\ returned' = returned
  BY <1>1
<1>2. CASE Commit \/ CommitCollection
  <2>1. disk' = work /\ returned \subseteq returned'
    BY <1>2 DEF Commit, CommitCollection
  <2>2. disk' \in Store /\ returned' \subseteq Docs \X Contents
    BY DEF IInv, TypeOK
  <2>3. /\ disk'.access \in [Docs -> {"absent", "collected", "access_denied"}]
        /\ disk'.versions \in [Docs -> Seq(A!Version)]
    BY <2>2 DEF Store, Access
  <2>4. ASSUME NEW d \in Docs
        PROVE  /\ disk.access[d] \in {"absent", disk'.access[d]}
               /\ A!Extends(disk'.versions[d], disk.versions[d])
               /\ A!WellFormed(disk'.access[d], disk'.versions[d])
    BY <2>1 DEF IInv, SessionOK, StoresOK
  <2>5. \A r \in returned' : r[1] \in Docs /\ r[2] \in A!ContentsOf(disk'.versions[r[1]])
    BY <2>2 DEF IInv, BatchOK
  <2> QED BY <2>1, <2>3, <2>4, <2>5 DEF A!Archive
<1> QED BY <1>1, <1>2
        DEF Next, StageStep, StartCycle, StartCollection, Rest, Publish, Start, FeedAnswers,
            FeedUnchanged, LoadRobots, SkipDenied, Ingest, Persist, Raises,
            CollectionRaises, Abort, vars

\* The committed store implements VersionArchive: versions are only appended,
\* none twice, a denied document has no body, and what the stages were given is
\* stored.
THEOREM ArchiveIsKept == Spec => ImplementsArchive
BY InitArchive, StepArchive, Invariance, PTL DEF Spec, ImplementsArchive, A!ArchiveSpec

(***************************************************************************)
(* How long a run takes.                                                    *)
(***************************************************************************)
\* The sources after this one, with two requests, any documents and a cursor.
SourcesLeft == (NSources - source) * (Cardinality(Docs) + 3)

\* The steps a run may still take.
StepsLeft ==
    CASE pc = "idle" -> 0
      [] pc = "end" -> 1
      [] pc = "items" -> SourcesLeft + 2 + Cardinality(items)
      [] pc = "robots" -> SourcesLeft + 3 + Cardinality(Docs)
      [] pc = "feed" -> SourcesLeft + 4 + Cardinality(Docs)

RunStep == StageStep \/ Commit \/ CommitCollection

\* Every step of a run, whatever the feeds answer and whatever raises, brings
\* its end nearer: no item is ingested twice and no source collected twice.
StagesShrink == [][RunStep => 0 <= StepsLeft' /\ StepsLeft' < StepsLeft]_vars

LEMMA Products ==
  ASSUME NEW a \in Nat, NEW b \in Nat
  PROVE  /\ a * b \in Nat
         /\ a # 0 => (a - 1) * b + b = a * b
OBVIOUS

LEMMA SourcesLeftIs ==
  ASSUME IsFiniteSet(Docs), TypeOK, source \in Sources
  PROVE  SourcesLeft \in Nat
<1>1. Cardinality(Docs) + 3 \in Nat /\ NSources - source \in Nat
  BY FS_CardinalityType, SourcesAssumption DEF Sources
<1> QED
  BY <1>1, Products DEF SourcesLeft

LEMMA StageShrinks ==
  ASSUME IsFiniteSet(Docs), IInv, IInv', RunStep
  PROVE  0 <= StepsLeft' /\ StepsLeft' < StepsLeft
<1> USE DEF Given, History
<1> DEFINE N == Cardinality(Docs)
           m == Cardinality(items)
           n == Cardinality(items')
           L == SourcesLeft
           K == SourcesLeft'
<1>1. /\ TypeOK /\ TypeOK'
      /\ items \subseteq Docs /\ items' \subseteq Docs
      /\ pc \in {"feed", "robots", "items"} => source \in Sources
      /\ pc' \in {"feed", "robots", "items"} => source' \in Sources
  BY DEF IInv, TypeOK, StageOK
<1>2. N \in Nat /\ m \in 0..N /\ n \in 0..N
  <2>1. /\ N \in Nat /\ m \in Nat /\ m <= N /\ n \in Nat /\ n <= N
    BY <1>1, FS_Subset, FS_CardinalityType
  <2> QED
    BY <2>1
<1>3. /\ pc \in {"feed", "robots", "items"} => L \in Nat
      /\ pc' \in {"feed", "robots", "items"} => K \in Nat
  <2>1. ASSUME source' \in Sources PROVE K \in Nat
    <3> DEFINE later == source'
    <3>1. NSources - later \in Nat
      <4>1. later \in 1..NSources
        BY <2>1 DEF Sources
      <4> HIDE DEF later
      <4> QED
        BY <4>1, SourcesAssumption
    <3>2. N + 3 \in Nat
      BY <1>2
    <3> QED
      BY <3>1, <3>2, Products DEF SourcesLeft
  <2> QED
    BY <1>1, <2>1, SourcesLeftIs
<1>4. /\ pc = "end" => StepsLeft = 1
      /\ pc = "items" => StepsLeft = L + 2 + m
      /\ pc = "robots" => StepsLeft = L + 3 + N
      /\ pc = "feed" => StepsLeft = L + 4 + N
      /\ pc' = "idle" => StepsLeft' = 0
      /\ pc' = "end" => StepsLeft' = 1
      /\ pc' = "items" => StepsLeft' = K + 2 + n
      /\ pc' = "robots" => StepsLeft' = K + 3 + N
      /\ pc' = "feed" => StepsLeft' = K + 4 + N
  BY DEF StepsLeft
<1>5. source' = source => K = L
  BY DEF SourcesLeft
<1>6. source' = source + 1 /\ source \in Sources /\ source # NSources => K + N + 3 = L
  <2>1. SUFFICES ASSUME source' = source + 1, source \in Sources, source # NSources
                 PROVE  K + N + 3 = L
    OBVIOUS
  <2> DEFINE a == NSources - source
             b == N + 3
  <2>2. a \in Nat /\ b \in Nat /\ a # 0 /\ NSources - source' = a - 1
    BY <1>2, <2>1, SourcesAssumption DEF Sources
  <2>3. L = a * b /\ K = (a - 1) * b
    BY <2>2 DEF SourcesLeft
  <2>4. (a - 1) * b + b = a * b
    BY <2>2, Products
  <2>5. K \in Int
    <3>1. a - 1 \in Nat
      BY <2>2
    <3> QED
      BY <2>2, <2>3, <3>1, Products
  <2> QED
    BY <1>2, <2>3, <2>4, <2>5
<1>7. ASSUME NEW d \in items, items' = items \ {d} PROVE n = m - 1
  <2>1. IsFiniteSet(items)
    BY <1>1, FS_Subset
  <2> QED
    BY <1>7, <2>1, FS_RemoveElement
<1>8. items = {} => m = 0
  BY FS_EmptySet
<1> HIDE DEF N, m, n, L, K
<1>9. CASE FeedAnswers \/ FeedUnchanged
  <2>1. pc = "feed" /\ pc' = "robots" /\ source' = source
    BY <1>9 DEF FeedAnswers, FeedUnchanged
  <2> QED
    BY <1>2, <1>3, <1>4, <1>5, <2>1
<1>10. CASE \E ds \in SUBSET DocsOf(source) : LoadRobots(ds)
  <2>1. pc = "robots" /\ pc' = "items" /\ source' = source
    BY <1>10 DEF LoadRobots
  <2> QED
    BY <1>2, <1>3, <1>4, <1>5, <2>1
<1>11. ASSUME NEW d \in Docs, SkipDenied(d) \/ Ingest(d)
       PROVE  0 <= StepsLeft' /\ StepsLeft' < StepsLeft
  <2>1. /\ pc = "items" /\ pc' = "items" /\ source' = source
        /\ d \in items /\ items' = items \ {d}
    BY <1>11 DEF SkipDenied, Ingest
  <2> QED
    BY <1>2, <1>3, <1>4, <1>5, <1>7, <2>1
<1>12. CASE Persist
  <2>1. /\ pc = "items" /\ items = {} /\ source \in Sources
        /\ \/ source = NSources /\ pc' = "end"
           \/ source # NSources /\ pc' = "feed" /\ source' = source + 1
    BY <1>1, <1>12 DEF Persist, NextSource
  <2> QED
    BY <1>2, <1>3, <1>4, <1>6, <1>8, <2>1
<1>13. CASE Raises \/ CollectionRaises
  <2>1. pc \in {"feed", "robots", "items"} /\ pc' \in {"idle", "end"}
    BY <1>13 DEF Raises, CollectionRaises
  <2> QED
    BY <1>2, <1>3, <1>4, <2>1
<1>14. CASE Commit \/ CommitCollection
  <2>1. pc = "end" /\ pc' = "idle"
    BY <1>14 DEF Commit, CommitCollection
  <2> QED
    BY <1>4, <2>1
<1> QED
  BY <1>9, <1>10, <1>11, <1>12, <1>13, <1>14 DEF RunStep, StageStep

\* A run over finitely many documents takes a bounded number of steps
\* (collect_documents): the loops over sources and items go back to none.
THEOREM RunsAreBounded ==
  ASSUME IsFiniteSet(Docs)
  PROVE  Spec => StagesShrink
<1> DEFINE Shrink == RunStep => 0 <= StepsLeft' /\ StepsLeft' < StepsLeft
<1>1. IInv /\ IInv' /\ [Next]_vars => [Shrink]_vars
  BY StageShrinks
<1> HIDE DEF Shrink
<1>2. Spec => [][Shrink]_vars
  BY <1>1, Invariance, PTL DEF Spec
<1> QED
  BY <1>2 DEF Shrink, StagesShrink
===============================================================================
