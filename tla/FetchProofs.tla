----------------------------- MODULE FetchProofs -----------------------------
(***************************************************************************)
(* Proofs about one fetch process, whoever else writes the same database:  *)
(* its steps keep every variable typed, they give what FetchReliance says  *)
(* it owes, and what it relies on survives the steps of the others.        *)
(***************************************************************************)
EXTENDS FetchReliance, FiniteSetTheorems, TLAPS

USE EventsAssumption, KeysAssumption DEF Days, NoDate

---------------------------------------------------------------------------
(* Operators *)

\* detect_change returns one of four event types or nothing.
LEMMA ChangeTypeRange ==
  ASSUME NEW prev, NEW now
  PROVE  ChangeType(prev, now) \in
           {"NEW_TITLE", "RELEASED", "RELEASE_DATE", "DELAY", None}
BY DEF ChangeType

\* A sighting is a snapshot.
LEMMA SightingIsSnapshot ==
  ASSUME NEW d \in Days \cup {NoDate}, NEW t \in Days
  PROVE  Sighting(d, t) \in Sightings
BY DEF Sighting, Snapshots, Sightings

\* Each change of a VN has a key of its own kind; a VN that changes to
\* released has a date because VNDB released it on one.
LEMMA ChangeKeyIsTransition ==
  ASSUME NEW v \in VNs, NEW prev \in Snapshots \cup {None},
         NEW now \in Sightings, ChangeType(prev, now) # None
  PROVE  ChangeKey(v, prev, now) \in TransitionKeys
<1>1. now.date \in 0..MaxDay BY DEF Snapshots, Sightings
<1>2. CASE ChangeType(prev, now) = "NEW_TITLE"
  BY <1>2 DEF ChangeKey, TransitionKeys
<1>3. CASE ChangeType(prev, now) = "RELEASED"
  BY <1>1, <1>3 DEF Sightings, ChangeKey, ChangeType, TransitionKeys
<1>4. CASE ChangeType(prev, now) = "RELEASE_DATE"
  BY <1>1, <1>4 DEF ChangeKey, ChangeType, TransitionKeys
<1>5. CASE ChangeType(prev, now) = "DELAY"
  <2>1. prev # None BY <1>5 DEF ChangeType
  <2>2. prev.date \in 0..MaxDay BY <2>1 DEF Snapshots
  <2>3. prev.date # NoDate /\ now.date # NoDate
    BY <1>5, <2>1 DEF ChangeType
  <2>4. prev.date \in Days /\ now.date \in Days BY <1>1, <2>2, <2>3
  <2> QED BY <1>5, <2>4 DEF ChangeKey, TransitionKeys
<1> QED BY <1>2, <1>3, <1>4, <1>5, ChangeTypeRange

\* It is a key of the events table.
LEMMA ChangeKeyIsKey ==
  ASSUME NEW v \in VNs, NEW prev \in Snapshots \cup {None},
         NEW now \in Sightings, ChangeType(prev, now) # None
  PROVE  ChangeKey(v, prev, now) \in Keys
BY ChangeKeyIsTransition DEF Keys

\* The developers of a VN have ids and names.
LEMMA IdsAndNames ==
  ASSUME NEW v \in VNs
  PROVE  /\ DeveloperIds(v) \in SUBSET Producers
         /\ DeveloperNames(v) \in SUBSET Developers
<1>1. DevelopersOf[v] \in Seq(Producers) BY VnAssumption
<1>2. DeveloperIds(v) \in SUBSET Producers BY <1>1 DEF DeveloperIds
<1> QED BY <1>2, VnAssumption DEF DeveloperNames

\* The event of a change is an event of the store.
LEMMA ChangeEventIsEvent ==
  ASSUME NEW v \in VNs, NEW prev \in Snapshots \cup {None},
         NEW now \in Sightings, ChangeType(prev, now) # None
  PROVE  ChangeEvent(v, prev, now) \in SourceEvents
<1>1. ChangeType(prev, now) \in EventTypes
  BY ChangeTypeRange DEF EventTypes
<1>2. now.date \in Days \cup {NoDate} BY DEF Snapshots, Sightings
<1>3. TagsOf[v] \in SUBSET Tags BY VnAssumption
<1>4. DeveloperIds(v) \in SUBSET Producers /\ DeveloperNames(v) \in SUBSET Developers
  BY IdsAndNames
<1> QED BY <1>1, <1>2, <1>3, <1>4 DEF ChangeEvent, SourceEvents

\* What a mapping makes of an event is an event.
LEMMA ReportTyped ==
  ASSUME NEW e \in SourceEvents, NEW f, NEW vs \in SUBSET VNs
  PROVE  Report(e, f, vs) \in SourceEvents
<1> DEFINE ws    == {v \in vs : f \in Links[v]}
           named == {v \in ws : DevelopersOf[v] # <<>>}
<1>1. CASE f \in SteamApps /\ ws # {}
  <2>1. FirstOf[ws] \in Entities BY <1>1, LinksAssumption, EventsAssumption
  <2>2. UNION {DeveloperIds(v) : v \in ws} \in SUBSET Producers BY IdsAndNames
  <2>3. ASSUME named # {} PROVE NameOf[Head(DevelopersOf[FirstOf[named]])] \in Developers
    <3>1. FirstOf[named] \in named BY <2>3, LinksAssumption
    <3>2. PICK v \in VNs : v = FirstOf[named] /\ DevelopersOf[v] # <<>> BY <3>1
    <3>3. DevelopersOf[v] \in Seq(Producers) BY VnAssumption
    <3>4. Head(DevelopersOf[v]) \in Producers BY <3>2, <3>3
    <3> QED BY <3>2, <3>4, VnAssumption
  <2> DEFINE entity == IF e.entity \in VNs THEN e.entity ELSE FirstOf[ws]
             names  == IF e.names # {} \/ named = {} THEN e.names
                       ELSE {NameOf[Head(DevelopersOf[FirstOf[named]])]}
             ids    == e.ids \cup UNION {DeveloperIds(v) : v \in ws}
  <2>4. entity \in Entities /\ names \in SUBSET Developers /\ ids \in SUBSET Producers
    BY <2>1, <2>2, <2>3 DEF SourceEvents
  <2>5. Mapped(e, ws) = [e EXCEPT !.entity = entity, !.names = names, !.ids = ids]
    BY DEF Mapped
  <2>6. Report(e, f, vs) = Mapped(e, ws) BY <1>1 DEF Report
  <2> HIDE DEF entity, names, ids, ws, named
  <2>7. /\ e = [source |-> e.source, entity |-> e.entity, type |-> e.type,
               date |-> e.date, title |-> e.title, tags |-> e.tags,
               names |-> e.names, ids |-> e.ids]
        /\ e.source \in {"vndb", "feed"} /\ e.type \in EventTypes
        /\ e.date \in Days \cup {NoDate} /\ e.title \in Titles \cup {None}
        /\ e.tags \in SUBSET Tags
    BY DEF SourceEvents
  <2>8. Mapped(e, ws) =
          [source |-> e.source, entity |-> entity, type |-> e.type,
           date |-> e.date, title |-> e.title, tags |-> e.tags,
           names |-> names, ids |-> ids]
    BY <2>5, <2>7
  <2> QED BY <2>4, <2>6, <2>7, <2>8 DEF SourceEvents
<1>2. CASE ~(f \in SteamApps /\ ws # {})
  BY <1>2 DEF Report
<1> QED BY <1>1, <1>2

\* What VNDB's answer adds to the configuration names developers and VNs.
LEMMA FollowTyped ==
  /\ NoFollow \in FollowType
  /\ \A c \in Configs, d, vs \in SUBSET VNs :
       [discovered |-> d, resolved |-> Resolved(c), linked |-> vs] \in FollowType
<1>1. NoFollow \in FollowType BY DEF NoFollow, FollowType
<1>2. ASSUME NEW c \in Configs PROVE Resolved(c) \in SUBSET Producers
  <2>1. c.developers \in SUBSET Developers
    BY EnvironmentAssumption DEF ValidConfig, ConfigType
  <2> QED BY <2>1, PipelineAssumption DEF Resolved
<1> QED BY <1>1, <1>2 DEF FollowType

\* A score is a natural number.
LEMMA ScoreIsNat ==
  ASSUME NEW e \in SourceEvents, NEW c \in ConfigType, NEW f
  PROVE  Score(e, c, f) \in Nat
<1>1. IsFiniteSet(e.tags \cap c.tags)
  BY ScoringAssumption, FS_Intersection, FS_Subset DEF SourceEvents
<1>2. Cardinality(e.tags \cap c.tags) \in Nat BY <1>1, FS_CardinalityType
<1>3. TypeWeight(e.type) \in Nat BY DEF TypeWeight
<1> QED BY <1>2, <1>3 DEF Score, FollowedVn, DiscoveredVn, FollowedDeveloper, PreferredTag

\* The verdict on a new event is its first status, PENDING, or a terminal one.
LEMMA VerdictRange ==
  ASSUME NEW e, NEW s, NEW c, NEW t
  PROVE  ChooseStatus(e, s, c, t) \in {"PENDING", "DIGEST", "SKIPPED"}
BY DEF ChooseStatus

---------------------------------------------------------------------------
(* Types and control: each step leaves every variable, and each local      *)
(* variable of the fetch process that its next step reads, a proper value. *)

\* The counters stay within their bounds and types.
LEMMA FaultTyped ==
  ASSUME faults \in 0..MaxFaults, Fault
  PROVE  faults' \in 0..MaxFaults
<1>1. MaxFaults \in Nat BY EnvironmentAssumption
<1> QED BY <1>1 DEF Fault

\* So do the sends that are lost.
LEMMA ForgetTyped ==
  ASSUME lost \in [Keys -> Nat], NEW ks, Forget(ks) \/ lost' = lost
  PROVE  lost' \in [Keys -> Nat]
BY DEF Forget

\* A status update writes well-typed rows.
LEMMA StatusTyped ==
  ASSUME status \in [Keys -> Statuses \cup {"ABSENT"}],
         NEW ks, NEW s \in Statuses, SetStatus(ks, s)
  PROVE  status' \in [Keys -> Statuses \cup {"ABSENT"}]
BY DEF SetStatus

\* So does a corroboration.
LEMMA CorroboratingTyped ==
  ASSUME corroborating \in [Keys -> SUBSET Keys],
         NEW j \in Keys, NEW ks \in SUBSET Keys, SetCorroborating(j, ks)
  PROVE  corroborating' \in [Keys -> SUBSET Keys]
BY DEF SetCorroborating

\* Each step of the fetch process leaves every variable well typed, and its own
\* local variables ready for its next step.
LEMMA FetchTyped ==
  ASSUME EnvTypeOK, StoreTypeOK, FetchTypeOK, ControlInv, FetchNext,
         pc \in {"duplicate", "corroborate"} => rec \in Stored
  PROVE  EnvTypeOK' /\ StoreTypeOK' /\ FetchTypeOK' /\ ControlInv'
<1> USE DEF EnvTypeOK, StoreTypeOK, FetchTypeOK,
            ControlInv, EventSteps, ItemSteps, PCs,
            storeVars, eventsTable, envVars, sourceVars, chatVars,
            runVars, workVars, itemVars, NothingSighted, NothingFetched,
            Goto, NoItem, Exit, NextItem, NextAdapter, EndGroup
<1>1. CASE StartFetch
  <2>1. FetchTypeOK' BY <1>1, PipelineAssumption DEF StartFetch, Vndb
  <2>2. EnvTypeOK' /\ StoreTypeOK' BY <1>1, PipelineAssumption DEF StartFetch, Vndb
  <2>3. ControlInv' BY <1>1, PipelineAssumption DEF StartFetch, Vndb
  <2> QED BY <2>1, <2>2, <2>3
<1>2. CASE FetchDone
  <2>1. FetchTypeOK' BY <1>2, FollowTyped DEF FetchDone
  <2>2. EnvTypeOK' /\ StoreTypeOK' BY <1>2 DEF FetchDone
  <2>3. ControlInv' BY <1>2 DEF FetchDone
  <2> QED BY <2>1, <2>2, <2>3
<1>3. CASE FetchFails
  <2>4. follow' \in FollowType
    <3>1. cfg \in Configs BY <1>3 DEF FetchFails
    <3>2. Linking \in SUBSET VNs /\ Discoverable \in SUBSET VNs
      BY PipelineAssumption DEF Linking
    <3>3. CASE follow' = follow BY <3>3
    <3>4. CASE follow' \in [discovered : SUBSET Discoverable,
                            resolved : {Resolved(cfg)}, linked : SUBSET Linking]
      <4>1. PICK d \in SUBSET VNs, vs \in SUBSET VNs :
              follow' = [discovered |-> d, resolved |-> Resolved(cfg), linked |-> vs]
        BY <3>2, <3>4
      <4> QED BY <3>1, <4>1, FollowTyped
    <3> QED BY <1>3, <3>3, <3>4 DEF FetchFails
  <2>1. FetchTypeOK' BY <1>3, <2>4 DEF FetchFails
  <2>2. EnvTypeOK' /\ StoreTypeOK' BY <1>3, PipelineAssumption DEF FetchFails
  <2>3. ControlInv' BY <1>3, PipelineAssumption DEF FetchFails
  <2> QED BY <2>1, <2>2, <2>3
<1>4. ASSUME NEW shown \in SUBSET VNs, FetchVndb(shown)
      PROVE  EnvTypeOK' /\ StoreTypeOK' /\ FetchTypeOK' /\ ControlInv'
  <2>1. \A v \in shown : Sighting(vnDate[v], today) \in Sightings
    BY SightingIsSnapshot
  <2>2. sighted' \in [VNs -> Snapshots \cup {None}]
    BY <1>4, <2>1 DEF FetchVndb, Sightings
  <2>3. \A v \in queue' : v \in VNs /\ sighted'[v] \in Sightings
    BY <1>4, <2>1 DEF FetchVndb
  <2>7. follow' \in FollowType
    <3>1. cfg \in Configs BY <1>4 DEF FetchVndb
    <3>2. PICK d \in SUBSET VNs, vs \in SUBSET VNs :
            follow' = [discovered |-> d, resolved |-> Resolved(cfg), linked |-> vs]
      BY <1>4 DEF FetchVndb
    <3> QED BY <3>1, <3>2, FollowTyped
  <2>4. FetchTypeOK' BY <1>4, <2>2, <2>7 DEF FetchVndb
  <2>6. EnvTypeOK' /\ StoreTypeOK' BY <1>4 DEF FetchVndb
  <2>5. ControlInv'
    <3>1. /\ pc' \in {"vns", "vndb_baseline"} /\ todo' = todo /\ todo # <<>>
          /\ cfg' = cfg /\ cfg \in Configs /\ item' = None
      BY <1>4 DEF FetchVndb
    <3> HIDE DEF EnvTypeOK, StoreTypeOK, FetchTypeOK
    <3> QED BY <2>3, <3>1
  <2> QED BY <2>4, <2>5, <2>6
<1>5. ASSUME NEW ok \in SUBSET Feeds, NEW some \in SUBSET FeedItems, FetchFeeds(ok, some)
      PROVE  EnvTypeOK' /\ StoreTypeOK' /\ FetchTypeOK' /\ ControlInv'
  <2>6. follow.linked \in SUBSET VNs BY DEF FollowType
  <2>7. \A i \in FeedItems : listing[i] \in SourceEvents
          => Report(listing[i], FeedOf[i], follow.linked) \in SourceEvents
    BY <2>6, ReportTyped
  <2>1. fetched' \in [FeedItems -> SourceEvents \cup {None}]
    BY <1>5, <2>7 DEF FetchFeeds
  <2>2. groups' \subseteq Feeds
    <3>1. groups' = {FeedOf[i] : i \in {j \in FeedItems : fetched'[j] # None}}
      BY <1>5 DEF FetchFeeds
    <3> HIDE DEF FetchTypeOK, ControlInv, EnvTypeOK, StoreTypeOK
    <3> QED BY <3>1, PipelineAssumption
  <2>3. /\ pc = "fetch" /\ pc' = "groups" /\ todo # <<>>
        /\ UNCHANGED <<runVars, todo, sighted, feed, queue, itemVars, baselined,
                       storeVars, envVars>>
    BY <1>5 DEF FetchFeeds
  <2>4. EnvTypeOK' /\ StoreTypeOK' /\ FetchTypeOK' BY <2>1, <2>2, <2>3
  <2>5. ControlInv' BY <2>3
  <2> QED BY <2>4, <2>5
<1>6. ASSUME NEW v \in VNs, SaveBaselineSnapshot(v)
      PROVE  EnvTypeOK' /\ StoreTypeOK' /\ FetchTypeOK' /\ ControlInv'
  BY <1>6 DEF SaveBaselineSnapshot, SaveSnapshot, Sightings
<1>7. ASSUME NEW v \in VNs, ObserveVn(v)
      PROVE  EnvTypeOK' /\ StoreTypeOK' /\ FetchTypeOK' /\ ControlInv'
  <2>1. sighted[v] \in Sightings BY <1>7 DEF ObserveVn
  <2>2. CASE ChangeType(snapshots[v], sighted[v]) = None
    BY <1>7, <2>1, <2>2 DEF ObserveVn
  <2>3. CASE ChangeType(snapshots[v], sighted[v]) # None
    <3>1. snapshots[v] \in Snapshots \cup {None} BY <1>7
    <3>2. key' \in Keys /\ event' \in SourceEvents
      BY <1>7, <2>1, <2>3, <3>1, ChangeKeyIsKey, ChangeEventIsEvent DEF ObserveVn
    <3> QED BY <1>7, <2>1, <2>3, <3>2 DEF ObserveVn
  <2> QED BY <2>2, <2>3
<1>8. CASE FinishVndbBaseline
  <2>1. FetchTypeOK' BY <1>8, PipelineAssumption DEF FinishVndbBaseline, MarkBaseline
  <2>2. EnvTypeOK' /\ StoreTypeOK' BY <1>8, PipelineAssumption, SMTT(20)
    DEF FinishVndbBaseline, MarkBaseline
  <2>3. ControlInv' BY <1>8, PipelineAssumption, SMTT(20) DEF FinishVndbBaseline, MarkBaseline
  <2> QED BY <2>1, <2>2, <2>3
<1>9. CASE VnsDone
  <2>1. FetchTypeOK' BY <1>9 DEF VnsDone
  <2>2. EnvTypeOK' /\ StoreTypeOK' BY <1>9 DEF VnsDone
  <2>3. ControlInv' BY <1>9 DEF VnsDone
  <2> QED BY <2>1, <2>2, <2>3
<1>10. ASSUME NEW f \in Feeds, NextGroup(f)
       PROVE  EnvTypeOK' /\ StoreTypeOK' /\ FetchTypeOK' /\ ControlInv'
  <2>1. FetchTypeOK' BY <1>10, PipelineAssumption DEF NextGroup
  <2>2. EnvTypeOK' /\ StoreTypeOK' BY <1>10, PipelineAssumption DEF NextGroup
  <2>3. ControlInv' BY <1>10, PipelineAssumption DEF NextGroup
  <2> QED BY <2>1, <2>2, <2>3
<1>11. CASE GroupsDone
  <2>1. FetchTypeOK' BY <1>11 DEF GroupsDone
  <2>2. EnvTypeOK' /\ StoreTypeOK' BY <1>11 DEF GroupsDone
  <2>3. ControlInv' BY <1>11 DEF GroupsDone
  <2> QED BY <2>1, <2>2, <2>3
<1>12. ASSUME NEW i \in FeedItems, MarkBaselineItem(i)
       PROVE  EnvTypeOK' /\ StoreTypeOK' /\ FetchTypeOK' /\ ControlInv'
  <2>1. FetchTypeOK' BY <1>12 DEF MarkBaselineItem, MarkSeen
  <2>2. EnvTypeOK' /\ StoreTypeOK' BY <1>12 DEF MarkBaselineItem, MarkSeen
  <2>3. ControlInv' BY <1>12 DEF MarkBaselineItem, MarkSeen
  <2> QED BY <2>1, <2>2, <2>3
<1>13. CASE FinishFeedBaseline
  <2>1. FetchTypeOK' BY <1>13, PipelineAssumption DEF FinishFeedBaseline, MarkBaseline
  <2>2. EnvTypeOK' /\ StoreTypeOK' BY <1>13, PipelineAssumption, SMTT(20)
    DEF FinishFeedBaseline, MarkBaseline
  <2>3. ControlInv' BY <1>13, PipelineAssumption DEF FinishFeedBaseline, MarkBaseline
  <2> QED BY <2>1, <2>2, <2>3
<1>14. CASE GroupDone
  <2>1. FetchTypeOK' BY <1>14 DEF GroupDone
  <2>2. EnvTypeOK' /\ StoreTypeOK' BY <1>14 DEF GroupDone
  <2>3. ControlInv' BY <1>14 DEF GroupDone
  <2> QED BY <2>1, <2>2, <2>3
<1>15. ASSUME NEW i \in FeedItems, SkipItem(i)
       PROVE  EnvTypeOK' /\ StoreTypeOK' /\ FetchTypeOK' /\ ControlInv'
  <2>1. FetchTypeOK' BY <1>15 DEF SkipItem
  <2>2. EnvTypeOK' /\ StoreTypeOK' BY <1>15 DEF SkipItem
  <2>3. ControlInv' BY <1>15 DEF SkipItem
  <2> QED BY <2>1, <2>2, <2>3
<1>16. ASSUME NEW i \in FeedItems, TakeItem(i)
       PROVE  EnvTypeOK' /\ StoreTypeOK' /\ FetchTypeOK' /\ ControlInv'
  <2>1. key' \in Keys /\ event' \in SourceEvents BY <1>16 DEF TakeItem, Keys
  <2> QED BY <1>16, <2>1 DEF TakeItem
<1>17. ASSUME NEW j \in Keys, FindDuplicate(j)
       PROVE  EnvTypeOK' /\ StoreTypeOK' /\ FetchTypeOK' /\ ControlInv'
  <2>1. read' \in Statuses BY <1>17 DEF FindDuplicate, FindEquivalent, Stored
  <2>2. FetchTypeOK' BY <1>17, <2>1 DEF FindDuplicate
  <2>3. EnvTypeOK' /\ StoreTypeOK' BY <1>17 DEF FindDuplicate
  <2>4. ControlInv' BY <1>17 DEF FindDuplicate
  <2> QED BY <2>2, <2>3, <2>4
<1>18. CASE FindNone
  <2>1. FetchTypeOK' BY <1>18 DEF FindNone
  <2>2. EnvTypeOK' /\ StoreTypeOK' BY <1>18 DEF FindNone
  <2>3. ControlInv' BY <1>18 DEF FindNone
  <2> QED BY <2>1, <2>2, <2>3
<1>19. CASE SameReport \/ ReadCorroborations
  <2>1. known' \subseteq Keys
    BY <1>19 DEF SameReport, ReadCorroborations, Stored
  <2>2. pc' \in {"deliver", "recheck", "corroborate"}
    BY <1>19 DEF SameReport, ReadCorroborations, AfterDuplicate
  <2> QED BY <1>19, <2>1, <2>2 DEF SameReport, ReadCorroborations
<1>31. CASE Corroborate
  <2>1. rec \in Keys /\ known \cup {key} \in SUBSET Keys
    BY <1>31 DEF Corroborate, Stored
  <2>2. corroborating' \in [Keys -> SUBSET Keys]
    BY <1>31, <2>1, CorroboratingTyped DEF Corroborate
  <2>3. pc' \in {"deliver", "recheck"} BY <1>31 DEF Corroborate, AfterDuplicate
  <2> QED BY <1>31, <2>2, <2>3 DEF Corroborate
<1>32. CASE AddRefused
  <2>1. FetchTypeOK' BY <1>32 DEF AddRefused
  <2>2. EnvTypeOK' /\ StoreTypeOK' BY <1>32 DEF AddRefused
  <2>3. ControlInv' BY <1>32 DEF AddRefused
  <2> QED BY <2>1, <2>2, <2>3
<1>20. CASE AddEvent
  BY <1>20, EnvironmentAssumption, ScoreIsNat
     DEF AddEvent, Add, Statuses, ValidConfig
<1>21. CASE Choose
  <2> DEFINE verdict == ChooseStatus(event, score[rec], cfg, today)
  <2>0. verdict \in Statuses /\ (status' = status \/ SetStatus({rec}, verdict))
    BY <1>21, VerdictRange DEF Choose, Statuses
  <2>1. status' \in [Keys -> Statuses \cup {"ABSENT"}]
    BY <2>0, StatusTyped
  <2>2. pc' \in {"deliver", "ack"} BY <1>21 DEF Choose
  <2>3. FetchTypeOK' BY <1>21, <2>2 DEF Choose
  <2>5. EnvTypeOK' /\ StoreTypeOK' BY <1>21, <2>1 DEF Choose
  <2>4. ControlInv' BY <1>21, <2>2 DEF Choose
  <2> QED BY <2>3, <2>4, <2>5
<1>22. CASE DeliverConfirmed
  <2>1. FetchTypeOK' BY <1>22 DEF DeliverConfirmed, Reach
  <2>2. EnvTypeOK' /\ StoreTypeOK'
    <3>1. copies' \in [Keys -> Nat] BY <1>22 DEF DeliverConfirmed, Reach
    <3>2. UNCHANGED <<storeVars, sourceVars, lost, faults>> BY <1>22 DEF DeliverConfirmed
    <3> QED BY <3>1, <3>2
  <2>3. ControlInv' BY <1>22 DEF DeliverConfirmed, Reach
  <2> QED BY <2>1, <2>2, <2>3
<1>23. CASE DeliverRefused
  <2>1. FetchTypeOK' BY <1>23 DEF DeliverRefused
  <2>2. EnvTypeOK' /\ StoreTypeOK' BY <1>23 DEF DeliverRefused
  <2>3. ControlInv' BY <1>23 DEF DeliverRefused
  <2> QED BY <2>1, <2>2, <2>3
<1>24. CASE DeliverUnconfirmed
  <2>1. copies' \in [Keys -> Nat] /\ lost' \in [Keys -> Nat]
    BY <1>24 DEF DeliverUnconfirmed, Reach, Forget
  <2>2. faults' \in 0..MaxFaults
    BY <1>24, FaultTyped DEF DeliverUnconfirmed
  <2>3. FetchTypeOK' BY <1>24 DEF DeliverUnconfirmed
  <2>5. EnvTypeOK' /\ StoreTypeOK' BY <1>24, <2>1, <2>2 DEF DeliverUnconfirmed
  <2>4. ControlInv' BY <1>24 DEF DeliverUnconfirmed
  <2> QED BY <2>3, <2>4, <2>5
<1>25. CASE MarkSent
  <2>1. FetchTypeOK' BY <1>25 DEF MarkSent, SetStatus, Statuses
  <2>2. EnvTypeOK' /\ StoreTypeOK' BY <1>25 DEF MarkSent, SetStatus, Statuses
  <2>3. ControlInv' BY <1>25 DEF MarkSent, SetStatus, Statuses
  <2> QED BY <2>1, <2>2, <2>3
<1>26. CASE MarkFailed
  <2>1. FetchTypeOK' BY <1>26 DEF MarkFailed, SetStatus, Statuses
  <2>2. EnvTypeOK' /\ StoreTypeOK' BY <1>26 DEF MarkFailed, SetStatus, Statuses
  <2>3. ControlInv' BY <1>26 DEF MarkFailed, SetStatus, Statuses
  <2> QED BY <2>1, <2>2, <2>3
<1>27. CASE Recheck
  <2>1. CASE status[rec] \in TerminalStatuses
    <3>1. FetchTypeOK' BY <1>27, <2>1 DEF Recheck
    <3>2. EnvTypeOK' /\ StoreTypeOK' BY <1>27, <2>1 DEF Recheck
    <3>3. ControlInv' BY <1>27, <2>1 DEF Recheck
    <3> QED BY <3>1, <3>2, <3>3
  <2>2. CASE status[rec] \notin TerminalStatuses
    <3>1. FetchTypeOK' BY <1>27, <2>2 DEF Recheck
    <3>2. EnvTypeOK' /\ StoreTypeOK' BY <1>27, <2>2 DEF Recheck
    <3>3. ControlInv' BY <1>27, <2>2 DEF Recheck
    <3> QED BY <3>1, <3>2, <3>3
  <2> QED BY <2>1, <2>2
<1>28. CASE Ack
  <2>1. FetchTypeOK' BY <1>28 DEF Ack, MarkSeen, SaveSnapshot, Sightings
  <2>2. EnvTypeOK' /\ StoreTypeOK'
    <3>1. item \in VNs \cup FeedItems BY <1>28 DEF Ack
    <3>2. snapshots' \in [VNs -> Snapshots \cup {None}]
      BY <1>28, <3>1 DEF Ack, SaveSnapshot, Sightings
    <3>3. seen' \subseteq FeedItems BY <1>28, <3>1 DEF Ack, MarkSeen
    <3>4. EnvTypeOK' BY <1>28 DEF Ack
    <3>5. UNCHANGED <<eventsTable, baselines>> BY <1>28 DEF Ack
    <3> QED BY <3>2, <3>3, <3>4, <3>5
  <2>3. ControlInv'
    <3>1. /\ pc' = IF item \in VNs THEN "vns" ELSE "items"
          /\ item' = None /\ UNCHANGED <<runVars, workVars>>
      BY <1>28 DEF Ack
    <3>2. /\ item \in VNs \cup FeedItems /\ todo # <<>> /\ cfg \in Configs
          /\ item \in FeedItems => feed \in Feeds
      BY <1>28 DEF Ack
    <3> HIDE DEF EnvTypeOK, StoreTypeOK, FetchTypeOK
    <3> QED BY <3>1, <3>2
  <2> QED BY <2>1, <2>2, <2>3
<1>29. CASE StoreError
  <2>1. lost' \in [Keys -> Nat] /\ faults' \in 0..MaxFaults
    BY <1>29, FaultTyped, ForgetTyped DEF StoreError, ForgetUnmarked
  <2>2. CASE pc \in {"vndb_baseline", "groups", "items"} /\ NextAdapter
    <3>1. FetchTypeOK' BY <1>29, <2>1, <2>2 DEF StoreError
    <3>2. EnvTypeOK' /\ StoreTypeOK' BY <1>29, <2>1, <2>2 DEF StoreError
    <3>3. ControlInv' BY <1>29, <2>1, <2>2 DEF StoreError
    <3> QED BY <3>1, <3>2, <3>3
  <2>3. CASE pc = "feed_baseline" /\ EndGroup
    <3>1. FetchTypeOK' BY <1>29, <2>1, <2>3 DEF StoreError
    <3>2. EnvTypeOK' /\ StoreTypeOK' BY <1>29, <2>1, <2>3 DEF StoreError
    <3>3. ControlInv' BY <1>29, <2>1, <2>3 DEF StoreError
    <3> QED BY <3>1, <3>2, <3>3
  <2>4. CASE /\ pc = "vns" /\ \E v \in queue : queue' = queue \ {v}
             /\ UNCHANGED <<pc, runVars, todo, sighted, fetched, groups, feed, itemVars>>
    <3>1. queue' \subseteq queue BY <2>4
    <3>2. FetchTypeOK' BY <1>29, <2>4, <3>1 DEF StoreError
    <3>3. EnvTypeOK' /\ StoreTypeOK' BY <1>29, <2>1, <2>4 DEF StoreError
    <3>4. ControlInv' BY <1>29, <2>4, <3>1 DEF StoreError
    <3> QED BY <3>2, <3>3, <3>4
  <2>5. CASE pc \in ItemSteps /\ NextItem
    <3>1. FetchTypeOK' BY <1>29, <2>1, <2>5 DEF StoreError
    <3>2. EnvTypeOK' /\ StoreTypeOK' BY <1>29, <2>1, <2>5 DEF StoreError
    <3>3. ControlInv' BY <1>29, <2>1, <2>5 DEF StoreError
    <3> QED BY <3>1, <3>2, <3>3
  <2> QED BY <1>29, <2>2, <2>3, <2>4, <2>5 DEF StoreError
<1>30. CASE Crash
  <2>1. lost' \in [Keys -> Nat] /\ faults' \in 0..MaxFaults
    BY <1>30, FaultTyped, ForgetTyped DEF Crash, ForgetUnmarked
  <2>2. FetchTypeOK' BY <1>30, FollowTyped DEF Crash
  <2>3. EnvTypeOK' /\ StoreTypeOK' BY <1>30, <2>1 DEF Crash
  <2>4. ControlInv' BY <1>30 DEF Crash
  <2> QED BY <2>2, <2>3, <2>4
<1> QED
  BY <1>1, <1>2, <1>3, <1>4, <1>5, <1>6, <1>7, <1>8, <1>9, <1>10, <1>11, <1>12,
     <1>13, <1>14, <1>15, <1>16, <1>17, <1>18, <1>19, <1>20, <1>21, <1>22, <1>23,
     <1>24, <1>25, <1>26, <1>27, <1>28, <1>29, <1>30, <1>31, <1>32
     DEF FetchNext, FetchStep

\* A change of the sources touches neither process nor the chat.
LEMMA EnvFrame ==
  ASSUME EnvNext
  PROVE  UNCHANGED <<copies, lost, faults>>
BY DEF EnvNext, Publish, Drop, Reschedule, Tick, EditConfig, chatVars

\* The changes of the sources stay within their bound.
LEMMA ChangeTyped ==
  ASSUME changes \in 0..MaxChanges, Change
  PROVE  changes' \in 0..MaxChanges
<1>1. MaxChanges \in Nat BY EnvironmentAssumption
<1> QED BY <1>1 DEF Change

\* So does each change of the sources, the calendar or the configuration.
LEMMA EnvTyped ==
  ASSUME EnvTypeOK, EnvNext
  PROVE  EnvTypeOK'
<1> USE DEF EnvTypeOK
<1>1. ASSUME NEW i \in FeedItems, Publish(i)
      PROVE  EnvTypeOK'
  <2>1. ItemEvents[i] \subseteq SourceEvents BY EnvironmentAssumption
  <2> QED BY <1>1, <2>1, ChangeTyped DEF Publish, chatVars
<1>2. ASSUME NEW i \in FeedItems, Drop(i)
      PROVE  EnvTypeOK'
  BY <1>2, ChangeTyped DEF Drop, chatVars
<1>3. ASSUME NEW v \in VNs, Reschedule(v)
      PROVE  EnvTypeOK'
  BY <1>3, ChangeTyped DEF Reschedule, chatVars
<1>4. CASE Tick
  BY <1>4 DEF Tick, chatVars
<1>5. CASE EditConfig
  BY <1>5, ChangeTyped DEF EditConfig, chatVars
<1> QED BY <1>1, <1>2, <1>3, <1>4, <1>5 DEF EnvNext

---------------------------------------------------------------------------
(* Rely and guarantee: what one process owes to the others and what it     *)
(* relies on (see FetchReliance).                                          *)

\* What the process knows survives whatever keeps the guarantee.
LEMMA LocalKept ==
  ASSUME SharedInv, LocalInv, Guarantee, EnvTypeOK',
         UNCHANGED <<pc, runVars, workVars, itemVars>>
  PROVE  LocalInv'
<1> USE DEF LocalInv, SharedInv, Guarantee, runVars, workVars, itemVars
<1>1. FetchTypeOK' /\ ControlInv' BY DEF FetchTypeOK, ControlInv
<1>2. \A k \in Stored : k \in Keys /\ k \in Stored' BY DEF Stored
<1>3. \A k \in Stored, i \in FeedItems : About(k, i) => About(k, i)'
  BY DEF About, Identity
<1>4. \A k \in Stored : Important(k) => Important(k)' BY DEF Important
<1>5. pc = "choose" => rec \in Stored /\ about'[rec] = event
  BY DEF RowSteps, EventSteps
<1>6. pc \in SendSteps => rec \in Stored BY DEF RowSteps, EventSteps, SendSteps
<1>7. pc = "mark_sent" => copies'[rec] > 0
  BY <1>2, <1>6 DEF SendSteps, EnvTypeOK
<1> QED BY <1>1, <1>2, <1>3, <1>4, <1>5, <1>6, <1>7

\* Seen items stay told when rows keep what tells them.
LEMMA ToldKept ==
  ASSUME SeenIsTold, Guarantee, seen' \ baselined' \subseteq seen \ baselined
  PROVE  SeenIsTold'
<1>1. \A k \in Stored, i \in FeedItems \cup seen : About(k, i) => About(k, i)'
  BY DEF Guarantee, About, Identity
<1> QED BY <1>1 DEF SeenIsTold, Guarantee

\* A step that leaves the rows, the chat and the seen items alone keeps all.
LEMMA QuietShared ==
  ASSUME SharedInv, EnvTypeOK', StoreTypeOK', baselined' \subseteq FeedItems,
         UNCHANGED <<status, about, score, copies, listing>>,
         seen' \ baselined' \subseteq seen \ baselined
  PROVE  SharedInv' /\ Guarantee /\ UNCHANGED Stored
<1> USE DEF SharedInv
<1>1. UNCHANGED Stored BY DEF Stored
<1>2. \A k \in Keys : /\ Important(k)' = Important(k) /\ Disputed(k)' = Disputed(k)
                      /\ Accounted(k)' = Accounted(k)
  BY DEF Important, Disputed, Accounted
<1>3. Guarantee BY <1>1, <1>2 DEF Guarantee, Stored, EnvTypeOK
<1>4. SeenIsTold' BY <1>3, ToldKept
<1> QED BY <1>1, <1>2, <1>3, <1>4

\* A status is written over another by a process that knows what it is about.
LEMMA StatusShared ==
  ASSUME SharedInv, EnvTypeOK', StoreTypeOK', baselined' \subseteq FeedItems,
         UNCHANGED <<about, score, copies, listing, seen, baselined>>,
         rec \in Stored, NEW s \in Statuses, SetStatus({rec}, s),
         s = "SENT" => copies[rec] > 0,
         s \in {"DIGEST", "SKIPPED"} /\ Important(rec) => Disputed(rec),
         s \in {"PENDING", "FAILED"} => Important(rec)
  PROVE  SharedInv' /\ Guarantee /\ status'[rec] = s
<1> USE DEF SharedInv
<1>1. rec \in Keys /\ status'[rec] = s BY DEF SetStatus, Stored
<1>2. \A k \in Keys \ {rec} : status'[k] = status[k] BY DEF SetStatus
<1>3. UNCHANGED Stored BY <1>1, <1>2 DEF Stored, Statuses
<1>4. \A k \in Keys : Important(k)' = Important(k) /\ Disputed(k)' = Disputed(k)
  BY DEF Important, Disputed
<1>5. ASSUME NEW k \in Keys, Accounted(k) PROVE Accounted(k)'
  <2>1. CASE k # rec BY <1>2, <1>4, <1>5, <2>1 DEF Accounted
  <2>2. CASE k = rec /\ s \in TerminalStatuses BY <1>1, <2>2 DEF Accounted
  <2>3. CASE k = rec /\ s \in {"PENDING", "FAILED"}
    <3>1. status[k] \in TerminalStatuses => copies[k] > 0 \/ Disputed(k)
      BY <2>3 DEF TerminalStatuses
    <3> QED BY <1>4, <1>5, <3>1 DEF Accounted
  <2> QED BY <2>1, <2>2, <2>3 DEF Statuses, TerminalStatuses
<1>6. Guarantee BY <1>3, <1>5 DEF Guarantee, Stored, EnvTypeOK
<1>7. SeenIsTold' BY <1>6, ToldKept
<1> QED BY <1>1, <1>2, <1>3, <1>4, <1>6, <1>7

\* Between two items the process relies on what it fetched only.
LEMMA BetweenItems ==
  ASSUME FetchTypeOK', ControlInv', pc' \notin ItemSteps,
         \A i \in FeedItems : fetched'[i] \in Reports(i) \cup {None}
  PROVE  LocalInv'
BY EventsAssumption DEF LocalInv, ItemSteps, EventSteps, RowSteps, SendSteps

\* The row the process found is about the item it handles.
LEMMA FoundIsAbout ==
  ASSUME SharedInv, LocalInv, pc \in EventSteps, item \in FeedItems,
         NEW j \in FindEquivalent(key, event)
  PROVE  About(j, item)
<1>1. j \in Stored /\ (j = item \/ Identity(about[j]) = Identity(event))
  BY DEF FindEquivalent, LocalInv, ControlInv
<1>2. event \in Reports(item) BY DEF LocalInv
<1>3. j = item => about[j] \in Reports(item) BY <1>1 DEF SharedInv
<1> QED BY <1>1, <1>2, <1>3 DEF About

\* Whatever the other processes do, each step of the process keeps what all
\* of them share, what it relies on itself, and what it owes.
LEMMA FetchRely ==
  ASSUME SharedInv, LocalInv, FetchNext
  PROVE  SharedInv' /\ LocalInv' /\ Guarantee
<1> USE DEF Goto
<1>1. /\ EnvTypeOK' /\ StoreTypeOK' /\ FetchTypeOK' /\ ControlInv'
      /\ baselined' \subseteq FeedItems
  <2>1. EnvTypeOK' /\ StoreTypeOK' /\ FetchTypeOK' /\ ControlInv'
    BY FetchTyped DEF SharedInv, LocalInv, RowSteps, EventSteps
  <2> QED BY <2>1 DEF FetchTypeOK
<1> DEFINE Fetched == \A i \in FeedItems : fetched[i] \in Reports(i) \cup {None}
           Quiet   == UNCHANGED <<status, about, score, copies, listing, seen, baselined>>
<1>2. Fetched BY DEF LocalInv
<1>3. ASSUME Quiet PROVE SharedInv' /\ Guarantee /\ UNCHANGED Stored
  BY <1>1, <1>3, QuietShared
<1>4. ASSUME Fetched', pc' \notin ItemSteps PROVE LocalInv'
  BY <1>1, <1>4, BetweenItems
<1>5. ASSUME Quiet, Fetched', pc' \notin ItemSteps
      PROVE  SharedInv' /\ LocalInv' /\ Guarantee
  BY <1>3, <1>4, <1>5
<1> HIDE DEF Fetched
<1>6. CASE StartFetch \/ FetchDone \/ FetchFails \/ FinishVndbBaseline \/ VnsDone
           \/ GroupsDone \/ FinishFeedBaseline \/ GroupDone
  <2>1. Quiet
    BY <1>6 DEF StartFetch, FetchDone, FetchFails, FinishVndbBaseline, VnsDone,
       GroupsDone, FinishFeedBaseline, GroupDone, storeVars, eventsTable, envVars
  <2>2. pc' \notin ItemSteps
    BY <1>6 DEF StartFetch, FetchDone, FetchFails, FinishVndbBaseline, VnsDone,
       GroupsDone, FinishFeedBaseline, GroupDone, Exit, NextAdapter, EndGroup,
       ItemSteps, EventSteps
  <2>3. fetched' \in {fetched, NothingFetched}
    BY <1>6 DEF StartFetch, FetchDone, FetchFails, FinishVndbBaseline, VnsDone,
       GroupsDone, FinishFeedBaseline, GroupDone, Exit, NextAdapter, EndGroup
  <2>4. Fetched' BY <1>2, <2>3 DEF Fetched, NothingFetched
  <2> QED BY <1>5, <2>1, <2>2, <2>4
<1>7. ASSUME NEW shown \in SUBSET VNs, FetchVndb(shown)
      PROVE  SharedInv' /\ LocalInv' /\ Guarantee
  BY <1>2, <1>5, <1>7 DEF FetchVndb, Fetched, storeVars, envVars, ItemSteps, EventSteps
<1>8. ASSUME NEW ok \in SUBSET Feeds, NEW some \in SUBSET FeedItems, FetchFeeds(ok, some)
      PROVE  SharedInv' /\ LocalInv' /\ Guarantee
  <2>1. \A i \in FeedItems :
          fetched'[i] # None =>
            listing[i] # None /\ fetched'[i] = Report(listing[i], FeedOf[i], follow.linked)
    BY <1>8 DEF FetchFeeds
  <2>2. follow.linked \in SUBSET VNs BY DEF LocalInv, FetchTypeOK, FollowType
  <2>3. \A i \in FeedItems : listing[i] # None => Report(listing[i], FeedOf[i], follow.linked) \in Reports(i)
    BY <2>2 DEF SharedInv, Reports
  <2>4. Fetched' BY <2>1, <2>3 DEF Fetched
  <2> QED BY <1>5, <1>8, <2>4 DEF FetchFeeds, storeVars, envVars, ItemSteps, EventSteps
<1>9. ASSUME NEW v \in VNs, SaveBaselineSnapshot(v)
      PROVE  SharedInv' /\ LocalInv' /\ Guarantee
  BY <1>2, <1>5, <1>9
     DEF SaveBaselineSnapshot, Fetched, eventsTable, envVars, ItemSteps, EventSteps
<1>10. ASSUME NEW f \in Feeds, NextGroup(f)
       PROVE  SharedInv' /\ LocalInv' /\ Guarantee
  BY <1>2, <1>5, <1>10 DEF NextGroup, Fetched, storeVars, envVars, ItemSteps, EventSteps
<1>11. ASSUME NEW i \in FeedItems, SkipItem(i)
       PROVE  SharedInv' /\ LocalInv' /\ Guarantee
  BY <1>2, <1>5, <1>11 DEF SkipItem, Fetched, storeVars, envVars, ItemSteps, EventSteps
<1>12. ASSUME NEW i \in FeedItems, MarkBaselineItem(i)
       PROVE  SharedInv' /\ LocalInv' /\ Guarantee
  <2>1. /\ UNCHANGED <<status, about, score, copies, listing>>
        /\ seen' \ baselined' \subseteq seen \ baselined
        /\ fetched' = fetched /\ pc' \notin ItemSteps
    BY <1>12 DEF MarkBaselineItem, MarkSeen, eventsTable, envVars, ItemSteps, EventSteps
  <2> QED BY <1>1, <1>2, <1>4, <2>1, QuietShared DEF Fetched
<1>13. CASE StoreError \/ Crash
  <2>1. Quiet /\ fetched' \in {fetched, NothingFetched}
    BY <1>13 DEF StoreError, Crash, Exit, NextAdapter, NextItem, EndGroup, workVars,
                 storeVars, sourceVars, eventsTable
  <2>2. pc' \notin ItemSteps
    BY <1>13 DEF StoreError, Crash, Exit, NextAdapter, NextItem, EndGroup,
                 ItemSteps, EventSteps
  <2>3. Fetched' BY <1>2, <2>1 DEF Fetched, NothingFetched
  <2> QED BY <1>5, <2>1, <2>2, <2>3
<1>14. CASE AddRefused
  <2>1. Quiet /\ fetched' = fetched /\ pc' \notin ItemSteps
    BY <1>14 DEF AddRefused, NextItem, workVars, storeVars, envVars, eventsTable,
                 ItemSteps, EventSteps
  <2> QED BY <1>2, <1>5, <2>1 DEF Fetched
<1>15. ASSUME NEW v \in VNs, ObserveVn(v)
       PROVE  SharedInv' /\ LocalInv' /\ Guarantee
  <2>1. Quiet /\ fetched' = fetched /\ item' = v /\ pc' \in {"find", "ack"}
    BY <1>15 DEF ObserveVn, storeVars, envVars
  <2>2. item' \notin FeedItems BY <2>1
  <2>3. pc' = "find" => key' \in TransitionKeys
    <3>1. snapshots[v] \in Snapshots \cup {None} BY DEF SharedInv, StoreTypeOK
    <3>2. sighted[v] \in Sightings BY <1>15 DEF ObserveVn, LocalInv, ControlInv
    <3> QED BY <1>15, <3>1, <3>2, ChangeKeyIsTransition DEF ObserveVn
  <2>4. LocalInv'
    BY <1>1, <1>2, <2>1, <2>2, <2>3
       DEF LocalInv, Fetched, EventSteps, RowSteps, SendSteps
  <2> QED BY <1>3, <2>1, <2>4
<1>16. ASSUME NEW i \in FeedItems, TakeItem(i)
       PROVE  SharedInv' /\ LocalInv' /\ Guarantee
  <2>1. /\ Quiet /\ fetched' = fetched /\ item' = i /\ pc' = "find"
        /\ pc = "items" /\ i \in queue /\ event' = fetched[i]
    BY <1>16 DEF TakeItem, storeVars, envVars
  <2>2. event' \in Reports(i) BY <1>2, <2>1 DEF LocalInv, ControlInv, Fetched
  <2>3. LocalInv'
    BY <1>1, <1>2, <2>1, <2>2 DEF LocalInv, Fetched, EventSteps, RowSteps, SendSteps
  <2> QED BY <1>3, <2>1, <2>3
<1>17. ASSUME NEW j \in Keys, FindDuplicate(j)
       PROVE  SharedInv' /\ LocalInv' /\ Guarantee
  <2>1. /\ Quiet /\ UNCHANGED <<fetched, item, key, event>>
        /\ pc = "find" /\ pc' = "duplicate" /\ rec' = j /\ j \in FindEquivalent(key, event)
    BY <1>17 DEF FindDuplicate, workVars, storeVars, envVars
  <2>2. j \in Stored BY <2>1 DEF FindEquivalent
  <2>3. item \in FeedItems => About(j, item) BY <2>1, FoundIsAbout DEF EventSteps
  <2>4. item' \in FeedItems => About(rec, item)' BY <2>1, <2>3 DEF About
  <2>5. LocalInv'
    BY <1>1, <1>2, <1>3, <2>1, <2>2, <2>4
       DEF LocalInv, Fetched, EventSteps, RowSteps, SendSteps
  <2> QED BY <1>3, <2>1, <2>5
<1>18. CASE FindNone \/ DeliverRefused
  <2>1. Quiet /\ UNCHANGED <<fetched, item, key, event, rec>>
    BY <1>18 DEF FindNone, DeliverRefused, itemVars, workVars, storeVars, envVars
  <2>2. \/ pc = "find" /\ pc' = "add"
        \/ pc = "deliver" /\ pc' = "mark_failed"
    BY <1>18 DEF FindNone, DeliverRefused
  <2>3. LocalInv'
    BY <1>1, <1>2, <1>3, <2>1, <2>2
       DEF LocalInv, Fetched, EventSteps, RowSteps, SendSteps, About, Important
  <2> QED BY <1>3, <2>1, <2>3
<1>19. CASE SameReport \/ ReadCorroborations \/ Corroborate
  <2>1. Quiet /\ UNCHANGED <<fetched, item, key, event, rec>>
    BY <1>19 DEF SameReport, ReadCorroborations, Corroborate, itemVars, workVars,
                 storeVars, envVars
  <2>2. /\ pc \in {"duplicate", "corroborate"}
        /\ pc' \in {"corroborate", "deliver", "recheck"}
        /\ pc' = "deliver" => Retriable(rec, read, cfg)
    BY <1>19 DEF SameReport, ReadCorroborations, Corroborate, AfterDuplicate
  <2>3. Retriable(rec, read, cfg) => Important(rec)
    BY <2>2 DEF Retriable, Important, LocalInv, ControlInv
  <2>4. LocalInv'
    BY <1>1, <1>2, <1>3, <2>1, <2>2, <2>3
       DEF LocalInv, Fetched, EventSteps, RowSteps, SendSteps, About, Important
  <2> QED BY <1>3, <2>1, <2>4
<1>20. CASE AddEvent
  <2>1. /\ pc = "add" /\ pc' = "choose" /\ rec' = key /\ status[key] = "ABSENT"
        /\ status' = [status EXCEPT ![key] = "PENDING"]
        /\ about' = [about EXCEPT ![key] = event]
        /\ \A k \in Keys \ {key} : score'[k] = score[k]
        /\ UNCHANGED <<copies, listing, seen, baselined, fetched, item, key, event>>
    BY <1>20 DEF AddEvent, Add, workVars, envVars, SharedInv, StoreTypeOK
  <2>2. key \in Keys /\ event \in SourceEvents
    BY <2>1 DEF LocalInv, ControlInv, EventSteps
  <2>3. status'[key] = "PENDING" /\ about'[key] = event
    BY <2>1, <2>2 DEF SharedInv, StoreTypeOK
  <2>4. \A k \in Keys \ {key} : status'[k] = status[k] /\ about'[k] = about[k]
    BY <2>1 DEF SharedInv, StoreTypeOK
  <2>5. Stored' = Stored \cup {key} /\ key \notin Stored
    BY <2>1, <2>2, <2>3, <2>4 DEF Stored
  <2>6. \A k \in Keys \ {key} : /\ Important(k)' = Important(k)
                                /\ Disputed(k)' = Disputed(k)
                                /\ Accounted(k)' = Accounted(k)
    BY <2>1, <2>4 DEF Important, Disputed, Accounted
  <2>7. Guarantee
    BY <1>1, <2>1, <2>4, <2>5, <2>6 DEF Guarantee, Stored, SharedInv, EnvTypeOK
  <2>8. key \in FeedItems => item = key /\ event \in Reports(key)
    BY <2>1 DEF LocalInv, ControlInv, ItemSteps, EventSteps
  <2>9. SharedInv'
    <3>1. \A k \in Stored' : /\ about'[k] \in SourceEvents
                             /\ k \in FeedItems => about'[k] \in Reports(k)
      BY <2>2, <2>3, <2>4, <2>5, <2>8 DEF SharedInv, Stored
    <3>2. \A k \in Keys : status'[k] = "SENT" => copies'[k] > 0
      BY <2>1, <2>3, <2>4 DEF SharedInv
    <3>3. \A k \in Keys : status'[k] \in {"DIGEST", "SKIPPED"} /\ Important(k)' => Disputed(k)'
      BY <2>3, <2>4, <2>6 DEF SharedInv
    <3>4. SeenIsTold' BY <2>1, <2>7, ToldKept DEF SharedInv
    <3> QED BY <1>1, <2>1, <3>1, <3>2, <3>3, <3>4 DEF SharedInv
  <2>10. item' \in FeedItems => About(rec, item)'
    BY <2>1, <2>3 DEF About, LocalInv, EventSteps
  <2>11. LocalInv'
    BY <1>1, <1>2, <2>1, <2>3, <2>5, <2>10
       DEF LocalInv, Fetched, EventSteps, RowSteps, SendSteps
  <2> QED BY <2>7, <2>9, <2>11
<1>21. CASE Choose
  <2> DEFINE verdict == ChooseStatus(event, score[rec], cfg, today)
  <2>1. /\ pc = "choose" /\ rec \in Stored /\ about[rec] = event
        /\ cfg \in Configs /\ today \in Days
        /\ UNCHANGED <<about, score, copies, listing, seen, baselined,
                       fetched, item, key, event, rec>>
    BY <1>21 DEF Choose, LocalInv, ControlInv, RowSteps, EventSteps, SharedInv,
                 EnvTypeOK, itemVars, workVars, envVars
  <2>2. CASE verdict = "PENDING"
    <3>1. Quiet /\ pc' = "deliver" BY <1>21, <2>1, <2>2 DEF Choose
    <3>2. Important(rec) BY <2>1, <2>2 DEF ChooseStatus, Important
    <3>3. LocalInv'
      BY <1>1, <1>2, <1>3, <2>1, <3>1, <3>2
         DEF LocalInv, Fetched, EventSteps, RowSteps, SendSteps, About, Important
    <3> QED BY <1>3, <3>1, <3>3
  <2>3. CASE verdict # "PENDING"
    <3>1. /\ verdict \in {"DIGEST", "SKIPPED"} /\ SetStatus({rec}, verdict)
          /\ pc' = "ack"
      BY <1>21, <2>3, VerdictRange DEF Choose
    <3>2. Important(rec) => Disputed(rec) BY <2>1, <2>3 DEF Disputed
    <3> HIDE DEF verdict
    <3>3. SharedInv' /\ Guarantee /\ status'[rec] = verdict
      BY <1>1, <2>1, <3>1, <3>2, StatusShared DEF Statuses
    <3>4. Accounted(rec)' BY <2>1, <3>1, <3>3 DEF Accounted, TerminalStatuses
    <3>5. LocalInv'
      BY <1>1, <1>2, <2>1, <3>1, <3>3, <3>4
         DEF LocalInv, Fetched, EventSteps, RowSteps, SendSteps, About, Guarantee
    <3> QED BY <3>3, <3>5
  <2> QED BY <2>2, <2>3
<1>22. CASE DeliverConfirmed \/ DeliverUnconfirmed
  <2>1. /\ pc = "deliver" /\ pc' \in SendSteps /\ rec \in Keys /\ rec \in Stored
        /\ Reach({rec})
        /\ UNCHANGED <<status, about, score, listing, seen, baselined,
                       fetched, item, key, event, rec>>
    BY <1>22 DEF DeliverConfirmed, DeliverUnconfirmed, LocalInv, RowSteps, EventSteps,
                 SendSteps, Stored, itemVars, workVars, storeVars, sourceVars
  <2>2. \A k \in Keys : copies'[k] >= copies[k] /\ copies'[k] \in Nat
    BY <2>1 DEF Reach, SharedInv, EnvTypeOK
  <2>3. copies'[rec] > 0 BY <2>1 DEF Reach, SharedInv, EnvTypeOK
  <2>4. \A k \in Keys : /\ copies[k] > 0 => copies'[k] > 0
                        /\ Important(k)' = Important(k) /\ Disputed(k)' = Disputed(k)
    BY <2>1, <2>2 DEF Important, Disputed, SharedInv, EnvTypeOK
  <2>5. UNCHANGED Stored BY <2>1 DEF Stored
  <2>6. Guarantee
    BY <1>1, <2>1, <2>2, <2>4, <2>5 DEF Guarantee, Accounted, Stored
  <2>7. SeenIsTold' BY <2>1, <2>6, ToldKept DEF SharedInv
  <2>8. SharedInv' BY <1>1, <2>1, <2>4, <2>5, <2>7 DEF SharedInv
  <2>9. LocalInv'
    BY <1>1, <1>2, <2>1, <2>3, <2>5
       DEF LocalInv, Fetched, EventSteps, RowSteps, SendSteps, About, Important
  <2> QED BY <2>6, <2>8, <2>9
<1>23. CASE MarkSent
  <2>1. /\ pc = "mark_sent" /\ pc' = "ack" /\ rec \in Stored /\ copies[rec] > 0
        /\ SetStatus({rec}, "SENT")
        /\ UNCHANGED <<about, score, copies, listing, seen, baselined,
                       fetched, item, key, event, rec>>
    BY <1>23 DEF MarkSent, LocalInv, RowSteps, EventSteps, itemVars, workVars, envVars
  <2>2. SharedInv' /\ Guarantee /\ status'[rec] = "SENT"
    BY <1>1, <2>1, StatusShared DEF Statuses
  <2>3. Accounted(rec)' BY <2>1, <2>2 DEF Accounted, TerminalStatuses
  <2>4. LocalInv'
    BY <1>1, <1>2, <2>1, <2>2, <2>3
       DEF LocalInv, Fetched, EventSteps, RowSteps, SendSteps, About, Guarantee
  <2> QED BY <2>2, <2>4
<1>24. CASE MarkFailed
  <2>1. /\ rec \in Stored /\ Important(rec) /\ SetStatus({rec}, "FAILED")
        /\ UNCHANGED <<about, score, copies, listing, seen, baselined, fetched>>
        /\ pc' \notin ItemSteps
    BY <1>24 DEF MarkFailed, NextItem, LocalInv, RowSteps, SendSteps, ItemSteps,
                 EventSteps, workVars, envVars
  <2>2. SharedInv' /\ Guarantee BY <1>1, <2>1, StatusShared DEF Statuses
  <2> QED BY <1>2, <1>4, <2>1, <2>2 DEF Fetched
<1>25. CASE Recheck
  <2>1. Quiet /\ fetched' = fetched /\ pc = "recheck"
    BY <1>25 DEF Recheck, NextItem, workVars, storeVars, envVars
  <2>2. CASE status[rec] \in TerminalStatuses
    <3>1. pc' = "ack" /\ UNCHANGED <<item, key, event, rec>>
      BY <1>25, <2>2 DEF Recheck, itemVars
    <3>2. LocalInv'
      BY <1>1, <1>2, <1>3, <2>1, <2>2, <3>1
         DEF LocalInv, Fetched, EventSteps, RowSteps, SendSteps, About, Accounted
    <3> QED BY <1>3, <2>1, <3>2
  <2>3. CASE status[rec] \notin TerminalStatuses
    <3>1. pc' \notin ItemSteps
      BY <1>25, <2>3 DEF Recheck, NextItem, ItemSteps, EventSteps
    <3> QED BY <1>2, <1>5, <2>1, <3>1 DEF Fetched
  <2> QED BY <2>2, <2>3
<1>26. CASE Ack
  <2>1. /\ UNCHANGED <<status, about, score, copies, listing, baselined, fetched>>
        /\ pc = "ack" /\ pc' \notin ItemSteps
        /\ seen' \subseteq seen \cup ({item} \cap FeedItems)
    BY <1>26 DEF Ack, NextItem, MarkSeen, LocalInv, ControlInv, workVars, envVars,
                 eventsTable, ItemSteps, EventSteps
  <2>2. CASE item \notin FeedItems \/ item \in seen
    BY <1>2, <1>4, <1>1, <2>1, <2>2, QuietShared DEF Fetched
  <2>3. CASE item \in FeedItems
    <3>1. rec \in Stored /\ About(rec, item) /\ Accounted(rec)
      BY <2>1, <2>3 DEF LocalInv
    <3>2. /\ UNCHANGED Stored
          /\ \A k \in Keys : /\ Important(k)' = Important(k)
                             /\ Disputed(k)' = Disputed(k)
                             /\ Accounted(k)' = Accounted(k)
          /\ \A k \in Keys, i \in seen' : About(k, i)' = About(k, i)
      BY <2>1 DEF Stored, Important, Disputed, Accounted, About
    <3>3. Guarantee BY <1>1, <2>1, <3>2 DEF Guarantee, Stored, SharedInv, EnvTypeOK
    <3>4. SeenIsTold'
      <4>1. \A i \in seen' \ baselined' : \E k \in Stored : About(k, i) /\ Accounted(k)
        BY <2>1, <3>1 DEF SharedInv, SeenIsTold
      <4> QED BY <3>2, <4>1 DEF SeenIsTold, Stored
    <3>5. SharedInv' BY <1>1, <2>1, <3>2, <3>4 DEF SharedInv
    <3> QED BY <1>2, <1>4, <2>1, <3>3, <3>5 DEF Fetched
  <2> QED BY <2>2, <2>3
<1> QED
  BY <1>6, <1>7, <1>8, <1>9, <1>10, <1>11, <1>12, <1>13, <1>14, <1>15, <1>16, <1>17,
     <1>18, <1>19, <1>20, <1>21, <1>22, <1>23, <1>24, <1>25, <1>26
     DEF FetchNext, FetchStep

\* So does a step of the sources, the calendar or the owner, and any that
\* writes neither the store nor the chat.
LEMMA EnvRely ==
  ASSUME SharedInv, baselined \subseteq FeedItems,
         EnvNext \/ UNCHANGED envVars, UNCHANGED <<storeVars, baselined>>
  PROVE  SharedInv' /\ Guarantee
<1> USE DEF SharedInv
<1>1. EnvTypeOK' BY EnvTyped DEF EnvTypeOK, envVars
<1>2. UNCHANGED <<status, about, score, copies, seen, baselined>> /\ StoreTypeOK'
  BY EnvFrame DEF storeVars, envVars, StoreTypeOK
<1>3. \A i \in FeedItems : listing'[i] \in ItemEvents[i] \cup {None}
  BY DEF EnvNext, Publish, Drop, Reschedule, Tick, EditConfig, envVars, EnvTypeOK
<1>4. UNCHANGED Stored BY <1>2 DEF Stored
<1>5. \A k \in Keys : /\ Important(k)' = Important(k) /\ Disputed(k)' = Disputed(k)
                      /\ Accounted(k)' = Accounted(k)
  BY <1>2 DEF Important, Disputed, Accounted
<1>6. Guarantee
  BY <1>2, <1>4, <1>5 DEF Guarantee, Stored, EnvTypeOK
<1>7. SeenIsTold'
  <2>1. \A k \in Stored, i \in seen : About(k, i)' = About(k, i)
    BY <1>2 DEF About, Identity
  <2> QED BY <1>2, <1>4, <1>5, <2>1 DEF SeenIsTold, Stored
<1> QED BY <1>1, <1>2, <1>3, <1>4, <1>5, <1>6, <1>7

\* A process that has not started relies on nothing.
LEMMA InitRely == FetchInit => LocalInv
BY PipelineAssumption, EventsAssumption, FollowTyped
   DEF FetchInit, LocalInv, FetchTypeOK, ControlInv, PCs, NothingSighted,
       NothingFetched, ItemSteps, EventSteps, RowSteps, SendSteps
=============================================================================
