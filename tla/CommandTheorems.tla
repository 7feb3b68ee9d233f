--------------------------- MODULE CommandTheorems ---------------------------
(***************************************************************************)
(* The properties of the commands beside fetch and digest.                 *)
(*                                                                         *)
(* `backup`, taken and put back at any moment: a copy has the part of the  *)
(* invariant that is about the database, and a process that does not run   *)
(* relies on no more.                                                      *)
(*                                                                         *)
(* `fetch --dry-run`: what it told of stays true of all that is due, while *)
(* the fetch after it works off what is due and writes rows.               *)
(***************************************************************************)
EXTENDS Recovery, DryRun, RadarProofs

USE EventsAssumption, KeysAssumption DEF Days, NoDate

---------------------------------------------------------------------------
(* Copies *)

\* The same sets of constants, said of a copy.
LEMMA OfSets ==
  ASSUME NEW c
  PROVE  /\ Of(c)!TransitionKeys = TransitionKeys /\ Of(c)!Keys = Keys
         /\ Of(c)!SourceEvents = SourceEvents
         /\ Of(c)!Snapshots = Snapshots /\ Of(c)!Statuses = Statuses
<1>1. Of(c)!TransitionKeys = TransitionKeys
  BY DEF Of!TransitionKeys, Of!NewTitleKey, Of!ReleasedKey, Of!ReleaseDateKey, Of!DelayKey,
         Of!Days, TransitionKeys, NewTitleKey, ReleasedKey, ReleaseDateKey, DelayKey
<1>2. Of(c)!Keys = Keys BY <1>1 DEF Of!Keys, Keys
<1>3. Of(c)!SourceEvents = SourceEvents /\ Of(c)!Snapshots = Snapshots
  BY DEF Of!SourceEvents, Of!EventTypes, Of!Days, Of!NoDate, Of!Snapshots,
         SourceEvents, EventTypes, Snapshots
<1>4. Of(c)!Statuses = Statuses BY DEF Of!Statuses, Statuses
<1> QED BY <1>1, <1>2, <1>3, <1>4

\* What CopyInv says, in the terms of the copy's own fields.
LEMMA CopyMeans ==
  ASSUME NEW c
  PROVE  CopyInv(c) <=>
           /\ c.status \in [Keys -> Statuses \cup {"ABSENT"}]
           /\ c.about \in [Keys -> SourceEvents \cup {None}]
           /\ c.score \in [Keys -> Nat]
           /\ c.corroborating \in [Keys -> SUBSET Keys]
           /\ c.snapshots \in [VNs -> Snapshots \cup {None}]
           /\ c.baselines \subseteq Baselines
           /\ c.seen \subseteq FeedItems
           /\ c.baselined \subseteq FeedItems
           /\ \A k \in Keys : c.status[k] # "ABSENT" => c.about[k] \in SourceEvents
           /\ \A j, k \in Keys :
                c.status[j] # "ABSENT" /\ c.status[k] # "ABSENT"
                  /\ Identity(c.about[j]) = Identity(c.about[k]) => j = k
           /\ \A i \in c.seen \ c.baselined : \E k \in Keys :
                c.status[k] \in TerminalStatuses /\ (k = i \/ i \in c.corroborating[k])
           /\ \A i \in FeedItems : c.status[i] # "ABSENT" => FeedOf[i] \in c.baselines
           /\ Backfills = {{}} =>
                /\ c.baselined \subseteq c.seen
                /\ \A i \in c.baselined : c.status[i] = "ABSENT"
           /\ \A k \in TransitionKeys : c.status[k] # "ABSENT" => TellsNews(k, c.about[k])
<1>1. \A e : Of(c)!Identity(e) = Identity(e)
  BY DEF Of!Identity, Of!DateEventTypes, Of!SingletonEventTypes,
         Identity, DateEventTypes, SingletonEventTypes
<1>2. \A k, e : Of(c)!TellsNews(k, e) <=> TellsNews(k, e)
  BY DEF Of!TellsNews, TellsNews
<1>3. Of(c)!TerminalStatuses = TerminalStatuses
  BY DEF Of!TerminalStatuses, TerminalStatuses
<1> QED
  BY <1>1, <1>2, <1>3, OfSets
     DEF CopyInv, Of!StoreTypeOK, Of!TableInv, Of!Stored, Of!UniqueIdentity,
         Of!SeenIsAccounted, Of!Settles, Of!RecordsInv

\* A copy stays what it is,
LEMMA CopyStays ==
  ASSUME NEW c, CopyInv(c)
  PROVE  CopyInv(c)'
OBVIOUS

\* it has what the database had when it was taken,
LEMMA CopyTaken ==
  ASSUME IInv, SourceInv
  PROVE  CopyInv(Contents)
<1>1. StoreTypeOK /\ TableInv /\ baselined \subseteq FeedItems
  BY DEF IInv, TypeOK, FetchTypeOK
<1> QED
  BY <1>1, CopyMeans
     DEF Contents, StoreTypeOK, TableInv, Stored, UniqueIdentity, SeenIsAccounted, Settles,
         SourceInv, FeedInv, SilentInv, ChangeInv

\* and the database has it again when it is put back.
LEMMA CopyPutBack ==
  ASSUME NEW c, CopyInv(c),
         status' = c.status, about' = c.about, score' = c.score,
         corroborating' = c.corroborating, snapshots' = c.snapshots,
         baselines' = c.baselines, seen' = c.seen, baselined' = c.baselined
  PROVE  StoreTypeOK' /\ TableInv' /\ RecordsInv' /\ baselined' \subseteq FeedItems
BY CopyMeans
   DEF StoreTypeOK, TableInv, Stored, UniqueIdentity, SeenIsAccounted, Settles, RecordsInv

---------------------------------------------------------------------------
(* The invariant is inductive *)

\* A message that is in the chat stays there.
LEMMA ChatKept ==
  ASSUME EnvTypeOK, [Next]_vars, NEW k \in Keys, copies[k] > 0
  PROVE  copies'[k] > 0
<1> USE DEF EnvTypeOK
<1>1. CASE UNCHANGED copies BY <1>1
<1>2. ASSUME NEW ks, Reach(ks) PROVE copies'[k] > 0 BY <1>2 DEF Reach
<1>3. CASE FetchNext
  <2>1. DeliverConfirmed \/ DeliverUnconfirmed => Reach({rec})
    BY DEF DeliverConfirmed, DeliverUnconfirmed
  <2> QED BY <1>1, <1>2, <1>3, <2>1, FetchReach
<1>4. CASE DigestNext
  BY <1>1, <1>2, <1>4
     DEF DigestNext, DigestStep, StartDigest, Prune, DigestConfirmed, DigestRefused,
         DigestUnconfirmed, MarkBatch, DigestDone, DigestStoreError, DigestCrash, envVars
<1>5. CASE EnvNext BY <1>1, <1>5, EnvFrame
<1>6. CASE UNCHANGED vars BY <1>1, <1>6 DEF vars, envVars
<1> QED BY <1>3, <1>4, <1>5, <1>6 DEF Next

\* The steps of the deployment keep it: no copy is touched.
LEMMA RunKeepsRecovery ==
  ASSUME RecoveryInv, [Next]_vars, UNCHANGED saved
  PROVE  RecoveryInv'
<1>1. IInv' /\ SourceInv' BY StepInv, StepSource DEF RecoveryInv
<1>2. ASSUME NEW c \in saved
      PROVE  CopyInv(c)' /\ \A k \in Keys : c.status[k] = "SENT" => copies'[k] > 0
  BY <1>2, CopyStays, ChatKept DEF RecoveryInv, SavedInv, IInv, TypeOK
<1> QED BY <1>1, <1>2 DEF RecoveryInv, SavedInv

\* A backup keeps it, whatever the processes are doing.
LEMMA BackupKeepsRecovery ==
  ASSUME RecoveryInv, Backup
  PROVE  RecoveryInv'
<1>1. IInv' /\ SourceInv' /\ copies' = copies
  BY StepInv, StepSource DEF RecoveryInv, Backup, vars, envVars
<1>2. CopyInv(Contents) /\ \A k \in Keys : Contents.status[k] = "SENT" => copies[k] > 0
  BY CopyTaken DEF RecoveryInv, IInv, ChatInv, TypeOK, EnvTypeOK, Contents
<1> QED BY <1>1, <1>2 DEF RecoveryInv, SavedInv, Backup

\* A restore keeps it: no process runs that could know of other contents, and
\* of the messages in the chat the lost ones are those the copy lacks.
LEMMA RestoreKeepsRecovery ==
  ASSUME RecoveryInv, NEW c \in saved, Restore(c)
  PROVE  RecoveryInv'
<1> USE DEF RecoveryInv, IInv
<1>1. CopyInv(c) /\ \A k \in Keys : c.status[k] = "SENT" => copies[k] > 0
  BY DEF SavedInv
<1>2. StoreTypeOK' /\ TableInv' /\ RecordsInv' /\ baselined' \subseteq FeedItems
  BY <1>1, CopyPutBack DEF Restore
<1>3. EnvTypeOK'
  <2>1. \A k \in Keys : lost'[k] \in Nat
    BY <1>1 DEF Restore, TypeOK, EnvTypeOK
  <2>2. lost' \in [Keys -> Nat] BY <2>1 DEF Restore
  <2> QED BY <2>2 DEF Restore, TypeOK, EnvTypeOK, sourceVars
<1>4. TypeOK'
  BY <1>2, <1>3
     DEF Restore, TypeOK, FetchTypeOK, DigestTypeOK, runVars, workVars, itemVars, digestVars
<1>5. ControlInv' /\ RowInv'
  BY DEF Restore, ControlInv, RowInv, EventSteps, ItemSteps, SendSteps,
         runVars, workVars, itemVars
<1>6. stale' = {} /\ pending' = {} /\ batch' = {}
  BY DEF Restore, DigestInv, digestVars
<1>7. DigestInv' BY <1>6 DEF Restore, DigestInv, digestVars
<1>8. ChatInv'
  BY <1>6 DEF Restore, ChatInv, Unmarked, TypeOK, EnvTypeOK
<1>9. SourceInv'
  <2>1. pc' = "idle" /\ item' = None /\ backfill' = backfill
    BY DEF Restore, ControlInv, ItemSteps, EventSteps, itemVars, runVars
  <2>2. FeedInv' BY <1>2, <2>1 DEF FeedInv, RecordsInv
  <2>3. SilentInv'
    BY <1>2, <2>1 DEF SourceInv, SilentInv, RecordsInv
  <2>4. ChangeInv'
    BY <1>2, <2>1 DEF ChangeInv, RecordsInv, EventSteps, RowSteps
  <2> QED BY <2>2, <2>3, <2>4 DEF SourceInv
<1>10. SavedInv'
  BY CopyStays DEF Restore, SavedInv
<1> QED BY <1>2, <1>4, <1>5, <1>7, <1>8, <1>9, <1>10

\* At first there is no copy.
LEMMA InitRecovery == RecoveryInit => RecoveryInv
BY InitInv, InitSource DEF RecoveryInit, RecoveryInv, SavedInv

\* Every step keeps the invariant, in the database and in the copies.
LEMMA StepRecovery == RecoveryInv /\ [RecoveryNext]_recoveryVars => RecoveryInv'
BY RunKeepsRecovery, BackupKeepsRecovery, RestoreKeepsRecovery
   DEF RecoveryNext, recoveryVars

---------------------------------------------------------------------------
(* Theorems *)

\* However often the database is copied and put back, the invariant of the
\* deployment holds of it, and of every copy in the part that concerns it.
THEOREM RecoveryInvariance == RecoverySpec => []RecoveryInv
BY InitRecovery, StepRecovery, PTL DEF RecoverySpec

\* A restored database records as SENT only what is in the chat, and repeats
\* only the messages it has no record of.
THEOREM RestoreIsHonest == RecoverySpec => []RestoredIsHonest
<1>1. RecoveryInv => RestoredIsHonest
  BY DEF RecoveryInv, IInv, ChatInv, RestoredIsHonest, TypeOK, EnvTypeOK
<1> QED BY <1>1, RecoveryInvariance, PTL

\* In a restored database each seen item has its settled row and no news two.
THEOREM RestoreIsConsistent == RecoverySpec => []RestoredIsConsistent
<1>1. RecoveryInv => RestoredIsConsistent
  BY DEF RecoveryInv, IInv, TableInv, RestoredIsConsistent
<1> QED BY <1>1, RecoveryInvariance, PTL

\* After a restore too, the old entries of a feed make no event.
THEOREM RestoreIsSilent == RecoverySpec => []BaselineIsSilent
<1>1. RecoveryInv => BaselineIsSilent
  BY DEF RecoveryInv, SourceInv, SilentInv, BaselineIsSilent
<1> QED BY <1>1, RecoveryInvariance, PTL

---------------------------------------------------------------------------
(* The dry run: scores *)

\* Between runs that resolved the same developers, a VN that is discovered
\* scores no less than one that is not,
LEMMA ScoreGrows ==
  ASSUME NEW e \in SourceEvents, NEW c \in ConfigType, NEW f, NEW g,
         f.discovered \subseteq g.discovered, f.resolved = g.resolved
  PROVE  Score(e, c, f) <= Score(e, c, g)
<1> DEFINE rest == (IF MatchesDeveloper(e, c, f) THEN FollowedDeveloper ELSE 0)
                   + PreferredTag * Cardinality(e.tags \cap c.tags) + TypeWeight(e.type)
           base(E) == IF e.entity \in c.visual_novels THEN FollowedVn
                      ELSE IF e.entity \in E /\ e.type # "OTHER" THEN DiscoveredVn ELSE 0
<1>1. IsFiniteSet(e.tags \cap c.tags)
  BY ScoringAssumption, FS_Intersection, FS_Subset DEF SourceEvents
<1>2. Cardinality(e.tags \cap c.tags) \in Nat BY <1>1, FS_CardinalityType
<1>3. TypeWeight(e.type) \in Nat BY DEF TypeWeight
<1>4. rest \in Nat BY <1>2, <1>3 DEF FollowedDeveloper, PreferredTag
<1>5. /\ base(f.discovered) \in Nat /\ base(g.discovered) \in Nat
      /\ base(f.discovered) <= base(g.discovered)
  BY DEF FollowedVn, DiscoveredVn
<1>6. MatchesDeveloper(e, c, g) <=> MatchesDeveloper(e, c, f) BY DEF MatchesDeveloper
<1>7. /\ Score(e, c, f) = base(f.discovered) + rest
      /\ Score(e, c, g) = base(g.discovered) + rest
  BY <1>2, <1>3, <1>5, <1>6 DEF Score, FollowedDeveloper, PreferredTag
<1> HIDE DEF rest, base
<1> QED BY <1>4, <1>5, <1>7

\* and is sent at once if the other is.
LEMMA PendingGrows ==
  ASSUME NEW e, NEW c \in ConfigType, NEW t, NEW r \in Nat, NEW s \in Nat, r <= s,
         ChooseStatus(e, r, c, t) = "PENDING"
  PROVE  ChooseStatus(e, s, c, t) = "PENDING"
<1>1. c.immediate_threshold \in Nat BY DEF ConfigType
<1> QED BY <1>1 DEF ChooseStatus

---------------------------------------------------------------------------
(* The dry run: what a run works off *)

\* The tail of a list without repetition.
LEMMA TailFacts ==
  ASSUME NEW S, NEW s \in Seq(S), s # <<>>
  PROVE  /\ Tail(s) \in Seq(S)
         /\ \A n \in DOMAIN Tail(s) : n + 1 \in DOMAIN s /\ Tail(s)[n] = s[n + 1] /\ n + 1 # 1
         /\ 1 \in DOMAIN s /\ Head(s) = s[1]
OBVIOUS

\* Before the first run there is no work.
LEMMA InitRun == Init => RunInv
BY DEF Init, FetchInit, RunInv, TodoInv, NothingFetched

\* The adapters left stay a list without repetition after one is done,
LEMMA TodoTail ==
  ASSUME NEW S, NEW s \in Seq(S), s # <<>>, TodoInv(s)
  PROVE  TodoInv(Tail(s))
<1>1. \A n \in DOMAIN Tail(s) : n \in Nat BY TailFacts
<1> QED BY <1>1, TailFacts DEF TodoInv

\* and are one when a run starts.
LEMMA TodoStarts == TodoInv(<<Vndb>> \o FeedAdapters)
<1> DEFINE s == <<Vndb>> \o FeedAdapters
<1>1. FeedAdapters \in Seq(FeedAdapterSet) BY PipelineAssumption
<1>2. DOMAIN s = 1..(1 + Len(FeedAdapters)) /\ Len(FeedAdapters) \in Nat
      /\ DOMAIN FeedAdapters = 1..Len(FeedAdapters) BY <1>1
<1>3. \A n \in DOMAIN s : s[n] = IF n = 1 THEN Vndb ELSE FeedAdapters[n - 1]
  BY <1>1
<1>4. \A n \in DOMAIN s : n # 1 => n - 1 \in DOMAIN FeedAdapters /\ s[n] # Vndb
  BY <1>2, <1>3, PipelineAssumption DEF FeedAdapterSet
<1>5. ASSUME NEW m \in DOMAIN s, NEW n \in DOMAIN s, s[m] = s[n] PROVE m = n
  <2>1. CASE m = 1 \/ n = 1 BY <1>3, <1>4, <1>5, <2>1
  <2>2. CASE m # 1 /\ n # 1
    <3>1. FeedAdapters[m - 1] = FeedAdapters[n - 1] BY <1>3, <1>5, <2>2
    <3>2. m - 1 = n - 1 BY <1>4, <2>2, <3>1, FeedsAssumption
    <3> QED BY <1>2, <3>2
  <2> QED BY <2>1, <2>2
<1> QED BY <1>4, <1>5 DEF TodoInv

\* The work of a run stays in order.
LEMMA FetchKeepsRun ==
  ASSUME IInv, RunInv, FetchNext
  PROVE  RunInv'
<1> USE DEF IInv, ItemSteps, EventSteps, Goto, NoItem
<1>0. /\ TodoInv(todo)
      /\ todo \in Seq(FeedAdapterSet \cup {Vndb})
      /\ pc \notin {"idle", "fetch"} => todo # <<>>
      /\ pc \notin ItemSteps => item = None
      /\ pc \in ItemSteps => item \in VNs \cup FeedItems
  BY DEF RunInv, TodoInv, TypeOK, FetchTypeOK, ControlInv
<1>1. ASSUME TodoInv(todo)', item' = None, pc' = "fetch", fetched' = NothingFetched
      PROVE  RunInv'
  BY <1>1 DEF RunInv, TodoInv
<1>2. ASSUME todo # <<>>, NextAdapter PROVE RunInv'
  BY <1>0, <1>1, <1>2, TodoTail DEF NextAdapter
<1>3. CASE Exit
  BY <1>3 DEF Exit, RunInv, TodoInv
<1>4. CASE ItemStep
  BY <1>0, <1>4 DEF ItemStep, RunInv, workVars
<1>5. CASE StartFetch
  BY <1>0, <1>1, <1>5, TodoStarts DEF StartFetch, RunInv, itemVars
<1>6. CASE FetchFails
  BY <1>0, <1>1, <1>6, TodoTail DEF FetchFails, RunInv, itemVars
<1>7. CASE FetchDone \/ Crash
  BY <1>3, <1>7 DEF FetchDone, Crash
<1>8. CASE FinishVndbBaseline \/ VnsDone \/ GroupsDone
  BY <1>0, <1>2, <1>8 DEF FinishVndbBaseline, VnsDone, GroupsDone
<1>9. ASSUME EndGroup, pc \in {"feed_baseline", "items"} PROVE RunInv'
  BY <1>0, <1>9 DEF EndGroup, RunInv, itemVars
<1>10. CASE FinishFeedBaseline \/ GroupDone
  BY <1>9, <1>10 DEF FinishFeedBaseline, GroupDone
<1>11. ASSUME NEW shown \in SUBSET VNs, FetchVndb(shown) PROVE RunInv'
  BY <1>0, <1>11 DEF FetchVndb, RunInv, itemVars
<1>12. ASSUME NEW ok \in SUBSET Feeds, NEW some \in SUBSET FeedItems, FetchFeeds(ok, some)
       PROVE  RunInv'
  <2>3. Asked(Head(todo)) \subseteq FeedsOf[Head(todo)] BY DEF Asked
  <2>4. \A i \in FeedItems : fetched'[i] # None => FeedOf[i] \in Asked(Head(todo))
    BY <1>12 DEF FetchFeeds
  <2>5. /\ Head(todo) \in FeedAdapterSet
        /\ groups' = {FeedOf[i] : i \in {j \in FeedItems : fetched'[j] # None}}
    BY <1>12 DEF FetchFeeds
  <2>1. groups' \subseteq FeedsOf[Head(todo)] /\ Head(todo) \in FeedAdapterSet
    BY <2>3, <2>4, <2>5
  <2>2. pc' = "groups" /\ item' = None /\ todo' = todo
    BY <1>0, <1>12 DEF FetchFeeds, itemVars
  <2> QED BY <1>0, <2>1, <2>2 DEF RunInv, TodoInv
<1>13. ASSUME NEW v \in VNs, SaveBaselineSnapshot(v) \/ ObserveVn(v) PROVE RunInv'
  BY <1>0, <1>13, EventsAssumption DEF SaveBaselineSnapshot, ObserveVn, RunInv, itemVars
<1>14. ASSUME NEW f \in Feeds, NextGroup(f) PROVE RunInv'
  BY <1>0, <1>14 DEF NextGroup, RunInv, itemVars
<1>15. ASSUME NEW i \in FeedItems, MarkBaselineItem(i) \/ SkipItem(i) \/ TakeItem(i)
       PROVE  RunInv'
  BY <1>0, <1>15 DEF MarkBaselineItem, SkipItem, TakeItem, RunInv, itemVars
<1>16. CASE StoreError
  <2>1. CASE pc \in {"vndb_baseline", "groups", "items"} /\ NextAdapter
    BY <1>0, <1>2, <2>1
  <2>2. CASE pc = "feed_baseline" /\ EndGroup BY <1>9, <2>2
  <2>3. CASE pc = "vns" /\ UNCHANGED <<pc, todo, groups, feed, itemVars>>
    BY <1>0, <2>3 DEF RunInv, itemVars
  <2>4. CASE pc \in ItemSteps /\ NextItem
    BY <1>0, <1>4, <2>4 DEF RunInv, NextItem, workVars
  <2> QED BY <1>16, <2>1, <2>2, <2>3, <2>4 DEF StoreError
<1>17. CASE ItemAction BY <1>4, <1>17, ItemActions
<1> QED
  BY <1>5, <1>6, <1>7, <1>8, <1>10, <1>11, <1>12, <1>13, <1>14, <1>15, <1>16, <1>17
     DEF FetchNext, FetchStep, ItemAction

\* Only a step of the run touches its work.
LEMMA StepRun == IInv /\ RunInv /\ [Next]_vars => RunInv'
<1>1. UNCHANGED fetchVars /\ RunInv => RunInv' BY DEF RunInv, fetchVars
<1> QED BY <1>1, FetchKeepsRun DEF Next, vars

---------------------------------------------------------------------------
(* The dry run: what keeps its word *)

\* A step after which the preview is still one of the present sources and
\* settings.
Steady ==
  /\ UNCHANGED <<sourceVars, faults, preview>>
  /\ pc # "idle" => pc' # "idle"

\* Rows stay; one that is new or has a new status is still to be decided on,
\* or as it was told.
RowsKept ==
  /\ \A r \in Stored : r \in Stored' /\ about'[r] = about[r]
  /\ \A r \in Stored' :
       \/ Undecided(r)' \/ RowTold(r)'
       \/ r \in Stored /\ ~Undecided(r) /\ (RowTold(r) => RowTold(r)')

\* A report would score the same.
LEMMA FullScoreKept ==
  ASSUME UNCHANGED settings, NEW e
  PROVE  FullScore(e)' = FullScore(e)
<1>1. FullFollow' = FullFollow BY DEF FullFollow, Resolved
<1> QED BY <1>1 DEF FullScore

\* So after a step that writes no row.
LEMMA SameRows ==
  ASSUME Steady, UNCHANGED <<status, about, score>>,
         pc = "choose" => pc' = "choose" /\ rec' = rec
  PROVE  RowsKept
BY DEF Steady, RowsKept, Undecided, RowTold, Retriable, Identity, Stored, sourceVars

\* Then what was foretold of a report stays foretold.
LEMMA ForetoldKept ==
  ASSUME Steady, RowsKept, NEW k, NEW e, Foretold(k, e)
  PROVE  Foretold(k, e)'
<1> DEFINE F == FindEquivalent(k, e)
<1>1. \A r \in Stored : r \in F <=> r \in F'
  BY DEF RowsKept, FindEquivalent, Identity
<1>2. F \subseteq Stored /\ F' \subseteq Stored'
  BY DEF FindEquivalent
<1>3. CASE F' = {}
  <2>1. F = {} BY <1>1, <1>2, <1>3
  <2>2. NewsTold(e) BY <2>1 DEF Foretold
  <2>3. NewsTold(e)' BY <2>2, FullScoreKept DEF NewsTold, Steady, sourceVars
  <2> QED BY <1>3, <2>3 DEF Foretold
<1>4. ASSUME NEW r \in F'
      PROVE  Undecided(r)' \/ RowTold(r)'
  <2>1. CASE r \in Stored /\ ~Undecided(r) /\ (RowTold(r) => RowTold(r)')
    <3>1. r \in F BY <1>1, <1>4, <2>1
    <3>2. Undecided(r) \/ RowTold(r) BY <3>1 DEF Foretold
    <3> QED BY <2>1, <3>2
  <2> QED BY <1>2, <2>1 DEF RowsKept
<1> QED BY <1>3, <1>4 DEF Foretold

\* And so does all that is still to come, if nothing more is to come.
LEMMA DueKept ==
  ASSUME Steady, RowsKept, DueInv,
         \A v \in VNs : DueVn(v)' => DueVn(v) /\ snapshots'[v] = snapshots[v],
         \A i \in FeedItems : DueItem(i)' => DueItem(i)
  PROVE  DueInv'
<1>1. UNCHANGED <<listing, vnDate, today>> BY DEF Steady, sourceVars
<1>2. ASSUME NEW v \in VNs, DueVn(v)', ChangeType(snapshots[v], Sighting(vnDate[v], today))' # None
      PROVE  Foretold(ChangeKey(v, snapshots[v], Sighting(vnDate[v], today)),
                      ChangeEvent(v, snapshots[v], Sighting(vnDate[v], today)))'
  <2> DEFINE now == Sighting(vnDate[v], today)
             k == ChangeKey(v, snapshots[v], now)
             e == ChangeEvent(v, snapshots[v], now)
  <2>1. now' = now /\ snapshots'[v] = snapshots[v] /\ DueVn(v) BY <1>1, <1>2
  <2>2. k' = k /\ e' = e BY <2>1 DEF ChangeEvent
  <2>3. Foretold(k, e) BY <1>2, <2>1 DEF DueInv
  <2> HIDE DEF k, e
  <2>4. \A a, b : Foretold(a, b) => (a = k /\ b = e => Foretold(a, b)')
    BY ForetoldKept
  <2>5. \A a, b : a = k /\ b = e => Foretold(a, b)' BY <2>3, <2>4
  <2>6. Foretold(k, e)' BY <2>2, <2>5
  <2> QED BY <2>6 DEF k, e
<1>3. ASSUME NEW i \in FeedItems, DueItem(i)'
      PROVE  Foretold(i, FullReport(i))'
  <2>1. Foretold(i, FullReport(i)) BY <1>3 DEF DueInv
  <2>2. \A b : Foretold(i, b) => (b = FullReport(i) => Foretold(i, b)') BY ForetoldKept
  <2>3. FullReport(i)' = FullReport(i) BY <1>1 DEF FullReport, Report, Mapped
  <2> QED BY <2>1, <2>2, <2>3
<1> QED BY <1>2, <1>3 DEF DueInv

---------------------------------------------------------------------------
(* The dry run: the fetch process sees what the dry run saw *)

\* The steps about one item leave the loop around it alone.
LEMMA ItemSameSources ==
  ASSUME IInv, SameSources, Steady, ItemStep, UNCHANGED <<cfg, follow>>
  PROVE  SameSources'
BY DEF IInv, ControlInv, SameSources, Steady, ItemStep, ItemSteps, EventSteps, workVars,
       sourceVars

\* The others read the sources as they were when the dry run read them.
LEMMA FetchSameSources ==
  ASSUME IInv, RunInv, SameSources, Steady, FetchNext
  PROVE  SameSources'
<1> USE DEF IInv, ItemSteps, EventSteps, Goto, NoItem, runVars, workVars, itemVars
<1>0. /\ UNCHANGED <<listing, vnDate, today, settings>>
      /\ pc \notin ItemSteps => item = None
      /\ pc \notin {"idle", "fetch"} => todo # <<>>
      /\ (~Fault /\ ~Exit) \/ pc = "idle"
  BY DEF Steady, sourceVars, ControlInv, Fault, Exit, TypeOK, EnvTypeOK
<1>1. ASSUME item' = None, pc' # "vns", follow' = follow,
             cfg' = settings, fetched' \in {fetched, NothingFetched}
      PROVE  SameSources'
  BY <1>0, <1>1 DEF SameSources, NothingFetched
<1>11. CASE FetchFails
  <2>1. pc = "fetch" /\ pc' = pc /\ item' = None /\ cfg' = cfg /\ fetched' = fetched
    BY <1>0, <1>11 DEF FetchFails
  <2>2. fetched' = NothingFetched BY <2>1 DEF RunInv
  <2>3. follow'.discovered \subseteq Discoverable
    BY <1>11 DEF FetchFails, SameSources
  <2> QED BY <1>0, <2>1, <2>2, <2>3, EventsAssumption DEF SameSources, NothingFetched
<1>2. CASE ItemAction
  BY <1>2, ItemActions, ItemSameSources
     DEF ItemAction, NextItem, FindNone, SameReport, ReadCorroborations, Corroborate, AddEvent,
         AddRefused, Choose, DeliverConfirmed, DeliverRefused, DeliverUnconfirmed, MarkSent,
         MarkFailed, Recheck, Ack, FindDuplicate
<1>3. CASE StartFetch
  BY <1>0, <1>1, <1>3 DEF StartFetch, RunInv, SameSources
<1>4. CASE FinishVndbBaseline \/ VnsDone \/ GroupsDone \/ FinishFeedBaseline \/ GroupDone
  BY <1>0, <1>1, <1>4 DEF FinishVndbBaseline, VnsDone, GroupsDone, FinishFeedBaseline, GroupDone,
     NextAdapter, EndGroup, SameSources
<1>5. CASE FetchDone \/ StoreError \/ Crash
  BY <1>0, <1>5 DEF FetchDone, StoreError, Crash
<1>6. ASSUME NEW shown \in SUBSET VNs, FetchVndb(shown) PROVE SameSources'
  <2>1. pc = "fetch" /\ item' = None /\ cfg' = cfg /\ fetched' = fetched
    BY <1>0, <1>6 DEF FetchVndb
  <2>2. fetched' = NothingFetched BY <2>1 DEF RunInv
  <2>3. follow'.discovered \subseteq Discoverable BY <1>6 DEF FetchVndb
  <2>4. \A v \in queue' : sighted'[v] = Sighting(vnDate[v], today)
    BY <1>6 DEF FetchVndb
  <2> QED BY <1>0, <2>1, <2>2, <2>3, <2>4, EventsAssumption DEF SameSources, NothingFetched
<1>7. ASSUME NEW ok \in SUBSET Feeds, NEW some \in SUBSET FeedItems, FetchFeeds(ok, some)
      PROVE  SameSources'
  BY <1>0, <1>7 DEF FetchFeeds, SameSources
<1>8. ASSUME NEW v \in VNs, SaveBaselineSnapshot(v) \/ ObserveVn(v) PROVE SameSources'
  BY <1>0, <1>8 DEF SaveBaselineSnapshot, ObserveVn, SameSources
<1>9. ASSUME NEW f \in Feeds, NextGroup(f) PROVE SameSources'
  BY <1>0, <1>1, <1>9 DEF NextGroup, SameSources
<1>10. ASSUME NEW i \in FeedItems, MarkBaselineItem(i) \/ SkipItem(i) \/ TakeItem(i)
       PROVE  SameSources'
  BY <1>0, <1>10, EventsAssumption DEF MarkBaselineItem, SkipItem, TakeItem, SameSources
<1> QED
  BY <1>2, <1>3, <1>4, <1>5, <1>6, <1>7, <1>8, <1>9, <1>10, <1>11
     DEF FetchNext, FetchStep, ItemAction

---------------------------------------------------------------------------
(* The dry run: the loops of a run only shorten what is due *)

\* A step that writes no row, leaves no item in flight and makes nothing due.
LEMMA LoopStep ==
  ASSUME Steady, DueInv, UNCHANGED <<status, about, score>>,
         pc # "choose", pc' \notin EventSteps,
         \A v \in VNs : DueVn(v)' => DueVn(v) /\ snapshots'[v] = snapshots[v],
         \A i \in FeedItems : DueItem(i)' => DueItem(i)
  PROVE  DueInv' /\ FlightInv'
BY DueKept, SameRows DEF FlightInv, EventSteps, SendSteps

\* An adapter's turn is over.
LEMMA NextAdapterDue ==
  ASSUME IInv, RunInv, Steady, DueInv, todo # <<>>, todo' = Tail(todo), pc # "choose",
         pc' = "fetch", item' = None, UNCHANGED <<eventsTable, snapshots, seen>>,
         baselines' \subseteq baselines \cup {Vndb}
  PROVE  DueInv' /\ FlightInv'
<1>1. todo \in Seq(FeedAdapterSet \cup {Vndb}) /\ TodoInv(todo)
  BY DEF IInv, TypeOK, FetchTypeOK, RunInv, TodoInv
<1>2. /\ \A n \in DOMAIN todo' : n + 1 \in DOMAIN todo /\ todo'[n] = todo[n + 1] /\ n + 1 # 1
      /\ todo' # <<>> => 1 \in DOMAIN todo' /\ Head(todo') = todo'[1]
  BY <1>1, TailFacts
<1>3. ASSUME NEW v \in VNs PROVE ~DueVn(v)'
  <2>1. todo' # <<>> => Head(todo') # Vndb BY <1>1, <1>2 DEF TodoInv
  <2> QED BY <2>1 DEF DueVn
<1>4. ASSUME NEW i \in FeedItems, DueItem(i)' PROVE DueItem(i)
  <2>1. FeedOf[i] \in baselines BY <1>4, PipelineAssumption DEF DueItem
  <2>2. Later(FeedOf[i])' BY <1>4 DEF DueItem
  <2>3. Later(FeedOf[i]) BY <1>2, <2>2 DEF Later
  <2> QED BY <1>4, <2>1, <2>3 DEF DueItem, Steady, sourceVars
<1> QED BY <1>3, <1>4, LoopStep DEF EventSteps, eventsTable

\* So is that of a feed, or of an item of it.
LEMMA LoopDue ==
  ASSUME IInv, RunInv, Steady, DueInv, pc \notin {"idle", "fetch"},
         UNCHANGED <<todo, eventsTable, snapshots, baselines>>, seen \subseteq seen',
         groups' \subseteq groups, pc \notin ItemSteps, pc' \notin ItemSteps, item' = None,
         \/ pc' = pc /\ queue' \subseteq queue
         \/ pc' \notin {"idle", "fetch", "vns", "items"}
  PROVE  DueInv' /\ FlightInv'
<1>1. ASSUME NEW v \in VNs, DueVn(v)' PROVE DueVn(v)
  BY <1>1 DEF DueVn
<1>2. ASSUME NEW i \in FeedItems, DueItem(i)' PROVE DueItem(i)
  <2>1. Later(FeedOf[i])' => Later(FeedOf[i]) BY DEF Later
  <2> QED BY <1>2, <2>1 DEF DueItem, Steady, sourceVars
<1> QED BY <1>1, <1>2, LoopStep DEF EventSteps, ItemSteps, eventsTable

\* And so is a feed's first turn: it will not come again.
LEMMA FinishFeedDue ==
  ASSUME IInv, RunInv, Steady, DueInv, FinishFeedBaseline
  PROVE  DueInv' /\ FlightInv'
<1>1. /\ pc = "feed_baseline" /\ pc' = "groups" /\ item' = item /\ item = None
      /\ UNCHANGED <<todo, groups, eventsTable, snapshots, seen>>
      /\ baselines' = baselines \cup {feed}
  BY DEF FinishFeedBaseline, MarkBaseline, EndGroup, Goto, itemVars, IInv, ControlInv,
         ItemSteps, EventSteps
<1>2. ~Later(feed)
  <2> SUFFICES ASSUME Later(feed) PROVE FALSE OBVIOUS
  <2>1. PICK n \in DOMAIN todo : /\ todo[n] \in FeedAdapterSet /\ feed \in FeedsOf[todo[n]]
                                 /\ n = 1 => feed \in groups
    BY <1>1 DEF Later
  <2>2. todo \in Seq(FeedAdapterSet \cup {Vndb}) /\ todo # <<>>
    BY <1>1 DEF IInv, TypeOK, FetchTypeOK, ControlInv
  <2>3. 1 \in DOMAIN todo /\ Head(todo) = todo[1] BY <2>2, TailFacts
  <2>4. Head(todo) \in FeedAdapterSet /\ feed \in FeedsOf[Head(todo)] \ groups
    BY <1>1 DEF RunInv
  <2>5. todo[n] # todo[1] BY <2>1, <2>3, <2>4 DEF RunInv, TodoInv
  <2> QED BY <2>1, <2>3, <2>4, <2>5, FeedsAssumption
<1>3. ASSUME NEW i \in FeedItems, DueItem(i)' PROVE DueItem(i)
  <2>1. Later(FeedOf[i])' BY <1>1, <1>3 DEF DueItem
  <2>2. Later(FeedOf[i]) BY <1>1, <2>1 DEF Later
  <2>3. FeedOf[i] \in baselines BY <1>1, <1>2, <1>3, <2>2 DEF DueItem
  <2> QED BY <1>1, <1>3, <2>2, <2>3 DEF DueItem, Steady, sourceVars
<1>4. \A v \in VNs : ~DueVn(v)' BY <1>1 DEF DueVn
<1> QED BY <1>1, <1>3, <1>4, LoopStep DEF EventSteps, eventsTable

\* An adapter answers: all it has was due.
LEMMA AnswerDue ==
  ASSUME IInv, RunInv, Steady, DueInv,
         StartFetch \/ (\E shown \in SUBSET VNs : FetchVndb(shown))
         \/ (\E ok \in SUBSET Feeds, some \in SUBSET FeedItems : FetchFeeds(ok, some))
  PROVE  DueInv' /\ FlightInv'
<1>1. /\ pc \in {"idle", "fetch"} /\ item = None /\ item' = None
      /\ UNCHANGED <<eventsTable, snapshots, baselines, seen>>
      /\ pc' \in {"fetch", "vns", "vndb_baseline", "groups"}
      /\ pc = "fetch" => todo' = todo /\ pc' # "fetch"
      /\ pc' = "vns" => pc = "fetch" /\ todo # <<>> /\ Head(todo) = Vndb
  BY DEF StartFetch, FetchVndb, FetchFeeds, Goto, itemVars, storeVars, eventsTable, IInv,
         ControlInv, ItemSteps, EventSteps
<1>2. ASSUME NEW v \in VNs, DueVn(v)' PROVE DueVn(v)
  BY <1>1, <1>2 DEF DueVn
<1>3. ASSUME NEW i \in FeedItems, DueItem(i)' PROVE DueItem(i)
  <2>1. pc = "fetch" /\ Later(FeedOf[i])' => Later(FeedOf[i]) BY <1>1 DEF Later
  <2> QED BY <1>1, <1>3, <2>1 DEF DueItem, Steady, sourceVars
<1> QED BY <1>1, <1>2, <1>3, LoopStep DEF EventSteps, eventsTable

\* _run_feed handles a feed the adapter still had to hand over.
LEMMA NextGroupDue ==
  ASSUME IInv, RunInv, Steady, DueInv, NEW f \in Feeds, NextGroup(f)
  PROVE  DueInv' /\ FlightInv'
<1>1. /\ pc = "groups" /\ pc' \in {"items", "feed_baseline"} /\ item = None /\ item' = None
      /\ UNCHANGED <<todo, eventsTable, snapshots, baselines, seen>>
      /\ f \in groups /\ groups' = groups \ {f} /\ \A i \in queue' : FeedOf[i] = f
  BY DEF NextGroup, itemVars, storeVars, eventsTable, IInv, ControlInv, ItemSteps, EventSteps
<1>2. Later(f)
  <2>1. todo \in Seq(FeedAdapterSet \cup {Vndb}) /\ todo # <<>>
    BY <1>1 DEF IInv, TypeOK, FetchTypeOK, ControlInv
  <2>2. 1 \in DOMAIN todo /\ Head(todo) = todo[1] BY <2>1, TailFacts
  <2> QED BY <1>1, <2>2 DEF Later, RunInv
<1>3. ASSUME NEW i \in FeedItems, DueItem(i)' PROVE DueItem(i)
  <2>1. Later(FeedOf[i])' => Later(FeedOf[i]) BY <1>1 DEF Later
  <2> QED BY <1>1, <1>2, <1>3, <2>1 DEF DueItem, Steady, sourceVars
<1>4. \A v \in VNs : ~DueVn(v)' BY <1>1 DEF DueVn
<1> QED BY <1>1, <1>3, <1>4, LoopStep DEF EventSteps, eventsTable

\* The change that is taken up was due.
LEMMA ObserveDue ==
  ASSUME IInv, SourceInv, SameSources, Steady, DueInv, NEW v \in VNs, ObserveVn(v)
  PROVE  DueInv' /\ FlightInv'
<1>1. /\ pc = "vns" /\ v \in queue /\ queue' = queue \ {v} /\ item' = v /\ item = None
      /\ pc' \in {"find", "ack"}
      /\ UNCHANGED <<todo, groups, eventsTable, snapshots, baselines, seen>>
  BY DEF ObserveVn, Goto, storeVars, eventsTable, IInv, ControlInv, ItemSteps, EventSteps
<1>2. RowsKept BY <1>1, SameRows DEF eventsTable
<1>3. \A w \in VNs : DueVn(w)' => DueVn(w) BY <1>1 DEF DueVn
<1>4. ASSUME NEW i \in FeedItems, DueItem(i)' PROVE DueItem(i)
  <2>1. Later(FeedOf[i])' => Later(FeedOf[i]) BY <1>1 DEF Later
  <2> QED BY <1>1, <1>4, <2>1, EventsAssumption DEF DueItem, Steady, sourceVars
<1>5. DueInv' BY <1>1, <1>2, <1>3, <1>4, DueKept
<1>6. ASSUME pc' = "find" PROVE Foretold(key, event)'
  <2> DEFINE now == Sighting(vnDate[v], today)
             k == ChangeKey(v, snapshots[v], now)
             e == ChangeEvent(v, snapshots[v], now)
  <2>1. sighted[v] = now BY <1>1 DEF SameSources
  <2>2. /\ ChangeType(snapshots[v], now) # None /\ key' = k /\ event' = e
    BY <1>6, <2>1 DEF ObserveVn, Goto
  <2>3. DueVn(v) BY <1>1 DEF DueVn, SourceInv, ChangeInv
  <2>4. Foretold(k, e) BY <2>2, <2>3 DEF DueInv
  <2> HIDE DEF k, e
  <2>5. \A a, b : Foretold(a, b) => Foretold(a, b)' BY <1>2, ForetoldKept
  <2>6. \A a, b : a = k /\ b = e => Foretold(a, b)' BY <2>4, <2>5
  <2> QED BY <2>2, <2>6
<1> QED BY <1>1, <1>5, <1>6 DEF FlightInv, SendSteps

\* So was the item.
LEMMA TakeDue ==
  ASSUME IInv, SourceInv, SameSources, Steady, DueInv, Promised,
         NEW i \in FeedItems, TakeItem(i)
  PROVE  DueInv' /\ FlightInv'
<1>1. /\ pc = "items" /\ i \in queue /\ queue' = queue \ {i} /\ item' = i /\ item = None
      /\ pc' = "find" /\ key' = i /\ event' = fetched[i]
      /\ i \notin seen \/ i \in backfill
      /\ backfill = preview.backfill
      /\ UNCHANGED <<todo, groups, eventsTable, snapshots, baselines, seen>>
  BY DEF TakeItem, Goto, storeVars, eventsTable, IInv, ControlInv, ItemSteps, EventSteps,
         Promised
<1>2. RowsKept BY <1>1, SameRows DEF eventsTable
<1>3. \A w \in VNs : ~DueVn(w)' BY <1>1, EventsAssumption DEF DueVn
<1>4. ASSUME NEW j \in FeedItems, DueItem(j)' PROVE DueItem(j)
  <2>1. Later(FeedOf[j])' => Later(FeedOf[j]) BY <1>1 DEF Later
  <2> QED BY <1>1, <1>4, <2>1 DEF DueItem, Steady, sourceVars
<1>5. DueInv' BY <1>2, <1>3, <1>4, DueKept
<1>6. listing[i] # None /\ fetched[i] = FullReport(i)
  <2>1. follow.linked = Linking BY <1>1 DEF Promised, SameAnswer, FullFollow
  <2> QED BY <1>1, <2>1 DEF IInv, ControlInv, SameSources, FullReport
<1>7. DueItem(i) BY <1>1, <1>6 DEF DueItem, SourceInv, FeedInv
<1>8. Foretold(i, fetched[i]) BY <1>6, <1>7 DEF DueInv
<1>9. \A b : Foretold(i, b) => Foretold(i, b)' BY <1>2, ForetoldKept
<1>10. \A b : b = fetched[i] => Foretold(i, b)' BY <1>8, <1>9
<1> QED BY <1>1, <1>5, <1>10 DEF FlightInv, SendSteps

---------------------------------------------------------------------------
(* The dry run: the item in flight *)

\* While an item is handled the rest of its loop stays due.
LEMMA ItemDue ==
  ASSUME IInv, RunInv, Steady, RowsKept, DueInv, ItemStep, seen \subseteq seen',
         \A v \in VNs \ {item} : snapshots'[v] = snapshots[v]
  PROVE  DueInv'
<1>1. /\ pc \in ItemSteps /\ item \in VNs \cup FeedItems
      /\ item \notin VNs \/ item \notin queue
      /\ UNCHANGED <<todo, groups, queue, baselines>>
      /\ pc' \notin {"idle", "fetch"}
      /\ item' \in VNs => item' = item
      /\ item' \in FeedItems => item' = item
      /\ pc' = "vns" => item \in VNs
      /\ pc' = "items" => item \in FeedItems
  BY DEF IInv, ControlInv, RunInv, ItemStep, workVars, ItemSteps, EventSteps
<1>2. ASSUME NEW v \in VNs, DueVn(v)' PROVE DueVn(v) /\ snapshots'[v] = snapshots[v]
  BY <1>1, <1>2 DEF DueVn
<1>3. ASSUME NEW i \in FeedItems, DueItem(i)' PROVE DueItem(i)
  <2>1. Later(FeedOf[i])' => Later(FeedOf[i]) BY <1>1 DEF Later
  <2> QED BY <1>1, <1>3, <2>1 DEF DueItem, Steady, sourceVars
<1> QED BY <1>2, <1>3, DueKept

\* A row that is to be sent was told; a new one is decided on as it was told.
LEMMA ChosenWasTold ==
  ASSUME IInv, SameSources, SameAnswer, FlightInv, pc = "choose",
         ChooseStatus(event, score[rec], cfg, today) = "PENDING"
  PROVE  about[rec] = event /\ Identity(event) \in preview.told
<1>1. /\ cfg = settings /\ settings \in ConfigType /\ event \in SourceEvents
      /\ follow.discovered \subseteq FullFollow.discovered /\ follow.resolved = FullFollow.resolved
      /\ about[rec] = event /\ score[rec] = Score(event, settings, follow) /\ NewsTold(event)
  BY EnvironmentAssumption
     DEF SameSources, SameAnswer, FullFollow, FlightInv, IInv, TypeOK, EnvTypeOK, ControlInv,
         EventSteps, ValidConfig
<1> DEFINE r == Score(event, settings, follow)
           s == FullScore(event)
<1>2. r \in Nat /\ s \in Nat /\ r <= s BY <1>1, ScoreIsNat, ScoreGrows DEF FullScore
<1>3. ChooseStatus(event, r, settings, today) = "PENDING" BY <1>1
<1> HIDE DEF r, s
<1>4. ChooseStatus(event, s, settings, today) = "PENDING" BY <1>1, <1>2, <1>3, PendingGrows
<1> QED BY <1>1, <1>4 DEF NewsTold, s

\* Every step about an item keeps the word of the dry run.
LEMMA ItemPreview ==
  ASSUME IInv, RunInv, SameSources, SameAnswer, Steady, DueInv, FlightInv, ItemAction
  PROVE  DueInv' /\ FlightInv'
<1> USE DEF IInv, Goto, EventSteps, ItemSteps, SendSteps, RowSteps
<1>0. ItemStep /\ UNCHANGED <<settings, today, preview>> /\ settings = cfg
  BY ItemActions DEF Steady, sourceVars, SameSources, ItemStep
<1>1. ASSUME UNCHANGED <<eventsTable, snapshots, seen>>, pc # "choose" PROVE DueInv'
  BY <1>0, <1>1, ItemDue, SameRows DEF eventsTable
<1>2. CASE \E j \in Keys : FindDuplicate(j)
  <2>1. PICK j \in Keys : FindDuplicate(j) BY <1>2
  <2>2. Foretold(key, event) /\ pc = "find" /\ j \in FindEquivalent(key, event)
    BY <2>1 DEF FindDuplicate, FlightInv
  <2>3. RowTold(j) BY <2>2 DEF Foretold, Undecided
  <2>4. FlightInv'
    BY <1>0, <2>1, <2>3
       DEF FindDuplicate, FlightInv, RowTold, Retriable, Identity, runVars, storeVars
  <2> QED BY <1>1, <2>1, <2>4 DEF FindDuplicate, storeVars, eventsTable
<1>3. CASE FindNone
  <2>1. NewsTold(event) BY <1>3 DEF FindNone, FlightInv, Foretold
  <2>3. FullScore(event)' = FullScore(event)
    <3>1. event' = event /\ \A e : FullScore(e)' = FullScore(e)
      BY <1>0, <1>3, FullScoreKept DEF FindNone, itemVars
    <3> QED BY <3>1 DEF FullScore, FullFollow, Resolved
  <2>2. FlightInv' BY <1>0, <1>3, <2>1, <2>3 DEF FindNone, FlightInv, NewsTold, itemVars
  <2> QED BY <1>1, <1>3, <2>2 DEF FindNone, storeVars, eventsTable
<1>4. CASE SameReport \/ ReadCorroborations \/ DeliverConfirmed \/ DeliverRefused \/ Recheck
           \/ DeliverUnconfirmed
  <2>1. FlightInv'
    BY <1>0, <1>4
       DEF SameReport, ReadCorroborations, DeliverConfirmed, DeliverRefused, Recheck,
           DeliverUnconfirmed, AfterDuplicate, NextItem, FlightInv, Retriable, Identity,
           itemVars, runVars, storeVars
  <2> QED
    BY <1>1, <1>4, <2>1
       DEF SameReport, ReadCorroborations, DeliverConfirmed, DeliverRefused, Recheck,
           DeliverUnconfirmed, storeVars, eventsTable
<1>5. CASE Corroborate
  <2>1. RowsKept BY <1>0, <1>5, SameRows DEF Corroborate
  <2>2. DueInv' BY <1>0, <1>5, <2>1, ItemDue DEF Corroborate
  <2>3. FlightInv'
    BY <1>0, <1>5 DEF Corroborate, AfterDuplicate, FlightInv, Retriable, Identity, runVars
  <2> QED BY <2>2, <2>3
<1>6. CASE AddEvent
  <2>1. /\ key \in Keys /\ status[key] = "ABSENT" /\ rec' = key /\ pc = "add" /\ pc' = "choose"
        /\ status' = [status EXCEPT ![key] = "PENDING"]
        /\ about' = [about EXCEPT ![key] = event]
        /\ score' = [score EXCEPT ![key] = Score(event, cfg, follow)]
        /\ UNCHANGED <<snapshots, seen, event, cfg, follow>>
    BY <1>6 DEF AddEvent, Add, ControlInv, runVars
  <2>2. /\ about'[key] = event /\ score'[key] = Score(event, cfg, follow)
        /\ \A k \in Keys \ {key} : /\ status'[k] = status[k] /\ about'[k] = about[k]
                                    /\ score'[k] = score[k]
    BY <2>1 DEF TypeOK, StoreTypeOK
  <2>3. RowsKept
    <3>1. \A k \in Keys \ {key} : ~Undecided(k) /\ (RowTold(k) => RowTold(k)')
      BY <1>0, <2>1, <2>2 DEF Undecided, RowTold, Retriable, Identity
    <3>2. \A k \in Keys : k = key => Undecided(k)' BY <2>1 DEF Undecided
    <3>3. \A r \in Stored : r \in Stored' /\ about'[r] = about[r]
      BY <2>1, <2>2 DEF Stored
    <3>4. \A r \in Stored' : r = key \/ (r \in Stored /\ r \in Keys \ {key})
      BY <2>1, <2>2 DEF Stored
    <3> QED BY <2>1, <3>1, <3>2, <3>3, <3>4, Zenon DEF RowsKept
  <2>4. FlightInv'
    <3>1. FullScore(event)' = FullScore(event)
      BY <1>0, <2>1 DEF FullScore, FullFollow, Resolved
    <3> QED BY <1>0, <2>1, <2>2, <3>1 DEF FlightInv, NewsTold
  <2> QED BY <1>0, <2>1, <2>3, <2>4, ItemDue
<1>7. ASSUME NEW s \in Statuses, SetStatus({rec}, s), UNCHANGED <<about, score, snapshots, seen>>,
             pc' # "choose", rec \in Keys, status[rec] # "ABSENT",
             s \in {"PENDING", "FAILED"} => Identity(about[rec]) \in preview.told
      PROVE  DueInv'
  <2>1. /\ status'[rec] = s /\ Stored' = Stored
        /\ \A k \in Keys \ {rec} : status'[k] = status[k]
    BY <1>7 DEF SetStatus, Stored, Statuses
  <2>2. \A k \in Keys : k = rec => RowTold(k)'
    BY <1>0, <1>7, <2>1 DEF RowTold, Retriable, Identity
  <2>3. \A k \in Keys \ {rec} : ~Undecided(k) /\ (RowTold(k) => RowTold(k)')
    BY <1>0, <1>7, <2>1 DEF Undecided, RowTold, Retriable, Identity
  <2>4. RowsKept BY <1>7, <2>1, <2>2, <2>3 DEF RowsKept, Stored
  <2> QED BY <1>0, <1>7, <2>4, ItemDue
<1>8. CASE Choose
  <2>1. /\ rec = key /\ rec \in Keys /\ status[rec] = "PENDING" /\ about'[rec'] = about[rec]
        /\ UNCHANGED <<about, score, snapshots, seen, rec>> /\ pc = "choose"
    BY <1>8 DEF Choose, RowInv, ControlInv, itemVars
  <2> DEFINE verdict == ChooseStatus(event, score[rec], cfg, today)
  <2>2. CASE verdict = "PENDING"
    <3>1. pc' = "deliver" /\ status' = status BY <1>8, <2>2 DEF Choose
    <3>2. Identity(about[rec]) \in preview.told BY <1>8, <2>2, ChosenWasTold DEF Choose
    <3>3. SetStatus({rec}, "PENDING")
      BY <2>1, <3>1 DEF SetStatus, TypeOK, StoreTypeOK
    <3>4. DueInv' BY <1>7, <2>1, <3>1, <3>2, <3>3 DEF Statuses
    <3>5. FlightInv' BY <1>0, <2>1, <3>1, <3>2 DEF FlightInv, Identity
    <3> QED BY <3>4, <3>5
  <2>3. CASE verdict # "PENDING"
    <3>1. pc' = "ack" /\ SetStatus({rec}, verdict) /\ verdict \in {"DIGEST", "SKIPPED"}
      BY <1>8, <2>3, VerdictRange DEF Choose
    <3> HIDE DEF verdict
    <3>2. DueInv' BY <1>7, <2>1, <3>1 DEF Statuses
    <3> QED BY <3>1, <3>2 DEF FlightInv
  <2> QED BY <2>2, <2>3
<1>9. CASE MarkSent \/ MarkFailed
  <2>1. /\ rec \in Keys /\ status[rec] # "ABSENT" /\ pc \in SendSteps
        /\ UNCHANGED <<about, score, snapshots, seen>> /\ pc' \in {"ack", "vns", "items"}
        /\ SetStatus({rec}, "SENT") \/ SetStatus({rec}, "FAILED")
    BY <1>9 DEF MarkSent, MarkFailed, NextItem, RowInv
  <2>2. Identity(about[rec]) \in preview.told BY <2>1 DEF FlightInv
  <2>3. DueInv' BY <1>7, <2>1, <2>2 DEF Statuses
  <2> QED BY <2>1, <2>3 DEF FlightInv
<1>10. CASE AddRefused
  <2>1. FlightInv' BY <1>10 DEF AddRefused, NextItem, FlightInv
  <2> QED BY <1>1, <1>10, <2>1 DEF AddRefused, storeVars, eventsTable
<1>11. CASE Ack
  <2>1. /\ pc = "ack" /\ pc' \in {"vns", "items"} /\ UNCHANGED eventsTable
        /\ seen \subseteq seen' /\ \A v \in VNs \ {item} : snapshots'[v] = snapshots[v]
    BY <1>11 DEF Ack, NextItem, MarkSeen, SaveSnapshot, TypeOK, StoreTypeOK
  <2>2. RowsKept BY <2>1, SameRows DEF eventsTable
  <2>3. DueInv' BY <1>0, <2>1, <2>2, ItemDue
  <2> QED BY <2>1, <2>3 DEF FlightInv
<1> QED
  BY <1>2, <1>3, <1>4, <1>5, <1>6, <1>8, <1>9, <1>10, <1>11 DEF ItemAction

---------------------------------------------------------------------------
(* The dry run: the invariant is inductive *)

\* A run that has kept to the dry run's answer after a step has before it.
LEMMA PromisedBefore ==
  ASSUME IInv, RunInv, Steady, FetchNext, ~StartFetch, pc' # "idle",
         backfill' = backfill, Promised'
  PROVE  Promised
<1>1. todo \in Seq(FeedAdapterSet \cup {Vndb}) /\ TodoInv(todo)
  BY DEF IInv, TypeOK, FetchTypeOK, RunInv
<1>2. UNCHANGED <<preview, settings>> /\ ~Fault /\ ~Exit
  BY DEF Steady, sourceVars, Fault, Exit, IInv, TypeOK, EnvTypeOK
<1> DEFINE asks == pc = "fetch" /\ todo # <<>> /\ Head(todo) = Vndb
<1>3. \/ follow' = follow
      \/ asks
  BY <1>2
     DEF FetchNext, FetchStep, FetchDone, FetchFails, FetchVndb, FetchFeeds,
       SaveBaselineSnapshot, ObserveVn, FinishVndbBaseline, VnsDone, NextGroup, GroupsDone,
       FinishFeedBaseline, GroupDone, MarkBaselineItem, SkipItem, TakeItem, FindDuplicate,
       FindNone, SameReport, ReadCorroborations, Corroborate, AddEvent, AddRefused, Choose,
       DeliverConfirmed, DeliverRefused, DeliverUnconfirmed, MarkSent, MarkFailed, Recheck, Ack,
       StoreError, Crash, NextAdapter, EndGroup, NextItem, runVars
<1>4. pc' = "fetch" => todo # <<>> /\ todo' = Tail(todo)
  BY <1>2
     DEF FetchNext, FetchStep, FetchDone, FetchFails, FetchVndb, FetchFeeds,
       SaveBaselineSnapshot, ObserveVn, FinishVndbBaseline, VnsDone, NextGroup, GroupsDone,
       FinishFeedBaseline, GroupDone, MarkBaselineItem, SkipItem, TakeItem, FindDuplicate,
       FindNone, SameReport, ReadCorroborations, Corroborate, AddEvent, AddRefused, Choose,
       DeliverConfirmed, DeliverRefused, DeliverUnconfirmed, MarkSent, MarkFailed, Recheck, Ack,
       StoreError, Crash, NextAdapter, EndGroup, NextItem, AfterDuplicate, Goto,
       IInv, ControlInv
<1>5. ~asks'
  <2>1. todo # <<>> /\ todo' = Tail(todo) /\ todo' # <<>> => Head(todo') # Vndb
    BY <1>1, TailFacts DEF TodoInv
  <2> QED BY <1>4, <2>1
<1>6. FullFollow' = FullFollow BY <1>2 DEF FullFollow, Resolved
<1> QED BY <1>2, <1>3, <1>5, <1>6 DEF Promised, SameAnswer

\* Each step of a fetch with the dry run's option keeps its word, if VNDB
\* answers as it did then.
LEMMA FetchKeepsPreview ==
  ASSUME IInv, SourceInv, RunInv, SameSources, Steady, FetchNext,
         pc = "idle" \/ Promised => DueInv /\ FlightInv
  PROVE  pc' = "idle" \/ Promised' => DueInv' /\ FlightInv'
<1> SUFFICES ASSUME pc' = "idle" \/ Promised'
             PROVE  DueInv' /\ FlightInv'
    OBVIOUS
<1>0. /\ preview' = preview /\ ~Fault /\ (~Exit \/ pc = "idle")
      /\ pc \notin {"idle", "fetch"} => todo # <<>>
      /\ pc \notin ItemSteps => item = None
  BY DEF Steady, sourceVars, Fault, Exit, IInv, ControlInv, TypeOK, EnvTypeOK
<1>1. CASE StartFetch
  BY <1>1, AnswerDue DEF StartFetch
<1>2. CASE ~StartFetch
  <2>1. pc # "idle" /\ pc' # "idle"
    <3>1. ~Crash /\ ~StoreError /\ ~FetchDone
      BY <1>0 DEF Crash, StoreError, FetchDone
    <3>2. pc # "idle"
      BY <1>2, <3>1 DEF FetchNext, FetchStep, FetchFails, FetchVndb, FetchFeeds,
         SaveBaselineSnapshot, ObserveVn, FinishVndbBaseline, VnsDone, NextGroup, GroupsDone,
         FinishFeedBaseline, GroupDone, MarkBaselineItem, SkipItem, TakeItem, FindDuplicate,
         FindNone, SameReport, ReadCorroborations, Corroborate, AddEvent, AddRefused, Choose,
         DeliverConfirmed, DeliverRefused, DeliverUnconfirmed, MarkSent, MarkFailed, Recheck, Ack
    <3> QED BY <3>2 DEF Steady
  <2>2. backfill' = backfill
    BY <1>0, <1>2, <2>1 DEF FetchNext, FetchStep, FetchDone, FetchFails, FetchVndb, FetchFeeds,
       SaveBaselineSnapshot, ObserveVn, FinishVndbBaseline, VnsDone, NextGroup, GroupsDone,
       FinishFeedBaseline, GroupDone, MarkBaselineItem, SkipItem, TakeItem, FindDuplicate,
       FindNone, SameReport, ReadCorroborations, Corroborate, AddEvent, AddRefused, Choose,
       DeliverConfirmed, DeliverRefused, DeliverUnconfirmed, MarkSent, MarkFailed, Recheck, Ack,
       StoreError, Crash, NextAdapter, EndGroup, NextItem, runVars
  <2>3. DueInv /\ FlightInv /\ Promised
    BY <1>2, <2>1, <2>2, PromisedBefore
  <2>4. CASE FetchFails \/ FinishVndbBaseline \/ VnsDone \/ GroupsDone
    BY <1>0, <2>3, <2>4, NextAdapterDue
       DEF FetchFails, FinishVndbBaseline, VnsDone, GroupsDone, NextAdapter, NoItem, MarkBaseline,
           itemVars, storeVars, eventsTable, ItemSteps, EventSteps
  <2>5. CASE \/ \E shown \in SUBSET VNs : FetchVndb(shown)
             \/ \E ok \in SUBSET Feeds, some \in SUBSET FeedItems : FetchFeeds(ok, some)
    BY <2>3, <2>5, AnswerDue
  <2>6. ASSUME NEW v \in VNs, SaveBaselineSnapshot(v)
        PROVE  DueInv' /\ FlightInv'
    <3>1. /\ pc = "vndb_baseline" /\ pc' = pc /\ item = None /\ item' = None /\ Vndb \notin baselines
          /\ UNCHANGED <<todo, groups, eventsTable, baselines, seen>>
      BY <1>0, <2>6 DEF SaveBaselineSnapshot, itemVars, SourceInv, ChangeInv, ItemSteps, EventSteps
    <3>2. \A w \in VNs : ~DueVn(w)' BY <3>1 DEF DueVn
    <3>3. \A i \in FeedItems : DueItem(i)' => DueItem(i)
      BY <3>1 DEF DueItem, Later, Steady, sourceVars
    <3> QED BY <2>3, <3>1, <3>2, <3>3, LoopStep DEF EventSteps, eventsTable
  <2>7. ASSUME NEW i \in FeedItems, MarkBaselineItem(i) \/ SkipItem(i)
        PROVE  DueInv' /\ FlightInv'
    <3>1. /\ pc \in {"feed_baseline", "items"} /\ pc' = pc /\ item' = item
          /\ UNCHANGED <<todo, groups, eventsTable, snapshots, baselines>>
          /\ seen \subseteq seen' /\ queue' \subseteq queue
      BY <2>7 DEF MarkBaselineItem, MarkSeen, SkipItem, itemVars, storeVars, eventsTable
    <3> QED BY <1>0, <2>3, <3>1, LoopDue DEF ItemSteps, EventSteps
  <2>8. CASE GroupDone
    <3>1. /\ pc = "items" /\ pc' = "groups" /\ item' = item
          /\ UNCHANGED <<todo, groups, eventsTable, snapshots, baselines, seen>>
      BY <2>8 DEF GroupDone, EndGroup, Goto, itemVars, storeVars, eventsTable
    <3> QED BY <1>0, <2>3, <3>1, LoopDue DEF ItemSteps, EventSteps
  <2>9. CASE FinishFeedBaseline BY <2>3, <2>9, FinishFeedDue
  <2>10. CASE \E f \in Feeds : NextGroup(f) BY <2>3, <2>10, NextGroupDue
  <2>11. CASE \E v \in VNs : ObserveVn(v) BY <2>3, <2>11, ObserveDue
  <2>12. CASE \E i \in FeedItems : TakeItem(i) BY <2>3, <2>12, TakeDue
  <2>13. CASE ItemAction
    <3>1. pc # "fetch" BY <2>13, ItemActions DEF ItemStep, ItemSteps, EventSteps
    <3> QED BY <2>3, <2>13, <3>1, ItemPreview DEF Promised
  <2>14. ~FetchDone /\ ~StoreError /\ ~Crash
    BY <1>0, <2>1 DEF FetchDone, StoreError, Crash
  <2> QED
    BY <1>2, <2>4, <2>5, <2>6, <2>7, <2>8, <2>9, <2>10, <2>11, <2>12, <2>13, <2>14
       DEF FetchNext, FetchStep, ItemAction
<1> QED BY <1>1, <1>2

\* A digest only settles rows that wait for it, of which nothing was told.
LEMMA DigestKeepsPreview ==
  ASSUME IInv, SameSources, Steady, DigestNext \/ UNCHANGED <<storeVars, digestVars>>,
         UNCHANGED fetchVars
  PROVE  /\ SameSources'
         /\ DueInv /\ FlightInv => DueInv' /\ FlightInv'
<1>1. UNCHANGED <<about, score, snapshots, baselines, seen>>
  BY DEF DigestNext, DigestStep, StartDigest, Prune, DigestConfirmed, DigestRefused,
         DigestUnconfirmed, MarkBatch, DigestDone, DigestStoreError, DigestCrash, storeVars
<1>2. \/ status' = status
      \/ \E ks \in SUBSET WithStatus("DIGEST"), s \in {"SKIPPED", "SENT"} : SetStatus(ks, s)
  BY DEF DigestNext, DigestStep, StartDigest, Prune, DigestConfirmed, DigestRefused,
         DigestUnconfirmed, MarkBatch, DigestDone, DigestStoreError, DigestCrash, storeVars,
         IInv, DigestInv
<1>3. \A k \in Keys : status'[k] = status[k] \/ (status[k] = "DIGEST" /\ status'[k] \in {"SKIPPED", "SENT"})
  BY <1>2 DEF SetStatus, WithStatus
<1>4. RowsKept
  <2>1. \A r \in Stored : r \in Stored' /\ about'[r] = about[r]
    BY <1>1, <1>3 DEF Stored
  <2>2. \A r \in Stored' : r \in Stored /\ r \in Keys
    BY <1>3 DEF Stored
  <2>3. \A r \in Keys : \/ RowTold(r)' \/ Undecided(r)'
                        \/ ~Undecided(r) /\ (RowTold(r) => RowTold(r)')
    BY <1>1, <1>3 DEF RowTold, Undecided, Retriable, Identity, Steady, sourceVars, fetchVars
  <2> QED BY <2>1, <2>2, <2>3 DEF RowsKept
<1>5. SameSources' BY DEF SameSources, Steady, sourceVars, fetchVars
<1>6. ASSUME DueInv PROVE DueInv'
  <2>1. \A v \in VNs : DueVn(v)' => DueVn(v) BY <1>1 DEF DueVn, fetchVars
  <2>2. \A i \in FeedItems : DueItem(i)' => DueItem(i)
    BY <1>1 DEF DueItem, Later, Steady, sourceVars, fetchVars
  <2> QED BY <1>1, <1>4, <1>6, <2>1, <2>2, DueKept
<1>7. ASSUME FlightInv PROVE FlightInv'
  <2>1. pc = "find" => Foretold(key, event)'
    <3>1. \A k, e : Foretold(k, e) => Foretold(k, e)' BY <1>4, ForetoldKept
    <3>2. \A k, e : pc = "find" /\ k = key /\ e = event => Foretold(k, e)' BY <1>7, <3>1 DEF FlightInv
    <3> QED BY <3>2 DEF fetchVars
  <2> QED
    BY <1>1, <1>7, <2>1
       DEF FlightInv, Retriable, Identity, NewsTold, FullScore, FullFollow, Resolved, Steady,
           sourceVars, fetchVars
<1> QED BY <1>5, <1>6, <1>7

\* The dry run tells of all that is due when it runs.
LEMMA DryKeepsPreview ==
  ASSUME IInv, RunInv, RunDry
  PROVE  PreviewInv'
<1>1. /\ pc = "idle" /\ UNCHANGED vars
      /\ item = None /\ follow = NoFollow /\ fetched = NothingFetched
  BY DEF RunDry, RunInv, IInv, ControlInv, ItemSteps, EventSteps
<1>2. UNCHANGED <<status, about, score, snapshots, baselines, seen, listing, vnDate, today,
                  settings, pc, cfg, follow, fetched, item, rec, queue, sighted, todo, groups>>
  BY <1>1 DEF vars, storeVars, envVars, fetchVars
<1>3. PICK b \in Backfills :
        preview' = [backfill |-> b, told |-> PreviewSnapshots \cup PreviewFeeds(b)]
  BY DEF RunDry
<1>4. preview'.backfill = b /\ preview'.told = PreviewSnapshots \cup PreviewFeeds(b) BY <1>3
<1>5. ASSUME NEW k, NEW e, PreviewOne(k, e) \subseteq preview'.told
      PROVE  Foretold(k, e)'
  <2>1. FindEquivalent(k, e)' = FindEquivalent(k, e)
    BY <1>2 DEF FindEquivalent, Stored, Identity
  <2>2. CASE FindEquivalent(k, e) = {}
    <3>1. NewsTold(e)'
      BY <1>2, <1>5, <2>2, FullScoreKept DEF NewsTold, PreviewOne
    <3> QED BY <2>1, <2>2, <3>1 DEF Foretold
  <2>3. CASE FindEquivalent(k, e) # {}
    <3>1. \A r \in FindEquivalent(k, e) : RowTold(r)'
      BY <1>2, <1>5, <2>3 DEF RowTold, PreviewOne, Retriable, Identity
    <3> QED BY <2>1, <2>3, <3>1 DEF Foretold
  <2> QED BY <2>2, <2>3
<1>6. ASSUME NEW v \in VNs, DueVn(v)', ChangeType(snapshots[v], Sighting(vnDate[v], today))' # None
      PROVE  Foretold(ChangeKey(v, snapshots[v], Sighting(vnDate[v], today)),
                      ChangeEvent(v, snapshots[v], Sighting(vnDate[v], today)))'
  <2> DEFINE now == Sighting(vnDate[v], today)
             k == ChangeKey(v, snapshots[v], now)
             e == ChangeEvent(v, snapshots[v], now)
  <2>1. k' = k /\ e' = e BY <1>2 DEF ChangeEvent
  <2>2. Vndb \in baselines /\ ChangeType(snapshots[v], now) # None BY <1>2, <1>6 DEF DueVn
  <2>3. PreviewOne(k, e) \subseteq PreviewSnapshots BY <2>2 DEF PreviewSnapshots
  <2> HIDE DEF k, e
  <2>4. \A c, d : c = k /\ d = e => Foretold(c, d)' BY <1>4, <1>5, <2>3
  <2>5. Foretold(k, e)' BY <2>1, <2>4
  <2> QED BY <2>5 DEF k, e
<1>7. ASSUME NEW i \in FeedItems, DueItem(i)'
      PROVE  Foretold(i, FullReport(i))'
  <2>1. listing[i] # None /\ FeedOf[i] \in baselines /\ (i \notin seen \/ i \in b)
    BY <1>2, <1>4, <1>7 DEF DueItem
  <2>2. PreviewOne(i, FullReport(i)) \subseteq PreviewFeeds(b) BY <2>1 DEF PreviewFeeds
  <2>3. \A c : c = FullReport(i) => Foretold(i, c)' BY <1>4, <1>5, <2>2
  <2>4. FullReport(i)' = FullReport(i) BY <1>2 DEF FullReport, Report, Mapped
  <2> QED BY <2>3, <2>4
<1>8. DueInv' BY <1>6, <1>7 DEF DueInv
<1>9. SameSources' /\ FlightInv'
  BY <1>1, <1>2 DEF SameSources, NothingFetched, NoFollow, FlightInv, SendSteps
<1> QED BY <1>8, <1>9 DEF PreviewInv

\* Every step keeps it, or makes the preview one of other sources.
LEMMA StepPreview ==
  ASSUME IInv, SourceInv, RunInv, PreviewInv, [DryRunNext]_dryRunVars
  PROVE  PreviewInv'
<1>1. CASE RunDry BY <1>1, DryKeepsPreview
<1>2. ASSUME [Next]_vars, preview' # None, Steady, preview # None
      PROVE  PreviewInv'
  <2>1. SameSources /\ (pc = "idle" \/ Promised => DueInv /\ FlightInv)
    BY <1>2 DEF PreviewInv
  <2>2. CASE FetchNext
    BY <1>2, <2>1, <2>2, FetchSameSources, FetchKeepsPreview DEF PreviewInv
  <2>3. CASE /\ DigestNext \/ UNCHANGED <<storeVars, digestVars>>
             /\ UNCHANGED fetchVars
    <3>1. FullFollow' = FullFollow /\ UNCHANGED <<pc, todo, backfill, follow, preview>>
      BY <1>2, <2>3 DEF FullFollow, Resolved, Steady, sourceVars, fetchVars
    <3>2. Promised' => Promised BY <3>1 DEF Promised, SameAnswer
    <3> QED BY <1>2, <2>1, <2>3, <3>1, <3>2, DigestKeepsPreview DEF PreviewInv
  <2> QED BY <1>2, <2>2, <2>3 DEF Next, vars
<1>3. CASE Next /\ preview' = IF Outdated THEN None ELSE preview
  <2>1. CASE preview' = None BY <2>1 DEF PreviewInv
  <2>2. CASE preview' # None
    <3>1. preview' = preview /\ ~Outdated BY <1>3, <2>2
    <3>2. Steady BY <3>1 DEF Steady, Outdated
    <3> QED BY <1>2, <1>3, <2>2, <3>1, <3>2
  <2> QED BY <2>1, <2>2
<1>4. CASE UNCHANGED dryRunVars
  <2>1. CASE preview = None BY <1>4, <2>1 DEF PreviewInv, dryRunVars
  <2>2. CASE preview # None
    <3>1. Steady BY <1>4 DEF Steady, dryRunVars, vars, fetchVars, envVars, sourceVars
    <3> QED BY <1>2, <1>4, <2>2, <3>1 DEF dryRunVars
  <2> QED BY <2>1, <2>2
<1> QED BY <1>1, <1>3, <1>4 DEF DryRunNext

---------------------------------------------------------------------------
(* The dry run: the theorems *)

\* What a dry run told of stays what is still due, however the fetch it was
\* run for, a digest and the store's rows go on.
THEOREM PreviewInvariance == DryRunSpec => [](RunInv /\ PreviewInv)
<1> DEFINE Inv == IInv /\ SourceInv /\ RunInv /\ PreviewInv
<1>1. DryRunInit => Inv
  BY InitInv, InitSource, InitRun DEF DryRunInit, PreviewInv
<1>2. Inv /\ [DryRunNext]_dryRunVars => Inv'
  <2> SUFFICES ASSUME Inv, [DryRunNext]_dryRunVars PROVE Inv' OBVIOUS
  <2>1. [Next]_vars BY DEF DryRunNext, RunDry, dryRunVars
  <2> QED BY <2>1, StepInv, StepSource, StepRun, StepPreview
<1>3. Inv => RunInv /\ PreviewInv OBVIOUS
<1> QED BY <1>1, <1>2, <1>3, PTL DEF DryRunSpec

\* Every message a fetch sends was shown by the dry run before it, if VNDB
\* answers the fetch as it answered the dry run, and unless the sources, the
\* settings or a failure came in between.
THEOREM DryRunForetells == DryRunSpec => []SendsAreForetold
<1>1. PreviewInv => SendsAreForetold
  BY DEF PreviewInv, Promised, FlightInv, SendSteps, SendsAreForetold
<1> QED BY <1>1, PreviewInvariance, PTL
=============================================================================
