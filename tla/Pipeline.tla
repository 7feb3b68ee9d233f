------------------------------ MODULE Pipeline ------------------------------
(***************************************************************************)
(* services/pipeline.py: a `fetch` process, started by the task scheduler. *)
(* It runs the adapters in order, VNDB first; every call of an EventStore  *)
(* method or of the notifier is a step of its own, and the process may be  *)
(* killed or the database may fail between any two.                        *)
(*                                                                         *)
(*   fetch -> vndb_baseline -----------------------------> fetch           *)
(*         -> vns  -> find -> duplicate | add -> choose -> deliver ...     *)
(*         -> groups -> feed_baseline | items -> find ...                  *)
(*   duplicate -> corroborate -> deliver | recheck                         *)
(*   deliver -> mark_sent -> ack | mark_failed;  recheck -> ack            *)
(***************************************************************************)
EXTENDS EventStore, Environment, Sequences

CONSTANTS
  Feeds,          \* feed keys: one per Steam app, itch page or RSS url
  FeedAdapters,   \* the feed adapters configured, in the order they run
  FeedsOf,        \* the feeds of each feed adapter
  Piecemeal,      \* the adapters that keep what they got of a feed that fails
  FeedOf,         \* the feed of each item
  SteamApps,      \* the feeds of the Steam adapter, which have developer ids
  Configured,     \* the feeds config.yaml names
  Links,          \* the feeds VNDB's links of each VN name, and discovery follows up
  FirstOf,        \* of some VNs, the one that is first in VNDB's answer
  Discoverable,   \* the VNs auto-discovery may add
  SearchHit,      \* what VNDB finds first for the name of a developer, or None
  Backfills       \* the sets of items a --backfill-since option may select

Vndb == "vndb"
FeedAdapterSet == {FeedAdapters[n] : n \in DOMAIN FeedAdapters}

ASSUME PipelineAssumption ==
  /\ FeedAdapters \in Seq(FeedAdapterSet)
  /\ FeedsOf \in [FeedAdapterSet -> SUBSET Feeds]
  /\ FeedOf \in [FeedItems -> Feeds]
  /\ Piecemeal \subseteq FeedAdapterSet
  /\ Discoverable \subseteq VNs
  /\ SearchHit \in [Developers -> Producers \cup {None}]
  /\ Backfills \subseteq SUBSET FeedItems
  /\ Baselines = Feeds \cup {Vndb}
  /\ Vndb \notin Feeds /\ Vndb \notin FeedAdapterSet
  /\ None \notin Feeds

\* There is one adapter of each kind, and a feed key begins with the kind.
ASSUME FeedsAssumption ==
  /\ \A m, n \in DOMAIN FeedAdapters : FeedAdapters[m] = FeedAdapters[n] => m = n
  /\ \A a, b \in FeedAdapterSet : a # b => FeedsOf[a] \cap FeedsOf[b] = {}

\* A feed is configured or found through a link.  The order of VNDB's answer
\* is the same for fewer VNs.
ASSUME LinksAssumption ==
  /\ SteamApps \subseteq Feeds /\ Links \in [VNs -> SUBSET Feeds]
  /\ Configured \cup UNION {Links[v] : v \in VNs} = Feeds
  /\ FirstOf \in [(SUBSET VNs) \ {{}} -> VNs]
  /\ \A vs \in DOMAIN FirstOf :
       /\ FirstOf[vs] \in vs
       /\ \A ws \in SUBSET vs : FirstOf[vs] \in ws => FirstOf[ws] = FirstOf[vs]

VARIABLES
  pc,           \* what the process does next
  cfg,          \* the configuration it loaded
  follow,       \* what the VNDB adapter put into config.follow (see Scoring)
  backfill,     \* the items its --backfill-since option selects
  todo,         \* the adapters still to run
  sighted,      \* the VNs VNDB returned
  fetched,      \* the feed items the current adapter returned
  groups,       \* the feed keys among them still to be handled
  feed,         \* the feed key being handled
  queue,        \* the VNs or items still to be handled
  item,         \* the VN or item being handled
  key, event,   \* its source_event_id and content
  rec, read,    \* the row it was found or added as, and the status then read
  known,        \* the corroborations of that row, as last read
  baselined     \* history: items a feed baseline marked as seen

runVars   == <<cfg, follow, backfill>>
workVars  == <<todo, sighted, fetched, groups, feed, queue>>
itemVars  == <<item, key, event, rec, read, known>>
fetchVars == <<pc, cfg, follow, backfill, todo, sighted, fetched, groups,
               feed, queue, item, key, event, rec, read, known, baselined>>

PCs == {"idle", "fetch", "vndb_baseline", "vns", "groups", "feed_baseline",
        "items", "find", "duplicate", "corroborate", "add", "choose",
        "deliver", "mark_sent", "mark_failed", "recheck", "ack"}

NothingSighted == [v \in VNs |-> None]
NothingFetched == [i \in FeedItems |-> None]

FetchTypeOK ==
  /\ pc \in PCs
  /\ cfg \in Configs \cup {None}
  /\ follow \in FollowType
  /\ backfill \subseteq FeedItems
  /\ todo \in Seq(FeedAdapterSet \cup {Vndb})
  /\ sighted \in [VNs -> Snapshots \cup {None}]
  /\ fetched \in [FeedItems -> SourceEvents \cup {None}]
  /\ groups \subseteq Feeds
  /\ feed \in Feeds \cup {None}
  /\ queue \subseteq VNs \cup FeedItems
  /\ item \in VNs \cup FeedItems \cup {None}
  /\ key \in Keys \cup {None}
  /\ event \in SourceEvents \cup {None}
  /\ rec \in Keys \cup {None}
  /\ read \in Statuses \cup {None}
  /\ known \subseteq Keys
  /\ baselined \subseteq FeedItems

FetchInit ==
  /\ pc = "idle" /\ cfg = None /\ follow = NoFollow /\ backfill = {}
  /\ todo = <<>> /\ sighted = NothingSighted /\ fetched = NothingFetched
  /\ groups = {} /\ feed = None /\ queue = {}
  /\ item = None /\ key = None /\ event = None /\ rec = None /\ read = None
  /\ known = {} /\ baselined = {}

---------------------------------------------------------------------------
\* A status that settles an event: its source item need not come back.
TerminalStatuses == {"DIGEST", "SKIPPED", "SENT"}

NoItem ==
  /\ item' = None /\ key' = None /\ event' = None
  /\ rec' = None /\ read' = None /\ known' = {}

\* The process ends, or dies, and forgets everything the store does not hold.
Exit ==
  /\ pc' = "idle" /\ cfg' = None /\ follow' = NoFollow /\ backfill' = {}
  /\ todo' = <<>> /\ sighted' = NothingSighted /\ fetched' = NothingFetched
  /\ groups' = {} /\ feed' = None /\ queue' = {} /\ NoItem

\* On to the next adapter.
NextAdapter ==
  /\ pc' = "fetch" /\ todo' = Tail(todo)
  /\ sighted' = NothingSighted /\ fetched' = NothingFetched
  /\ groups' = {} /\ feed' = None /\ queue' = {} /\ NoItem
  /\ UNCHANGED runVars

\* On to the next VN or item of the loop that took this one.
NextItem ==
  /\ pc' = IF item \in VNs THEN "vns" ELSE "items"
  /\ NoItem
  /\ UNCHANGED <<runVars, workVars>>

Goto(l) == pc' = l

---------------------------------------------------------------------------
\* The scheduler starts `gal-radar fetch`: run_fetch, then run's first lines.
StartFetch ==
  /\ pc = "idle"
  /\ pc' = "fetch" /\ cfg' = settings /\ todo' = <<Vndb>> \o FeedAdapters
  /\ backfill' \in Backfills
  /\ UNCHANGED <<follow, sighted, fetched, groups, feed, queue, itemVars,
                 baselined, storeVars, envVars>>

FetchDone ==
  /\ pc = "fetch" /\ todo = <<>>
  /\ Exit
  /\ UNCHANGED <<baselined, storeVars, envVars>>

\* What the followed developers are resolved to.
Resolved(c) == {SearchHit[d] : d \in c.developers} \ {None}

\* The VNs whose links matter.
Linking == {v \in VNs : Links[v] # {}}

\* VNDB answers with some of the VNs and the adapter notes the discovered
\* ones, the developers and the links; without a baseline for the source,
\* this answer becomes it.
FetchVndb(shown) ==
  /\ pc = "fetch" /\ todo # <<>> /\ Head(todo) = Vndb
  /\ sighted' = [v \in VNs |-> IF v \in shown THEN Sighting(vnDate[v], today) ELSE None]
  /\ queue' = shown
  /\ follow' \in [discovered : SUBSET (shown \cap Discoverable),
                 resolved : {Resolved(cfg)}, linked : {shown \cap Linking}]
  /\ pc' = IF Vndb \in baselines THEN "vns" ELSE "vndb_baseline"
  /\ UNCHANGED <<cfg, backfill, todo, fetched, groups, feed, itemVars,
                 baselined, storeVars, envVars>>

\* add_discovered_steam_app, and what an event of the app takes from it: the
\* links of the VNs vs add their developers' ids, and a VN and a developer
\* where none is given.
Mapped(e, vs) ==
  LET named == {v \in vs : DevelopersOf[v] # <<>>} IN
  [e EXCEPT !.entity = IF @ \in VNs THEN @ ELSE FirstOf[vs],
            !.names  = IF @ # {} \/ named = {} THEN @
                       ELSE {NameOf[Head(DevelopersOf[FirstOf[named]])]},
            !.ids    = @ \cup UNION {DeveloperIds(v) : v \in vs}]

\* The report of an item, of which the feed says e, in a run that has merged
\* the links of the VNs `linked`.  Only the mappings of Steam apps are merged.
Report(e, f, linked) ==
  LET vs == {v \in linked : f \in Links[v]}
  IN IF f \in SteamApps /\ vs # {} THEN Mapped(e, vs) ELSE e

\* The feeds an adapter asks.
Asked(a) ==
  {f \in FeedsOf[a] : f \in Configured \/ \E v \in follow.linked : f \in Links[v]}

\* A feed adapter returns what the feeds that answered list, and the Steam
\* adapter what it converted of a feed before it failed (see FeedAdapter).
\* Without one item a feed has no group, so an empty feed is as good as a
\* failed one.
FetchFeeds(ok, some) ==
  /\ pc = "fetch" /\ todo # <<>> /\ Head(todo) \in FeedAdapterSet
  /\ ok \subseteq Asked(Head(todo))
  /\ \A i \in some : FeedOf[i] \in Asked(Head(todo)) \ ok
  /\ some # {} => Head(todo) \in Piecemeal
  /\ fetched' = [i \in FeedItems |->
       IF listing[i] # None /\ (FeedOf[i] \in ok \/ i \in some)
         THEN Report(listing[i], FeedOf[i], follow.linked) ELSE None]
  /\ groups' = {FeedOf[i] : i \in {j \in FeedItems : fetched'[j] # None}}
  /\ Goto("groups")
  /\ UNCHANGED <<runVars, todo, sighted, feed, queue, itemVars,
                 baselined, storeVars, envVars>>

\* The adapter raises: run counts a failure and goes on.  VNDB's may fail at a
\* query, with nothing noted, or in the merge of the links and after it.
FetchFails ==
  /\ pc = "fetch" /\ todo # <<>>
  /\ todo' = Tail(todo)
  /\ \/ follow' = follow
     \/ /\ Head(todo) = Vndb
        /\ follow' \in [discovered : SUBSET Discoverable,
                       resolved : {Resolved(cfg)}, linked : SUBSET Linking]
  /\ UNCHANGED <<pc, cfg, backfill, sighted, fetched, groups, feed, queue,
                 itemVars, baselined, storeVars, envVars>>

---------------------------------------------------------------------------
\* _run_snapshot, first run: every VN's state is saved, then the baseline.
SaveBaselineSnapshot(v) ==
  /\ pc = "vndb_baseline" /\ v \in queue
  /\ SaveSnapshot(v, sighted[v])
  /\ queue' = queue \ {v}
  /\ UNCHANGED <<pc, runVars, todo, sighted, fetched, groups, feed, itemVars,
                 baselined, eventsTable, baselines, seen, envVars>>

FinishVndbBaseline ==
  /\ pc = "vndb_baseline" /\ queue = {}
  /\ MarkBaseline(Vndb)
  /\ NextAdapter
  /\ UNCHANGED <<baselined, eventsTable, snapshots, seen, envVars>>

\* ObserveVn that skips a VN without an event: a withdrawn date never gets
\* into the snapshot.
ObserveVn_QuietUnsaved(v) ==
  /\ pc = "vns" /\ v \in queue
  /\ queue' = queue \ {v}
  /\ IF ChangeType(snapshots[v], sighted[v]) = None
       THEN UNCHANGED <<pc, item, key, event>>
       ELSE /\ Goto("find")
            /\ item' = v
            /\ key' = ChangeKey(v, snapshots[v], sighted[v])
            /\ event' = ChangeEvent(v, snapshots[v], sighted[v])
  /\ UNCHANGED <<runVars, todo, sighted, fetched, groups, feed, rec, read,
                 known, baselined, storeVars, envVars>>

\* _run_snapshot, later runs: no change is saved at once, a change becomes
\* an event and is saved only when the event is settled (see Ack).
ObserveVn(v) ==
  /\ pc = "vns" /\ v \in queue
  /\ queue' = queue \ {v}
  /\ item' = v
  /\ IF ChangeType(snapshots[v], sighted[v]) = None
       THEN Goto("ack") /\ UNCHANGED <<key, event>>
       ELSE /\ Goto("find")
            /\ key' = ChangeKey(v, snapshots[v], sighted[v])
            /\ event' = ChangeEvent(v, snapshots[v], sighted[v])
  /\ UNCHANGED <<runVars, todo, sighted, fetched, groups, feed, rec, read,
                 known, baselined, storeVars, envVars>>

VnsDone ==
  /\ pc = "vns" /\ queue = {}
  /\ NextAdapter
  /\ UNCHANGED <<baselined, storeVars, envVars>>

---------------------------------------------------------------------------
\* _run_feed: the next feed key, its items as a baseline or one by one.
NextGroup(f) ==
  /\ pc = "groups" /\ f \in groups
  /\ groups' = groups \ {f}
  /\ feed' = f
  /\ queue' = {i \in FeedItems : FeedOf[i] = f /\ fetched[i] # None}
  /\ pc' = IF f \in baselines THEN "items" ELSE "feed_baseline"
  /\ UNCHANGED <<runVars, todo, sighted, fetched, itemVars, baselined,
                 storeVars, envVars>>

GroupsDone ==
  /\ pc = "groups" /\ groups = {}
  /\ NextAdapter
  /\ UNCHANGED <<baselined, storeVars, envVars>>

EndGroup ==
  /\ Goto("groups") /\ feed' = None /\ queue' = {}
  /\ UNCHANGED <<runVars, todo, sighted, fetched, groups, itemVars>>

\* _initialize_feed_baseline: the entries of the first fetch are old news.
MarkBaselineItem(i) ==
  /\ pc = "feed_baseline" /\ i \in queue
  /\ MarkSeen(i)
  /\ baselined' = IF i \in seen THEN baselined ELSE baselined \cup {i}
  /\ queue' = queue \ {i}
  /\ UNCHANGED <<pc, runVars, todo, sighted, fetched, groups, feed, itemVars,
                 eventsTable, snapshots, baselines, envVars>>

\* The baseline recorded under the adapter's name, not the feed's.
FinishFeedBaseline_ByAdapter ==
  /\ pc = "feed_baseline" /\ queue = {}
  /\ MarkBaseline(Head(todo))
  /\ EndGroup
  /\ UNCHANGED <<baselined, eventsTable, snapshots, seen, envVars>>

FinishFeedBaseline ==
  /\ pc = "feed_baseline" /\ queue = {}
  /\ MarkBaseline(feed)
  /\ EndGroup
  /\ UNCHANGED <<baselined, eventsTable, snapshots, seen, envVars>>

\* An item seen before is passed over, unless a backfill asks for it.
SkipItem(i) ==
  /\ pc = "items" /\ i \in queue
  /\ i \in seen \ backfill
  /\ queue' = queue \ {i}
  /\ UNCHANGED <<pc, runVars, todo, sighted, fetched, groups, feed, itemVars,
                 baselined, storeVars, envVars>>

\* TakeItem without a look at the seen items.
TakeItem_SeenToo(i) ==
  /\ pc = "items" /\ i \in queue
  /\ queue' = queue \ {i}
  /\ item' = i /\ key' = i /\ event' = fetched[i]
  /\ Goto("find")
  /\ UNCHANGED <<runVars, todo, sighted, fetched, groups, feed, rec, read,
                 known, baselined, storeVars, envVars>>

TakeItem(i) ==
  /\ pc = "items" /\ i \in queue
  /\ i \notin seen \/ i \in backfill
  /\ queue' = queue \ {i}
  /\ item' = i /\ key' = i /\ event' = fetched[i]
  /\ Goto("find")
  /\ UNCHANGED <<runVars, todo, sighted, fetched, groups, feed, rec, read,
                 known, baselined, storeVars, envVars>>

GroupDone ==
  /\ pc = "items" /\ queue = {}
  /\ EndGroup
  /\ UNCHANGED <<baselined, storeVars, envVars>>

---------------------------------------------------------------------------
\* _process_one: find_duplicate returns a detached copy of one row, or None.
FindDuplicate(j) ==
  /\ pc = "find" /\ j \in FindEquivalent(key, event)
  /\ rec' = j /\ read' = status[j]
  /\ Goto("duplicate")
  /\ UNCHANGED <<runVars, workVars, item, key, event, known, baselined,
                 storeVars, envVars>>

FindNone ==
  /\ pc = "find" /\ FindEquivalent(key, event) = {}
  /\ Goto("add")
  /\ UNCHANGED <<runVars, workVars, itemVars, baselined, storeVars, envVars>>

\* Retriable when it was sent, or skipped, before.
Retriable_SentToo(k, st, c) ==
  /\ about[k].type \in c.enabled_event_types
  /\ st \in {"PENDING", "FAILED", "SENT"}
  /\ score[k] >= c.immediate_threshold
Retriable_SkippedToo(k, st, c) ==
  /\ about[k].type \in c.enabled_event_types
  /\ st \in {"PENDING", "FAILED", "SKIPPED"}
  /\ score[k] >= c.immediate_threshold

\* Undelivered, of an enabled type and still important enough.
Retriable(k, st, c) ==
  /\ about[k].type \in c.enabled_event_types
  /\ st \in {"PENDING", "FAILED"}
  /\ score[k] >= c.immediate_threshold

\* A known event: a delivery that did not succeed is tried again.
AfterDuplicate == Goto(IF Retriable(rec, read, cfg) THEN "deliver" ELSE "recheck")

\* The same report again.
SameReport ==
  /\ pc = "duplicate" /\ rec = key
  /\ AfterDuplicate
  /\ UNCHANGED <<runVars, workVars, itemVars, baselined, storeVars, envVars>>

\* Another report: add_corroborating_source reads the row's references,
ReadCorroborations ==
  /\ pc = "duplicate" /\ rec # key
  /\ known' = corroborating[rec]
  /\ Goto("corroborate")
  /\ UNCHANGED <<runVars, workVars, item, key, event, rec, read, baselined,
                 storeVars, envVars>>

\* Corroborate that records nothing.
Corroborate_Nothing ==
  /\ pc = "corroborate"
  /\ AfterDuplicate
  /\ known' = {}
  /\ UNCHANGED <<runVars, workVars, item, key, event, rec, read, baselined,
                 storeVars, envVars>>

\* and writes them back with this one added, unless it was among them.
Corroborate ==
  /\ pc = "corroborate"
  /\ IF key \in known THEN corroborating' = corroborating
                     ELSE SetCorroborating(rec, known \cup {key})
  /\ AfterDuplicate
  /\ known' = {}
  /\ UNCHANGED <<runVars, workVars, item, key, event, rec, read, baselined,
                 status, about, score, snapshots, baselines, seen, envVars>>

AddEvent ==
  /\ pc = "add"
  /\ Add(key, event, Score(event, cfg, follow))
  /\ rec' = key /\ read' = "PENDING"
  /\ Goto("choose")
  /\ UNCHANGED <<runVars, workVars, item, key, event, known, baselined,
                 corroborating, snapshots, baselines, seen, envVars>>

\* A row of this key was added meanwhile, by another process: the insert
\* fails and the item is left for a later run.
AddRefused ==
  /\ pc = "add" /\ status[key] # "ABSENT"
  /\ NextItem
  /\ UNCHANGED <<baselined, storeVars, envVars>>

\* choose_notification_status, and the write of a DIGEST or SKIPPED verdict.
Choose ==
  LET verdict == ChooseStatus(event, score[rec], cfg, today) IN
  /\ pc = "choose"
  /\ IF verdict = "PENDING" THEN Goto("deliver") /\ status' = status
                            ELSE Goto("ack") /\ SetStatus({rec}, verdict)
  /\ UNCHANGED <<runVars, workVars, itemVars, baselined, about, score,
                 corroborating, snapshots, baselines, seen, envVars>>

---------------------------------------------------------------------------
\* _deliver: Telegram confirms the message,
DeliverConfirmed ==
  /\ pc = "deliver"
  /\ Reach({rec})
  /\ Goto("mark_sent")
  /\ UNCHANGED <<runVars, workVars, itemVars, baselined, storeVars, sourceVars,
                 lost, faults>>

\* A refusal taken for a confirmation.
DeliverRefused_TakenAsSent ==
  /\ pc = "deliver"
  /\ Goto("mark_sent")
  /\ UNCHANGED <<runVars, workVars, itemVars, baselined, storeVars, envVars>>

\* refuses it, or is not reached,
DeliverRefused ==
  /\ pc = "deliver"
  /\ Goto("mark_failed")
  /\ UNCHANGED <<runVars, workVars, itemVars, baselined, storeVars, envVars>>

\* or posts one of its forms and the confirmation is lost: the send goes on
\* to the next form, or gives up (see TelegramSend).
DeliverUnconfirmed ==
  /\ pc = "deliver"
  /\ Reach({rec}) /\ Forget({rec}) /\ Fault
  /\ pc' \in {"deliver", "mark_failed"}
  /\ UNCHANGED <<runVars, workVars, itemVars, baselined, storeVars, sourceVars>>

MarkSent ==
  /\ pc = "mark_sent"
  /\ SetStatus({rec}, "SENT")
  /\ Goto("ack")
  /\ UNCHANGED <<runVars, workVars, itemVars, baselined, about, score,
                 corroborating, snapshots, baselines, seen, envVars>>

\* MarkFailed that acknowledges the source all the same.
MarkFailed_Acked ==
  /\ pc = "mark_failed"
  /\ SetStatus({rec}, "FAILED")
  /\ Goto("ack")
  /\ UNCHANGED <<runVars, workVars, itemVars, baselined, about, score,
                 corroborating, snapshots, baselines, seen, envVars>>

\* The row is FAILED: nothing is acknowledged, a later fetch tries again.
MarkFailed ==
  /\ pc = "mark_failed"
  /\ SetStatus({rec}, "FAILED")
  /\ NextItem
  /\ UNCHANGED <<baselined, about, score, corroborating, snapshots, baselines,
                 seen, envVars>>

\* Recheck that acknowledges whatever the row's status is, or only SENT rows.
Recheck_AnyStatus ==
  /\ pc = "recheck"
  /\ Goto("ack")
  /\ UNCHANGED <<runVars, workVars, itemVars, baselined, storeVars, envVars>>
Recheck_SentOnly ==
  /\ pc = "recheck"
  /\ IF status[rec] = "SENT"
       THEN Goto("ack") /\ UNCHANGED <<runVars, workVars, itemVars>>
       ELSE NextItem
  /\ UNCHANGED <<baselined, storeVars, envVars>>

\* _process_one returned None: the row is read again, with the query of
\* find_duplicate, which gives the same row of the same ones, and a settled
\* one is acknowledged.
Recheck ==
  /\ pc = "recheck"
  /\ IF status[rec] \in TerminalStatuses
       THEN Goto("ack") /\ UNCHANGED <<runVars, workVars, itemVars>>
       ELSE NextItem
  /\ UNCHANGED <<baselined, storeVars, envVars>>

\* The source's own record of progress: save_snapshot, mark_source_item_seen.
Ack ==
  /\ pc = "ack"
  /\ IF item \in VNs
       THEN SaveSnapshot(item, sighted[item]) /\ seen' = seen
       ELSE MarkSeen(item) /\ snapshots' = snapshots
  /\ NextItem
  /\ UNCHANGED <<baselined, eventsTable, baselines, envVars>>

---------------------------------------------------------------------------
\* A send in the chat whose SENT mark is about to be missed.
ForgetUnmarked ==
  IF pc = "mark_sent" THEN Forget({rec}) ELSE lost' = lost

\* A database error: the handler that catches it decides how much of the
\* run is given up, an item, a feed's baseline or the rest of the adapter.
StoreError ==
  /\ Fault
  /\ \/ pc \in {"vndb_baseline", "groups", "items"} /\ NextAdapter
     \/ pc = "feed_baseline" /\ EndGroup
     \/ /\ pc = "vns" /\ \E v \in queue : queue' = queue \ {v}
        /\ UNCHANGED <<pc, runVars, todo, sighted, fetched, groups, feed, itemVars>>
     \/ /\ pc \in {"find", "duplicate", "corroborate", "add", "choose",
                   "mark_sent", "mark_failed", "recheck", "ack"}
        /\ NextItem
  /\ ForgetUnmarked
  /\ UNCHANGED <<baselined, storeVars, sourceVars, copies>>

\* The process is killed: the scheduler's time limit, a shutdown.
Crash ==
  /\ pc # "idle"
  /\ Fault
  /\ Exit
  /\ ForgetUnmarked
  /\ UNCHANGED <<baselined, storeVars, sourceVars, copies>>

\* The program's own steps.
FetchStep ==
  \/ StartFetch \/ FetchDone \/ FetchFails
  \/ \E shown \in SUBSET VNs : FetchVndb(shown)
  \/ \E ok \in SUBSET Feeds, some \in SUBSET FeedItems : FetchFeeds(ok, some)
  \/ \E v \in VNs : SaveBaselineSnapshot(v) \/ ObserveVn(v)
  \/ FinishVndbBaseline \/ VnsDone
  \/ \E f \in Feeds : NextGroup(f)
  \/ GroupsDone \/ FinishFeedBaseline \/ GroupDone
  \/ \E i \in FeedItems : MarkBaselineItem(i) \/ SkipItem(i) \/ TakeItem(i)
  \/ \E j \in Keys : FindDuplicate(j)
  \/ FindNone \/ SameReport \/ ReadCorroborations \/ Corroborate
  \/ AddEvent \/ AddRefused \/ Choose
  \/ DeliverConfirmed \/ DeliverRefused \/ DeliverUnconfirmed
  \/ MarkSent \/ MarkFailed \/ Recheck \/ Ack

FetchNext == FetchStep \/ StoreError \/ Crash
=============================================================================
