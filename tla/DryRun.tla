-------------------------------- MODULE DryRun --------------------------------
(***************************************************************************)
(* `fetch --dry-run` beside the deployed system: the pipeline goes through *)
(* the same sources, writes nothing and shows the messages it would send.  *)
(* Its reads are taken together: a preview counts as one of the present    *)
(* sources, settings and store, and is dropped when one of them changes.   *)
(* VNDB and all feeds answer it.                                           *)
(***************************************************************************)
EXTENDS RadarInvariant

VARIABLE preview   \* history: the option of the last dry run and what it told

dryRunVars == <<vars, preview>>

\* What follow is, and what item i reports, when VNDB answers with all it has.
FullFollow == [discovered |-> Discoverable, resolved |-> Resolved(settings), linked |-> Linking]
FullScore(e) == Score(e, settings, FullFollow)
FullReport(i) == Report(listing[i], FeedOf[i], Linking)

\* PreviewOne without the retry of an undelivered row.
PreviewOne_NewOnly(k, e) ==
  IF FindEquivalent(k, e) = {}
       /\ ChooseStatus(e, FullScore(e), settings, today) = "PENDING"
    THEN {Identity(e)} ELSE {}

\* _preview_one: the news that is told for a report, in the find_equivalent
\* query's order a row at most; any row it may return counts here.
PreviewOne(k, e) ==
  LET rows == FindEquivalent(k, e) IN
  IF rows # {} THEN {Identity(about[j]) : j \in {r \in rows : Retriable(r, status[r], settings)}}
  ELSE IF ChooseStatus(e, FullScore(e), settings, today) = "PENDING"
    THEN {Identity(e)} ELSE {}

\* _run_snapshot, of all that VNDB has; without a baseline, nothing.
PreviewSnapshots ==
  LET now(v)  == Sighting(vnDate[v], today)
      changed == {v \in VNs : Vndb \in baselines /\ ChangeType(snapshots[v], now(v)) # None}
  IN  UNION {PreviewOne(ChangeKey(v, snapshots[v], now(v)),
                        ChangeEvent(v, snapshots[v], now(v))) : v \in changed}

\* _run_feed, of all that the feeds with a baseline list, as VNDB's answer of
\* the dry run maps it.
PreviewFeeds(b) ==
  LET taken == {i \in FeedItems : /\ listing[i] # None /\ FeedOf[i] \in baselines
                                  /\ i \notin seen \/ i \in b}
  IN  UNION {PreviewOne(i, FullReport(i)) : i \in taken}

RunDry ==
  /\ pc = "idle"
  /\ \E b \in Backfills :
       preview' = [backfill |-> b, told |-> PreviewSnapshots \cup PreviewFeeds(b)]
  /\ UNCHANGED vars

\* The preview is for the run that comes next, on the same sources.
Outdated ==
  \/ sourceVars' # sourceVars
  \/ faults' # faults
  \/ pc # "idle" /\ pc' = "idle"

DryRunInit == Init /\ preview = None

DryRunNext ==
  \/ RunDry
  \/ Next /\ preview' = IF Outdated THEN None ELSE preview

DryRunSpec == DryRunInit /\ [][DryRunNext]_dryRunVars

---------------------------------------------------------------------------
\* VNDB has resolved the developers, and mapped the feeds, of this run as it
\* did in the dry run.  Otherwise developers may be compared by name, where
\* the dry run compared ids, and games have other VNs.
SameAnswer == follow.resolved = FullFollow.resolved /\ follow.linked = FullFollow.linked

\* A dry run foretells every message of the fetch that follows with the same
\* option and the same answer of VNDB, though that one decides on rows it has
\* written meanwhile, on the VNs and items it then gets, and beside a digest.
\* The converse is not so: two reports of one news are both shown, and of a
\* digest row neither.
SendsAreForetold ==
  /\ pc = "deliver" /\ preview # None /\ backfill = preview.backfill
  /\ SameAnswer
  => Identity(about[rec]) \in preview.told

---------------------------------------------------------------------------
(* Why: what the run has still to do would be told as it was foretold.     *)

\* The adapters left are a list without repetition, in which only the first
\* can be VNDB's.
TodoInv(s) ==
  /\ \A m, n \in DOMAIN s : s[m] = s[n] => m = n
  /\ \A n \in DOMAIN s : s[n] = Vndb => n = 1

\* The work of a run: a feed is handled under its adapter and once.
RunInv ==
  /\ pc = "idle" => follow = NoFollow
  /\ pc \in {"idle", "fetch"} => fetched = NothingFetched
  /\ TodoInv(todo)
  /\ pc = "vns" \/ item \in VNs => Head(todo) = Vndb
  /\ item \in VNs => item \notin queue
  /\ pc \in {"groups", "feed_baseline", "items"} \/ item \in FeedItems =>
       Head(todo) \in FeedAdapterSet /\ groups \subseteq FeedsOf[Head(todo)]
  /\ pc \in {"feed_baseline", "items"} \/ item \in FeedItems =>
       feed \in FeedsOf[Head(todo)] \ groups

\* It sees what the dry run saw.
SameSources ==
  /\ pc # "idle" => cfg = settings
  /\ follow.discovered \subseteq Discoverable
  /\ pc = "vns" => \A v \in queue : sighted[v] = Sighting(vnDate[v], today)
  /\ item \in VNs =>
       \A v \in queue \cup {item} : sighted[v] = Sighting(vnDate[v], today)
  /\ \A i \in FeedItems :
       fetched[i] # None =>
         listing[i] # None /\ fetched[i] = Report(listing[i], FeedOf[i], follow.linked)

\* The changes and items the run has still to come to, or the next run has.
DueVn(v) ==
  /\ Vndb \in baselines
  /\ \/ pc = "idle"
     \/ pc = "fetch" /\ todo # <<>> /\ Head(todo) = Vndb
     \/ (pc = "vns" \/ item \in VNs) /\ v \in queue

Later(f) ==
  \E n \in DOMAIN todo :
    /\ todo[n] \in FeedAdapterSet /\ f \in FeedsOf[todo[n]]
    /\ n = 1 => pc = "fetch" \/ f \in groups

DueItem(i) ==
  /\ listing[i] # None /\ FeedOf[i] \in baselines
  /\ i \notin seen \/ i \in preview.backfill
  /\ \/ pc = "idle" \/ Later(FeedOf[i])
     \/ (pc = "items" \/ item \in FeedItems) /\ i \in queue

\* What the dry run told, or had no reason to tell.
NewsTold(e) ==
  ChooseStatus(e, FullScore(e), settings, today) = "PENDING"
    => Identity(e) \in preview.told

RowTold(r) == Retriable(r, status[r], settings) => Identity(about[r]) \in preview.told

\* The row that has just been added has no verdict yet.
Undecided(r) == pc = "choose" /\ r = rec

Foretold(k, e) ==
  IF FindEquivalent(k, e) = {} THEN NewsTold(e)
  ELSE \A r \in FindEquivalent(k, e) : Undecided(r) \/ RowTold(r)

DueInv ==
  /\ \A v \in VNs :
       LET now == Sighting(vnDate[v], today) IN
       DueVn(v) /\ ChangeType(snapshots[v], now) # None =>
         Foretold(ChangeKey(v, snapshots[v], now), ChangeEvent(v, snapshots[v], now))
  /\ \A i \in FeedItems : DueItem(i) => Foretold(i, FullReport(i))

\* So far as it has come with the item in flight.
FlightInv ==
  /\ pc = "find" => Foretold(key, event)
  /\ pc \in {"duplicate", "corroborate"} /\ Retriable(rec, read, cfg) =>
       Identity(about[rec]) \in preview.told
  /\ pc \in {"add", "choose"} => NewsTold(event)
  /\ pc = "choose" => about[rec] = event /\ score[rec] = Score(event, cfg, follow)
  /\ pc \in SendSteps => Identity(about[rec]) \in preview.told

\* The run has the option of the dry run, and VNDB's answer is still to come
\* or the same.
Promised ==
  /\ backfill = preview.backfill
  /\ (pc = "fetch" /\ todo # <<>> /\ Head(todo) = Vndb) \/ SameAnswer

PreviewInv ==
  preview # None =>
    /\ SameSources
    /\ pc = "idle" \/ Promised => DueInv /\ FlightInv
=============================================================================
