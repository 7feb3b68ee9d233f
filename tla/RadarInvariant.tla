--------------------------- MODULE RadarInvariant ---------------------------
(***************************************************************************)
(* Why the notification properties of Radar hold: what each process may    *)
(* rely on between its steps.  IInv is inductive; RadarProofs proves it.   *)
(***************************************************************************)
EXTENDS Radar, FetchReliance

\* The row found stands for the report in flight.
StandsFor == rec = key \/ key \in corroborating[rec]

\* What the fetch process knows of the row it works on.  Only the status it
\* read is at stake: the digest process may write statuses meanwhile.
RowInv ==
  /\ pc \in {"duplicate", "corroborate"} =>
       /\ rec \in Stored
       /\ read \in {"PENDING", "FAILED"} => status[rec] = read
  /\ pc = "corroborate" => known = corroborating[rec]
  /\ pc = "recheck" => rec \in Stored /\ StandsFor
  /\ pc = "add" => FindEquivalent(key, event) = {}
  /\ pc = "choose" => rec = key /\ status[rec] = "PENDING"
  /\ pc \in SendSteps =>
       rec \in Keys /\ status[rec] \in {"PENDING", "FAILED"} /\ StandsFor
  /\ pc = "ack" /\ item \in FeedItems =>
       rec \in Keys /\ status[rec] \in TerminalStatuses /\ StandsFor

\* The digest process holds rows nobody else touches.
DigestInv ==
  /\ stale \cup pending \cup batch \subseteq WithStatus("DIGEST")
  /\ stale \cap pending = {} /\ pending \cap batch = {}
  /\ dpc # "prune" => stale = {}
  /\ dpc # "mark" => batch = {}
  /\ dpc = "idle" => pending = {}

\* A confirmed message whose SENT mark is still to be written.
Unmarked(k) == (pc = "mark_sent" /\ rec = k) \/ k \in batch

\* Every message in the chat is recorded as SENT, about to be, or lost.
ChatInv ==
  \A k \in Keys :
    copies[k] = lost[k] + IF status[k] = "SENT" \/ Unmarked(k) THEN 1 ELSE 0

\* The events table as a whole.
TableInv ==
  /\ \A k \in Stored : about[k] \in SourceEvents
  /\ UniqueIdentity
  /\ SeenIsAccounted

IInv ==
  /\ TypeOK /\ ControlInv /\ RowInv /\ DigestInv /\ ChatInv /\ TableInv

\* While the database is never put back, no message is about news that has
\* no row, or only a new one (see Recovery for one that is put back).
FreshInv ==
  /\ \A k \in Keys : status[k] = "ABSENT" => copies[k] = 0
  /\ pc = "choose" => copies[rec] = 0

---------------------------------------------------------------------------
(* Why the properties of the sources hold: what the fetch process relies   *)
(* on about baselines, seen items and snapshots, which only it writes.     *)

\* A feed's items are rows only once the feed has its baseline; the process
\* handles one feed at a time.
FeedInv ==
  /\ \A i \in FeedItems : status[i] # "ABSENT" => FeedOf[i] \in baselines
  /\ pc = "items" \/ item \in FeedItems => feed \in baselines
  /\ pc = "feed_baseline" => feed \notin baselines
  /\ pc \in {"feed_baseline", "items"} \/ item \in FeedItems =>
       \A i \in queue : FeedOf[i] = feed
  /\ item \in FeedItems => FeedOf[item] = feed

\* Without backfills only items not seen yet are taken.
SilentInv ==
  Backfills = {{}} =>
    /\ backfill = {}
    /\ baselined \subseteq seen
    /\ item \in FeedItems => item \notin seen
    /\ \A i \in baselined : status[i] = "ABSENT"

\* The key of a transition tells the identity of its event.
TellsNews(k, e) ==
  /\ e.entity = k[1] /\ e.type = k[2]
  /\ k[2] = "RELEASE_DATE" => e.date = k[3]
  /\ k[2] = "DELAY" => e.date = k[4]

Changed(v) == ChangeType(snapshots[v], sighted[v]) # None
ChangeOf(v) == ChangeEvent(v, snapshots[v], sighted[v])

\* The change in flight is the one the snapshot is about to move past, and
\* the row at hand has its identity.
ChangeInv ==
  /\ pc = "vndb_baseline" => Vndb \notin baselines
  /\ pc = "vns" \/ item \in VNs => Vndb \in baselines
  /\ \A k \in TransitionKeys : status[k] # "ABSENT" => TellsNews(k, about[k])
  /\ pc \in EventSteps /\ item \in VNs =>
       /\ Changed(item)
       /\ key = ChangeKey(item, snapshots[item], sighted[item])
       /\ event = ChangeOf(item)
  /\ pc \in RowSteps /\ item \in VNs => Identity(about[rec]) = Identity(event)
  /\ pc = "ack" /\ item \in VNs /\ Changed(item) =>
       /\ rec \in Keys /\ status[rec] \in TerminalStatuses
       /\ Identity(about[rec]) = Identity(ChangeOf(item))

SourceInv == FeedInv /\ SilentInv /\ ChangeInv

\* What it says of the database alone.
RecordsInv ==
  /\ \A i \in FeedItems : status[i] # "ABSENT" => FeedOf[i] \in baselines
  /\ Backfills = {{}} =>
       baselined \subseteq seen /\ \A i \in baselined : status[i] = "ABSENT"
  /\ \A k \in TransitionKeys : status[k] # "ABSENT" => TellsNews(k, about[k])
=============================================================================
