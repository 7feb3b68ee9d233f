----------------------------- MODULE EventStore -----------------------------
(***************************************************************************)
(* database.py: the SQLite tables, shared by the fetch and the digest      *)
(* processes, and the methods of EventStore.  An action of a process calls *)
(* at most one that writes; the write is one transaction, and what the     *)
(* method reads before it is read outside of it.                           *)
(***************************************************************************)
EXTENDS ChangeDetection

CONSTANT Baselines   \* the names baselines are kept under: "vndb", feed keys

VARIABLES
  status,         \* events.notification_status by key, ABSENT without a row
  about,          \* the content of each row, as first stored
  score,          \* events.relevance_score
  corroborating,  \* events.corroborating_sources: keys of other reports
  snapshots,      \* source_snapshots: last accounted state of each VN
  baselines,      \* source_baselines
  seen            \* source_seen_items

eventsTable == <<status, about, score, corroborating>>
storeVars   == <<status, about, score, corroborating, snapshots, baselines, seen>>

StoreTypeOK ==
  /\ status \in [Keys -> Statuses \cup {"ABSENT"}]
  /\ about \in [Keys -> SourceEvents \cup {None}]
  /\ score \in [Keys -> Nat]
  /\ corroborating \in [Keys -> SUBSET Keys]
  /\ snapshots \in [VNs -> Snapshots \cup {None}]
  /\ baselines \subseteq Baselines
  /\ seen \subseteq FeedItems

StoreInit ==
  /\ status = [k \in Keys |-> "ABSENT"]
  /\ about = [k \in Keys |-> None]
  /\ score = [k \in Keys |-> 0]
  /\ corroborating = [k \in Keys |-> {}]
  /\ snapshots = [v \in VNs |-> None]
  /\ baselines = {}
  /\ seen = {}

---------------------------------------------------------------------------
Stored == {k \in Keys : status[k] # "ABSENT"}

WithStatus(s) == {k \in Keys : status[k] = s}

\* find_equivalent without the identity disjunct: only the same report again.
FindEquivalent_KeyOnly(k, e) == {j \in Stored : j = k}

\* find_equivalent: the rows it may return, which is any of them since the
\* query has no ORDER BY.  The third disjunct of the query, equal content
\* hashes, adds nothing: the hash covers the guid of a feed item and the
\* date of a transition, so it implies one of the other two.
FindEquivalent(k, e) ==
  {j \in Stored : j = k \/ Identity(about[j]) = Identity(e)}

\* add: a PENDING row; the key is unique in the table.
Add(k, e, s) ==
  /\ status[k] = "ABSENT"
  /\ status' = [status EXCEPT ![k] = "PENDING"]
  /\ about'  = [about EXCEPT ![k] = e]
  /\ score'  = [score EXCEPT ![k] = s]

\* add_corroborating_source: the column is replaced as a whole.
SetCorroborating(j, ks) == corroborating' = [corroborating EXCEPT ![j] = ks]

\* update_notification_status and update_notification_statuses: an
\* unconditional write, whatever the status has become meanwhile.
SetStatus(ks, s) ==
  status' = [k \in Keys |-> IF k \in ks THEN s ELSE status[k]]

SaveSnapshot(v, s) == snapshots' = [snapshots EXCEPT ![v] = s]
MarkBaseline(b)    == baselines' = baselines \cup {b}
MarkSeen(i)        == seen' = seen \cup {i}
=============================================================================
