---------------------------- MODULE FetchReliance ----------------------------
(***************************************************************************)
(* What one fetch process relies on between its steps, and what it owes    *)
(* to whoever shares the database with it.  FetchProofs shows that it      *)
(* keeps its part whatever the others do, as long as they keep theirs.     *)
(***************************************************************************)
EXTENDS Pipeline

\* The steps at which an item is in flight, and those at which its event is
\* known and its source waits for it.
EventSteps == {"find", "duplicate", "corroborate", "add", "choose", "deliver",
               "mark_sent", "mark_failed", "recheck"}
ItemSteps  == EventSteps \cup {"ack"}
SendSteps  == {"deliver", "mark_sent", "mark_failed"}
RowSteps   == EventSteps \ {"find", "add"}

\* What a VN of VNDB looks like: it is released on a date.
Sightings == {s \in Snapshots : s.released => s.date # NoDate}

\* The control state of the fetch process: what its local variables hold.
ControlInv ==
  /\ pc # "idle" => cfg \in Configs
  /\ pc \notin {"idle", "fetch"} => todo # <<>>
  /\ pc \in {"feed_baseline", "items"} \/ item \in FeedItems => feed \in Feeds
  /\ pc \in ItemSteps => item \in VNs \cup FeedItems
  /\ pc \notin ItemSteps => item = None
  /\ pc \in EventSteps => key \in Keys /\ event \in SourceEvents
  /\ item \in FeedItems => key = item
  /\ pc \in {"vndb_baseline", "vns"} \/ item \in VNs =>
       \A v \in queue : v \in VNs /\ sighted[v] \in Sightings
  /\ item \in VNs => sighted[item] \in Sightings
  /\ pc \in {"feed_baseline", "items"} \/ item \in FeedItems =>
       \A i \in queue : i \in FeedItems /\ fetched[i] \in SourceEvents \ {None}

---------------------------------------------------------------------------
(* Several processes *)

\* What an item may report: what its feed says, as the mapping makes it.
Reports(i) == {Report(e, FeedOf[i], vs) : e \in ItemEvents[i], vs \in SUBSET VNs}

\* Row k is about what item i reports, or reported before.
About(k, i) == \E e \in Reports(i) : Identity(about[k]) = Identity(e)

\* A configuration, of those the owner may write, sends row k at once.
Important(k) ==
  \E c \in Configs :
    /\ about[k].type \in c.enabled_event_types
    /\ score[k] >= c.immediate_threshold

\* Another one, or a later day, does not.
Disputed(k) ==
  /\ Important(k)
  /\ \E c \in Configs, t \in Days : ChooseStatus(about[k], score[k], c, t) # "PENDING"

\* Row k is settled or was told, unless two runs may judge it differently.
Accounted(k) == status[k] \in TerminalStatuses \/ copies[k] > 0 \/ Disputed(k)

\* However several fetches interleave, no item is passed over for good before
\* its news is settled or has reached the chat: a process marks an item seen
\* only after its own send, or after it read a settled row.  One process may
\* put a row another settled back to FAILED, but only one that was told, or
\* one the two judge differently: put off under the configuration and on the
\* day of the one, sent at once under those of the other.
SeenIsTold ==
  \A i \in seen \ baselined : \E k \in Stored : About(k, i) /\ Accounted(k)

\* What all that share the database and the chat keep.
SharedInv ==
  /\ EnvTypeOK /\ StoreTypeOK
  /\ \A i \in FeedItems : listing[i] \in ItemEvents[i] \cup {None}
  /\ \A k \in Stored : /\ about[k] \in SourceEvents
                       /\ k \in FeedItems => about[k] \in Reports(k)
  /\ \A k \in Keys : status[k] = "SENT" => copies[k] > 0
  /\ \A k \in Keys : status[k] \in {"DIGEST", "SKIPPED"} /\ Important(k) => Disputed(k)
  /\ SeenIsTold

\* What one process knows of the item and the row it works on, without
\* knowing who else writes that row.
LocalInv ==
  /\ FetchTypeOK /\ ControlInv
  /\ \A i \in FeedItems : fetched[i] \in Reports(i) \cup {None}
  /\ pc \in EventSteps /\ item \in FeedItems => event \in Reports(item)
  /\ pc \in EventSteps /\ item \in VNs => key \in TransitionKeys
  /\ pc \in RowSteps => rec \in Stored
  /\ pc \in RowSteps /\ item \in FeedItems => About(rec, item)
  /\ pc = "choose" => about[rec] = event
  /\ pc \in SendSteps => Important(rec)
  /\ pc = "mark_sent" => copies[rec] > 0
  /\ pc = "ack" /\ item \in FeedItems =>
       rec \in Stored /\ About(rec, item) /\ Accounted(rec)

\* What a step of one process may do to what another relies on: rows stay,
\* with their content and score; messages stay; and what is accounted for
\* stays accounted for.
Guarantee ==
  /\ baselined' \subseteq FeedItems
  /\ \A k \in Stored :
       /\ k \in Stored'
       /\ about'[k] = about[k] /\ score'[k] = score[k]
       /\ copies'[k] >= copies[k]
       /\ Accounted(k) => Accounted(k)'
=============================================================================
