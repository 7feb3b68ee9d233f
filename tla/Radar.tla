-------------------------------- MODULE Radar --------------------------------
(***************************************************************************)
(* The deployed system: the fetch and the digest processes, interleaved at *)
(* their store and network calls over one database and one chat, with the  *)
(* sources, the calendar and the configuration changing around them.       *)
(***************************************************************************)
EXTENDS Pipeline, DigestService

vars == <<envVars, storeVars, fetchVars, digestVars>>

Init == EnvInit /\ StoreInit /\ FetchInit /\ DigestInit

Next ==
  \/ FetchNext /\ UNCHANGED digestVars
  \/ DigestNext /\ UNCHANGED fetchVars
  \/ EnvNext /\ UNCHANGED <<storeVars, fetchVars, digestVars>>

Spec == Init /\ [][Next]_vars

\* The scheduler keeps starting `fetch` and it keeps running; VNDB and the
\* feeds of an adapter are reached in the end, and the message about an item
\* that is tried for ever is confirmed in the end.
FetchFairness ==
  /\ WF_vars(FetchStep /\ UNCHANGED digestVars)
  /\ SF_vars(FetchVndb(VNs) /\ UNCHANGED digestVars)
  /\ \A a \in FeedAdapterSet :
       SF_vars(todo # <<>> /\ Head(todo) = a /\ FetchFeeds(FeedsOf[a], {})
               /\ UNCHANGED digestVars)
  /\ \A x \in VNs \cup FeedItems :
       SF_vars(DeliverConfirmed /\ item = x /\ UNCHANGED digestVars)

\* The same of `digest`, and of the batches an event is put in.
DigestFairness ==
  /\ WF_vars(DigestStep /\ UNCHANGED fetchVars)
  /\ \A k \in Keys :
       SF_vars(\E b \in Batches : k \in b /\ DigestConfirmed(b) /\ UNCHANGED fetchVars)

FetchFairSpec == Spec /\ FetchFairness
FairSpec      == Spec /\ FetchFairness /\ DigestFairness

TypeOK == EnvTypeOK /\ StoreTypeOK /\ FetchTypeOK /\ DigestTypeOK

---------------------------------------------------------------------------
(* Notifications *)

\* An event is SENT only if a message about it is in the chat: no failed or
\* unconfirmed send, of either process, is ever recorded as a success.
SentWasDelivered == \A k \in Keys : status[k] = "SENT" => copies[k] > 0

\* No more than one message about an event, and one more for each send whose
\* success the program could not record: duplicates come from lost
\* confirmations, database errors and kills between send and mark only.
CopiesAccounted == \A k \in Keys : copies[k] <= lost[k] + 1

\* Nothing is sent about an event already SENT or SKIPPED, by either process.
NeverResent ==
  [][\A k \in Keys : copies'[k] > copies[k] => status[k] \notin {"SENT", "SKIPPED"}]_vars

\* The two processes never have the same event in flight.
OneSender == ~(pc \in {"deliver", "mark_sent", "mark_failed"} /\ rec \in pending \cup batch)

\* Two rows are never about the same news.
UniqueIdentity ==
  \A j, k \in Stored : Identity(about[j]) = Identity(about[k]) => j = k

\* A settled event stays settled, whatever the unconditional status writes.
TerminalStable ==
  [][\A k \in Keys :
       /\ status[k] \in {"SENT", "SKIPPED"} => status'[k] = status[k]
       /\ status[k] = "DIGEST" => status'[k] \in TerminalStatuses]_vars

Ledger == INSTANCE NotificationLedger WITH
  Entries <- Keys,
  News    <- Identities,
  NoNews  <- None,
  state   <- status,
  news    <- [k \in Keys |-> IF status[k] = "ABSENT" THEN None ELSE Identity(about[k])],
  reached <- {k \in Keys : copies[k] > 0}

\* The two processes over the store keep the notification ledger.
LedgerKept == Ledger!LedgerSpec

---------------------------------------------------------------------------
(* Sources *)

\* The row that settles item i: its own, or one that counts it as another
\* report of the same news.
Settles(k, i) == status[k] \in TerminalStatuses /\ (k = i \/ i \in corroborating[k])

\* A feed item is marked as seen only once some event that stands for it is
\* settled; otherwise a failed delivery would never be tried again.
SeenIsAccounted == \A i \in seen \ baselined : \E k \in Keys : Settles(k, i)

\* The old entries of a feed that is followed for the first time make no
\* event, unless a backfill asks for them.
BaselineIsSilent == Backfills = {{}} => \A i \in baselined : status[i] = "ABSENT"

\* A VN's snapshot moves past a change only once an event with the identity
\* of that change is settled.
TransitionIsRecorded ==
  [][\A v \in VNs :
       /\ Vndb \in baselines
       /\ snapshots'[v] # snapshots[v]
       /\ ChangeType(snapshots[v], snapshots'[v]) # None
       => \E k \in Keys :
            /\ status[k] \in TerminalStatuses
            /\ Identity(about[k]) = Identity(ChangeEvent(v, snapshots[v], snapshots'[v]))]_vars

\* A VN that comes out between two accounted observations gets a RELEASED
\* event, settled before the snapshot shows the release, even when its date
\* moved in the same interval.
ReleaseIsTold ==
  [][\A v \in VNs :
       /\ Vndb \in baselines
       /\ snapshots[v] # None /\ ~snapshots[v].released
       /\ snapshots'[v] # None /\ snapshots'[v].released
       => \E k \in Keys :
            /\ status[k] \in TerminalStatuses
            /\ about[k].entity = v /\ about[k].type = "RELEASED"]_vars

---------------------------------------------------------------------------
(* Progress *)

\* An undelivered row the fetch process will not try again: it was stopped
\* before it wrote the verdict on an unimportant event.
Stranded(k) == status[k] \in {"PENDING", "FAILED"} /\ ~Retriable(k, status[k], settings)

StrandedNews(i) == \E k \in FindEquivalent(i, listing[i]) : Stranded(k)

\* An item that stays in a feed with a baseline is settled in the end, though
\* sends fail, unless its row, or that of the same news, is stranded.
ItemsAreSettled ==
  \A i \in FeedItems :
    (listing[i] # None /\ FeedOf[i] \in baselines)
      ~> listing[i] = None \/ i \in seen \/ StrandedNews(i)

StrandedChange(v) == \E k \in Keys : Stranded(k) /\ about[k].entity = v

\* VNDB's state of a VN reaches its snapshot in the end, one event per change,
\* unless the row of a change is stranded.
SnapshotsCatchUp ==
  \A v \in VNs :
    Vndb \in baselines
      ~> snapshots[v] = Sighting(vnDate[v], today) \/ StrandedChange(v)

\* What is put off to the digest is sent, or dropped as stale, in the end.
DigestDrains ==
  \A k \in Keys : status[k] = "DIGEST" ~> status[k] \in {"SENT", "SKIPPED"}
=============================================================================
