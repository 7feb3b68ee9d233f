---------------------------- MODULE RadarTheorems ----------------------------
(***************************************************************************)
(* The properties of the deployed system that hold for any sources,        *)
(* configurations, bounds and sizes, from the invariant of RadarProofs.    *)
(***************************************************************************)
EXTENDS RadarProofs

\* At every moment each process may rely on what IInv says, whatever the
\* other process, the sources, the calendar or a failure did meanwhile.
THEOREM Invariance == Spec => []IInv
BY InitInv, StepInv, PTL DEF Spec

\* Nor was a message about it in the chat before news has a row.
LEMMA Freshness == Spec => []FreshInv
<1>1. Init => FreshInv BY DEF Init, EnvInit, FetchInit, FreshInv
<1> QED BY <1>1, Invariance, StepFresh, PTL DEF Spec

\* At every moment fetch may rely on what SourceInv says of its sources.
THEOREM SourceInvariance == Spec => []SourceInv
BY Invariance, InitSource, StepSource, PTL DEF Spec

\* Every variable keeps its type: no step reads a row or a local variable
\* that is not there.
THEOREM TypeCorrect == Spec => []TypeOK
<1>1. IInv => TypeOK BY DEF IInv
<1> QED BY <1>1, Invariance, PTL

\* An event recorded as SENT, by a fetch or a digest, has a message in the chat.
THEOREM SentIsDelivered == Spec => []SentWasDelivered
<1>1. IInv => SentWasDelivered
  BY DEF IInv, ChatInv, SentWasDelivered, TypeOK, EnvTypeOK
<1> QED BY <1>1, Invariance, PTL

\* An event has at most one message more than sends the program could not
\* record: no interleaving of the two processes duplicates a message.
THEOREM NoOtherDuplicates == Spec => []CopiesAccounted
<1>1. IInv => CopiesAccounted
  BY DEF IInv, ChatInv, CopiesAccounted, TypeOK, EnvTypeOK
<1> QED BY <1>1, Invariance, PTL

\* The fetch process never delivers an event the digest process holds.
THEOREM SendersAreDisjoint == Spec => []OneSender
<1>1. IInv => OneSender
  BY DEF IInv, RowInv, SendSteps, DigestInv, WithStatus, OneSender
<1> QED BY <1>1, Invariance, PTL

\* The events table never holds two rows about the same news.
THEOREM NewsIsUnique == Spec => []UniqueIdentity
<1>1. IInv => UniqueIdentity BY DEF IInv, TableInv
<1> QED BY <1>1, Invariance, PTL

\* A feed item is only marked seen when its news is settled: an undelivered
\* item comes back with the next fetch.
THEOREM NoItemIsLost == Spec => []SeenIsAccounted
<1>1. IInv => SeenIsAccounted BY DEF IInv, TableInv
<1> QED BY <1>1, Invariance, PTL

---------------------------------------------------------------------------
(* The ledger *)

\* A step that leaves the rows and the chat alone is none of the ledger's.
LEMMA LedgerStutters ==
  ASSUME UNCHANGED <<status, about, copies>>
  PROVE  UNCHANGED Ledger!ledgerVars
BY DEF Ledger!ledgerVars, Identity

\* Without a new row the ledger's news stay what they are.
LEMMA NewsKept ==
  ASSUME UNCHANGED about,
         \A k \in Keys : status[k] = "ABSENT" <=> status'[k] = "ABSENT"
  PROVE  LET N == [k \in Keys |-> IF status[k] = "ABSENT" THEN None
                                  ELSE Identity(about[k])]
         IN  N' = N
BY DEF Identity

\* Each step of the fetch process is a step of the ledger, or none of its.
LEMMA FetchKeepsLedger ==
  ASSUME IInv, FreshInv, FetchNext
  PROVE  [Ledger!LedgerNext]_(Ledger!ledgerVars)
<1> USE DEF IInv
<1>1. CASE UNCHANGED <<status, about, copies>>
  BY <1>1, LedgerStutters
<1>2. CASE AddEvent
  <2>1. /\ key \in Keys /\ event \in SourceEvents
        /\ status[key] = "ABSENT" /\ FindEquivalent(key, event) = {}
    BY <1>2 DEF AddEvent, Add, RowInv, ControlInv, EventSteps
  <2>2. /\ status' = [status EXCEPT ![key] = "PENDING"]
        /\ about' = [about EXCEPT ![key] = event]
        /\ copies' = copies
    BY <1>2 DEF AddEvent, Add, envVars
  <2>3. \A j \in Stored : Identity(about[j]) # Identity(event)
    BY <2>1 DEF FindEquivalent
  <2>4. /\ status'[key] = "PENDING" /\ about'[key] = event
        /\ \A k \in Keys \ {key} : status'[k] = status[k] /\ about'[k] = about[k]
    BY <2>1, <2>2 DEF TypeOK, StoreTypeOK
  <2> DEFINE N == [k \in Keys |-> IF status[k] = "ABSENT" THEN None
                                  ELSE Identity(about[k])]
  <2>5. N' = [N EXCEPT ![key] = Identity(event)]
    <3>1. \A k \in Keys \ {key} : N'[k] = N[k]
      <4>1. \A k \in Keys \ {key} : Identity(about[k])' = Identity(about[k])
        BY <2>4 DEF Identity
      <4> QED BY <2>4, <4>1
    <3>2. N'[key] = Identity(event) BY <2>1, <2>4 DEF Identity
    <3> QED BY <2>1, <3>1, <3>2
  <2>6. Ledger!Become({key}, "PENDING")
    BY <2>1, <2>2, <2>4 DEF Ledger!Become, TypeOK, StoreTypeOK
  <2>7. PICK k \in Keys : k = key BY <2>1
  <2>9. Identity(event) \in Identities
    BY <2>1 DEF Identity, Identities, SourceEvents
  <2>8. Ledger!Enter(k)
    BY <2>1, <2>2, <2>3, <2>5, <2>6, <2>7, <2>9 DEF Ledger!Enter, Stored
  <2> QED BY <2>8 DEF Ledger!LedgerNext
<1>3. CASE Choose
  <2> DEFINE verdict == ChooseStatus(event, score[rec], cfg, today)
  <2>1. rec \in Keys /\ status[rec] = "PENDING" /\ copies[rec] = 0
    BY <1>3 DEF Choose, FreshInv, RowInv, ControlInv, EventSteps
  <2>2. /\ UNCHANGED <<about, copies>>
        /\ \/ status' = status
           \/ SetStatus({rec}, verdict) /\ verdict \in {"DIGEST", "SKIPPED"}
    BY <1>3, VerdictRange DEF Choose, envVars
  <2>3. CASE status' = status BY <2>2, <2>3, <1>1
  <2>4. CASE SetStatus({rec}, verdict) /\ verdict \in {"DIGEST", "SKIPPED"}
    <3> HIDE DEF verdict
    <3>1. \A k \in Keys : status[k] = "ABSENT" <=> status'[k] = "ABSENT"
      BY <2>1, <2>4 DEF SetStatus
    <3>2. Ledger!PutOff(rec)
      BY <2>1, <2>2, <2>4, <3>1, NewsKept DEF Ledger!PutOff, Ledger!Become, SetStatus
    <3> QED BY <2>1, <3>2 DEF Ledger!LedgerNext
  <2> QED BY <2>2, <2>3, <2>4
<1>4. CASE DeliverConfirmed \/ DeliverUnconfirmed
  <2>1. /\ rec \in Keys /\ status[rec] \in {"PENDING", "FAILED"}
        /\ Reach({rec}) /\ UNCHANGED <<status, about>>
    BY <1>4 DEF DeliverConfirmed, DeliverUnconfirmed, RowInv, SendSteps, storeVars
  <2>2. {k \in Keys : copies[k] > 0}' = {k \in Keys : copies[k] > 0} \cup {rec}
    BY <2>1 DEF Reach, TypeOK, EnvTypeOK
  <2>3. PICK k \in Keys : k = rec BY <2>1
  <2>4. Ledger!Post({k})
    BY <2>1, <2>2, <2>3, NewsKept DEF Ledger!Post
  <2>5. {k} \in SUBSET Ledger!Open BY <2>1, <2>3 DEF Ledger!Open
  <2> QED BY <2>4, <2>5 DEF Ledger!LedgerNext
<1>5. CASE MarkSent
  <2>1. /\ rec \in Keys /\ status[rec] \in {"PENDING", "FAILED"} /\ pc = "mark_sent"
        /\ SetStatus({rec}, "SENT") /\ UNCHANGED <<about, copies>>
    BY <1>5 DEF MarkSent, RowInv, SendSteps, envVars
  <2>2. copies[rec] > 0 BY <2>1 DEF ChatInv, Unmarked, TypeOK, EnvTypeOK
  <2>3. \A k \in Keys : status[k] = "ABSENT" <=> status'[k] = "ABSENT"
    BY <2>1 DEF SetStatus
  <2>4. Ledger!Settle({rec})
    BY <2>1, <2>2, <2>3, NewsKept DEF Ledger!Settle, Ledger!Become, SetStatus
  <2>5. {rec} \in SUBSET Ledger!Open BY <2>1 DEF Ledger!Open
  <2> QED BY <2>4, <2>5 DEF Ledger!LedgerNext
<1>6. CASE MarkFailed
  <2>1. /\ rec \in Keys /\ status[rec] \in {"PENDING", "FAILED"}
        /\ SetStatus({rec}, "FAILED") /\ UNCHANGED <<about, copies>>
    BY <1>6 DEF MarkFailed, RowInv, SendSteps, envVars
  <2>2. \A k \in Keys : status[k] = "ABSENT" <=> status'[k] = "ABSENT"
    BY <2>1 DEF SetStatus
  <2>3. Ledger!Fail(rec)
    BY <2>1, <2>2, NewsKept DEF Ledger!Fail, Ledger!Become, SetStatus
  <2> QED BY <2>1, <2>3 DEF Ledger!LedgerNext
<1>7. CASE StartFetch \/ FetchDone \/ FetchFails \/ FinishVndbBaseline \/ VnsDone
           \/ GroupsDone \/ FinishFeedBaseline \/ GroupDone \/ FindNone
           \/ SameReport \/ ReadCorroborations \/ Corroborate \/ AddRefused
           \/ DeliverRefused \/ Recheck \/ Ack \/ StoreError \/ Crash
  BY <1>1, <1>7
     DEF StartFetch, FetchDone, FetchFails, FinishVndbBaseline, VnsDone, GroupsDone,
         FinishFeedBaseline, GroupDone, FindNone, SameReport, ReadCorroborations,
         Corroborate, AddRefused, DeliverRefused, Recheck, Ack, StoreError, Crash, storeVars, eventsTable, envVars
<1>8. ASSUME \/ \E shown \in SUBSET VNs : FetchVndb(shown)
             \/ \E ok \in SUBSET Feeds, some \in SUBSET FeedItems : FetchFeeds(ok, some)
             \/ \E v \in VNs : SaveBaselineSnapshot(v) \/ ObserveVn(v)
             \/ \E f \in Feeds : NextGroup(f)
             \/ \E i \in FeedItems : MarkBaselineItem(i) \/ SkipItem(i) \/ TakeItem(i)
             \/ \E j \in Keys : FindDuplicate(j)
      PROVE  UNCHANGED <<status, about, copies>>
  BY <1>8
     DEF FetchVndb, FetchFeeds, SaveBaselineSnapshot, ObserveVn, NextGroup,
         MarkBaselineItem, SkipItem, TakeItem, FindDuplicate, storeVars,
         eventsTable, envVars
<1> QED BY <1>1, <1>2, <1>3, <1>4, <1>5, <1>6, <1>7, <1>8 DEF FetchNext, FetchStep

\* So is each step of the digest process.
LEMMA DigestKeepsLedger ==
  ASSUME IInv, DigestNext
  PROVE  [Ledger!LedgerNext]_(Ledger!ledgerVars)
<1> USE DEF IInv
<1>1. CASE UNCHANGED <<status, about, copies>>
  BY <1>1, LedgerStutters
<1>2. CASE StartDigest \/ DigestDone \/ DigestStoreError \/ DigestCrash
  BY <1>1, <1>2
     DEF StartDigest, DigestDone, DigestStoreError, DigestCrash, storeVars, envVars
<1>3. CASE Prune
  <2>1. /\ \A k \in stale : k \in Keys /\ status[k] = "DIGEST"
        /\ SetStatus(stale, "SKIPPED") /\ UNCHANGED <<about, copies>>
    BY <1>3 DEF Prune, DigestInv, WithStatus, envVars
  <2>2. \A k \in Keys : status[k] = "ABSENT" <=> status'[k] = "ABSENT"
    BY <2>1 DEF SetStatus
  <2>3. Ledger!Expire(stale)
    BY <2>1, <2>2, NewsKept DEF Ledger!Expire, Ledger!Become, SetStatus
  <2>4. stale \in SUBSET Ledger!Open BY <2>1 DEF Ledger!Open
  <2> QED BY <2>3, <2>4 DEF Ledger!LedgerNext
<1>4. CASE MarkBatch
  <2>1. /\ \A k \in batch : k \in Keys /\ status[k] = "DIGEST"
        /\ SetStatus(batch, "SENT") /\ UNCHANGED <<about, copies>>
    BY <1>4 DEF MarkBatch, DigestInv, WithStatus, envVars
  <2>2. \A k \in batch : copies[k] > 0
    BY <2>1 DEF ChatInv, Unmarked, TypeOK, EnvTypeOK
  <2>3. \A k \in Keys : status[k] = "ABSENT" <=> status'[k] = "ABSENT"
    BY <2>1 DEF SetStatus
  <2>4. Ledger!Settle(batch)
    BY <2>1, <2>2, <2>3, NewsKept DEF Ledger!Settle, Ledger!Become, SetStatus
  <2>5. batch \in SUBSET Ledger!Open BY <2>1 DEF Ledger!Open
  <2> QED BY <2>4, <2>5 DEF Ledger!LedgerNext
<1>5. ASSUME NEW b \in Batches, DigestConfirmed(b) \/ DigestUnconfirmed(b)
      PROVE  Ledger!LedgerNext
  <2>1. /\ \A k \in b : k \in Keys /\ status[k] = "DIGEST"
        /\ Reach(b) /\ UNCHANGED <<status, about>>
    BY <1>5 DEF DigestConfirmed, DigestUnconfirmed, Batches, DigestInv, WithStatus, storeVars
  <2>2. {k \in Keys : copies[k] > 0}' = {k \in Keys : copies[k] > 0} \cup b
    BY <2>1 DEF Reach, TypeOK, EnvTypeOK
  <2>3. Ledger!Post(b)
    BY <2>1, <2>2, NewsKept DEF Ledger!Post
  <2>4. b \in SUBSET Ledger!Open BY <2>1 DEF Ledger!Open
  <2> QED BY <2>3, <2>4 DEF Ledger!LedgerNext
<1>6. ASSUME NEW b \in Batches, DigestRefused(b)
      PROVE  UNCHANGED <<status, about, copies>>
  BY <1>6 DEF DigestRefused, storeVars, envVars
<1> QED BY <1>1, <1>2, <1>3, <1>4, <1>5, <1>6 DEF DigestNext, DigestStep

\* Every step of the deployment is a step of the ledger, or none of its.
LEMMA StepKeepsLedger ==
  IInv /\ FreshInv /\ [Next]_vars => [Ledger!LedgerNext]_(Ledger!ledgerVars)
<1> SUFFICES ASSUME IInv, FreshInv, [Next]_vars PROVE [Ledger!LedgerNext]_(Ledger!ledgerVars)
  OBVIOUS
<1>1. CASE FetchNext BY <1>1, FetchKeepsLedger
<1>2. CASE DigestNext BY <1>2, DigestKeepsLedger
<1>3. CASE EnvNext /\ UNCHANGED <<storeVars, fetchVars, digestVars>>
  BY <1>3, EnvFrame, LedgerStutters DEF storeVars
<1>4. CASE UNCHANGED vars
  BY <1>4, LedgerStutters DEF vars, storeVars, envVars
<1> QED BY <1>1, <1>2, <1>3, <1>4 DEF Next

\* The two processes over one store keep the notification ledger: whatever
\* they do with scores, feeds, retries and failures is news entered once,
\* put off, posted, settled, failed or expired.
THEOREM Refinement == Spec => LedgerKept
<1>1. Init => Ledger!LedgerInit
  BY DEF Init, EnvInit, StoreInit, Ledger!LedgerInit
<1> QED
  BY <1>1, Invariance, Freshness, StepKeepsLedger, PTL DEF Spec, LedgerKept, Ledger!LedgerSpec

\* No step of either process ever takes an event back from SENT or SKIPPED,
\* or from DIGEST to anything undelivered, though the status writes are
\* unconditional: it follows from the ledger.
THEOREM SettledForGood == Spec => TerminalStable
<1>1. IInv /\ FreshInv /\ [Next]_vars =>
        [\A k \in Keys :
           /\ status[k] \in {"SENT", "SKIPPED"} => status'[k] = status[k]
           /\ status[k] = "DIGEST" => status'[k] \in TerminalStatuses]_vars
  <2> SUFFICES ASSUME IInv, FreshInv, [Next]_vars, NEW k \in Keys
               PROVE  /\ status[k] \in {"SENT", "SKIPPED"} => status'[k] = status[k]
                      /\ status[k] = "DIGEST" => status'[k] \in TerminalStatuses
    OBVIOUS
  <2>1. CASE UNCHANGED Ledger!ledgerVars
    BY <2>1 DEF Ledger!ledgerVars, TerminalStatuses
  <2>2. ASSUME NEW j \in Keys, Ledger!Enter(j) \/ Ledger!PutOff(j) \/ Ledger!Fail(j)
        PROVE  status[k] \in {"SENT", "SKIPPED", "DIGEST"} => status'[k] = status[k]
    BY <2>2 DEF Ledger!Enter, Ledger!PutOff, Ledger!Fail, Ledger!Become
  <2>3. ASSUME NEW ks \in SUBSET Ledger!Open, Ledger!Post(ks)
        PROVE  status'[k] = status[k]
    BY <2>3 DEF Ledger!Post
  <2>4. ASSUME NEW ks \in SUBSET Ledger!Open, Ledger!Settle(ks) \/ Ledger!Expire(ks)
        PROVE  \/ status'[k] = status[k]
               \/ k \in ks /\ status'[k] \in {"SENT", "SKIPPED"}
    BY <2>4 DEF Ledger!Settle, Ledger!Expire, Ledger!Become
  <2>5. CASE Ledger!LedgerNext
    BY <2>2, <2>3, <2>4, <2>5
       DEF Ledger!LedgerNext, Ledger!Open, TerminalStatuses
  <2> QED BY <2>1, <2>5, StepKeepsLedger
<1> QED BY <1>1, Invariance, Freshness, PTL DEF Spec, TerminalStable

\* No step of either process sends a message about an event that is SENT or
\* SKIPPED, although each decides on a status it read some steps before.
THEOREM NothingIsResent == Spec => NeverResent
<1>1. IInv /\ [Next]_vars =>
        [\A k \in Keys : copies'[k] > copies[k] => status[k] \notin {"SENT", "SKIPPED"}]_vars
  <2> SUFFICES ASSUME IInv, [Next]_vars, NEW k \in Keys, copies'[k] > copies[k]
               PROVE  status[k] \notin {"SENT", "SKIPPED"}
    OBVIOUS
  <2> USE DEF IInv
  <2>1. copies[k] \in Nat BY DEF TypeOK, EnvTypeOK
  <2>2. copies' # copies BY <2>1
  <2>3. CASE FetchNext
    <3>1. DeliverConfirmed \/ DeliverUnconfirmed BY <2>2, <2>3, FetchReach
    <3>2. Reach({rec}) /\ status[rec] \in {"PENDING", "FAILED"}
      BY <3>1 DEF DeliverConfirmed, DeliverUnconfirmed, RowInv, SendSteps
    <3> QED BY <2>1, <3>2 DEF Reach
  <2>4. CASE DigestNext
    <3>1. PICK b \in Batches : DigestConfirmed(b) \/ DigestUnconfirmed(b)
      BY <2>2, <2>4
         DEF DigestNext, DigestStep, StartDigest, Prune, MarkBatch, DigestDone,
             DigestRefused, DigestStoreError, DigestCrash, envVars
    <3>2. Reach(b) /\ \A j \in b : status[j] = "DIGEST"
      BY <3>1 DEF DigestConfirmed, DigestUnconfirmed, Batches, DigestInv, WithStatus
    <3> QED BY <2>1, <3>2 DEF Reach
  <2>5. CASE EnvNext BY <2>2, <2>5, EnvFrame
  <2>6. CASE UNCHANGED vars BY <2>2, <2>6 DEF vars, envVars
  <2> QED BY <2>3, <2>4, <2>5, <2>6 DEF Next
<1> QED BY <1>1, Invariance, PTL DEF Spec, NeverResent

---------------------------------------------------------------------------
(* Sources *)

\* The entries a feed had when it was first fetched never become events, with
\* any feeds, crashes and errors, as long as no backfill asks for them.
THEOREM BaselinesAreSilent == Spec => []BaselineIsSilent
<1>1. SourceInv => BaselineIsSilent
  BY DEF SourceInv, SilentInv, BaselineIsSilent
<1> QED BY <1>1, SourceInvariance, PTL

\* Snapshots move while a baseline is made, or at the end of a change.
LEMMA SnapshotMoves ==
  ASSUME IInv, SourceInv, [Next]_vars, NEW v \in VNs,
         Vndb \in baselines, snapshots'[v] # snapshots[v]
  PROVE  /\ pc = "ack" /\ item = v /\ snapshots'[v] = sighted[v]
<1>1. Ack
  BY DEF Next, FetchNext, FetchStep, StartFetch, FetchDone, FetchFails, FetchVndb, FetchFeeds,
         SaveBaselineSnapshot, ObserveVn, FinishVndbBaseline, VnsDone, NextGroup, GroupsDone,
         FinishFeedBaseline, GroupDone, MarkBaselineItem, SkipItem, TakeItem, FindDuplicate,
         FindNone, SameReport, ReadCorroborations, Corroborate, AddEvent, AddRefused, Choose,
         DeliverConfirmed, DeliverRefused, DeliverUnconfirmed, MarkSent, MarkFailed, Recheck,
         StoreError, Crash, DigestNext, DigestStep, StartDigest, Prune, DigestConfirmed,
         DigestRefused, DigestUnconfirmed, MarkBatch, DigestDone, DigestStoreError, DigestCrash,
         storeVars, vars, SourceInv, ChangeInv
<1> QED
  BY <1>1 DEF Ack, SaveSnapshot, IInv, TypeOK, StoreTypeOK

\* No change of a VN is dropped: its snapshot moves past a change only when an
\* event with the change's identity is SENT, SKIPPED or put off.
THEOREM NoChangeIsDropped == Spec => TransitionIsRecorded
<1>1. ASSUME IInv, SourceInv, [Next]_vars, NEW v \in VNs, Vndb \in baselines,
             snapshots'[v] # snapshots[v], ChangeType(snapshots[v], snapshots'[v]) # None
      PROVE  \E k \in Keys :
               /\ status[k] \in TerminalStatuses
               /\ Identity(about[k]) = Identity(ChangeEvent(v, snapshots[v], snapshots'[v]))
  <2>1. /\ pc = "ack" /\ item = v /\ snapshots'[v] = sighted[v]
    BY <1>1, SnapshotMoves
  <2> QED BY <1>1, <2>1 DEF SourceInv, ChangeInv, Changed, ChangeOf
<1>2. IInv /\ SourceInv /\ [Next]_vars =>
        [\A v \in VNs :
           /\ Vndb \in baselines
           /\ snapshots'[v] # snapshots[v]
           /\ ChangeType(snapshots[v], snapshots'[v]) # None
           => \E k \in Keys :
                /\ status[k] \in TerminalStatuses
                /\ Identity(about[k]) = Identity(ChangeEvent(v, snapshots[v], snapshots'[v]))]_vars
  BY <1>1
<1> QED BY <1>2, Invariance, SourceInvariance, PTL DEF Spec, TransitionIsRecorded

\* A VN that comes out between two observations gets a settled RELEASED event
\* before its snapshot shows the release.
THEOREM NoReleaseIsMissed == Spec => ReleaseIsTold
<1>1. ASSUME IInv, SourceInv, [Next]_vars, NEW v \in VNs, Vndb \in baselines,
             snapshots[v] # None, ~snapshots[v].released,
             snapshots'[v] # None, snapshots'[v].released
      PROVE  \E k \in Keys :
               /\ status[k] \in TerminalStatuses
               /\ about[k].entity = v /\ about[k].type = "RELEASED"
  <2>1. /\ pc = "ack" /\ item = v /\ snapshots'[v] = sighted[v]
    BY <1>1, SnapshotMoves
  <2>2. ChangeType(snapshots[v], sighted[v]) = "RELEASED"
    BY <1>1, <2>1 DEF ChangeType
  <2>3. Changed(v) BY <2>2, NoneAssumption DEF Changed, EventTypes
  <2>4. /\ rec \in Keys /\ status[rec] \in TerminalStatuses
        /\ Identity(about[rec]) = Identity(ChangeOf(v))
    BY <1>1, <2>1, <2>3 DEF SourceInv, ChangeInv
  <2>5. about[rec].entity = v /\ about[rec].type = "RELEASED"
    BY <2>2, <2>4 DEF Identity, ChangeOf, ChangeEvent
  <2> QED BY <2>4, <2>5
<1>2. IInv /\ SourceInv /\ [Next]_vars =>
        [\A v \in VNs :
           /\ Vndb \in baselines
           /\ snapshots[v] # None /\ ~snapshots[v].released
           /\ snapshots'[v] # None /\ snapshots'[v].released
           => \E k \in Keys :
                /\ status[k] \in TerminalStatuses
                /\ about[k].entity = v /\ about[k].type = "RELEASED"]_vars
  BY <1>1
<1> QED BY <1>2, Invariance, SourceInvariance, PTL DEF Spec, ReleaseIsTold
=============================================================================
