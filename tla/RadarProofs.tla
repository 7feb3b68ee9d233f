----------------------------- MODULE RadarProofs -----------------------------
(***************************************************************************)
(* Proofs that the notification properties of Radar hold for any sources,  *)
(* configurations, bounds and sizes.                                       *)
(***************************************************************************)
EXTENDS RadarInvariant, FetchProofs

USE EventsAssumption, KeysAssumption DEF Days, NoDate

---------------------------------------------------------------------------
(* Types *)

\* Each step of the digest process leaves every variable well typed and the
\* fetch process alone.
LEMMA DigestTyped ==
  ASSUME IInv, DigestNext, UNCHANGED fetchVars
  PROVE  TypeOK' /\ ControlInv'
<1> USE DEF IInv, TypeOK, EnvTypeOK, StoreTypeOK, DigestTypeOK
<1>1. ControlInv' /\ FetchTypeOK' BY DEF ControlInv, FetchTypeOK, fetchVars
<1>2. "SENT" \in Statuses /\ "SKIPPED" \in Statuses BY DEF Statuses
<1>3. CASE StartDigest
  BY <1>1, <1>3 DEF StartDigest, WithStatus, storeVars, envVars
<1>4. CASE Prune
  BY <1>1, <1>2, <1>4, StatusTyped DEF Prune, envVars
<1>5. CASE MarkBatch
  BY <1>1, <1>2, <1>5, StatusTyped DEF MarkBatch, envVars
<1>6. CASE DigestDone
  BY <1>1, <1>6 DEF DigestDone, DigestExit, storeVars, envVars
<1>7. ASSUME NEW b \in Batches, DigestConfirmed(b)
      PROVE  TypeOK' /\ ControlInv'
  <2>1. b \subseteq Keys BY DEF Batches
  <2>2. copies' \in [Keys -> Nat] BY <1>7 DEF DigestConfirmed, Reach
  <2> QED BY <1>1, <1>7, <2>1, <2>2 DEF DigestConfirmed, storeVars, sourceVars
<1>8. ASSUME NEW b \in Batches, DigestRefused(b)
      PROVE  TypeOK' /\ ControlInv'
  BY <1>1, <1>8 DEF DigestRefused, storeVars, envVars
<1>9. ASSUME NEW b \in Batches, DigestUnconfirmed(b)
      PROVE  TypeOK' /\ ControlInv'
  <2>1. copies' \in [Keys -> Nat] BY <1>9 DEF DigestUnconfirmed, Reach
  <2>2. lost' \in [Keys -> Nat] BY <1>9, ForgetTyped DEF DigestUnconfirmed
  <2>3. faults' \in 0..MaxFaults BY <1>9, FaultTyped DEF DigestUnconfirmed
  <2> QED BY <1>1, <1>9, <2>1, <2>2, <2>3 DEF DigestUnconfirmed, storeVars, sourceVars
<1>10. CASE DigestStoreError
  <2>1. lost' \in [Keys -> Nat] BY <1>10, ForgetTyped DEF DigestStoreError
  <2>2. faults' \in 0..MaxFaults BY <1>10, FaultTyped DEF DigestStoreError
  <2> QED
    BY <1>1, <1>10, <2>1, <2>2 DEF DigestStoreError, DigestExit, storeVars, sourceVars
<1>11. CASE DigestCrash
  <2>1. lost' \in [Keys -> Nat] BY <1>11, ForgetTyped DEF DigestCrash
  <2>2. faults' \in 0..MaxFaults BY <1>11, FaultTyped DEF DigestCrash
  <2> QED
    BY <1>1, <1>11, <2>1, <2>2 DEF DigestCrash, DigestExit, storeVars, sourceVars
<1> QED
  BY <1>3, <1>4, <1>5, <1>6, <1>7, <1>8, <1>9, <1>10, <1>11 DEF DigestNext, DigestStep

---------------------------------------------------------------------------
(* What one process may write without breaking what the other, or a later  *)
(* run, relies on.                                                         *)

\* The table keeps its invariant when rows stay, keep their content, lose no
\* corroboration, and settled rows stay settled.
LEMMA TableKept ==
  ASSUME TableInv, UNCHANGED <<about, seen, baselined>>,
         \A k \in Keys : /\ corroborating[k] \subseteq corroborating'[k]
                         /\ status[k] = "ABSENT" <=> status'[k] = "ABSENT"
                         /\ status[k] \in TerminalStatuses => status'[k] \in TerminalStatuses
  PROVE  TableInv'
<1>1. Stored' = Stored BY DEF Stored
<1>2. UniqueIdentity' BY <1>1 DEF TableInv, UniqueIdentity, Identity
<1>3. SeenIsAccounted'
  <2>1. \A i, k : k \in Keys /\ Settles(k, i) => Settles(k, i)' BY DEF Settles
  <2> QED BY <2>1 DEF TableInv, SeenIsAccounted
<1> QED BY <1>1, <1>2, <1>3 DEF TableInv

\* The digest process keeps its rows when no other process writes DIGEST ones.
LEMMA DigestKept ==
  ASSUME DigestInv, UNCHANGED digestVars,
         \A k \in Keys : status[k] = "DIGEST" => status'[k] = "DIGEST"
  PROVE  DigestInv'
BY DEF DigestInv, digestVars, WithStatus

\* The fetch process keeps its row when the other one settles none of the
\* rows that wait for a message of their own.
LEMMA RowKept ==
  ASSUME RowInv, UNCHANGED <<fetchVars, about, corroborating>>,
         \A k \in Keys :
           /\ status[k] \notin {"DIGEST", "SKIPPED", "SENT"} =>
                status'[k] = status[k]
           /\ status[k] \in TerminalStatuses => status'[k] \in TerminalStatuses,
         pc \in SendSteps \cup {"choose"} => rec \in Keys
  PROVE  RowInv'
<1>1. Stored' = Stored BY DEF Stored, TerminalStatuses
<1>2. StandsFor' = StandsFor BY DEF StandsFor, fetchVars
<1>3. FindEquivalent(key, event)' = FindEquivalent(key, event)
  BY <1>1 DEF FindEquivalent, Identity, fetchVars
<1> QED BY <1>1, <1>2, <1>3 DEF RowInv, SendSteps, fetchVars, Stored, TerminalStatuses

---------------------------------------------------------------------------
(* The invariant is inductive *)

\* The steps of the fetch process that leave the events table, the seen items
\* and the chat alone.
LEMMA QuietStep ==
  ASSUME IInv, FetchNext, UNCHANGED <<digestVars, eventsTable, seen, baselined, copies, lost>>,
         RowInv', pc # "mark_sent", pc' # "mark_sent"
  PROVE  DigestInv' /\ ChatInv' /\ TableInv'
<1> USE DEF eventsTable
<1>1. DigestInv' BY DigestKept DEF IInv
<1>2. TableInv' BY TableKept DEF IInv
<1>3. ChatInv' BY DEF IInv, ChatInv, Unmarked, digestVars
<1> QED BY <1>1, <1>2, <1>3

\* The steps of the fetch process keep the invariant: it writes rows that wait
\* for no digest, and marks an item seen only at an acknowledgement.
LEMMA FetchKeepsInv ==
  ASSUME IInv, FetchNext, UNCHANGED digestVars
  PROVE  RowInv' /\ DigestInv' /\ ChatInv' /\ TableInv'
<1> USE DEF IInv, Goto
<1>0. ASSUME pc \notin EventSteps \cup {"ack"}, pc' \notin EventSteps \cup {"ack"},
             UNCHANGED <<eventsTable, seen, baselined, copies, lost>>
      PROVE  RowInv' /\ DigestInv' /\ ChatInv' /\ TableInv'
  <2>1. RowInv' BY <1>0 DEF RowInv, EventSteps, SendSteps
  <2> QED BY <1>0, <2>1, QuietStep DEF EventSteps
<1>1. CASE StartFetch \/ FetchDone \/ FetchFails \/ FinishVndbBaseline \/ VnsDone
           \/ GroupsDone \/ FinishFeedBaseline \/ GroupDone
  BY <1>0, <1>1 DEF StartFetch, FetchDone, FetchFails, FinishVndbBaseline, VnsDone,
     GroupsDone, FinishFeedBaseline, GroupDone, Exit, NextAdapter, EndGroup,
     storeVars, envVars, eventsTable, EventSteps
<1>2. ASSUME NEW shown \in SUBSET VNs, FetchVndb(shown)
      PROVE  RowInv' /\ DigestInv' /\ ChatInv' /\ TableInv'
  BY <1>0, <1>2 DEF FetchVndb, storeVars, envVars, eventsTable, EventSteps
<1>3. ASSUME NEW ok \in SUBSET Feeds, NEW some \in SUBSET FeedItems, FetchFeeds(ok, some)
      PROVE  RowInv' /\ DigestInv' /\ ChatInv' /\ TableInv'
  BY <1>0, <1>3 DEF FetchFeeds, storeVars, envVars, eventsTable, EventSteps
<1>4. ASSUME NEW v \in VNs, SaveBaselineSnapshot(v)
      PROVE  RowInv' /\ DigestInv' /\ ChatInv' /\ TableInv'
  BY <1>0, <1>4 DEF SaveBaselineSnapshot, envVars, eventsTable, EventSteps
<1>5. ASSUME NEW f \in Feeds, NextGroup(f)
      PROVE  RowInv' /\ DigestInv' /\ ChatInv' /\ TableInv'
  BY <1>0, <1>5 DEF NextGroup, storeVars, envVars, eventsTable, EventSteps
<1>6. ASSUME NEW i \in FeedItems, SkipItem(i)
      PROVE  RowInv' /\ DigestInv' /\ ChatInv' /\ TableInv'
  BY <1>0, <1>6 DEF SkipItem, storeVars, envVars, eventsTable, EventSteps
<1>7. ASSUME NEW v \in VNs, ObserveVn(v)
      PROVE  RowInv' /\ DigestInv' /\ ChatInv' /\ TableInv'
  <2>1. RowInv' BY <1>7 DEF ObserveVn, RowInv, SendSteps
  <2> QED BY <1>7, <2>1, QuietStep DEF ObserveVn, storeVars, envVars, eventsTable
<1>8. ASSUME NEW i \in FeedItems, TakeItem(i)
      PROVE  RowInv' /\ DigestInv' /\ ChatInv' /\ TableInv'
  <2>1. RowInv' BY <1>8 DEF TakeItem, RowInv, SendSteps
  <2> QED BY <1>8, <2>1, QuietStep DEF TakeItem, storeVars, envVars, eventsTable
<1>9. ASSUME NEW j \in Keys, FindDuplicate(j)
      PROVE  RowInv' /\ DigestInv' /\ ChatInv' /\ TableInv'
  <2>1. j \in Stored BY <1>9 DEF FindDuplicate, FindEquivalent
  <2>2. RowInv'
    BY <1>9, <2>1 DEF FindDuplicate, RowInv, SendSteps, Stored, storeVars, envVars
  <2> QED BY <1>9, <2>2, QuietStep DEF FindDuplicate, storeVars, envVars, eventsTable
<1>10. CASE FindNone
  <2>1. RowInv'
    BY <1>10 DEF FindNone, RowInv, SendSteps, FindEquivalent, Stored, itemVars, storeVars
  <2> QED BY <1>10, <2>1, QuietStep DEF FindNone, storeVars, envVars, eventsTable
<1>11. CASE DeliverRefused
  <2>1. RowInv'
    BY <1>11 DEF DeliverRefused, RowInv, SendSteps, StandsFor, itemVars, storeVars
  <2> QED BY <1>11, <2>1, QuietStep DEF DeliverRefused, storeVars, envVars, eventsTable
<1>12. CASE Recheck
  <2>1. RowInv'
    BY <1>12 DEF Recheck, NextItem, RowInv, SendSteps, StandsFor, Stored, itemVars, storeVars
  <2>2. pc' # "mark_sent" BY <1>12 DEF Recheck, NextItem
  <2> QED BY <1>12, <2>1, <2>2, QuietStep DEF Recheck, storeVars, envVars, eventsTable
<1>13. CASE SameReport
  <2>1. RowInv'
    BY <1>13 DEF SameReport, AfterDuplicate, Retriable, RowInv, SendSteps,
                 StandsFor, Stored, itemVars, storeVars
  <2>2. pc' # "mark_sent" BY <1>13 DEF SameReport, AfterDuplicate
  <2> QED BY <1>13, <2>1, <2>2, QuietStep DEF SameReport, storeVars, envVars, eventsTable
<1>21. CASE ReadCorroborations
  <2>1. RowInv'
    BY <1>21 DEF ReadCorroborations, RowInv, SendSteps, Stored, storeVars
  <2> QED BY <1>21, <2>1, QuietStep DEF ReadCorroborations, storeVars, envVars, eventsTable
<1>22. CASE Corroborate
  <2>1. rec \in Keys /\ key \in Keys /\ known = corroborating[rec]
    BY <1>22 DEF Corroborate, RowInv, Stored, ControlInv, EventSteps
  <2>2. \A k \in Keys : corroborating[k] \subseteq corroborating'[k]
    BY <1>22, <2>1 DEF Corroborate, SetCorroborating, TypeOK, StoreTypeOK
  <2>3. rec' = key' \/ key' \in corroborating'[rec']
    BY <1>22, <2>1 DEF Corroborate, SetCorroborating, TypeOK, StoreTypeOK
  <2>4. RowInv'
    BY <1>22, <2>3
       DEF Corroborate, AfterDuplicate, Retriable, RowInv, SendSteps, StandsFor, Stored
  <2>5. TableInv' BY <1>22, <2>2, TableKept DEF Corroborate
  <2>6. DigestInv' BY <1>22, DigestKept DEF Corroborate
  <2>7. ChatInv'
    BY <1>22 DEF Corroborate, AfterDuplicate, ChatInv, Unmarked, digestVars, envVars
  <2> QED BY <2>4, <2>5, <2>6, <2>7
<1>23. CASE AddRefused
  <2>1. key \in Stored
    BY <1>23 DEF AddRefused, Stored, ControlInv, EventSteps
  <2> QED BY <1>23, <2>1 DEF AddRefused, RowInv, FindEquivalent
<1>14. CASE AddEvent
  <2>1. /\ key \in Keys /\ event \in SourceEvents
        /\ status[key] = "ABSENT" /\ FindEquivalent(key, event) = {}
    BY <1>14 DEF AddEvent, Add, RowInv, ControlInv, EventSteps
  <2>2. /\ status' = [status EXCEPT ![key] = "PENDING"]
        /\ about' = [about EXCEPT ![key] = event]
        /\ UNCHANGED <<corroborating, seen, baselined, copies, lost>>
        /\ rec' = key /\ key' = key /\ pc' = "choose"
    BY <1>14 DEF AddEvent, Add, envVars
  <2>3. status'[key] = "PENDING" /\ about'[key] = event
    BY <2>1, <2>2 DEF TypeOK, StoreTypeOK
  <2>4. \A k \in Keys \ {key} : status'[k] = status[k] /\ about'[k] = about[k]
    BY <2>2 DEF TypeOK, StoreTypeOK
  <2>5. Stored' = Stored \cup {key} BY <2>1, <2>3, <2>4 DEF Stored
  <2>6. RowInv' BY <2>2, <2>3 DEF RowInv, SendSteps
  <2>7. DigestInv' BY <2>1, <2>4, DigestKept
  <2>8. ChatInv'
    BY <1>14, <2>1, <2>2, <2>3, <2>4 DEF AddEvent, ChatInv, Unmarked, digestVars
  <2>9. UniqueIdentity'
    <3>1. \A j \in Stored : j # key /\ Identity(about[j]) # Identity(event)
      BY <2>1 DEF FindEquivalent
    <3>2. \A j \in Stored : Identity(about'[j]) = Identity(about[j])
      BY <2>4, <3>1 DEF Stored
    <3> QED BY <2>3, <2>5, <3>1, <3>2 DEF TableInv, UniqueIdentity
  <2>10. SeenIsAccounted'
    <3>1. \A i, k : k \in Keys /\ Settles(k, i) => Settles(k, i)'
      BY <2>1, <2>2, <2>4 DEF Settles, TerminalStatuses
    <3> QED BY <2>2, <3>1 DEF TableInv, SeenIsAccounted
  <2>11. \A k \in Stored' : about'[k] \in SourceEvents
    BY <2>1, <2>3, <2>4, <2>5 DEF TableInv, Stored
  <2>12. TableInv' BY <2>9, <2>10, <2>11 DEF TableInv
  <2> QED BY <2>6, <2>7, <2>8, <2>12
<1>15. CASE Choose
  <2> DEFINE verdict == ChooseStatus(event, score[rec], cfg, today)
  <2>1. rec = key /\ rec \in Keys /\ status[rec] = "PENDING"
    BY <1>15 DEF Choose, RowInv, ControlInv, EventSteps
  <2>2. \/ pc' = "deliver" /\ status' = status
        \/ pc' = "ack" /\ SetStatus({rec}, verdict) /\ verdict \in {"DIGEST", "SKIPPED"}
    BY <1>15, VerdictRange DEF Choose
  <2> HIDE DEF verdict
  <2>3. \A k \in Keys \ {rec} : status'[k] = status[k]
    BY <2>2 DEF SetStatus
  <2>4. pc' = "ack" => status'[rec] \in {"DIGEST", "SKIPPED"}
    BY <2>1, <2>2 DEF SetStatus
  <2>5. status'[rec] \in {"PENDING", "DIGEST", "SKIPPED"}
    BY <2>1, <2>2, <2>4
  <2>6. RowInv'
    BY <1>15, <2>1, <2>2, <2>4
       DEF Choose, RowInv, SendSteps, StandsFor, TerminalStatuses, itemVars
  <2>7. DigestInv' BY <2>1, <2>3, DigestKept
  <2>8. ChatInv'
    BY <1>15, <2>1, <2>2, <2>3, <2>5 DEF Choose, ChatInv, Unmarked, digestVars, envVars
  <2>9. TableInv'
    BY <1>15, <2>1, <2>3, <2>5, TableKept DEF Choose, TerminalStatuses
  <2> QED BY <2>6, <2>7, <2>8, <2>9
<1>16. CASE DeliverConfirmed \/ DeliverUnconfirmed
  <2>1. rec \in Keys /\ status[rec] \in {"PENDING", "FAILED"} /\ StandsFor
    BY <1>16 DEF DeliverConfirmed, DeliverUnconfirmed, RowInv, SendSteps
  <2>2. UNCHANGED <<itemVars, baselined, storeVars>> /\ Reach({rec}) /\ pc = "deliver"
    BY <1>16 DEF DeliverConfirmed, DeliverUnconfirmed
  <2>3. \/ pc' = "mark_sent" /\ lost' = lost
        \/ pc' \in {"deliver", "mark_failed"} /\ Forget({rec})
    BY <1>16 DEF DeliverConfirmed, DeliverUnconfirmed
  <2>4. RowInv'
    BY <2>1, <2>2, <2>3 DEF RowInv, SendSteps, StandsFor, itemVars, storeVars
  <2>5. DigestInv' /\ TableInv'
    BY <2>2, DigestKept, TableKept DEF storeVars
  <2>6. rec \notin batch BY <2>1 DEF DigestInv, WithStatus
  <2>7. ChatInv'
    BY <2>1, <2>2, <2>3, <2>6
       DEF ChatInv, Unmarked, Reach, Forget, digestVars, storeVars, itemVars,
           TypeOK, EnvTypeOK
  <2> QED BY <2>4, <2>5, <2>7
<1>17. CASE MarkSent \/ MarkFailed
  <2>1. /\ rec \in Keys /\ status[rec] \in {"PENDING", "FAILED"} /\ StandsFor
        /\ UNCHANGED <<about, corroborating, seen, baselined, copies, lost>>
    BY <1>17 DEF MarkSent, MarkFailed, RowInv, SendSteps, envVars
  <2>2. \A k \in Keys \ {rec} : status'[k] = status[k]
    BY <1>17 DEF MarkSent, MarkFailed, SetStatus
  <2>3. \/ /\ pc = "mark_sent" /\ pc' = "ack" /\ UNCHANGED itemVars
           /\ status'[rec] = "SENT"
        \/ /\ pc = "mark_failed" /\ pc' \in {"vns", "items"}
           /\ status'[rec] = "FAILED"
    BY <1>17, <2>1 DEF MarkSent, MarkFailed, SetStatus, NextItem
  <2>4. RowInv'
    BY <2>1, <2>3 DEF RowInv, SendSteps, StandsFor, TerminalStatuses, itemVars
  <2>5. DigestInv' BY <2>1, <2>2, DigestKept
  <2>6. TableInv' BY <2>1, <2>2, <2>3, TableKept DEF TerminalStatuses
  <2>7. rec \notin batch BY <2>1 DEF DigestInv, WithStatus
  <2>8. ChatInv'
    BY <2>1, <2>2, <2>3, <2>7 DEF ChatInv, Unmarked, digestVars
  <2> QED BY <2>4, <2>5, <2>6, <2>8
<1>18. CASE Ack
  <2>1. /\ pc = "ack" /\ pc' \in {"vns", "items"}
        /\ UNCHANGED <<eventsTable, baselined, copies, lost>>
    BY <1>18 DEF Ack, NextItem, envVars
  <2>2. RowInv' BY <2>1 DEF RowInv, SendSteps
  <2>3. DigestInv' BY <2>1, DigestKept DEF eventsTable
  <2>4. ChatInv' BY <2>1 DEF ChatInv, Unmarked, digestVars, eventsTable
  <2>5. SeenIsAccounted'
    <3>1. \A i, k : Settles(k, i)' = Settles(k, i)
      BY <2>1 DEF Settles, eventsTable
    <3>2. \A i \in seen' \ seen : rec \in Keys /\ Settles(rec, i)
      BY <1>18, <2>1 DEF Ack, MarkSeen, RowInv, ControlInv, ItemSteps, StandsFor, Settles
    <3> QED BY <2>1, <3>1, <3>2 DEF TableInv, SeenIsAccounted
  <2>6. TableInv'
    BY <2>1, <2>5 DEF TableInv, UniqueIdentity, Identity, Stored, eventsTable
  <2> QED BY <2>2, <2>3, <2>4, <2>6
<1>19. ASSUME NEW i \in FeedItems, MarkBaselineItem(i)
       PROVE  RowInv' /\ DigestInv' /\ ChatInv' /\ TableInv'
  <2>1. /\ pc = "feed_baseline" /\ pc' = pc
        /\ UNCHANGED <<eventsTable, copies, lost>>
    BY <1>19 DEF MarkBaselineItem, envVars
  <2>2. RowInv' BY <2>1 DEF RowInv, SendSteps
  <2>3. DigestInv' BY <2>1, DigestKept DEF eventsTable
  <2>4. ChatInv' BY <2>1 DEF ChatInv, Unmarked, digestVars, eventsTable
  <2>5. SeenIsAccounted'
    <3>1. \A j, k : Settles(k, j)' = Settles(k, j)
      BY <2>1 DEF Settles, eventsTable
    <3>2. seen' \ baselined' \subseteq seen \ baselined
      BY <1>19 DEF MarkBaselineItem, MarkSeen
    <3> QED BY <3>1, <3>2 DEF TableInv, SeenIsAccounted
  <2>6. TableInv'
    BY <2>1, <2>5 DEF TableInv, UniqueIdentity, Identity, Stored, eventsTable
  <2> QED BY <2>2, <2>3, <2>4, <2>6
<1>20. CASE StoreError \/ Crash
  <2>1. /\ UNCHANGED <<baselined, storeVars, copies>> /\ ForgetUnmarked
        /\ pc' \in {"idle", "fetch", "groups", "vns", "items"}
    BY <1>20 DEF StoreError, Crash, Exit, NextAdapter, NextItem, EndGroup
  <2>2. RowInv' BY <2>1 DEF RowInv, SendSteps
  <2>3. DigestInv' /\ TableInv'
    BY <2>1, DigestKept, TableKept DEF storeVars
  <2>4. pc = "mark_sent" =>
          rec \in Keys /\ status[rec] \in {"PENDING", "FAILED"} /\ rec \notin batch
    BY DEF RowInv, SendSteps, DigestInv, WithStatus
  <2>5. ChatInv'
    BY <2>1, <2>4
       DEF ForgetUnmarked, Forget, ChatInv, Unmarked, digestVars, storeVars,
           TypeOK, EnvTypeOK
  <2> QED BY <2>2, <2>3, <2>5
<1> QED
  BY <1>1, <1>2, <1>3, <1>4, <1>5, <1>6, <1>7, <1>8, <1>9, <1>10, <1>11, <1>12,
     <1>13, <1>14, <1>15, <1>16, <1>17, <1>18, <1>19, <1>20, <1>21, <1>22, <1>23
     DEF FetchNext, FetchStep

\* The steps of the digest process keep the invariant: they write only rows
\* that wait for the digest.
LEMMA DigestKeepsInv ==
  ASSUME IInv, DigestNext, UNCHANGED fetchVars
  PROVE  RowInv' /\ DigestInv' /\ ChatInv' /\ TableInv'
<1> USE DEF IInv
<1>0. pc \in SendSteps \cup {"choose"} => rec \in Keys
  BY DEF RowInv, ControlInv, SendSteps, EventSteps
<1>1. \A k \in Keys : Unmarked(k) => status[k] \in {"PENDING", "FAILED", "DIGEST"}
  BY DEF Unmarked, RowInv, SendSteps, DigestInv, WithStatus
<1>2. CASE StartDigest
  <2>1. UNCHANGED <<storeVars, envVars>> /\ batch = batch'
    BY <1>2 DEF StartDigest, DigestInv
  <2>2. RowInv' /\ TableInv'
    BY <1>0, <2>1, RowKept, TableKept DEF storeVars, envVars, fetchVars, TerminalStatuses
  <2>3. DigestInv' BY <1>2, <2>1 DEF StartDigest, DigestInv, WithStatus, storeVars
  <2>4. ChatInv' BY <2>1 DEF ChatInv, Unmarked, storeVars, envVars, fetchVars
  <2> QED BY <2>2, <2>3, <2>4
<1>3. CASE Prune \/ MarkBatch
  <2> DEFINE ks == IF dpc = "prune" THEN stale ELSE batch
             s  == IF dpc = "prune" THEN "SKIPPED" ELSE "SENT"
  <2>1. /\ SetStatus(ks, s) /\ ks \subseteq WithStatus("DIGEST")
        /\ UNCHANGED <<about, corroborating, seen, baselined, copies, lost>>
    BY <1>3 DEF Prune, MarkBatch, DigestInv, envVars, fetchVars
  <2>2. \A k \in Keys : IF k \in ks THEN status[k] = "DIGEST" /\ status'[k] = s
                                    ELSE status'[k] = status[k]
    BY <2>1 DEF SetStatus, WithStatus
  <2>3. s \in {"SKIPPED", "SENT"} OBVIOUS
  <2>4. RowInv'
    BY <1>0, <2>1, <2>2, <2>3, RowKept DEF TerminalStatuses
  <2>5. TableInv'
    BY <2>1, <2>2, <2>3, TableKept DEF TerminalStatuses, fetchVars
  <2>6. DigestInv' BY <1>3, <2>2 DEF Prune, MarkBatch, DigestInv, WithStatus
  <2>7. ChatInv'
    BY <1>3, <1>1, <2>1, <2>2
       DEF Prune, MarkBatch, ChatInv, Unmarked, DigestInv, WithStatus, fetchVars
  <2> QED BY <2>4, <2>5, <2>6, <2>7
<1>4. CASE DigestDone \/ DigestStoreError \/ DigestCrash
  <2>1. /\ UNCHANGED <<storeVars, copies>> /\ batch' = {}
        /\ (lost' = lost /\ batch = {}) \/ Forget(batch)
    BY <1>4 DEF DigestDone, DigestStoreError, DigestCrash, DigestExit, DigestInv, envVars
  <2>2. RowInv' /\ TableInv'
    BY <1>0, <2>1, RowKept, TableKept DEF storeVars, fetchVars, TerminalStatuses
  <2>3. DigestInv'
    BY <1>4, <2>1
       DEF DigestDone, DigestStoreError, DigestCrash, DigestExit, DigestInv,
           WithStatus, storeVars
  <2>4. ChatInv'
    BY <1>1, <2>1
       DEF Forget, ChatInv, Unmarked, DigestInv, WithStatus, RowInv, SendSteps,
           storeVars, fetchVars, TypeOK, EnvTypeOK
  <2> QED BY <2>2, <2>3, <2>4
<1>5. ASSUME NEW b \in Batches, DigestConfirmed(b) \/ DigestRefused(b) \/ DigestUnconfirmed(b)
      PROVE  RowInv' /\ DigestInv' /\ ChatInv' /\ TableInv'
  <2>1. /\ b \subseteq pending /\ b \subseteq WithStatus("DIGEST")
        /\ UNCHANGED storeVars /\ pending' = pending \ b /\ batch = {} /\ stale' = stale
    BY <1>5 DEF DigestConfirmed, DigestRefused, DigestUnconfirmed, Batches, DigestInv
  <2>2. \/ copies' = copies /\ lost' = lost /\ batch' = {}
        \/ Reach(b) /\ lost' = lost /\ batch' = b
        \/ Reach(b) /\ Forget(b) /\ batch' = {}
    BY <1>5, <2>1 DEF DigestConfirmed, DigestRefused, DigestUnconfirmed, envVars
  <2>3. RowInv' /\ TableInv'
    BY <1>0, <2>1, RowKept, TableKept
       DEF storeVars, fetchVars, TerminalStatuses, WithStatus
  <2>4. DigestInv'
    BY <1>5, <2>1
       DEF DigestConfirmed, DigestRefused, DigestUnconfirmed, DigestInv, WithStatus, storeVars
  <2>5. ChatInv'
    BY <1>1, <2>1, <2>2
       DEF Reach, Forget, ChatInv, Unmarked, WithStatus, RowInv, SendSteps,
           storeVars, fetchVars, TypeOK, EnvTypeOK
  <2> QED BY <2>3, <2>4, <2>5
<1> QED BY <1>2, <1>3, <1>4, <1>5 DEF DigestNext, DigestStep

\* What happens around the two programs keeps the invariant.
LEMMA EnvKeepsInv ==
  ASSUME IInv, UNCHANGED <<storeVars, fetchVars, digestVars, copies, lost>>
  PROVE  ControlInv' /\ RowInv' /\ DigestInv' /\ ChatInv' /\ TableInv'
<1> USE DEF IInv
<1>1. pc \in SendSteps \cup {"choose"} => rec \in Keys
  BY DEF RowInv, ControlInv, SendSteps, EventSteps
<1>2. RowInv' /\ DigestInv' /\ TableInv'
  BY <1>1, RowKept, DigestKept, TableKept DEF storeVars, fetchVars, TerminalStatuses
<1>3. ControlInv' BY DEF ControlInv, fetchVars
<1>4. ChatInv' BY DEF ChatInv, Unmarked, storeVars, fetchVars, digestVars
<1> QED BY <1>2, <1>3, <1>4

\* The invariant holds before anything has run.
LEMMA InitInv == Init => IInv
<1> SUFFICES ASSUME Init PROVE IInv OBVIOUS
<1> USE DEF Init, EnvInit, StoreInit, FetchInit, DigestInit
<1>1. TypeOK
  BY EnvironmentAssumption, FollowTyped
     DEF TypeOK, EnvTypeOK, StoreTypeOK, FetchTypeOK, DigestTypeOK, PCs,
         NothingSighted, NothingFetched
<1>2. ControlInv BY PipelineAssumption DEF ControlInv, EventSteps, ItemSteps
<1>3. RowInv BY DEF RowInv, SendSteps
<1>4. DigestInv BY DEF DigestInv
<1>5. ChatInv BY DEF ChatInv, Unmarked
<1>6. Stored = {} BY DEF Stored
<1>7. TableInv BY <1>6 DEF TableInv, UniqueIdentity, SeenIsAccounted
<1> QED BY <1>1, <1>2, <1>3, <1>4, <1>5, <1>7 DEF IInv

\* Every step of the deployment keeps the invariant.
LEMMA StepInv == IInv /\ [Next]_vars => IInv'
<1> SUFFICES ASSUME IInv, [Next]_vars PROVE IInv' OBVIOUS
<1>1. CASE FetchNext /\ UNCHANGED digestVars
  <2>1. EnvTypeOK' /\ StoreTypeOK' /\ FetchTypeOK' /\ ControlInv'
    BY <1>1, FetchTyped DEF IInv, TypeOK, RowInv
  <2>2. DigestTypeOK' BY <1>1 DEF IInv, TypeOK, DigestTypeOK, digestVars
  <2> QED BY <1>1, <2>1, <2>2, FetchKeepsInv DEF IInv, TypeOK
<1>2. CASE DigestNext /\ UNCHANGED fetchVars
  BY <1>2, DigestTyped, DigestKeepsInv DEF IInv
<1>3. CASE EnvNext /\ UNCHANGED <<storeVars, fetchVars, digestVars>>
  <2>1. UNCHANGED <<copies, lost>> BY <1>3, EnvFrame DEF chatVars
  <2>2. TypeOK'
    BY <1>3, EnvTyped
       DEF IInv, TypeOK, StoreTypeOK, FetchTypeOK, DigestTypeOK,
           storeVars, fetchVars, digestVars
  <2> QED BY <1>3, <2>1, <2>2, EnvKeepsInv DEF IInv
<1>4. CASE UNCHANGED vars
  <2>1. UNCHANGED <<storeVars, fetchVars, digestVars, envVars>> BY <1>4 DEF vars
  <2>2. TypeOK'
    BY <2>1 DEF IInv, TypeOK, EnvTypeOK, StoreTypeOK, FetchTypeOK, DigestTypeOK,
         storeVars, fetchVars, digestVars, envVars
  <2> QED BY <2>1, <2>2, EnvKeepsInv DEF IInv, envVars
<1> QED BY <1>1, <1>2, <1>3, <1>4 DEF Next

---------------------------------------------------------------------------
(* News and messages *)

\* The status writes of the fetch process add no row but AddEvent's, and
\* unsettle none.
LEMMA FetchRows ==
  ASSUME IInv, FetchNext, ~AddEvent
  PROVE  /\ about' = about
         /\ \A k \in Keys :
              /\ status[k] = "ABSENT" <=> status'[k] = "ABSENT"
              /\ status[k] \in TerminalStatuses => status'[k] \in TerminalStatuses
<1> USE DEF IInv, storeVars, eventsTable
<1>1. CASE Choose
  <2>1. rec \in Keys /\ status[rec] = "PENDING"
    BY <1>1 DEF Choose, RowInv, ControlInv, EventSteps
  <2>2. about' = about /\ (status' = status \/ \E s \in {"DIGEST", "SKIPPED"} : SetStatus({rec}, s))
    BY <1>1, VerdictRange DEF Choose
  <2> QED BY <2>1, <2>2 DEF SetStatus, TerminalStatuses
<1>2. CASE MarkSent \/ MarkFailed
  <2>1. rec \in Keys /\ status[rec] \in {"PENDING", "FAILED"}
    BY <1>2 DEF MarkSent, MarkFailed, RowInv, SendSteps
  <2>2. about' = about /\ \E s \in {"SENT", "FAILED"} : SetStatus({rec}, s)
    BY <1>2 DEF MarkSent, MarkFailed
  <2> QED BY <2>1, <2>2 DEF SetStatus, TerminalStatuses
<1>3. CASE UNCHANGED <<status, about>>
  BY <1>3
<1> QED
  BY <1>1, <1>2, <1>3
     DEF FetchNext, FetchStep, StartFetch, FetchDone, FetchFails, FetchVndb, FetchFeeds,
         SaveBaselineSnapshot, ObserveVn, FinishVndbBaseline, VnsDone, NextGroup, GroupsDone,
         FinishFeedBaseline, GroupDone, MarkBaselineItem, SkipItem, TakeItem, FindDuplicate,
         FindNone, SameReport, ReadCorroborations, Corroborate, AddRefused, DeliverConfirmed,
         DeliverRefused, DeliverUnconfirmed, Recheck, Ack, StoreError, Crash

\* No step of the fetch process but a send about its row gets a message
\* into the chat.
LEMMA FetchReach ==
  ASSUME FetchNext, ~DeliverConfirmed, ~DeliverUnconfirmed
  PROVE  UNCHANGED copies
BY DEF FetchNext, FetchStep, StartFetch, FetchDone, FetchFails, FetchVndb, FetchFeeds,
       SaveBaselineSnapshot, ObserveVn, FinishVndbBaseline, VnsDone, NextGroup, GroupsDone,
       FinishFeedBaseline, GroupDone, MarkBaselineItem, SkipItem, TakeItem, FindDuplicate,
       FindNone, SameReport, ReadCorroborations, Corroborate, AddEvent, AddRefused, Choose,
       DeliverRefused, MarkSent, MarkFailed, Recheck, Ack, StoreError, Crash, envVars

\* News is entered before a message about it is in the chat.
LEMMA StepFresh == IInv /\ FreshInv /\ [Next]_vars => FreshInv'
<1> SUFFICES ASSUME IInv, FreshInv, [Next]_vars PROVE FreshInv' OBVIOUS
<1> USE DEF IInv
<1>1. ASSUME UNCHANGED copies, pc' = "choose" => pc = "choose" /\ rec' = rec,
             \A k \in Keys : status'[k] = "ABSENT" => status[k] = "ABSENT"
      PROVE  FreshInv'
  BY <1>1 DEF FreshInv
<1>2. CASE AddEvent
  BY <1>2 DEF AddEvent, Add, ControlInv, EventSteps, envVars, FreshInv
<1>3. ASSUME NEW ks \in SUBSET Stored, Reach(ks), UNCHANGED status,
             pc' = "choose" => pc = "choose" /\ rec' = rec /\ rec \notin ks
      PROVE  FreshInv'
  BY <1>3 DEF FreshInv, Reach, Stored, RowInv, ControlInv, EventSteps
<1>4. CASE DeliverConfirmed \/ DeliverUnconfirmed
  <2>1. rec \in Stored /\ Reach({rec}) /\ UNCHANGED status /\ pc' # "choose"
    BY <1>4 DEF DeliverConfirmed, DeliverUnconfirmed, Goto, RowInv, SendSteps,
                Stored, storeVars
  <2> QED BY <1>3, <2>1
<1>5. CASE FetchNext /\ ~AddEvent /\ ~DeliverConfirmed /\ ~DeliverUnconfirmed
  <2>1. pc' # "choose"
    BY <1>5 DEF FetchNext, FetchStep, StartFetch, FetchDone, FetchFails, FetchVndb, FetchFeeds,
       SaveBaselineSnapshot, ObserveVn, FinishVndbBaseline, VnsDone, NextGroup, GroupsDone,
       FinishFeedBaseline, GroupDone, MarkBaselineItem, SkipItem, TakeItem, FindDuplicate,
       FindNone, SameReport, ReadCorroborations, Corroborate, AddRefused, Choose,
       DeliverRefused, MarkSent, MarkFailed, Recheck, Ack, StoreError, Crash,
       Goto, Exit, NextAdapter, EndGroup, NextItem, AfterDuplicate
  <2> QED BY <1>1, <1>5, <2>1, FetchRows, FetchReach
<1>6. ASSUME NEW b \in Batches, DigestConfirmed(b) \/ DigestUnconfirmed(b), UNCHANGED fetchVars
      PROVE  FreshInv'
  <2>1. \A k \in b : k \in Keys /\ status[k] = "DIGEST"
    BY DEF Batches, DigestInv, WithStatus
  <2>2. b \in SUBSET Stored /\ (pc = "choose" => rec \notin b)
    BY <2>1 DEF Stored, RowInv
  <2> QED BY <1>3, <1>6, <2>2 DEF DigestConfirmed, DigestUnconfirmed, storeVars, fetchVars
<1>7. CASE /\ DigestNext /\ UNCHANGED fetchVars
           /\ \A b \in Batches : ~DigestConfirmed(b) /\ ~DigestUnconfirmed(b)
  <2>1. UNCHANGED copies
    BY <1>7 DEF DigestNext, DigestStep, StartDigest, Prune, DigestRefused, MarkBatch,
       DigestDone, DigestStoreError, DigestCrash, envVars
  <2>2. \A k \in Keys : status'[k] = "ABSENT" => status[k] = "ABSENT"
    BY <1>7 DEF DigestNext, DigestStep, StartDigest, Prune, DigestRefused, MarkBatch,
       DigestDone, DigestStoreError, DigestCrash, storeVars, SetStatus
  <2> QED BY <1>1, <1>7, <2>1, <2>2 DEF fetchVars
<1>8. CASE EnvNext /\ UNCHANGED <<storeVars, fetchVars, digestVars>>
  BY <1>1, <1>8, EnvFrame DEF storeVars, fetchVars
<1>9. CASE UNCHANGED vars
  BY <1>1, <1>9 DEF vars, envVars, storeVars, fetchVars
<1> QED
  BY <1>2, <1>4, <1>5, <1>6, <1>7, <1>8, <1>9 DEF Next, DigestNext, DigestStep

---------------------------------------------------------------------------
(* The sources: transitions *)

\* The key detect_change gives a transition tells its entity, type and date.
LEMMA ChangeTells ==
  ASSUME NEW v \in VNs, NEW prev, NEW now, ChangeType(prev, now) # None
  PROVE  /\ TellsNews(ChangeKey(v, prev, now), ChangeEvent(v, prev, now))
         /\ ChangeKey(v, prev, now)[2] \in {"NEW_TITLE", "RELEASED", "RELEASE_DATE", "DELAY"}
<1> DEFINE k == ChangeKey(v, prev, now)
           t == ChangeType(prev, now)
<1>1. t \in {"NEW_TITLE", "RELEASED", "RELEASE_DATE", "DELAY"} BY ChangeTypeRange
<1>2. k[1] = v /\ k[2] = t
  BY <1>1 DEF ChangeKey, NewTitleKey, ReleasedKey, ReleaseDateKey, DelayKey
<1>3. t = "RELEASE_DATE" => k[3] = now.date
  BY DEF ChangeKey, ReleaseDateKey
<1>4. t = "DELAY" => k[4] = now.date
  BY DEF ChangeKey, DelayKey
<1> QED BY <1>1, <1>2, <1>3, <1>4 DEF TellsNews, ChangeEvent

\* Two events that one key tells of are the same news.
LEMMA KeyTellsIdentity ==
  ASSUME NEW k, k[2] \in {"NEW_TITLE", "RELEASED", "RELEASE_DATE", "DELAY"},
         NEW d, NEW e, TellsNews(k, d), TellsNews(k, e)
  PROVE  Identity(d) = Identity(e)
BY DEF TellsNews, Identity, DateEventTypes, SingletonEventTypes

---------------------------------------------------------------------------
(* The sources: the invariant is inductive *)

\* No source has a baseline before anything has run.
LEMMA InitSource == Init => SourceInv
<1> SUFFICES ASSUME Init PROVE SourceInv OBVIOUS
<1> USE DEF Init, StoreInit, FetchInit
<1>1. FeedInv BY DEF FeedInv, Keys
<1>2. SilentInv BY DEF SilentInv
<1>3. ChangeInv BY DEF ChangeInv, EventSteps, RowSteps, Keys
<1> QED BY <1>1, <1>2, <1>3 DEF SourceInv

\* A step that leaves the fetch process and the sources' records alone keeps
\* it when it adds no row and unsettles none.
LEMMA FrameKeepsSource ==
  ASSUME TypeOK, SourceInv, UNCHANGED <<fetchVars, about, snapshots, baselines, seen>>,
         \A k \in Keys :
           /\ status[k] = "ABSENT" <=> status'[k] = "ABSENT"
           /\ status[k] \in TerminalStatuses => status'[k] \in TerminalStatuses
  PROVE  SourceInv'
<1> USE DEF SourceInv, fetchVars, Keys
<1>1. FeedInv' BY DEF FeedInv
<1>2. SilentInv'
  <2> SUFFICES ASSUME Backfills = {{}}
               PROVE  \A i \in baselined : status'[i] = "ABSENT"
      BY DEF SilentInv
  <2>1. baselined \subseteq FeedItems BY DEF TypeOK, FetchTypeOK
  <2> QED BY <2>1 DEF SilentInv
<1>3. ChangeInv'
  BY DEF ChangeInv, Changed, ChangeOf, Identity, ChangeEvent, EventSteps, RowSteps, TellsNews
<1> QED BY <1>1, <1>2, <1>3

\* The steps between two store calls about one item: they leave the sources'
\* records and the loops around them alone, and end with this item or none.
ItemStep ==
  /\ pc \in ItemSteps
  /\ UNCHANGED <<workVars, backfill, baselined, baselines>>
  /\ \/ pc' \in ItemSteps /\ item' = item
     \/ item' = None /\ pc' = (IF item \in VNs THEN "vns" ELSE "items")

\* The steps that leave no item in flight and end the loop they are in.
LoopsEnd ==
  /\ pc' \in {"idle", "fetch", "groups", "vns", "vndb_baseline"} /\ item' = None
  /\ UNCHANGED baselined /\ baselines \subseteq baselines'
  /\ backfill' \in {{}, backfill} \cup Backfills

ItemAction ==
  \/ FindNone \/ SameReport \/ ReadCorroborations \/ Corroborate \/ AddEvent
  \/ AddRefused \/ Choose \/ DeliverConfirmed \/ DeliverRefused
  \/ DeliverUnconfirmed \/ MarkSent \/ MarkFailed \/ Recheck \/ Ack
  \/ \E j \in Keys : FindDuplicate(j)

LEMMA ItemActions ==
  ASSUME IInv, ItemAction
  PROVE  ItemStep
BY DEF IInv, ItemSteps, EventSteps, Goto, NoItem, NextItem, workVars, itemVars, runVars,
       storeVars, AfterDuplicate, ItemAction,
       ItemStep, FindNone, SameReport, ReadCorroborations, Corroborate, AddEvent,
       AddRefused, Choose, DeliverConfirmed, DeliverRefused, DeliverUnconfirmed, MarkSent,
       MarkFailed, Recheck, Ack, FindDuplicate

LEMMA FetchShapes ==
  ASSUME IInv, FetchNext
  PROVE  \/ ItemStep
         \/ LoopsEnd
         \/ \E f \in Feeds : NextGroup(f)
         \/ \E i \in FeedItems : MarkBaselineItem(i) \/ SkipItem(i) \/ TakeItem(i)
         \/ \E v \in VNs : ObserveVn(v)
<1> USE DEF IInv, ItemSteps, EventSteps, Goto, NoItem, NextItem, workVars, itemVars, runVars,
            storeVars, AfterDuplicate
<1>1. pc \notin ItemSteps => item = None
  BY DEF ControlInv
<1>2. CASE ItemAction
  BY <1>2, ItemActions
<1>3. CASE StartFetch \/ FetchDone \/ FetchFails \/ FinishVndbBaseline \/ VnsDone
           \/ GroupsDone \/ FinishFeedBaseline \/ GroupDone \/ Crash
  <2>1. LoopsEnd
    BY <1>1, <1>3 DEF LoopsEnd, StartFetch, FetchDone, FetchFails, FinishVndbBaseline, VnsDone,
       GroupsDone, FinishFeedBaseline, GroupDone, Crash, Exit, NextAdapter, EndGroup, MarkBaseline
  <2> QED BY <2>1
<1>4. CASE \/ \E shown \in SUBSET VNs : FetchVndb(shown)
           \/ \E ok \in SUBSET Feeds, some \in SUBSET FeedItems : FetchFeeds(ok, some)
           \/ \E v \in VNs : SaveBaselineSnapshot(v)
  <2>1. LoopsEnd
    BY <1>1, <1>4 DEF LoopsEnd, FetchVndb, FetchFeeds, SaveBaselineSnapshot
  <2> QED BY <2>1
<1>5. CASE StoreError
  <2>1. ItemStep \/ LoopsEnd
    BY <1>1, <1>5 DEF ItemStep, LoopsEnd, StoreError, NextAdapter, EndGroup
  <2> QED BY <2>1
<1> QED
  BY <1>2, <1>3, <1>4, <1>5 DEF FetchNext, FetchStep, ItemAction

\* A new row of a feed item is that of the item in flight.
LEMMA NewRow ==
  ASSUME IInv, SourceInv, FetchNext, AddEvent
  PROVE  /\ key \in Keys
         /\ (item \in FeedItems /\ key = item) \/ (item \in VNs /\ key \in TransitionKeys)
         /\ status' = [status EXCEPT ![key] = "PENDING"]
         /\ about' = [about EXCEPT ![key] = event]
<1>1. /\ pc = "add" /\ status' = [status EXCEPT ![key] = "PENDING"]
      /\ about' = [about EXCEPT ![key] = event]
  BY DEF AddEvent, Add
<1>2. key \in Keys /\ item \in VNs \cup FeedItems /\ (item \in FeedItems => key = item)
  BY <1>1 DEF IInv, ControlInv, ItemSteps, EventSteps
<1>3. ASSUME item \in VNs PROVE key \in TransitionKeys
  <2>1. Changed(item) /\ key = ChangeKey(item, snapshots[item], sighted[item])
    BY <1>1, <1>3 DEF SourceInv, ChangeInv, EventSteps
  <2>2. snapshots[item] \in Snapshots \cup {None} /\ sighted[item] \in Sightings
    BY <1>3 DEF IInv, TypeOK, StoreTypeOK, ControlInv
  <2> QED BY <1>3, <2>1, <2>2, ChangeKeyIsTransition DEF Changed
<1> QED BY <1>1, <1>2, <1>3

\* A feed's items are taken under its baseline.
LEMMA FetchKeepsFeedInv ==
  ASSUME IInv, SourceInv, FetchNext
  PROVE  FeedInv'
<1> USE DEF SourceInv, FeedInv
<1>1. baselines \subseteq baselines'
  BY DEF FetchNext, FetchStep, StartFetch, FetchDone, FetchFails, FetchVndb, FetchFeeds,
         SaveBaselineSnapshot, ObserveVn, FinishVndbBaseline, VnsDone, NextGroup, GroupsDone,
         FinishFeedBaseline, GroupDone, MarkBaselineItem, SkipItem, TakeItem, FindDuplicate,
         FindNone, SameReport, ReadCorroborations, Corroborate, AddEvent, AddRefused, Choose,
         DeliverConfirmed, DeliverRefused, DeliverUnconfirmed, MarkSent, MarkFailed, Recheck,
         Ack, StoreError, Crash, MarkBaseline, storeVars
<1>2. \A i \in FeedItems : status'[i] # "ABSENT" => FeedOf[i] \in baselines'
  <2>1. CASE ~AddEvent
    BY <1>1, <2>1, FetchRows DEF Keys
  <2>2. CASE AddEvent
    BY <1>1, <2>2, NewRow DEF Keys, IInv, TypeOK, StoreTypeOK
  <2> QED BY <2>1, <2>2
<1>3. CASE ItemStep
  <2>1. item \in VNs \cup FeedItems BY <1>3 DEF ItemStep, IInv, ControlInv
  <2>2. feed' = feed /\ queue' = queue /\ baselines' = baselines
    BY <1>3 DEF ItemStep, workVars
  <2>3. pc' = "items" => item \in FeedItems
    BY <1>3, <2>1 DEF ItemStep, ItemSteps, EventSteps
  <2>4. item' \in FeedItems => item' = item
    BY <1>3 DEF ItemStep
  <2>5. pc' # "feed_baseline"
    BY <1>3 DEF ItemStep, ItemSteps, EventSteps
  <2> QED BY <1>2, <2>2, <2>3, <2>4, <2>5
<1>4. CASE LoopsEnd
  BY <1>2, <1>4 DEF LoopsEnd
<1>5. ASSUME NEW f \in Feeds, NextGroup(f)
      PROVE  FeedInv'
  <2>1. item' = item /\ item \notin FeedItems /\ feed' = f /\ baselines' = baselines
    BY <1>5 DEF NextGroup, itemVars, storeVars, IInv, ControlInv, ItemSteps, EventSteps
  <2> QED BY <1>2, <1>5, <2>1 DEF NextGroup
<1>6. ASSUME NEW i \in FeedItems, MarkBaselineItem(i) \/ SkipItem(i) \/ TakeItem(i)
      PROVE  FeedInv'
  <2>1. pc \in {"feed_baseline", "items"} /\ item = None /\ i \in queue
    BY <1>6 DEF MarkBaselineItem, SkipItem, TakeItem, IInv, ControlInv, ItemSteps, EventSteps
  <2>2. feed' = feed /\ queue' = queue \ {i} /\ baselines' = baselines
    BY <1>6 DEF MarkBaselineItem, SkipItem, TakeItem, storeVars
  <2>3. \/ pc' = pc /\ item' = item
        \/ pc = "items" /\ pc' = "find" /\ item' = i
    BY <1>6 DEF MarkBaselineItem, SkipItem, TakeItem, itemVars, Goto
  <2> QED BY <1>2, <2>1, <2>2, <2>3
<1>7. ASSUME NEW v \in VNs, ObserveVn(v)
      PROVE  FeedInv'
  BY <1>2, <1>7 DEF ObserveVn, Goto
<1> QED BY <1>3, <1>4, <1>5, <1>6, <1>7, FetchShapes

\* Without backfills a baseline item never gets in flight.
LEMMA FetchKeepsSilentInv ==
  ASSUME IInv, SourceInv, FetchNext
  PROVE  SilentInv'
<1> SUFFICES ASSUME Backfills = {{}}
             PROVE  /\ backfill' = {}
                    /\ baselined' \subseteq seen'
                    /\ item' \in FeedItems => item' \notin seen'
                    /\ \A i \in baselined' : status'[i] = "ABSENT"
    BY DEF SilentInv
<1>0. /\ backfill = {} /\ baselined \subseteq seen /\ baselined \subseteq FeedItems
      /\ item \in FeedItems => item \notin seen
      /\ \A i \in baselined : status[i] = "ABSENT"
  BY DEF SourceInv, SilentInv, IInv, TypeOK, FetchTypeOK
<1>1. \A i \in baselined : status'[i] = "ABSENT"
  <2>1. CASE ~AddEvent
    BY <1>0, <2>1, FetchRows DEF Keys
  <2>2. CASE AddEvent
    BY <1>0, <2>2, NewRow DEF Keys, IInv, TypeOK, StoreTypeOK
  <2> QED BY <2>1, <2>2
<1>2. ASSUME NEW i \in FeedItems, MarkBaselineItem(i)
      PROVE  /\ backfill' = {} /\ baselined' \subseteq seen'
             /\ item' \notin FeedItems
             /\ \A j \in baselined' : status'[j] = "ABSENT"
  <2>1. status[i] = "ABSENT"
    BY <1>2 DEF MarkBaselineItem, SourceInv, FeedInv
  <2>2. /\ backfill' = backfill /\ item' = item /\ seen' = seen \cup {i} /\ status' = status
        /\ baselined' = baselined \/ baselined' = baselined \cup {i}
    BY <1>2 DEF MarkBaselineItem, MarkSeen, runVars, itemVars, eventsTable
  <2>3. item = None BY <1>2 DEF MarkBaselineItem, IInv, ControlInv, ItemSteps, EventSteps
  <2> QED BY <1>0, <2>1, <2>2, <2>3
<1>3. CASE Ack
  <2>1. /\ backfill' = backfill /\ baselined' = baselined /\ seen \subseteq seen' /\ item' = None
    BY <1>3 DEF Ack, NextItem, NoItem, MarkSeen, runVars
  <2> QED BY <1>0, <1>1, <2>1
<1>4. CASE UNCHANGED <<seen, baselined>>
  <2>1. backfill' = {} /\ (item' \in FeedItems => item' \notin seen)
    <3>1. CASE ItemStep BY <1>0, <3>1 DEF ItemStep
    <3>2. CASE LoopsEnd BY <1>0, <3>2 DEF LoopsEnd
    <3>3. CASE \E f \in Feeds : NextGroup(f)
      BY <1>0, <3>3 DEF NextGroup, runVars, itemVars
    <3>4. CASE \E i \in FeedItems : MarkBaselineItem(i) \/ SkipItem(i) \/ TakeItem(i)
      BY <1>0, <3>4 DEF MarkBaselineItem, SkipItem, TakeItem, runVars, itemVars
    <3>5. CASE \E v \in VNs : ObserveVn(v)
      BY <1>0, <3>5 DEF ObserveVn, runVars
    <3> QED BY <3>1, <3>2, <3>3, <3>4, <3>5, FetchShapes
  <2> QED BY <1>0, <1>1, <1>4, <2>1
<1> QED
  BY <1>2, <1>3, <1>4
     DEF FetchNext, FetchStep, StartFetch, FetchDone, FetchFails, FetchVndb, FetchFeeds,
         SaveBaselineSnapshot, ObserveVn, FinishVndbBaseline, VnsDone, NextGroup, GroupsDone,
         FinishFeedBaseline, GroupDone, SkipItem, TakeItem, FindDuplicate, FindNone,
         SameReport, ReadCorroborations, Corroborate, AddEvent, AddRefused, Choose,
         DeliverConfirmed, DeliverRefused, DeliverUnconfirmed, MarkSent, MarkFailed, Recheck,
         StoreError, Crash, storeVars

\* A step that stays with the item in flight.
LEMMA SameItem ==
  ASSUME IInv, FetchNext, item \in VNs, item' = item
  PROVE  /\ pc \in EventSteps /\ UNCHANGED <<key, event, sighted, snapshots>>
         /\ \/ \E j \in Keys : FindDuplicate(j)
            \/ FindNone \/ SameReport \/ ReadCorroborations \/ Corroborate \/ AddEvent
            \/ Choose \/ DeliverConfirmed \/ DeliverRefused \/ DeliverUnconfirmed
            \/ MarkSent \/ (Recheck /\ pc' = "ack")
<1>1. pc \in ItemSteps /\ item # None
  BY DEF IInv, ControlInv
<1> USE <1>1 DEF ItemSteps, EventSteps, Goto, NoItem, NextItem, workVars, itemVars, storeVars
<1>2. CASE \/ \E j \in Keys : FindDuplicate(j)
           \/ FindNone \/ SameReport \/ ReadCorroborations \/ Corroborate \/ AddEvent
           \/ Choose \/ DeliverConfirmed \/ DeliverRefused \/ DeliverUnconfirmed
           \/ MarkSent
  BY <1>2 DEF FindDuplicate, FindNone, SameReport, ReadCorroborations, Corroborate, AddEvent,
     Choose, DeliverConfirmed, DeliverRefused, DeliverUnconfirmed, MarkSent
<1>3. CASE Recheck
  BY <1>3 DEF Recheck
<1>4. ~(AddRefused \/ MarkFailed \/ Ack \/ StoreError \/ Crash)
  BY DEF AddRefused, MarkFailed, Ack, StoreError, Crash, Exit
<1>5. ~(\/ StartFetch \/ FetchDone \/ FetchFails \/ FinishVndbBaseline \/ VnsDone
        \/ GroupsDone \/ FinishFeedBaseline \/ GroupDone
        \/ \E shown \in SUBSET VNs : FetchVndb(shown)
        \/ \E ok \in SUBSET Feeds, some \in SUBSET FeedItems : FetchFeeds(ok, some)
        \/ \E v \in VNs : SaveBaselineSnapshot(v) \/ ObserveVn(v)
        \/ \E f \in Feeds : NextGroup(f)
        \/ \E i \in FeedItems : MarkBaselineItem(i) \/ SkipItem(i) \/ TakeItem(i))
  BY DEF StartFetch, FetchDone, FetchFails, FinishVndbBaseline, VnsDone, GroupsDone,
     FinishFeedBaseline, GroupDone, FetchVndb, FetchFeeds, SaveBaselineSnapshot, ObserveVn,
     NextGroup, MarkBaselineItem, SkipItem, TakeItem
<1> QED BY <1>2, <1>3, <1>4, <1>5 DEF FetchNext, FetchStep

\* The row found for a transition has its identity: the same key, or the same
\* news.
LEMMA FoundIsNews ==
  ASSUME IInv, SourceInv, item \in VNs, pc = "find",
         NEW j \in FindEquivalent(key, event)
  PROVE  Identity(about[j]) = Identity(event)
<1>1. /\ Changed(item) /\ key = ChangeKey(item, snapshots[item], sighted[item])
      /\ event = ChangeOf(item)
  BY DEF SourceInv, ChangeInv, EventSteps
<1>2. snapshots[item] \in Snapshots \cup {None} /\ sighted[item] \in Sightings
  BY DEF IInv, TypeOK, StoreTypeOK, ControlInv
<1>3. CASE j = key
  <2>1. key \in TransitionKeys BY <1>1, <1>2, ChangeKeyIsTransition DEF Changed
  <2>2. TellsNews(key, about[key])
    BY <1>3, <2>1 DEF SourceInv, ChangeInv, FindEquivalent, Stored
  <2>3. /\ TellsNews(key, event)
        /\ key[2] \in {"NEW_TITLE", "RELEASED", "RELEASE_DATE", "DELAY"}
    BY <1>1, ChangeTells DEF Changed, ChangeOf
  <2> QED BY <1>3, <2>2, <2>3, KeyTellsIdentity
<1>4. CASE j # key
  BY <1>4 DEF FindEquivalent
<1> QED BY <1>3, <1>4

\* A change stays what it was while its event is handled, and is acknowledged
\* with a settled row of its identity.
LEMMA FetchKeepsChange ==
  ASSUME IInv, SourceInv, FetchNext, item \in VNs, item' = item
  PROVE  /\ pc' \in EventSteps =>
              /\ Changed(item)'
              /\ key' = ChangeKey(item, snapshots[item], sighted[item])'
              /\ event' = ChangeOf(item)'
         /\ pc' \in RowSteps => Identity(about[rec])' = Identity(event)'
         /\ pc' = "ack" =>
              /\ rec' \in Keys /\ status'[rec'] \in TerminalStatuses
              /\ Identity(about[rec])' = Identity(ChangeOf(item))'
<1>1. /\ pc \in EventSteps /\ UNCHANGED <<key, event, sighted, snapshots>>
      /\ Changed(item) /\ key = ChangeKey(item, snapshots[item], sighted[item])
      /\ event = ChangeOf(item)
  BY SameItem DEF SourceInv, ChangeInv
<1>2. /\ Changed(item)' /\ key' = ChangeKey(item, snapshots[item], sighted[item])'
      /\ event' = ChangeOf(item)' /\ Identity(event)' = Identity(event)
  BY <1>1 DEF Changed, ChangeOf, ChangeEvent, Identity
<1>3. ASSUME NEW j \in Keys, FindDuplicate(j)
      PROVE  pc' = "duplicate" /\ Identity(about[rec])' = Identity(event)'
  <2>1. Identity(about[j]) = Identity(event)
    BY <1>3, FoundIsNews DEF FindDuplicate
  <2>2. about'[rec'] = about[j]
    BY <1>3 DEF FindDuplicate, storeVars
  <2> QED BY <1>2, <1>3, <2>1, <2>2 DEF FindDuplicate, Goto, Identity
<1>4. CASE FindNone
  BY <1>2, <1>4 DEF FindNone, Goto, RowSteps
<1>5. CASE AddEvent
  <2>1. about'[rec'] = event' /\ pc' = "choose"
    BY <1>1, <1>5, NewRow DEF AddEvent, Goto, IInv, TypeOK, StoreTypeOK
  <2> QED BY <1>2, <2>1 DEF Identity
<1>6. CASE SameReport \/ ReadCorroborations \/ Corroborate \/ Choose \/ DeliverConfirmed
           \/ DeliverRefused \/ DeliverUnconfirmed \/ MarkSent \/ (Recheck /\ pc' = "ack")
  <2>1. pc \in RowSteps /\ rec' = rec /\ about' = about
    BY <1>6 DEF SameReport, ReadCorroborations, Corroborate, Choose, DeliverConfirmed,
       DeliverRefused, DeliverUnconfirmed, MarkSent, Recheck, NextItem, NoItem, itemVars, storeVars,
       RowSteps, EventSteps
  <2>2. Identity(about[rec])' = Identity(event)'
    BY <1>2, <2>1 DEF SourceInv, ChangeInv, Identity
  <2>3. ASSUME pc' = "ack"
        PROVE  rec \in Keys /\ status'[rec] \in TerminalStatuses
    <3>1. CASE Choose
      <4>1. rec \in Keys BY <3>1 DEF Choose, IInv, RowInv, ControlInv, EventSteps
      <4>2. \E s \in {"DIGEST", "SKIPPED"} : SetStatus({rec}, s)
        BY <2>3, <3>1, VerdictRange DEF Choose, Goto
      <4> QED BY <4>1, <4>2 DEF SetStatus, TerminalStatuses
    <3>2. CASE MarkSent
      BY <3>2 DEF MarkSent, SetStatus, TerminalStatuses, IInv, RowInv, SendSteps
    <3>3. CASE Recheck
      BY <2>3, <3>3 DEF Recheck, NextItem, IInv, RowInv, Stored, storeVars
    <3> QED
      BY <1>6, <2>3, <3>1, <3>2, <3>3 DEF SameReport, ReadCorroborations, Corroborate,
         AfterDuplicate, DeliverConfirmed, DeliverRefused, DeliverUnconfirmed, Goto
  <2> QED BY <1>2, <2>1, <2>2, <2>3
<1> QED
  BY <1>2, <1>3, <1>4, <1>5, <1>6, SameItem DEF EventSteps, RowSteps

LEMMA FetchKeepsChangeInv ==
  ASSUME IInv, SourceInv, FetchNext
  PROVE  ChangeInv'
<1>1. \A k \in TransitionKeys : status'[k] # "ABSENT" => TellsNews(k, about'[k])
  <2>1. CASE ~AddEvent
    BY <2>1, FetchRows DEF SourceInv, ChangeInv, Keys
  <2>2. CASE AddEvent
    <3>1. ASSUME item \in VNs PROVE TellsNews(key, event)
      BY <2>2, <3>1, ChangeTells DEF AddEvent, SourceInv, ChangeInv, EventSteps, Changed, ChangeOf
    <3> QED
      BY <2>2, <3>1, NewRow DEF SourceInv, ChangeInv, Keys, IInv, TypeOK, StoreTypeOK
  <2> QED BY <2>1, <2>2
<1>2. /\ pc' = "vndb_baseline" => Vndb \notin baselines'
      /\ pc' = "vns" \/ item' \in VNs => Vndb \in baselines'
  <2> USE DEF SourceInv, ChangeInv, Goto
  <2>1. CASE ItemStep
    BY <2>1 DEF ItemStep, ItemSteps, EventSteps
  <2>2. CASE \/ StartFetch \/ FetchDone \/ FinishVndbBaseline \/ VnsDone \/ GroupsDone
             \/ FinishFeedBaseline \/ GroupDone \/ Crash
             \/ \E ok \in SUBSET Feeds, some \in SUBSET FeedItems : FetchFeeds(ok, some)
    BY <2>2 DEF StartFetch, FetchDone, FinishVndbBaseline, VnsDone, GroupsDone,
       FinishFeedBaseline, GroupDone, Crash, FetchFeeds, Exit, NextAdapter, EndGroup, NoItem,
       itemVars, IInv, ControlInv, ItemSteps, EventSteps
  <2>3. CASE FetchFails \/ \E shown \in SUBSET VNs : FetchVndb(shown)
    BY <2>3 DEF FetchFails, FetchVndb, itemVars, storeVars
  <2>4. CASE \/ \E v \in VNs : SaveBaselineSnapshot(v) \/ ObserveVn(v)
             \/ \E f \in Feeds : NextGroup(f)
             \/ \E i \in FeedItems : MarkBaselineItem(i) \/ SkipItem(i) \/ TakeItem(i)
    BY <2>4 DEF SaveBaselineSnapshot, ObserveVn, NextGroup, MarkBaselineItem, SkipItem,
       TakeItem, itemVars, storeVars
  <2>5. CASE StoreError
    BY <2>5 DEF StoreError, NextAdapter, EndGroup, NextItem, NoItem, itemVars, storeVars,
       IInv, ControlInv, ItemSteps, EventSteps
  <2>6. ASSUME ItemAction PROVE ItemStep
    BY <2>6, ItemActions
  <2> QED
    BY <2>1, <2>2, <2>3, <2>4, <2>5, <2>6 DEF FetchNext, FetchStep, ItemAction
<1>3. ASSUME item' \in VNs
      PROVE  /\ pc' \in EventSteps =>
                  /\ Changed(item)'
                  /\ key' = ChangeKey(item, snapshots[item], sighted[item])'
                  /\ event' = ChangeOf(item)'
             /\ pc' \in RowSteps => Identity(about[rec])' = Identity(event)'
             /\ pc' = "ack" /\ Changed(item)' =>
                  /\ rec' \in Keys /\ status'[rec'] \in TerminalStatuses
                  /\ Identity(about[rec])' = Identity(ChangeOf(item))'
  <2>1. ASSUME NEW v \in VNs, ObserveVn(v)
        PROVE  /\ item' = v /\ UNCHANGED <<sighted, snapshots>>
               /\ IF Changed(v) THEN /\ pc' = "find" /\ event' = ChangeOf(v)
                                     /\ key' = ChangeKey(v, snapshots[v], sighted[v])
                                ELSE pc' = "ack"
    BY <2>1 DEF ObserveVn, Changed, ChangeOf, Goto, storeVars
  <2>2. CASE \E v \in VNs : ObserveVn(v)
    BY <2>1, <2>2 DEF Changed, ChangeOf, ChangeEvent, EventSteps, RowSteps
  <2>3. CASE item' = item
    BY <1>3, <2>3, FetchKeepsChange
  <2>4. CASE ItemStep BY <1>3, <2>3, <2>4 DEF ItemStep
  <2>5. CASE LoopsEnd BY <1>3, <2>5 DEF LoopsEnd
  <2>6. CASE \E f \in Feeds : NextGroup(f)
    BY <2>3, <2>6 DEF NextGroup, itemVars
  <2>7. CASE \E i \in FeedItems : MarkBaselineItem(i) \/ SkipItem(i) \/ TakeItem(i)
    BY <1>3, <2>3, <2>7 DEF MarkBaselineItem, SkipItem, TakeItem, itemVars
  <2> QED BY <2>2, <2>4, <2>5, <2>6, <2>7, FetchShapes
<1> QED BY <1>1, <1>2, <1>3 DEF ChangeInv

\* Every step of the deployment keeps the invariant.
LEMMA StepSource == IInv /\ SourceInv /\ [Next]_vars => SourceInv'
<1> SUFFICES ASSUME IInv, SourceInv, [Next]_vars PROVE SourceInv' OBVIOUS
<1>0. TypeOK BY DEF IInv
<1>1. CASE FetchNext
  BY <1>1, FetchKeepsFeedInv, FetchKeepsSilentInv, FetchKeepsChangeInv DEF SourceInv
<1>2. CASE DigestNext /\ UNCHANGED fetchVars
  <2>1. UNCHANGED <<about, snapshots, baselines, seen>>
    BY <1>2 DEF DigestNext, DigestStep, StartDigest, Prune, DigestConfirmed, DigestRefused,
       DigestUnconfirmed, MarkBatch, DigestDone, DigestStoreError, DigestCrash, storeVars
  <2>2. \A k \in Keys :
          /\ status[k] = "ABSENT" <=> status'[k] = "ABSENT"
          /\ status[k] \in TerminalStatuses => status'[k] \in TerminalStatuses
    <3>1. CASE Prune \/ MarkBatch
      <4>1. \E ks \in {stale, batch}, s \in {"SKIPPED", "SENT"} :
              SetStatus(ks, s) /\ ks \subseteq WithStatus("DIGEST")
        BY <3>1 DEF Prune, MarkBatch, IInv, DigestInv
      <4> QED BY <4>1 DEF SetStatus, WithStatus, TerminalStatuses
    <3>2. CASE status' = status BY <3>2
    <3> QED
      BY <1>2, <3>1, <3>2 DEF DigestNext, DigestStep, StartDigest, DigestConfirmed,
         DigestRefused, DigestUnconfirmed, DigestDone, DigestStoreError, DigestCrash, storeVars
  <2> QED BY <1>0, <1>2, <2>1, <2>2, FrameKeepsSource
<1>3. CASE EnvNext /\ UNCHANGED <<storeVars, fetchVars, digestVars>>
  BY <1>0, <1>3, FrameKeepsSource DEF storeVars
<1>4. CASE UNCHANGED vars
  BY <1>0, <1>4, FrameKeepsSource DEF vars, storeVars
<1> QED BY <1>1, <1>2, <1>3, <1>4 DEF Next
=============================================================================
