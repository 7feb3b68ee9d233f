--------------------------- MODULE OverlapTheorems ---------------------------
(***************************************************************************)
(* Two fetch processes over one store: no item is marked seen before its   *)
(* news is settled or told, and nothing is SENT that was not delivered.    *)
(* Each process keeps what the other relies on (FetchProofs), and the      *)
(* instance of that module for the second one gives the same of it.        *)
(***************************************************************************)
EXTENDS Overlap, FetchProofs

\* The second process has the constants of the first.
LEMMA OtherAssumptions ==
  /\ Other!EventsAssumption /\ Other!NoneAssumption /\ Other!KeysAssumption
  /\ Other!VnAssumption /\ Other!ScoringAssumption
  /\ Other!EnvironmentAssumption /\ Other!PipelineAssumption
  /\ Other!FeedsAssumption /\ Other!LinksAssumption
<1>1. Other!TransitionKeys = TransitionKeys
  BY DEF Other!TransitionKeys, Other!NewTitleKey, Other!ReleasedKey, Other!ReleaseDateKey,
         Other!DelayKey, Other!Days, TransitionKeys, NewTitleKey, ReleasedKey,
         ReleaseDateKey, DelayKey, Days
<1>2. Other!EventsAssumption /\ Other!NoneAssumption /\ Other!KeysAssumption
  BY <1>1, EventsAssumption, NoneAssumption, KeysAssumption
     DEF Other!EventsAssumption, Other!NoneAssumption, Other!KeysAssumption,
         Other!EventTypes, EventTypes
<1>3. Other!VnAssumption /\ Other!ScoringAssumption
  BY VnAssumption, ScoringAssumption DEF Other!VnAssumption, Other!ScoringAssumption, Other!IsFiniteSet, IsFiniteSet
<1>4. Other!SourceEvents = SourceEvents
  BY DEF Other!SourceEvents, Other!EventTypes, Other!Days, Other!NoDate,
         SourceEvents, EventTypes, Days, NoDate
<1>5. \A c : Other!ValidConfig(c) <=> ValidConfig(c)
  BY DEF Other!ValidConfig, Other!ConfigType, Other!EventTypes,
         ValidConfig, ConfigType, EventTypes
<1>6. Other!EnvironmentAssumption
  BY <1>4, <1>5, EnvironmentAssumption DEF Other!EnvironmentAssumption
<1>7. Other!PipelineAssumption
  BY PipelineAssumption
     DEF Other!PipelineAssumption, Other!FeedAdapterSet, Other!Vndb, FeedAdapterSet, Vndb
<1>8. Other!FeedsAssumption
  BY FeedsAssumption DEF Other!FeedsAssumption, Other!FeedAdapterSet, FeedAdapterSet
<1>9. Other!LinksAssumption
  BY LinksAssumption DEF Other!LinksAssumption
<1> QED BY <1>2, <1>3, <1>6, <1>7, <1>8, <1>9

\* The rows are the same whichever of the two speaks of them.
SameRows ==
  /\ Other!Stored = Stored
  /\ \A k, i : Other!About(k, i) <=> About(k, i)
  /\ \A k : /\ Other!Important(k) <=> Important(k)
            /\ Other!Disputed(k) <=> Disputed(k)
            /\ Other!Accounted(k) <=> Accounted(k)

\* A mapping makes the same of an event.
LEMMA SameReports == \A i : Other!Reports(i) = Reports(i)
<1>1. \A v : Other!DeveloperIds(v) = DeveloperIds(v)
  BY DEF Other!DeveloperIds, DeveloperIds
<1>2. \A e, vs : Other!Mapped(e, vs) = Mapped(e, vs)
  BY <1>1 DEF Other!Mapped, Mapped
<1>3. \A e, f, vs : Other!Report(e, f, vs) = Report(e, f, vs)
  BY <1>2 DEF Other!Report, Report
<1> QED BY <1>3 DEF Other!Reports, Reports

\* So the two say the same of a row.
LEMMA RowsAgree == SameRows
<1>1. Other!Stored = Stored
  <2>1. Other!TransitionKeys = TransitionKeys
    BY DEF Other!TransitionKeys, Other!NewTitleKey, Other!ReleasedKey, Other!ReleaseDateKey,
           Other!DelayKey, Other!Days, TransitionKeys, NewTitleKey, ReleasedKey,
           ReleaseDateKey, DelayKey, Days
  <2> QED BY <2>1 DEF Other!Stored, Other!Keys, Stored, Keys
<1>2. \A e : Other!Identity(e) = Identity(e)
  BY DEF Other!Identity, Other!DateEventTypes, Other!SingletonEventTypes,
         Identity, DateEventTypes, SingletonEventTypes
<1>3. \A k, i : Other!About(k, i) <=> About(k, i)
  BY <1>2, SameReports DEF Other!About, About
<1>4. \A e, s, c, t : Other!ChooseStatus(e, s, c, t) = ChooseStatus(e, s, c, t)
  BY DEF Other!ChooseStatus, Other!IsStaleRelease, Other!NoDate,
         ChooseStatus, IsStaleRelease, NoDate
<1>5. \A k : Other!Important(k) <=> Important(k)
  BY DEF Other!Important, Important
<1>6. \A k : Other!Disputed(k) <=> Disputed(k)
  BY <1>4, <1>5 DEF Other!Disputed, Disputed, Other!Days, Days
<1>7. \A k : Other!Accounted(k) <=> Accounted(k)
  BY <1>6 DEF Other!Accounted, Accounted, Other!TerminalStatuses, TerminalStatuses
<1> QED BY <1>1, <1>3, <1>5, <1>6, <1>7 DEF SameRows

\* So is what they share,
LEMMA SameShared == Other!SharedInv <=> SharedInv
<1>1. Other!SourceEvents = SourceEvents
  BY DEF Other!SourceEvents, Other!EventTypes, Other!Days, Other!NoDate,
         SourceEvents, EventTypes, Days, NoDate
<1>2. Other!Keys = Keys
  BY DEF Other!Keys, Other!TransitionKeys, Other!NewTitleKey, Other!ReleasedKey,
         Other!ReleaseDateKey, Other!DelayKey, Other!Days, Keys, TransitionKeys,
         NewTitleKey, ReleasedKey, ReleaseDateKey, DelayKey, Days
<1>3. Other!EnvTypeOK <=> EnvTypeOK
  BY <1>1, <1>2 DEF Other!EnvTypeOK, EnvTypeOK, Other!Days, Days, Other!NoDate, NoDate
<1>4. Other!StoreTypeOK <=> StoreTypeOK
  BY <1>1, <1>2
     DEF Other!StoreTypeOK, StoreTypeOK, Other!Statuses, Statuses,
         Other!Snapshots, Snapshots, Other!Days, Days, Other!NoDate, NoDate
<1>5. Other!SeenIsTold <=> SeenIsTold
  BY RowsAgree DEF SameRows, Other!SeenIsTold, SeenIsTold
<1> QED BY <1>1, <1>2, <1>3, <1>4, <1>5, RowsAgree, SameReports DEF SameRows, Other!SharedInv, SharedInv

\* and what a step may do to it.
LEMMA SameGuarantee == Other!Guarantee <=> Guarantee
<1>1. SameRows /\ SameRows' BY RowsAgree, PTL
<1> QED BY <1>1 DEF SameRows, Other!Guarantee, Guarantee

\* The invariant of the two holds before they start.
LEMMA InitOverlap == OverlapInit => OverlapInv
<1> SUFFICES ASSUME OverlapInit PROVE OverlapInv OBVIOUS
<1>1. LocalInv BY InitRely DEF OverlapInit
<1>2. Other!LocalInv BY OtherAssumptions, Other!InitRely DEF OverlapInit
<1>3. EnvTypeOK
  BY EventsAssumption, EnvironmentAssumption DEF OverlapInit, EnvInit, EnvTypeOK, Days, NoDate
<1>4. StoreTypeOK BY PipelineAssumption DEF OverlapInit, StoreTypeOK
<1>5. Stored = {} /\ seen = {} BY DEF OverlapInit, Stored
<1>6. SharedInv
  BY <1>3, <1>4, <1>5 DEF SharedInv, SeenIsTold, OverlapInit, EnvInit
<1> QED BY <1>1, <1>2, <1>6 DEF OverlapInv

\* Every step of one process keeps what the other one relies on.
LEMMA StepOverlap == OverlapInv /\ [OverlapNext]_overlapVars => OverlapInv'
<1> SUFFICES ASSUME OverlapInv, [OverlapNext]_overlapVars PROVE OverlapInv' OBVIOUS
<1> USE DEF OverlapInv
<1>1. Other!SharedInv BY SameShared
<1>2. SharedInv' <=> Other!SharedInv' BY SameShared, PTL
<1>3. baselined \subseteq FeedItems BY DEF LocalInv, FetchTypeOK
<1>4. ASSUME SharedInv', Guarantee, UNCHANGED localVars PROVE LocalInv'
  BY <1>4, LocalKept DEF localVars, SharedInv
<1>5. ASSUME SharedInv', Guarantee, UNCHANGED localVars2 PROVE Other!LocalInv'
  <2>1. Other!Guarantee /\ Other!SharedInv' BY <1>2, <1>5, SameGuarantee
  <2> QED
    BY <1>1, <1>5, <2>1, OtherAssumptions, Other!LocalKept
       DEF localVars2, Other!SharedInv, Other!runVars, Other!workVars, Other!itemVars
<1>6. CASE FetchNext /\ UNCHANGED <<digestVars, localVars2>>
  <2>1. SharedInv' /\ LocalInv' /\ Guarantee BY <1>6, FetchRely
  <2> QED BY <1>5, <1>6, <2>1
<1>7. CASE Other!FetchNext /\ UNCHANGED <<digestVars, localVars>>
  <2>1. Other!SharedInv' /\ Other!LocalInv' /\ Other!Guarantee
    BY <1>1, <1>7, OtherAssumptions, Other!FetchRely
  <2>2. SharedInv' /\ Guarantee BY <1>2, <2>1, SameGuarantee
  <2> QED BY <1>4, <1>7, <2>1, <2>2
<1>8. CASE EnvNext /\ UNCHANGED <<storeVars, fetchVars, digestVars, localVars2>>
  <2>1. SharedInv' /\ Guarantee BY <1>3, <1>8, EnvRely DEF fetchVars
  <2>2. UNCHANGED <<localVars, localVars2>>
    BY <1>8 DEF fetchVars, localVars, runVars, workVars, itemVars
  <2> QED BY <1>4, <1>5, <2>1, <2>2
<1>9. CASE UNCHANGED overlapVars
  <2>1. UNCHANGED <<envVars, storeVars, baselined, localVars, localVars2>>
    BY <1>9 DEF overlapVars, vars, fetchVars, localVars, runVars, workVars, itemVars
  <2>2. SharedInv' /\ Guarantee BY <1>3, <2>1, EnvRely
  <2> QED BY <1>4, <1>5, <2>1, <2>2
<1> QED BY <1>6, <1>7, <1>8, <1>9 DEF OverlapNext

\* However two fetches over one store interleave, stop, fail or load different
\* configurations, each may rely on what OverlapInv says.
THEOREM OverlapInvariance == OverlapSpec => []OverlapInv
BY InitOverlap, StepOverlap, PTL DEF OverlapSpec

\* No feed item is marked seen by one of two overlapping fetches before its
\* news is settled or in the chat, unless the two judge its row differently.
THEOREM OverlapLosesNoItem == OverlapSpec => []SeenIsTold
<1>1. OverlapInv => SeenIsTold BY DEF OverlapInv, SharedInv
<1> QED BY <1>1, OverlapInvariance, PTL

\* Whichever of two overlapping fetches recorded an event as SENT, a message
\* about it is in the chat.
THEOREM OverlapSendsForReal == OverlapSpec => []SentWasDelivered
<1>1. OverlapInv => SentWasDelivered BY DEF OverlapInv, SharedInv, SentWasDelivered
<1> QED BY <1>1, OverlapInvariance, PTL
=============================================================================
