------------------------------- MODULE Scoring -------------------------------
(***************************************************************************)
(* services/ranking.py and services/notification_policy.py: how relevant   *)
(* an event is to the owner of the configuration, and what is done with it.*)
(***************************************************************************)
EXTENDS Events, FiniteSets

ASSUME ScoringAssumption == IsFiniteSet(Tags)

\* The part of config.yaml the decisions read.
ConfigType ==
  [visual_novels : SUBSET Entities, developers : SUBSET Developers,
   tags : SUBSET Tags, immediate_threshold : Nat, digest_threshold : Nat,
   enabled_event_types : SUBSET EventTypes,
   max_snapshot_release_age_days : Nat]

\* NotificationConfig.validate_thresholds
ValidConfig(c) == c \in ConfigType /\ c.digest_threshold <= c.immediate_threshold

\* ScoringConfig's defaults.
FollowedVn        == 100
DiscoveredVn      == 40
FollowedDeveloper == 60
PreferredTag      == 10

TypeWeight(t) ==
  IF t = "NEW_TITLE" THEN 40
  ELSE IF t \in {"RELEASE_DATE", "RELEASED"} THEN 30
  ELSE IF t = "DEMO" THEN 25
  ELSE IF t \in {"DELAY", "LOCALIZATION"} THEN 20
  ELSE IF t \in {"PATCH", "TRAILER", "DEVLOG"} THEN 10
  ELSE 0

\* What the VNDB adapter puts into config.follow in one run: the VNs
\* auto-discovery found, the ids it resolved the followed developers to, and
\* the VNs whose links it merged into the configured feeds.
FollowType ==
  [discovered : SUBSET VNs, resolved : SUBSET Producers, linked : SUBSET VNs]

NoFollow == [discovered |-> {}, resolved |-> {}, linked |-> {}]

\* _matched_followed_developer: by id where the run resolved ids and the event
\* has some, and then not by name.
MatchesDeveloper(e, c, follow) ==
  IF follow.resolved # {} /\ e.ids # {} THEN e.ids \cap follow.resolved # {}
                                      ELSE e.names \cap c.developers # {}

\* score_event: a VN is followed or else discovered by VNDB, never both.
Score(e, c, follow) ==
    (IF e.entity \in c.visual_novels THEN FollowedVn
     ELSE IF e.entity \in follow.discovered /\ e.type # "OTHER" THEN DiscoveredVn
     ELSE 0)
  + (IF MatchesDeveloper(e, c, follow) THEN FollowedDeveloper ELSE 0)
  + PreferredTag * Cardinality(e.tags \cap c.tags)
  + TypeWeight(e.type)

\* is_stale_snapshot_release: VNDB reports as released a VN that has been
\* out for longer than the configured number of days.
IsStaleRelease(e, c, today) ==
  /\ e.source = "vndb"
  /\ e.type = "RELEASED"
  /\ e.date # NoDate
  /\ today > e.date + c.max_snapshot_release_age_days

\* choose_notification_status
ChooseStatus(e, s, c, today) ==
  IF IsStaleRelease(e, c, today) THEN "SKIPPED"
  ELSE IF e.type \notin c.enabled_event_types THEN "SKIPPED"
  ELSE IF s >= c.immediate_threshold THEN "PENDING"
  ELSE IF s >= c.digest_threshold THEN "DIGEST"
  ELSE "SKIPPED"
=============================================================================
