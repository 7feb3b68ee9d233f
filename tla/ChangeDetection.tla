--------------------------- MODULE ChangeDetection ---------------------------
(***************************************************************************)
(* services/change_detection.py: how a snapshot source (VNDB) is turned    *)
(* into events.  VNDB reports the present state of a VN; an event is the   *)
(* difference with the snapshot the store kept.                            *)
(***************************************************************************)
EXTENDS Events, Sequences

CONSTANTS
  TagsOf,         \* the tags VNDB lists for each VN
  DevelopersOf,   \* the ids of its developers, in the order VNDB lists them
  NameOf          \* the name of each developer

ASSUME VnAssumption ==
  /\ TagsOf \in [VNs -> SUBSET Tags]
  /\ DevelopersOf \in [VNs -> Seq(Producers)]
  /\ NameOf \in [Producers -> Developers]

DeveloperIds(v)   == {DevelopersOf[v][n] : n \in DOMAIN DevelopersOf[v]}
DeveloperNames(v) == {NameOf[p] : p \in DeveloperIds(v)}

\* SourceSnapshotState: the fields detect_change compares.
Snapshots == [date : Days \cup {NoDate}, released : BOOLEAN]

\* The state of a VN whose VNDB date is d, observed on day t: the adapter
\* reports RELEASED when the date is complete and not in the future.
Sighting(d, t) == [date |-> d, released |-> d # NoDate /\ d <= t]

\* ChangeType with the release check moved after the date checks.
ChangeType_DateFirst(prev, now) ==
  IF prev = None THEN "NEW_TITLE"
  ELSE IF prev.date = NoDate /\ now.date # NoDate THEN "RELEASE_DATE"
  ELSE IF prev.date # NoDate /\ now.date # NoDate /\ now.date # prev.date THEN "DELAY"
  ELSE IF ~prev.released /\ now.released THEN "RELEASED"
  ELSE None

\* detect_change, after the baseline: the type of the one event the
\* difference between two observations makes, None when they agree or when
\* a date was withdrawn.
ChangeType(prev, now) ==
  IF prev = None THEN "NEW_TITLE"
  ELSE IF ~prev.released /\ now.released THEN "RELEASED"
  ELSE IF prev.date = NoDate /\ now.date # NoDate THEN "RELEASE_DATE"
  ELSE IF prev.date # NoDate /\ now.date # NoDate /\ now.date # prev.date THEN "DELAY"
  ELSE None

\* The source_event_id of that event.
ChangeKey(v, prev, now) ==
  LET t == ChangeType(prev, now)
  IN IF t = "NEW_TITLE" THEN NewTitleKey(v)
     ELSE IF t = "RELEASED" THEN ReleasedKey(v, now.date)
     ELSE IF t = "RELEASE_DATE" THEN ReleaseDateKey(v, now.date)
     ELSE DelayKey(v, prev.date, now.date)

\* _transition_event: the observation, retyped.
ChangeEvent(v, prev, now) ==
  [source |-> "vndb", entity |-> v, type |-> ChangeType(prev, now),
   date |-> now.date, title |-> None, tags |-> TagsOf[v],
   names |-> DeveloperNames(v), ids |-> DeveloperIds(v)]
=============================================================================
