------------------------------- MODULE Events -------------------------------
(***************************************************************************)
(* What the radar talks about (models/event.py, services/normalize.py):   *)
(* events, the keys they are stored under and the identity two reports of  *)
(* the same news share.  Titles, names and keys are model values; calendar *)
(* days are 1..MaxDay; an unknown or incomplete date is NoDate.            *)
(***************************************************************************)
EXTENDS Naturals

CONSTANTS
  VNs,          \* visual novels VNDB knows, the snapshot source's entity keys
  Entities,     \* what an event is about: a VN, or the title of an unmapped game
  Titles,       \* normalized news titles
  Tags,         \* tags an event may carry
  Developers,   \* names of developers
  Producers,    \* the ids VNDB gives developers
  FeedItems,    \* (source, source_event_id) pairs of the feed sources
  MaxDay,       \* the bound on the calendar
  None          \* the Python None

ASSUME EventsAssumption ==
  /\ VNs \subseteq Entities
  /\ VNs \cap FeedItems = {}
  /\ MaxDay \in Nat \ {0}
  /\ None \notin VNs \cup FeedItems \cup Producers

Days   == 1..MaxDay
NoDate == 0

EventTypes ==
  {"NEW_TITLE", "RELEASE_DATE", "RELEASED", "DELAY", "DEMO", "PATCH",
   "LOCALIZATION", "STEAM_PAGE", "DEVLOG", "TRAILER", "OTHER"}

Statuses == {"PENDING", "DIGEST", "SKIPPED", "SENT", "FAILED"}

\* The fields of SourceEvent the program's decisions read: `date` is
\* metadata["release_date"], `title` is metadata["news_title"] or the title,
\* `names` and `ids` are developer_names and developer_ids.
SourceEvents ==
  [source : {"vndb", "feed"}, entity : Entities, type : EventTypes,
   date : Days \cup {NoDate}, title : Titles \cup {None}, tags : SUBSET Tags,
   names : SUBSET Developers, ids : SUBSET Producers]

---------------------------------------------------------------------------
\* The source_event_ids change_detection.py gives the transitions of a VN.
\* A VN that VNDB reports as released has a complete date, so the
\* "unknown" token of RELEASED never occurs.
NewTitleKey(v)          == <<v, "NEW_TITLE">>
ReleasedKey(v, d)       == <<v, "RELEASED", d>>
ReleaseDateKey(v, d)    == <<v, "RELEASE_DATE", d>>
DelayKey(v, d1, d2)     == <<v, "DELAY", d1, d2>>

TransitionKeys ==
       {NewTitleKey(v) : v \in VNs}
  \cup {ReleasedKey(v, d) : v \in VNs, d \in Days}
  \cup {ReleaseDateKey(v, d) : v \in VNs, d \in Days}
  \cup {DelayKey(v, d1, d2) : v \in VNs, d1 \in Days, d2 \in Days}

\* The values of the pair (source, source_event_id), unique in the events table.
Keys == FeedItems \cup TransitionKeys

ASSUME NoneAssumption == None \notin EventTypes

ASSUME KeysAssumption ==
  /\ FeedItems \cap TransitionKeys = {}
  /\ None \notin TransitionKeys

---------------------------------------------------------------------------
SingletonEventTypes == {"NEW_TITLE", "RELEASED", "STEAM_PAGE"}
DateEventTypes      == {"RELEASE_DATE", "DELAY"}

\* normalized_identity: what makes two reports, of whatever source, one event.
Identity(e) ==
  <<e.entity, e.type,
    IF e.type \in DateEventTypes THEN e.date
    ELSE IF e.type \in SingletonEventTypes THEN None
    ELSE e.title>>

Identities == Entities \X EventTypes \X (Days \cup {NoDate, None} \cup Titles)
=============================================================================
