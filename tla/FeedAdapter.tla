----------------------------- MODULE FeedAdapter -----------------------------
(***************************************************************************)
(* adapters/steam.py, rss.py and itch.py: one run of a feed adapter over   *)
(* the feeds it follows, and services/backfill.py on what it returns.  A   *)
(* feed may fail when it is requested or parsed, or at any of its items;   *)
(* the adapter goes on with the next feed.  RSS and itch.io build the list *)
(* of a feed's items before they return it; Steam extends its answer item  *)
(* by item.  Time is counted in hours, HoursPerDay of them to a day.       *)
(***************************************************************************)
EXTENDS Integers

CONSTANTS
  Feeds, Items, FeedOf,   \* the feeds, their items, and which is whose
  Adapters,               \* the adapters that may run
  HoursPerDay, MaxHour,   \* the scale of a day, and the present hour
  Offsets,                \* the UTC offsets, in hours, the machine may have
  Undated,                \* an entry without a date
  NoFeed

ASSUME AdapterAssumption ==
  /\ FeedOf \in [Items -> Feeds]
  /\ Adapters \subseteq {"steam", "itch", "rss"}
  /\ HoursPerDay \in Nat \ {0} /\ MaxHour \in Nat
  /\ \A o \in Offsets : o \in Int /\ -HoursPerDay < o /\ o < HoursPerDay
  /\ Undated \notin Int /\ NoFeed \notin Feeds

VARIABLES
  adapter,    \* the adapter that runs
  published,  \* when each item was published, in UTC
  offset,     \* the UTC offset of the machine
  since,      \* the day of --backfill-since
  apc,        \* what the adapter does next
  left,       \* the feeds still to be requested
  feed,       \* the feed being converted
  entries,    \* its items still to be converted
  list,       \* its items converted so far
  result,     \* the items returned
  broken      \* history: the feeds that failed

inputVars   == <<adapter, published, offset, since>>
adapterVars == <<adapter, published, offset, since, apc, left, feed, entries, list,
                 result, broken>>

\* Only Steam extends its answer item by item.
Piecemeal == adapter = "steam"

Hours     == 0..MaxHour
DayOf(h)  == h \div HoursPerDay
ItemsOf(f) == {i \in Items : FeedOf[i] = f}

AdapterTypeOK ==
  /\ adapter \in Adapters
  /\ published \in [Items -> Hours \cup {Undated}]
  /\ offset \in Offsets
  /\ since \in 0..DayOf(MaxHour)
  /\ apc \in {"request", "convert", "done"}
  /\ left \subseteq Feeds /\ broken \subseteq Feeds
  /\ feed \in Feeds \cup {NoFeed}
  /\ entries \subseteq Items /\ list \subseteq Items /\ result \subseteq Items

\* Steam dates every item.
AdapterInit ==
  /\ adapter \in Adapters
  /\ published \in [Items -> Hours \cup (IF Piecemeal THEN {} ELSE {Undated})]
  /\ offset \in Offsets
  /\ since \in 0..DayOf(MaxHour)
  /\ apc = "request" /\ left = Feeds /\ feed = NoFeed
  /\ entries = {} /\ list = {} /\ result = {} /\ broken = {}

---------------------------------------------------------------------------
\* The request, the response and its parsing are in order.
RequestFeed(f) ==
  /\ apc = "request" /\ f \in left
  /\ left' = left \ {f}
  /\ apc' = "convert" /\ feed' = f /\ entries' = ItemsOf(f) /\ list' = {}
  /\ UNCHANGED <<inputVars, result, broken>>

\* A time-out, an error status, a rejected download, a malformed document.
RequestFeedFails(f) ==
  /\ apc = "request" /\ f \in left
  /\ left' = left \ {f} /\ broken' = broken \cup {f}
  /\ UNCHANGED <<inputVars, apc, feed, entries, list, result>>

\* _to_source_event, as a member of a list or of the answer itself.
Convert(i) ==
  /\ apc = "convert" /\ i \in entries
  /\ entries' = entries \ {i}
  /\ IF Piecemeal THEN result' = result \cup {i} /\ list' = list
                  ELSE list' = list \cup {i} /\ result' = result
  /\ UNCHANGED <<inputVars, apc, left, feed, broken>>

\* A handler around the loop instead of inside it.
ConvertFails_EndsLoop(i) ==
  /\ apc = "convert" /\ i \in entries
  /\ broken' = broken \cup {feed}
  /\ apc' = "done" /\ left' = {} /\ feed' = NoFeed /\ entries' = {} /\ list' = {}
  /\ UNCHANGED <<inputVars, result>>

\* _to_source_event raises: the list is lost, what Steam added is not.
ConvertFails(i) ==
  /\ apc = "convert" /\ i \in entries
  /\ broken' = broken \cup {feed}
  /\ apc' = "request" /\ feed' = NoFeed /\ entries' = {} /\ list' = {}
  /\ UNCHANGED <<inputVars, left, result>>

FeedConverted ==
  /\ apc = "convert" /\ entries = {}
  /\ result' = result \cup list
  /\ apc' = "request" /\ feed' = NoFeed /\ list' = {}
  /\ UNCHANGED <<inputVars, left, entries, broken>>

AllRequested ==
  /\ apc = "request" /\ left = {}
  /\ apc' = "done"
  /\ UNCHANGED <<inputVars, left, feed, entries, list, result, broken>>

AdapterNext ==
  \/ \E f \in Feeds : RequestFeed(f) \/ RequestFeedFails(f)
  \/ \E i \in Items : Convert(i) \/ ConvertFails(i)
  \/ FeedConverted \/ AllRequested

AdapterSpec == AdapterInit /\ [][AdapterNext]_adapterVars

---------------------------------------------------------------------------
\* published_at.  Steam's timestamps are exact.  RSS and itch.io pass a UTC
\* time to mktime, which takes it for local time; an entry without a date
\* is dated now.
PublishedAt(i) ==
  IF published[i] = Undated THEN MaxHour
  ELSE IF Piecemeal THEN published[i]
  ELSE published[i] - offset

\* Only the days after the given one.
IsBackfillCandidate_After(i) == DayOf(PublishedAt(i)) > since

IsBackfillCandidate(i) == DayOf(PublishedAt(i)) >= since

---------------------------------------------------------------------------
\* What Pipeline.FetchFeeds assumes of an adapter: the whole of some feeds,
\* among them every one that did not fail, and nothing of the others unless
\* the adapter works piecemeal.  One bad feed, or one bad item, costs no
\* other feed anything.
AnswerIsByFeed ==
  apc = "done" =>
    \E ok \in SUBSET Feeds :
      /\ Feeds \ broken \subseteq ok
      /\ \A i \in Items : FeedOf[i] \in ok => i \in result
      /\ \A i \in result : FeedOf[i] \in ok \/ Piecemeal

\* A backfill never misses a dated item by more than a day, nor takes one
\* that is more than a day too old, wherever the machine stands.
BackfillWithinADay ==
  apc = "done" =>
    \A i \in result :
      published[i] # Undated =>
        /\ DayOf(published[i]) > since => IsBackfillCandidate(i)
        /\ IsBackfillCandidate(i) => DayOf(published[i]) >= since - 1
=============================================================================
