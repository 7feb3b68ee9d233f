----------------------------- MODULE VndbAdapter -----------------------------
(***************************************************************************)
(* adapters/vndb.py and the part of config.FollowConfig it fills: one call *)
(* of fetch_events.  The followed titles, the followed developers and the  *)
(* discovery are queried one after another, a rate-limited request is      *)
(* repeated, and the external links of the VNs found become feeds to       *)
(* follow.  Pipeline.FetchVndb and FetchFails see the outcome only.        *)
(***************************************************************************)
EXTENDS Integers, SequencesExt

CONSTANTS
  VNs, Producers,
  Titles,            \* follow.visual_novels
  Developers,        \* follow.developers
  Discovery,         \* discovery.enabled
  DiscoverSteam,     \* discovery.steam_from_vndb_extlinks
  Matches,           \* the VNs a title may stand for, as id or search term
  DevelopersOf,      \* the producers VNDB names for each VN
  Sources, Steam,    \* the feeds a link may name, those of Steam among them
  Links,             \* the links of each VN that discovery follows up
  ReleaseLinks,      \* the Steam links of its releases
  Malformed,         \* links the configuration refuses: no HTTP URL, Steam's app 0
  Misdated,          \* the VNs with a complete date that no calendar has
  Configured,        \* follow.steam_apps, itch_apps and feeds, by feed
  MaxRetries,        \* repetitions of a rate-limited request
  MaxPages,          \* bound: /release pages the server ever announces
  None

Mappings == [vn : VNs \cup {None}, devs : SUBSET Producers]

ASSUME VndbAssumption ==
  /\ Discovery \in BOOLEAN /\ DiscoverSteam \in BOOLEAN
  /\ Steam \subseteq Sources /\ Malformed \subseteq Sources /\ Misdated \subseteq VNs
  /\ Matches \in [ToSet(Titles) -> SUBSET VNs]
  /\ DevelopersOf \in [VNs -> SUBSET Producers]
  /\ Links \in [VNs -> SUBSET Sources]
  /\ ReleaseLinks \in [VNs -> SUBSET Steam]
  /\ DOMAIN Configured \subseteq Sources
  /\ \A s \in DOMAIN Configured : Configured[s] \in Mappings
  /\ MaxRetries \in Nat /\ MaxPages \in Nat \ {0}
  /\ None \notin VNs \cup Producers

VARIABLES
  stage,       \* the request under way, or what the adapter does next
  attempt,     \* how often it has been repeated
  titles,      \* follow.visual_novels still to be queried
  developers,  \* follow.developers still to be queried
  producer,    \* the producer whose VNs are queried
  producers,   \* the producers resolved so far
  found,       \* the VNs found, first come first
  merged,      \* how many of them had their links followed up
  apps,        \* the Steam links of their releases
  page,        \* of /release
  followed,    \* the mappings of follow, those of the configuration first
  resolved,    \* follow.resolved_developer_ids
  discovered,  \* follow.discovered_vn_ids
  told         \* history: every VN an answer held

followVars == <<followed, resolved, discovered>>
queryVars  == <<titles, developers, producer, producers>>
pageVars   == <<apps, page>>
vndbVars == <<stage, attempt, titles, developers, producer, producers, found, merged,
          apps, page, followed, resolved, discovered, told>>

Requests == {"title", "producer", "developer", "discovery", "releases"}
Stages   == Requests \cup {"resolve", "merge", "done", "failed"}
NoApps   == [v \in VNs |-> {}]

\* The answers to a query of VNs: what matches, in some order.
Results == UNION {{s \in [1..n -> VNs] : IsInjective(s)} : n \in 0..Cardinality(VNs)}

VndbTypeOK ==
  /\ stage \in Stages /\ attempt \in 0..MaxRetries
  /\ titles \in Seq(ToSet(Titles)) /\ developers \in Seq(ToSet(Developers))
  /\ producer \in Producers \cup {None} /\ producers \subseteq Producers
  /\ found \in Seq(VNs) /\ merged \in 0..Len(found)
  /\ apps \in [VNs -> SUBSET Steam] /\ page \in 1..MaxPages
  /\ DOMAIN followed \subseteq Sources
  /\ \A s \in DOMAIN followed : followed[s] \in Mappings
  /\ resolved \subseteq Producers /\ discovered \subseteq VNs /\ told \subseteq VNs

\* The next query, of those left.
Query(ts, ds) ==
  IF ts # <<>> THEN "title" ELSE IF ds # <<>> THEN "producer"
  ELSE IF Discovery THEN "discovery" ELSE "resolve"

VndbInit ==
  /\ stage = Query(Titles, Developers) /\ attempt = 0
  /\ titles = Titles /\ developers = Developers
  /\ producer = None /\ producers = {}
  /\ found = <<>> /\ merged = 0 /\ apps = NoApps /\ page = 1
  /\ followed = Configured /\ resolved = {} /\ discovered = {} /\ told = {}

---------------------------------------------------------------------------
(* _post_json *)

\* A counter that starts again after the last attempt.
RateLimited_Restarted ==
  /\ stage \in Requests
  /\ attempt' = (attempt + 1) % (MaxRetries + 1)
  /\ UNCHANGED <<stage, queryVars, found, merged, pageVars, followVars, told>>

\* HTTP 429: the request is repeated after the wait the server asks for.
RateLimited ==
  /\ stage \in Requests /\ attempt < MaxRetries
  /\ attempt' = attempt + 1
  /\ UNCHANGED <<stage, queryVars, found, merged, pageVars, followVars, told>>

\* An error that escapes from the search of the releases too.
RequestFails_Releases ==
  /\ stage \in Requests
  /\ attempt' = 0 /\ stage' = "failed" /\ apps' = NoApps
  /\ UNCHANGED <<queryVars, found, merged, page, followVars, told>>

\* A time-out, an error status, too many 429s, a malformed answer: the whole
\* fetch fails, except that without the releases it goes on.
RequestFails ==
  /\ stage \in Requests
  /\ attempt' = 0
  /\ stage' = IF stage = "releases" THEN "merge" ELSE "failed"
  /\ apps' = NoApps
  /\ UNCHANGED <<queryVars, found, merged, page, followVars, told>>

---------------------------------------------------------------------------
(* _fetch_with_client *)

\* What is in both answers comes in the same order.
SameOrder(rs, ss) ==
  \A i, j \in DOMAIN rs, k, l \in DOMAIN ss :
    rs[i] = ss[k] /\ rs[j] = ss[l] => (i < j <=> k < l)

\* _collect_vns: the VNs not found before, in the order of the answer.
Collect(rs) ==
  /\ \E new \in Results :
       /\ ToSet(new) = ToSet(rs) \ ToSet(found) /\ SameOrder(new, rs)
       /\ found' = found \o new
  /\ told' = told \cup ToSet(rs)
  /\ attempt' = 0

TitleAnswered(rs) ==
  /\ stage = "title"
  /\ ToSet(rs) \subseteq Matches[Head(titles)]
  /\ Collect(rs)
  /\ titles' = Tail(titles)
  /\ stage' = Query(titles', developers)
  /\ UNCHANGED <<developers, producer, producers, merged, pageVars, followVars>>

\* The producers noted one by one.
ProducerAnswered_AtOnce(p) ==
  /\ stage = "producer" /\ p # None
  /\ attempt' = 0 /\ producer' = p /\ stage' = "developer"
  /\ producers' = producers \cup {p} /\ resolved' = producers'
  /\ UNCHANGED <<titles, developers, found, merged, pageVars, followed, discovered, told>>

\* _resolve_producer: a name VNDB does not know is passed over.
ProducerAnswered(p) ==
  /\ stage = "producer"
  /\ attempt' = 0
  /\ producer' = p
  /\ IF p = None
       THEN developers' = Tail(developers) /\ stage' = Query(titles, developers')
            /\ producers' = producers
       ELSE developers' = developers /\ stage' = "developer"
            /\ producers' = producers \cup {p}
  /\ UNCHANGED <<titles, found, merged, pageVars, followVars, told>>

\* The VNs of that producer.
DeveloperAnswered(rs) ==
  /\ stage = "developer"
  /\ \A v \in ToSet(rs) : producer \in DevelopersOf[v]
  /\ Collect(rs)
  /\ developers' = Tail(developers)
  /\ stage' = Query(titles, developers')
  /\ UNCHANGED <<titles, producer, producers, merged, pageVars, followVars>>

\* Only the VNs no other query had found count as discovered.
DiscoveryAnswered_Uncollected(rs) ==
  /\ stage = "discovery"
  /\ discovered' = ToSet(rs) /\ told' = told \cup ToSet(rs) /\ attempt' = 0
  /\ stage' = "resolve"
  /\ UNCHANGED <<queryVars, found, merged, pageVars, followed, resolved>>

DiscoveryAnswered(rs) ==
  /\ stage = "discovery"
  /\ Collect(rs)
  /\ discovered' = ToSet(rs)
  /\ stage' = "resolve"
  /\ UNCHANGED <<queryVars, merged, pageVars, followed, resolved>>

Resolve ==
  /\ stage = "resolve"
  /\ resolved' = producers
  /\ stage' = IF DiscoverSteam /\ \E v \in ToSet(found) : Links[v] \cap Steam = {}
                THEN "releases" ELSE "merge"
  /\ UNCHANGED <<attempt, queryVars, found, merged, pageVars, followed, discovered, told>>

\* _discover_release_steam_apps: a page of the releases of the VNs without a
\* Steam link; all of them with the last page.
ReleasesAnswered(vs, more) ==
  LET unlinked == {v \in ToSet(found) : Links[v] \cap Steam = {}} IN
  /\ stage = "releases" /\ vs \subseteq unlinked
  /\ IF more THEN page < MaxPages /\ page' = page + 1 /\ stage' = stage
             ELSE vs = unlinked /\ page' = page /\ stage' = "merge"
  /\ apps' = [v \in VNs |-> IF v \in vs THEN ReleaseLinks[v] ELSE apps[v]]
  /\ attempt' = 0
  /\ UNCHANGED <<queryVars, found, merged, followVars, told>>

---------------------------------------------------------------------------
(* _discover_external_sources *)

\* The mapping of a feed that was not followed before.
NewMapping(v, s) == [vn |-> v, devs |-> IF s \in Steam THEN DevelopersOf[v] ELSE {}]

\* add_discovered_* that lets the newer mapping win.
AddDiscovered_Replaces(v, ss) ==
  followed' = [s \in DOMAIN followed \cup ss |->
    IF s \in ss THEN NewMapping(v, s) ELSE followed[s]]

\* add_discovered_steam_app that passes over every app there is, as the other
\* two do.
AddDiscovered_Ignored(v, ss) ==
  followed' = [s \in DOMAIN followed \cup ss |->
    IF s \in DOMAIN followed THEN followed[s] ELSE NewMapping(v, s)]

\* add_discovered_steam_app, _itch_app and _feed: a feed that is followed
\* stays as it is, but a Steam app gains a VN if it had none, and the VN's
\* developers.
AddDiscovered(v, ss) ==
  followed' = [s \in DOMAIN followed \cup ss |->
    IF s \notin DOMAIN followed THEN NewMapping(v, s)
    ELSE IF s \notin ss \cap Steam THEN followed[s]
    ELSE [vn   |-> IF followed[s].vn = None THEN v ELSE followed[s].vn,
          devs |-> followed[s].devs \cup DevelopersOf[v]]]

LinksOf(v) == Links[v] \cup apps[v]

MergeVn ==
  LET v == found[merged + 1] IN
  /\ stage = "merge" /\ merged < Len(found)
  /\ LinksOf(v) \cap Malformed = {}
  /\ AddDiscovered(v, LinksOf(v))
  /\ merged' = merged + 1
  /\ UNCHANGED <<stage, attempt, queryVars, found, pageVars, resolved, discovered, told>>

\* A malformed link ends the fetch: Steam's app 0 comes before the other links
\* of the VN, another one after its Steam links and some others.
MergeFails ==
  LET v == found[merged + 1] IN
  /\ stage = "merge" /\ merged < Len(found)
  /\ LinksOf(v) \cap Malformed # {}
  /\ \E ss \in SUBSET (LinksOf(v) \ Malformed) :
       /\ IF LinksOf(v) \cap Steam \cap Malformed # {} THEN ss = {}
                                                      ELSE LinksOf(v) \cap Steam \subseteq ss
       /\ AddDiscovered(v, ss)
  /\ stage' = "failed"
  /\ UNCHANGED <<attempt, queryVars, found, merged, pageVars, resolved, discovered, told>>

\* The VNs found are returned as events.
Return ==
  /\ stage = "merge" /\ merged = Len(found)
  /\ ToSet(found) \cap Misdated = {}
  /\ stage' = "done"
  /\ UNCHANGED <<attempt, queryVars, found, merged, pageVars, followVars, told>>

\* Of a VN whose date is none no event can be made, and so of no VN.
ReturnFails ==
  /\ stage = "merge" /\ merged = Len(found)
  /\ ToSet(found) \cap Misdated # {}
  /\ stage' = "failed"
  /\ UNCHANGED <<attempt, queryVars, found, merged, pageVars, followVars, told>>

VndbNext ==
  \/ RateLimited \/ RequestFails
  \/ \E rs \in Results :
       TitleAnswered(rs) \/ DeveloperAnswered(rs) \/ DiscoveryAnswered(rs)
  \/ \E p \in Producers \cup {None} : ProducerAnswered(p)
  \/ \E vs \in SUBSET VNs, more \in BOOLEAN : ReleasesAnswered(vs, more)
  \/ Resolve \/ MergeVn \/ MergeFails \/ Return \/ ReturnFails

VndbSpec == VndbInit /\ [][VndbNext]_vndbVars

\* Every request is answered or fails in the end: it has a time-out.
VndbFairness == WF_vndbVars(VndbNext)

---------------------------------------------------------------------------
\* What Pipeline.FetchVndb assumes of an answer: every VN of every query is
\* in it, once, the discovered ones too.
AnswerIsWhole ==
  stage = "done" =>
    IsInjective(found) /\ ToSet(found) = told /\ discovered \subseteq told

\* The scorer compares developers by id as soon as one id is resolved, and by
\* name before: the ids become known together, or a failed fetch would leave
\* the developers it had not come to without either.
ResolvedTogether == resolved # {} => developers = <<>> /\ resolved = producers

\* README.md:63, "The manual `follow` mappings are overrides": discovery adds
\* developers, and a VN where none is given, to a configured Steam game and
\* changes nothing else of what the configuration says, even when the fetch
\* fails half way.
ManualIsKept ==
  \A s \in DOMAIN Configured :
    /\ s \in DOMAIN followed
    /\ Configured[s].vn # None => followed[s].vn = Configured[s].vn
    /\ Configured[s].devs \subseteq followed[s].devs
    /\ s \notin Steam => followed[s] = Configured[s]

\* Every link of the VNs found leads to a followed feed; it is the first VN's
\* that has the link, and a Steam feed knows the developers of all of them.
LinksAreFollowed ==
  stage = "done" =>
    \A n \in DOMAIN found : \A s \in LinksOf(found[n]) :
      /\ s \in DOMAIN followed
      /\ s \in Steam => DevelopersOf[found[n]] \subseteq followed[s].devs
      /\ (s \in DOMAIN Configured => s \in Steam /\ Configured[s].vn = None) =>
           \E m \in 1..n : followed[s].vn = found[m] /\ s \in LinksOf(found[m])

\* The fetch ends, however often it is rate-limited.
FetchEnds == <>(stage \in {"done", "failed"})

\* What the queries and the releases say of the VNs found can be taken over.
WellFormed(v) ==
  (Links[v] \cup ReleaseLinks[v]) \cap Malformed = {} /\ v \notin Misdated

QueriesAnswered == stage = "resolve" /\ \A v \in ToSet(found) : WellFormed(v)

\* Once the queries are answered no failing request for the releases costs the
\* fetch.  What a request brings may: a malformed link of a VN or of one of
\* its releases does, and so does a VN with an impossible date.
ReleasesAreOptional == QueriesAnswered ~> stage = "done"
=============================================================================
