------------------------------ MODULE MCRadar ------------------------------
(***************************************************************************)
(* Instances of Radar for TLC.  With the default weights and thresholds    *)
(* (70 immediate, 40 digest) and a followed developer (60), a PATCH of one *)
(* of its games scores 70 and is sent at once, an OTHER post scores 60 and *)
(* waits for the digest; without the developer both are skipped.  A change *)
(* of a VN that is only discovered (40) scores 80 as NEW_TITLE, 70 as      *)
(* RELEASE_DATE or RELEASED and 60 as DELAY.                               *)
(***************************************************************************)
EXTENDS RadarInvariant, TLC

CONSTANTS v1, g1, t1, t2, i1, i2, i3, steam, d1, p1, p2

\* The configurations.
Config(devs, enabled) ==
  [visual_novels |-> {}, developers |-> devs, tags |-> {},
   immediate_threshold |-> 70, digest_threshold |-> 40,
   enabled_event_types |-> enabled, max_snapshot_release_age_days |-> 0]

Following       == Config({d1}, EventTypes)
NotFollowing    == Config({}, EventTypes)
WithoutPatches  == Config({d1}, EventTypes \ {"PATCH"})
WithoutDevlogs  == Config({d1}, EventTypes \ {"DEVLOG"})

\* Only a new title is worth a message of its own; the release of a VN waits
\* for the digest, and is stale there the day after.
Patient         == [Following EXCEPT !.immediate_threshold = 100]
Impatient       == [Following EXCEPT !.immediate_threshold = 80]

Follows            == {Following}
FollowsPatiently   == {Patient}
FollowsHalfway     == {Impatient}
DevlogsOff         == {WithoutDevlogs}
Edited             == {Following, WithoutPatches, NotFollowing}

\* Every game and VN is the followed developer's.
ByOne    == [v \in VNs |-> <<p1>>]
OneName  == [p \in Producers |-> d1]
NoTags   == [v \in VNs |-> {}]

\* VNDB does not know the followed developer, finds it, or finds another of
\* the same name first: then only by name its games are the followed one's.
Unknown  == [d \in Developers |-> None]
Found    == [d \in Developers |-> p1]
Mistaken == [d \in Developers |-> p2]

\* VNDB links to no feed, or to the Steam app.
NoLinks    == [v \in VNs |-> {}]
SteamLinks == [v \in VNs |-> {steam}]
AnyFirst   == [vs \in (SUBSET VNs) \ {{}} |-> CHOOSE v \in vs : TRUE]

\* The feed items, of an app mapped by hand to the developer's name.
Post(entity, type, title) ==
  [source |-> "feed", entity |-> entity, type |-> type, date |-> NoDate,
   title |-> title, tags |-> {}, names |-> {d1}, ids |-> {}]

OnePatch == i1 :> {Post(g1, "PATCH", t1)}
TwoItems == i1 :> {Post(g1, "PATCH", t1)} @@ i2 :> {Post(g1, "OTHER", t1)}

\* Two reports of one patch; the second may be rewritten to a post of its own.
TwoReports ==
  i1 :> {Post(g1, "PATCH", t1)} @@
  i2 :> {Post(g1, "PATCH", t1), Post(g1, "OTHER", t1)}

\* A post for the digest, and then a second one, one for a message of its own
\* or one of a disabled type.
TwoPosts ==
  i1 :> {Post(g1, "OTHER", t1)} @@
  i2 :> {Post(g1, "OTHER", t2), Post(g1, "PATCH", t1), Post(g1, "DEVLOG", t1)}

\* VNDB and a Steam feed report the release of the same VN.
CrossItems == i1 :> {[Post(v1, "RELEASED", t1) EXCEPT !.date = 1]}

NoItemEvents == [i \in FeedItems |-> {}]
NoBackfill == {{}}
BackfillFirst == {{}, {i1}}
BackfillAlways == {{i1}}

\* One adapter with one feed, or VNDB alone.
OneAdapter    == <<"steam">>
OneFeedsOf    == "steam" :> {steam}
OneFeedOf     == [i \in FeedItems |-> steam]
FeedBaselines == {steam, Vndb}
NoAdapters    == <<>>
NoFeedsOf     == [a \in {} |-> {}]
NoFeedOf      == [i \in FeedItems |-> i]
VndbBaseline  == {Vndb}
=============================================================================
