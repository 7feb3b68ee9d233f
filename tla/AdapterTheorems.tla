--------------------------- MODULE AdapterTheorems ---------------------------
(***************************************************************************)
(* Theorems about the source adapters: about FeedAdapter, for any feeds,   *)
(* items, offsets and days, and about VndbAdapter, for any configuration,  *)
(* any VNs and links, and any answers.                                     *)
(***************************************************************************)
EXTENDS FeedAdapter, VndbAdapter, TLAPS

\* Every feed that was requested and did not fail is answered, but for the
\* one being converted; of that one, what is not yet in the answer is in hand.
Answered(fs) == \A f \in fs : ItemsOf(f) \subseteq result

ConvertInv ==
  /\ feed \in Feeds
  /\ Answered(Feeds \ (broken \cup left \cup {feed}))
  /\ ItemsOf(feed) \subseteq entries \cup list \cup result
  /\ ~Piecemeal => ItemsOf(feed) \subseteq entries \cup list
  /\ entries \cup list \subseteq ItemsOf(feed)

\* RSS and itch.io never have part of a feed in their answer.
WholeFeeds == \A i \in result : ItemsOf(FeedOf[i]) \subseteq result

AdapterInv ==
  /\ apc \in {"request", "convert", "done"}
  /\ result \subseteq Items
  /\ apc = "convert" => ConvertInv
  /\ apc # "convert" => Answered(Feeds \ (broken \cup left))
  /\ apc = "done" => left = {}
  /\ ~Piecemeal => WholeFeeds

LEMMA InitAdapter == AdapterInit => AdapterInv
BY DEF AdapterInit, AdapterInv, Answered, WholeFeeds

LEMMA ConvertKeeps ==
  ASSUME AdapterInv, NEW i \in Items, Convert(i)
  PROVE  AdapterInv'
<1> USE DEF Convert, AdapterInv, ConvertInv, inputVars, Piecemeal
<1>1. i \in ItemsOf(feed) /\ result \subseteq result' /\ result' \subseteq Items
  OBVIOUS
<1>2. Answered(Feeds \ (broken \cup left \cup {feed}))'
  BY <1>1 DEF Answered, ItemsOf
<1>3. /\ ItemsOf(feed) \subseteq entries' \cup list' \cup result'
      /\ ~Piecemeal => ItemsOf(feed) \subseteq entries' \cup list'
      /\ entries' \cup list' \subseteq ItemsOf(feed)
  BY <1>1
<1>4. (~Piecemeal => WholeFeeds)'
  BY DEF WholeFeeds, ItemsOf
<1>5. QED
  BY <1>1, <1>2, <1>3, <1>4 DEF ItemsOf

LEMMA ConvertedKeeps ==
  ASSUME AdapterInv, FeedConverted
  PROVE  AdapterInv'
<1> USE DEF FeedConverted, AdapterInv, ConvertInv, inputVars, Piecemeal
<1>1. result' = result \cup list /\ ItemsOf(feed) \subseteq result' /\ list \subseteq ItemsOf(feed)
  OBVIOUS
<1>2. result' \subseteq Items
  BY <1>1 DEF ItemsOf
<1>3. Answered(Feeds \ (broken \cup left))'
  BY <1>1 DEF Answered, ItemsOf
<1>4. (~Piecemeal => WholeFeeds)'
  BY <1>1 DEF WholeFeeds, ItemsOf
<1>5. QED
  BY <1>2, <1>3, <1>4

LEMMA NextAdapter == AdapterInv /\ [AdapterNext]_adapterVars => AdapterInv'
<1> SUFFICES ASSUME AdapterInv, [AdapterNext]_adapterVars PROVE AdapterInv'
    OBVIOUS
<1> USE DEF AdapterInv, inputVars, Piecemeal
<1>1. CASE UNCHANGED adapterVars
  BY <1>1 DEF adapterVars, ConvertInv, Answered, WholeFeeds, ItemsOf
<1>2. ASSUME NEW f \in Feeds, RequestFeed(f)
      PROVE  AdapterInv'
  BY <1>2 DEF RequestFeed, ConvertInv, Answered, WholeFeeds, ItemsOf
<1>3. ASSUME NEW f \in Feeds, RequestFeedFails(f)
      PROVE  AdapterInv'
  BY <1>3 DEF RequestFeedFails, Answered, WholeFeeds, ItemsOf
<1>4. ASSUME NEW i \in Items, Convert(i)
      PROVE  AdapterInv'
  BY <1>4, ConvertKeeps
<1>5. ASSUME NEW i \in Items, ConvertFails(i)
      PROVE  AdapterInv'
  BY <1>5 DEF ConvertFails, ConvertInv, Answered, WholeFeeds, ItemsOf
<1>6. CASE FeedConverted
  BY <1>6, ConvertedKeeps
<1>7. CASE AllRequested
  BY <1>7 DEF AllRequested, Answered, WholeFeeds, ItemsOf
<1>8. QED
  BY <1>1, <1>2, <1>3, <1>4, <1>5, <1>6, <1>7 DEF AdapterNext

\* What Pipeline.FetchFeeds assumes: an adapter's answer is the whole of every
\* feed that did not fail, and holds part of another only for Steam, whatever
\* requests and conversions fail and in whatever order.
THEOREM AnswersAreByFeed == AdapterSpec => []AnswerIsByFeed
<1>1. AdapterInv => AnswerIsByFeed
  <2> SUFFICES ASSUME AdapterInv, apc = "done"
               PROVE  \E ok \in SUBSET Feeds :
                        /\ Feeds \ broken \subseteq ok
                        /\ \A i \in Items : FeedOf[i] \in ok => i \in result
                        /\ \A i \in result : FeedOf[i] \in ok \/ Piecemeal
      BY DEF AnswerIsByFeed
  <2> DEFINE ok == {f \in Feeds : ItemsOf(f) \subseteq result}
  <2>1. Feeds \ broken \subseteq ok
    BY DEF AdapterInv, Answered
  <2>2. \A i \in Items : FeedOf[i] \in ok => i \in result
    BY DEF ItemsOf
  <2>3. \A i \in result : FeedOf[i] \in ok \/ Piecemeal
    BY AdapterAssumption DEF AdapterInv, WholeFeeds
  <2>4. QED
    BY <2>1, <2>2, <2>3
<1>2. QED
  BY <1>1, InitAdapter, NextAdapter, PTL DEF AdapterSpec

---------------------------------------------------------------------------
(* Dates *)

\* A division of whole numbers, as two bounds on what is divided.
LEMMA DayBounds ==
  ASSUME NEW h \in Int
  PROVE  /\ DayOf(h) \in Int
         /\ HoursPerDay * DayOf(h) <= h /\ h < HoursPerDay * DayOf(h) + HoursPerDay
BY AdapterAssumption DEF DayOf

\* Times less than a day apart lie on the same day or on adjacent ones.
LEMMA AdjacentDays ==
  ASSUME NEW h \in Int, NEW g \in Int, h - g < HoursPerDay
  PROVE  DayOf(g) >= DayOf(h) - 1
<1> DEFINE a == DayOf(h)
           b == DayOf(g)
           d == HoursPerDay
<1>1. a \in Int /\ b \in Int /\ d \in Nat
  BY DayBounds, AdapterAssumption
<1>2. d * a <= h /\ g < d * b + d
  BY DayBounds
<1>3. SUFFICES ASSUME b <= a - 2 PROVE FALSE
  BY <1>1
<1>4. d * b <= d * (a - 2)
  BY <1>1, <1>3
<1>5. d * (a - 2) = d * a - d - d
  BY <1>1
<1>6. d * a \in Int /\ d * b \in Int
  BY <1>1
<1> HIDE DEF a, b, d
<1>7. h - g < d
  BY DEF d
<1>8. QED
  BY <1>1, <1>2, <1>4, <1>5, <1>6, <1>7

\* What the inputs of a run are, which no step changes.
InputInv ==
  /\ published \in [Items -> Hours \cup {Undated}]
  /\ offset \in Offsets /\ since \in Int
  /\ result \subseteq Items

\* Whatever the machine's offset and the length of a day, a backfill takes
\* every dated item of a later day than the given one, and none that is older
\* than the day before it.
THEOREM BackfillsWithinADay == AdapterSpec => []BackfillWithinADay
<1>1. AdapterInit => InputInv
  BY DEF AdapterInit, InputInv
<1>2. InputInv /\ AdapterInv /\ AdapterInv' /\ [AdapterNext]_adapterVars => InputInv'
  BY DEF InputInv, AdapterInv, AdapterNext, adapterVars, inputVars, Piecemeal, RequestFeed, RequestFeedFails, Convert,
         ConvertFails, FeedConverted, AllRequested
<1>3. InputInv => BackfillWithinADay
  <2> SUFFICES ASSUME InputInv, NEW i \in result, published[i] # Undated
               PROVE  /\ DayOf(published[i]) > since => IsBackfillCandidate(i)
                      /\ IsBackfillCandidate(i) => DayOf(published[i]) >= since - 1
      BY DEF BackfillWithinADay
  <2> DEFINE h == published[i]
             g == PublishedAt(i)
  <2>1. h \in Int /\ offset \in Int /\ -HoursPerDay < offset /\ offset < HoursPerDay
    BY AdapterAssumption DEF InputInv, Hours
  <2>2. g \in Int /\ h - g < HoursPerDay /\ g - h < HoursPerDay
    BY <2>1, AdapterAssumption DEF PublishedAt
  <2>3. DayOf(g) >= DayOf(h) - 1 /\ DayOf(h) >= DayOf(g) - 1
    BY <2>1, <2>2, AdjacentDays
  <2>4. DayOf(g) \in Int /\ DayOf(h) \in Int /\ since \in Int
    BY <2>1, <2>2, DayBounds DEF InputInv
  <2>5. QED
    BY <2>3, <2>4 DEF IsBackfillCandidate
<1>4. QED
  BY <1>1, <1>2, <1>3, InitAdapter, NextAdapter, PTL DEF AdapterSpec

---------------------------------------------------------------------------
(* VNDB *)

\* Where the adapter is, and what it has then resolved.
ResolveInv ==
  /\ stage \in {"title", "producer", "developer"} => resolved = {}
  /\ stage \in {"discovery", "resolve"} => resolved = {} /\ developers = <<>>
  /\ stage \in {"releases", "merge", "done"} => developers = <<>> /\ resolved = producers
  /\ ResolvedTogether

LEMMA QueryFacts ==
  ASSUME NEW ts, NEW ds
  PROVE  /\ Query(ts, ds) \in {"title", "producer", "discovery", "resolve"}
         /\ Query(ts, ds) \in {"discovery", "resolve"} => ds = <<>>
BY DEF Query

\* The developers' ids become known together: whatever request fails, either
\* all the producers that _resolve_producer found are in
\* resolved_developer_ids, or none is.
THEOREM ProducersResolveTogether == VndbSpec => []ResolvedTogether
<1>1. VndbInit => ResolveInv
  BY QueryFacts DEF VndbInit, ResolveInv, ResolvedTogether
<1>2. ResolveInv /\ [VndbNext]_vndbVars => ResolveInv'
  <2> SUFFICES ASSUME ResolveInv, [VndbNext]_vndbVars PROVE ResolveInv'
      OBVIOUS
  <2> USE DEF ResolveInv, ResolvedTogether, followVars, queryVars, pageVars, Requests
  <2>1. CASE UNCHANGED vndbVars
    BY <2>1 DEF vndbVars
  <2>2. CASE RateLimited \/ RequestFails
    BY <2>2 DEF RateLimited, RequestFails
  <2>3. ASSUME NEW rs \in Results,
               TitleAnswered(rs) \/ DeveloperAnswered(rs) \/ DiscoveryAnswered(rs)
        PROVE  ResolveInv'
    <3>1. CASE TitleAnswered(rs)
      BY <3>1, QueryFacts DEF TitleAnswered, Collect
    <3>2. CASE DeveloperAnswered(rs)
      <4>1. /\ stage = "developer" /\ stage' = Query(titles, developers')
            /\ resolved' = resolved
        BY <3>2 DEF DeveloperAnswered
      <4>2. QED
        BY <4>1, QueryFacts
    <3>3. CASE DiscoveryAnswered(rs)
      BY <3>3 DEF DiscoveryAnswered, Collect
    <3>4. QED
      BY <2>3, <3>1, <3>2, <3>3
  <2>4. ASSUME NEW p \in Producers \cup {None}, ProducerAnswered(p)
        PROVE  ResolveInv'
    BY <2>4, QueryFacts DEF ProducerAnswered
  <2>5. ASSUME NEW vs \in SUBSET VNs, NEW more \in BOOLEAN, ReleasesAnswered(vs, more)
        PROVE  ResolveInv'
    BY <2>5 DEF ReleasesAnswered
  <2>6. CASE Resolve
    BY <2>6 DEF Resolve
  <2>7. CASE MergeVn \/ MergeFails \/ Return \/ ReturnFails
    BY <2>7 DEF MergeVn, MergeFails, Return, ReturnFails
  <2>8. QED
    BY <2>1, <2>2, <2>3, <2>4, <2>5, <2>6, <2>7 DEF VndbNext
<1>3. ResolveInv => ResolvedTogether
  BY DEF ResolveInv
<1>4. QED
  BY <1>1, <1>2, <1>3, PTL DEF VndbSpec

---------------------------------------------------------------------------
\* add_discovered_* keep what is configured, for any links of any VN.
LEMMA AddDiscoveredKeeps ==
  ASSUME ManualIsKept, NEW v, NEW ss, AddDiscovered(v, ss)
  PROVE  ManualIsKept'
<1> SUFFICES ASSUME NEW s \in DOMAIN Configured
             PROVE  /\ s \in DOMAIN followed'
                    /\ Configured[s].vn # None => followed'[s].vn = Configured[s].vn
                    /\ Configured[s].devs \subseteq followed'[s].devs
                    /\ s \notin Steam => followed'[s] = Configured[s]
    BY DEF ManualIsKept
<1>1. /\ s \in DOMAIN followed
      /\ Configured[s].vn # None => followed[s].vn = Configured[s].vn
      /\ Configured[s].devs \subseteq followed[s].devs
      /\ s \notin Steam => followed[s] = Configured[s]
  BY DEF ManualIsKept
<1>2. s \in DOMAIN followed'
  BY <1>1 DEF AddDiscovered
<1>3. CASE s \notin ss \cap Steam
  BY <1>1, <1>2, <1>3 DEF AddDiscovered
<1>4. CASE s \in ss \cap Steam
  <2>1. followed'[s] = [vn   |-> IF followed[s].vn = None THEN v ELSE followed[s].vn,
                        devs |-> followed[s].devs \cup DevelopersOf[v]]
    BY <1>1, <1>4 DEF AddDiscovered
  <2>2. QED
    BY <1>1, <1>2, <1>4, <2>1
<1>5. QED
  BY <1>3, <1>4

\* What the owner mapped by hand stays mapped: no fetch, failed or complete,
\* lets add_discovered_* change the VN of a configured feed, drop one of its
\* developers, or touch a configured itch.io or RSS feed at all.
THEOREM ManualMappingsAreKept == VndbSpec => []ManualIsKept
<1>1. VndbInit => ManualIsKept
  BY DEF VndbInit, ManualIsKept
<1>2. ManualIsKept /\ [VndbNext]_vndbVars => ManualIsKept'
  <2> SUFFICES ASSUME ManualIsKept, [VndbNext]_vndbVars PROVE ManualIsKept'
      OBVIOUS
  <2>1. CASE UNCHANGED followed
    BY <2>1 DEF ManualIsKept
  <2>2. CASE MergeVn
    BY <2>2, AddDiscoveredKeeps DEF MergeVn
  <2>3. CASE MergeFails
    BY <2>3, AddDiscoveredKeeps DEF MergeFails
  <2>4. QED
    BY <2>1, <2>2, <2>3
       DEF VndbNext, vndbVars, followVars, RateLimited, RequestFails, TitleAnswered, DeveloperAnswered,
           DiscoveryAnswered, ProducerAnswered, ReleasesAnswered, Resolve, Return, ReturnFails
<1>3. QED
  BY <1>1, <1>2, PTL DEF VndbSpec

---------------------------------------------------------------------------
(* The VNs found, and their links *)

\* What was answered so far, whatever request comes next.
FoundInv ==
  /\ found \in Seq(VNs) /\ IsInjective(found)
  /\ ToSet(found) = told /\ discovered \subseteq told

LEMMA ResultFacts ==
  ASSUME NEW rs \in Results
  PROVE  rs \in Seq(VNs) /\ IsInjective(rs)
<1>1. PICK n \in 0..Cardinality(VNs) : rs \in [1..n -> VNs] /\ IsInjective(rs)
  BY DEF Results
<1>2. n \in Nat OBVIOUS
<1> QED BY <1>1, <1>2

\* Two answers without a VN in common, one after the other.
LEMMA ConcatFacts ==
  ASSUME NEW S, NEW s \in Seq(S), NEW t \in Seq(S), IsInjective(s), IsInjective(t),
         ToSet(s) \cap ToSet(t) = {}
  PROVE  /\ s \o t \in Seq(S) /\ IsInjective(s \o t)
         /\ ToSet(s \o t) = ToSet(s) \cup ToSet(t)
<1> DEFINE st == s \o t
<1>1. /\ st \in Seq(S) /\ DOMAIN st = 1..(Len(s) + Len(t))
      /\ DOMAIN s = 1..Len(s) /\ DOMAIN t = 1..Len(t)
      /\ Len(s) \in Nat /\ Len(t) \in Nat
  OBVIOUS
<1>2. \A i \in DOMAIN st : st[i] = IF i <= Len(s) THEN s[i] ELSE t[i - Len(s)]
  OBVIOUS
<1>3. \A i \in DOMAIN s : i \in DOMAIN st /\ st[i] = s[i]
  BY <1>1, <1>2
<1>4. \A i \in DOMAIN t : i + Len(s) \in DOMAIN st /\ st[i + Len(s)] = t[i]
  BY <1>1, <1>2
<1>5. \A i \in DOMAIN st :
        \/ i \in DOMAIN s /\ st[i] = s[i]
        \/ i - Len(s) \in DOMAIN t /\ st[i] = t[i - Len(s)] /\ i > Len(s)
  BY <1>1, <1>2
<1>6. ToSet(st) = ToSet(s) \cup ToSet(t)
  <2>1. ToSet(st) \subseteq ToSet(s) \cup ToSet(t) BY <1>5 DEF ToSet
  <2>2. ToSet(s) \subseteq ToSet(st) BY <1>3 DEF ToSet
  <2>3. ToSet(t) \subseteq ToSet(st) BY <1>4 DEF ToSet
  <2> QED BY <2>1, <2>2, <2>3
<1>7. ASSUME NEW i \in DOMAIN st, NEW j \in DOMAIN st, st[i] = st[j]
      PROVE  i = j
  <2>1. CASE i \in DOMAIN s /\ j \in DOMAIN s
    BY <1>3, <1>7, <2>1 DEF IsInjective
  <2>2. CASE i \notin DOMAIN s /\ j \notin DOMAIN s
    <3>1. /\ i - Len(s) \in DOMAIN t /\ st[i] = t[i - Len(s)]
          /\ j - Len(s) \in DOMAIN t /\ st[j] = t[j - Len(s)]
      BY <1>5, <2>2
    <3>2. i - Len(s) = j - Len(s) BY <1>7, <3>1 DEF IsInjective
    <3> QED BY <1>1, <3>2
  <2>3. CASE ~(i \in DOMAIN s <=> j \in DOMAIN s)
    <3>1. st[i] \in ToSet(s) /\ st[i] \in ToSet(t)
      BY <1>5, <1>7, <2>3 DEF ToSet
    <3> QED BY <3>1
  <2> QED BY <2>1, <2>2, <2>3
<1>8. IsInjective(st) BY <1>7 DEF IsInjective
<1> QED BY <1>1, <1>6, <1>8

\* _collect_vns adds what is new of an answer, once.
LEMMA CollectKeeps ==
  ASSUME NEW rs \in Results, Collect(rs),
         found \in Seq(VNs), IsInjective(found), ToSet(found) = told
  PROVE  /\ found' \in Seq(VNs) /\ IsInjective(found')
         /\ ToSet(found') = told' /\ told' = told \cup ToSet(rs)
<1>1. PICK new \in Results :
        ToSet(new) = ToSet(rs) \ ToSet(found) /\ found' = found \o new
  BY DEF Collect
<1>2. new \in Seq(VNs) /\ IsInjective(new) BY ResultFacts
<1>3. told' = told \cup ToSet(rs) BY DEF Collect
<1> QED BY <1>1, <1>2, <1>3, ConcatFacts

\* Every step keeps it.
LEMMA NextFound == FoundInv /\ [VndbNext]_vndbVars => FoundInv'
<1> SUFFICES ASSUME FoundInv, [VndbNext]_vndbVars PROVE FoundInv' OBVIOUS
<1> USE DEF FoundInv
<1>1. CASE UNCHANGED <<found, told, discovered>> BY <1>1
<1>2. ASSUME NEW rs \in Results,
             TitleAnswered(rs) \/ DeveloperAnswered(rs) \/ DiscoveryAnswered(rs)
      PROVE  FoundInv'
  <2>1. Collect(rs) BY <1>2 DEF TitleAnswered, DeveloperAnswered, DiscoveryAnswered
  <2>2. discovered' \in {discovered, ToSet(rs)}
    BY <1>2 DEF TitleAnswered, DeveloperAnswered, DiscoveryAnswered, followVars
  <2> QED BY <2>1, <2>2, CollectKeeps
<1> QED
  BY <1>1, <1>2
     DEF VndbNext, vndbVars, followVars, RateLimited, RequestFails, ProducerAnswered,
         ReleasesAnswered, Resolve, MergeVn, MergeFails, Return, ReturnFails

\* Whatever is answered, repeated and in which order: the adapter returns
\* every VN of every answer, once, those it discovered among them.
THEOREM AnswersAreWhole == VndbSpec => []AnswerIsWhole
<1>1. VndbInit => FoundInv
  BY DEF VndbInit, FoundInv, IsInjective, ToSet
<1>2. FoundInv => AnswerIsWhole
  BY DEF FoundInv, AnswerIsWhole
<1> QED BY <1>1, <1>2, NextFound, PTL DEF VndbSpec

\* Discovery says which VN feed s is of, unless the configuration does.
Open(s) == s \in DOMAIN Configured => s \in Steam /\ Configured[s].vn = None

\* It said so: one of the first n VNs, with that link.
MappedBy(s, n) ==
  \E m \in 1..n : followed[s].vn = found[m] /\ s \in LinksOf(found[m])

\* The links of the n-th VN are followed.
Followed(n) ==
  \A s \in LinksOf(found[n]) :
    /\ s \in DOMAIN followed
    /\ s \in Steam => DevelopersOf[found[n]] \subseteq followed[s].devs
    /\ Open(s) => MappedBy(s, n)

\* Before the links are followed up the mappings are those configured; while
\* they are, each VN handled has its links followed, and a mapping that was
\* left open is one of the VNs handled, or still open.
LinkInv ==
  /\ FoundInv
  /\ stage \in Requests \cup {"resolve"} => merged = 0 /\ followed = Configured
  /\ stage \in {"merge", "done"} =>
       /\ merged \in 0..Len(found)
       /\ \A n \in 1..merged : Followed(n)
       /\ \A s \in DOMAIN followed :
            Open(s) => MappedBy(s, merged) \/ (s \in DOMAIN Configured /\ followed[s].vn = None)
  /\ stage = "done" => merged = Len(found)

\* add_discovered_* for one more VN: what is followed stays followed, by the
\* same VN, with the developers it had.
LEMMA AddDiscoveredAdds ==
  ASSUME NEW v \in VNs, NEW ss, AddDiscovered(v, ss)
  PROVE  /\ DOMAIN followed' = DOMAIN followed \cup ss
         /\ \A s \in DOMAIN followed :
              /\ followed[s].vn # None => followed'[s].vn = followed[s].vn
              /\ followed[s].devs \subseteq followed'[s].devs
              /\ followed'[s].vn # followed[s].vn => s \in ss /\ followed'[s].vn = v
         /\ \A s \in ss :
              /\ s \notin DOMAIN followed => followed'[s].vn = v
              /\ s \in Steam => followed'[s].vn # None
              /\ s \in Steam => DevelopersOf[v] \subseteq followed'[s].devs
<1>1. DOMAIN followed' = DOMAIN followed \cup ss BY DEF AddDiscovered
<1>2. ASSUME NEW s \in DOMAIN followed
      PROVE  /\ followed[s].vn # None => followed'[s].vn = followed[s].vn
             /\ followed[s].devs \subseteq followed'[s].devs
             /\ followed'[s].vn # followed[s].vn => s \in ss /\ followed'[s].vn = v
  <2>1. CASE s \in ss \cap Steam
    <3>1. followed'[s] = [vn   |-> IF followed[s].vn = None THEN v ELSE followed[s].vn,
                          devs |-> followed[s].devs \cup DevelopersOf[v]]
      BY <2>1 DEF AddDiscovered
    <3> QED BY <2>1, <3>1
  <2>2. CASE s \notin ss \cap Steam
    BY <2>2 DEF AddDiscovered
  <2> QED BY <2>1, <2>2
<1>3. ASSUME NEW s \in ss
      PROVE  /\ s \notin DOMAIN followed => followed'[s].vn = v
             /\ s \in Steam => followed'[s].vn # None
             /\ s \in Steam => DevelopersOf[v] \subseteq followed'[s].devs
  <2>1. v # None BY VndbAssumption
  <2>2. CASE s \notin DOMAIN followed
    <3>1. followed'[s] = NewMapping(v, s) BY <2>2 DEF AddDiscovered
    <3> QED BY <2>1, <2>2, <3>1 DEF NewMapping
  <2>3. CASE s \in DOMAIN followed /\ s \in Steam
    <3>1. followed'[s] = [vn   |-> IF followed[s].vn = None THEN v ELSE followed[s].vn,
                          devs |-> followed[s].devs \cup DevelopersOf[v]]
      BY <2>3 DEF AddDiscovered
    <3> QED BY <2>1, <2>3, <3>1
  <2> QED BY <2>2, <2>3
<1> QED BY <1>1, <1>2, <1>3

\* The links of one more VN are followed up.
LEMMA MergeKeeps ==
  ASSUME LinkInv, MergeVn
  PROVE  LinkInv'
<1> DEFINE v == found[merged + 1]
<1> USE VndbAssumption
<1>1. /\ merged \in 0..Len(found) /\ merged < Len(found) /\ merged' = merged + 1
      /\ found' = found /\ apps' = apps /\ stage = "merge" /\ stage' = "merge"
      /\ Len(found) \in Nat /\ merged + 1 \in DOMAIN found
  BY DEF LinkInv, FoundInv, MergeVn, pageVars
<1>2. \A n \in 1..merged' : found[n] \in VNs /\ found[n] # None
  BY <1>1 DEF LinkInv, FoundInv
<1>3. v \in VNs BY <1>1, <1>2
<1>4. AddDiscovered(v, LinksOf(v)) BY DEF MergeVn
<1> HIDE DEF v
<1>5. /\ DOMAIN followed' = DOMAIN followed \cup LinksOf(v)
      /\ \A s \in DOMAIN followed :
           /\ followed[s].vn # None => followed'[s].vn = followed[s].vn
           /\ followed[s].devs \subseteq followed'[s].devs
           /\ followed'[s].vn # followed[s].vn => s \in LinksOf(v) /\ followed'[s].vn = v
      /\ \A s \in LinksOf(v) :
           /\ s \notin DOMAIN followed => followed'[s].vn = v
           /\ s \in Steam => followed'[s].vn # None
           /\ s \in Steam => DevelopersOf[v] \subseteq followed'[s].devs
  BY <1>3, <1>4, AddDiscoveredAdds
<1>6. FoundInv' BY DEF LinkInv, FoundInv, MergeVn, followVars, pageVars
<1>7. ASSUME NEW s, NEW n \in 1..merged, s \in DOMAIN followed, MappedBy(s, n)
      PROVE  MappedBy(s, n)'
  <2>1. PICK m \in 1..n : followed[s].vn = found[m] /\ s \in LinksOf(found[m])
    BY <1>7 DEF MappedBy
  <2>2. followed[s].vn # None BY <1>1, <1>2, <2>1
  <2>3. followed'[s].vn = followed[s].vn
    BY <1>5, <1>7, <2>2
  <2> QED BY <1>1, <2>1, <2>3 DEF MappedBy, LinksOf
<1>8. DOMAIN followed \subseteq DOMAIN followed' /\ LinksOf(v) \subseteq DOMAIN followed'
  BY <1>5
<1>9. \A n \in 1..merged : LinksOf(found[n])' = LinksOf(found[n])
  BY <1>1 DEF LinksOf
<1>10. ASSUME NEW n \in 1..merged
      PROVE  Followed(n)'
  <2>1. Followed(n) BY <1>1 DEF LinkInv
  <2>2. SUFFICES ASSUME NEW s \in LinksOf(found[n])
                 PROVE  /\ s \in DOMAIN followed'
                        /\ s \in Steam => DevelopersOf[found[n]] \subseteq followed'[s].devs
                        /\ Open(s) => MappedBy(s, n)'
    BY <1>1, <1>9 DEF Followed, Open
  <2>3. /\ s \in DOMAIN followed
        /\ s \in Steam => DevelopersOf[found[n]] \subseteq followed[s].devs
        /\ Open(s) => MappedBy(s, n)
    BY <2>1 DEF Followed
  <2>4. followed[s].devs \subseteq followed'[s].devs
    BY <1>5, <2>3
  <2> QED BY <1>7, <1>8, <2>3, <2>4
<1>11. ASSUME NEW s \in DOMAIN followed', Open(s)
       PROVE  \/ MappedBy(s, merged)'
              \/ s \in DOMAIN Configured /\ followed'[s].vn = None /\ s \notin LinksOf(v)
  <2>1. \A m \in 1..merged : MappedBy(s, m)' => MappedBy(s, merged)'
    <3>1. \A m \in 1..merged : 1..m \subseteq 1..merged' BY <1>1
    <3> QED BY <3>1 DEF MappedBy
  <2>2. followed'[s].vn = v /\ s \in LinksOf(v) => MappedBy(s, merged)'
    BY <1>1 DEF MappedBy, LinksOf, v
  <2>3. CASE s \notin DOMAIN followed
    BY <1>5, <2>2, <2>3
  <2>4. CASE s \in DOMAIN followed /\ MappedBy(s, merged)
    <3>1. merged \in 1..merged BY <1>1, <2>4 DEF MappedBy
    <3> QED BY <1>7, <2>1, <2>4, <3>1
  <2>5. CASE s \in DOMAIN followed /\ s \in DOMAIN Configured /\ followed[s].vn = None
    <3>1. s \in Steam BY <1>11, <2>5 DEF Open
    <3>2. followed'[s].vn # None => followed'[s].vn = v /\ s \in LinksOf(v)
      BY <1>5, <2>5
    <3>3. s \in LinksOf(v) => followed'[s].vn # None
      BY <1>5, <3>1
    <3> QED BY <2>2, <2>5, <3>2, <3>3
  <2> QED BY <1>1, <1>11, <2>3, <2>4, <2>5 DEF LinkInv
<1>12. Followed(merged)'
  <2>1. SUFFICES ASSUME NEW s \in LinksOf(v)
                 PROVE  /\ s \in DOMAIN followed'
                        /\ s \in Steam => DevelopersOf[v] \subseteq followed'[s].devs
                        /\ Open(s) => MappedBy(s, merged)'
    BY <1>1 DEF Followed, LinksOf, Open, v
  <2> QED BY <1>5, <1>8, <1>11
<1>13. 1..merged' = 1..merged \cup {merged + 1} BY <1>1
<1>14. ASSUME NEW n \in 1..merged'
       PROVE  Followed(n)'
  <2>1. CASE n = merged'
    BY <1>12, <2>1 DEF Followed, MappedBy
  <2>2. CASE n # merged'
    BY <1>1, <1>10, <1>13, <2>2
  <2> QED BY <2>1, <2>2
<1>15. ASSUME NEW s \in DOMAIN followed', Open(s)
       PROVE  MappedBy(s, merged)' \/ (s \in DOMAIN Configured /\ followed'[s].vn = None)
  BY <1>11, <1>15
<1> QED
  BY <1>1, <1>6, <1>14, <1>15 DEF LinkInv, Requests, Open

\* Every step keeps it: the links are only followed up once all is answered.
LEMMA NextLinks == LinkInv /\ [VndbNext]_vndbVars => LinkInv'
<1> SUFFICES ASSUME LinkInv, [VndbNext]_vndbVars PROVE LinkInv' OBVIOUS
<1>0. FoundInv' BY NextFound DEF LinkInv
<1>1. ASSUME stage \in Requests \cup {"resolve"},
             stage' \in Requests \cup {"resolve", "merge", "failed"},
             UNCHANGED <<merged, followed>>
      PROVE  LinkInv'
  <2>1. merged = 0 /\ followed = Configured BY <1>1 DEF LinkInv
  <2>2. 1..merged' = {} BY <1>1, <2>1
  <2>3. Len(found') \in Nat BY <1>0 DEF FoundInv
  <2>4. \A s \in DOMAIN Configured : Open(s) => Configured[s].vn = None BY DEF Open
  <2> QED BY <1>0, <1>1, <2>1, <2>2, <2>3, <2>4 DEF LinkInv, Requests, Open
<1>2. CASE RateLimited \/ RequestFails
  BY <1>1, <1>2 DEF RateLimited, RequestFails, followVars, Requests
<1>3. ASSUME NEW rs \in Results,
             TitleAnswered(rs) \/ DeveloperAnswered(rs) \/ DiscoveryAnswered(rs)
      PROVE  LinkInv'
  <2>1. stage \in Requests /\ UNCHANGED <<merged, followed>>
    BY <1>3 DEF TitleAnswered, DeveloperAnswered, DiscoveryAnswered, followVars, Requests
  <2>2. stage' \in {"title", "producer", "discovery", "resolve"}
    BY <1>3, QueryFacts DEF TitleAnswered, DeveloperAnswered, DiscoveryAnswered
  <2> QED BY <1>1, <2>1, <2>2 DEF Requests
<1>4. ASSUME NEW p, ProducerAnswered(p) PROVE LinkInv'
  BY <1>1, <1>4, QueryFacts DEF ProducerAnswered, followVars, Requests
<1>5. ASSUME NEW vs, NEW more \in BOOLEAN, ReleasesAnswered(vs, more) PROVE LinkInv'
  BY <1>1, <1>5 DEF ReleasesAnswered, followVars, Requests
<1>6. CASE Resolve
  BY <1>1, <1>6 DEF Resolve, Requests
<1>7. CASE MergeVn BY <1>7, MergeKeeps
<1>8. CASE MergeFails \/ ReturnFails
  BY <1>0, <1>8 DEF LinkInv, MergeFails, ReturnFails, Requests
<1>9. CASE Return \/ UNCHANGED vndbVars
  <2>1. UNCHANGED <<found, merged, followed, apps>>
    BY <1>9 DEF Return, followVars, pageVars, vndbVars
  <2>2. stage' = stage \/ (stage = "merge" /\ stage' = "done" /\ merged = Len(found))
    <3>1. CASE Return BY <3>1 DEF Return
    <3>2. CASE UNCHANGED vndbVars BY <3>2 DEF vndbVars
    <3> QED BY <1>9, <3>1, <3>2
  <2>3. \A s, n : MappedBy(s, n)' <=> MappedBy(s, n)
    BY <2>1 DEF MappedBy, LinksOf
  <2>4. \A n : Followed(n)' <=> Followed(n)
    BY <2>1, <2>3 DEF Followed, LinksOf, Open
  <2> QED BY <1>0, <2>1, <2>2, <2>3, <2>4 DEF LinkInv, Requests, Open
<1> QED
  BY <1>2, <1>3, <1>4, <1>5, <1>6, <1>7, <1>8, <1>9 DEF VndbNext

\* The links of the VNs VNDB answered with are followed, none forgotten, each
\* by the first VN that has it; a malformed one fails the fetch instead.
THEOREM AllLinksAreFollowed == VndbSpec => []LinksAreFollowed
<1>1. VndbInit => LinkInv
  <2> SUFFICES ASSUME VndbInit PROVE LinkInv OBVIOUS
  <2>1. stage \in Requests \cup {"resolve"}
    BY QueryFacts DEF VndbInit, Requests
  <2> QED
    BY <2>1 DEF VndbInit, LinkInv, FoundInv, IsInjective, ToSet, Requests
<1>2. LinkInv => LinksAreFollowed
  <2> SUFFICES ASSUME LinkInv, stage = "done", NEW n \in DOMAIN found
               PROVE  \A s \in LinksOf(found[n]) :
                        /\ s \in DOMAIN followed
                        /\ s \in Steam => DevelopersOf[found[n]] \subseteq followed[s].devs
                        /\ Open(s) => MappedBy(s, n)
    BY DEF LinksAreFollowed, Open, MappedBy
  <2>1. n \in 1..merged BY DEF LinkInv, FoundInv
  <2> QED BY <2>1 DEF LinkInv, Followed
<1> QED BY <1>1, <1>2, NextLinks, PTL DEF VndbSpec
=============================================================================
