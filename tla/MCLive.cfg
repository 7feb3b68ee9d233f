SPECIFICATION FairSpec
CONSTANTS
  v1 = v1
  g1 = g1
  t1 = t1
  t2 = t2
  i1 = i1
  i2 = i2
  i3 = i3
  steam = steam
  d1 = d1
  p1 = p1
  p2 = p2
  None = None
  VNs = {}
  Entities = {g1}
  Titles = {t1, t2}
  Tags = {}
  FeedItems = {i1, i2}
  MaxDay = 1
  TagsOf <- NoTags
  Developers = {d1}
  Producers = {p1, p2}
  DevelopersOf <- ByOne
  NameOf <- OneName
  ItemEvents <- TwoPosts
  Configs <- DevlogsOff
  MaxFaults = 2
  MaxChanges = 2
  Baselines <- FeedBaselines
  Feeds = {steam}
  FeedAdapters <- OneAdapter
  FeedsOf <- OneFeedsOf
  FeedOf <- OneFeedOf
  Piecemeal = {}
  SteamApps = {steam}
  Configured = {steam}
  Links <- NoLinks
  FirstOf <- AnyFirst
  Discoverable = {}
  SearchHit <- Unknown
  Backfills <- BackfillAlways
  BatchSize = 2
INVARIANTS
  TypeOK
PROPERTIES
  ItemsAreSettled
  DigestDrains
