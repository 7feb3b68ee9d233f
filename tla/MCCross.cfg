SPECIFICATION DryRunSpec
CONSTANTS
  v1 = v1
  g1 = g1
  t1 = t1
  t2 = t2
  i1 = i1
  i2 = i2
  i3 = i3
  steam = steam
  d1 = d1
  p1 = p1
  p2 = p2
  None = None
  VNs = {v1}
  Entities = {v1}
  Titles = {t1}
  Tags = {}
  FeedItems = {i1}
  MaxDay = 2
  TagsOf <- NoTags
  Developers = {d1}
  Producers = {p1, p2}
  DevelopersOf <- ByOne
  NameOf <- OneName
  ItemEvents <- CrossItems
  Configs <- FollowsHalfway
  MaxFaults = 0
  MaxChanges = 2
  Baselines <- FeedBaselines
  Feeds = {steam}
  FeedAdapters <- OneAdapter
  FeedsOf <- OneFeedsOf
  FeedOf <- OneFeedOf
  Piecemeal = {}
  SteamApps = {steam}
  Configured = {steam}
  Links <- SteamLinks
  FirstOf <- AnyFirst
  Discoverable = {v1}
  SearchHit <- Mistaken
  Backfills <- BackfillAlways
  BatchSize = 1
INVARIANTS
  OneSender
  UniqueIdentity
  IInv
  SendsAreForetold
PROPERTIES
  LedgerKept
