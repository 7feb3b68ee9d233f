SPECIFICATION FetchFairSpec
CONSTANTS
  v1 = v1
  g1 = g1
  t1 = t1
  t2 = t2
  i1 = i1
  i2 = i2
  i3 = i3
  steam = steam
  d1 = d1
  p1 = p1
  p2 = p2
  None = None
  VNs = {v1}
  Entities = {v1}
  Titles = {t1}
  Tags = {}
  FeedItems = {}
  MaxDay = 2
  TagsOf <- NoTags
  Developers = {d1}
  Producers = {p1, p2}
  DevelopersOf <- ByOne
  NameOf <- OneName
  ItemEvents <- NoItemEvents
  Configs <- FollowsPatiently
  MaxFaults = 1
  MaxChanges = 2
  Baselines <- VndbBaseline
  Feeds = {}
  FeedAdapters <- NoAdapters
  FeedsOf <- NoFeedsOf
  FeedOf <- NoFeedOf
  Piecemeal = {}
  SteamApps = {}
  Configured = {}
  Links <- NoLinks
  FirstOf <- AnyFirst
  Discoverable = {}
  SearchHit <- Found
  Backfills <- NoBackfill
  BatchSize = 1
PROPERTIES
  TransitionIsRecorded
  ReleaseIsTold
  SnapshotsCatchUp
