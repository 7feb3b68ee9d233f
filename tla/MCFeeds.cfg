SPECIFICATION Spec
CONSTANTS
  v1 = v1
  g1 = g1
  t1 = t1
  t2 = t2
  i1 = i1
  i2 = i2
  i3 = i3
  steam = steam
  d1 = d1
  p1 = p1
  p2 = p2
  None = None
  VNs = {}
  Entities = {g1}
  Titles = {t1}
  Tags = {}
  FeedItems = {i1, i2}
  MaxDay = 1
  TagsOf <- NoTags
  Developers = {d1}
  Producers = {p1, p2}
  DevelopersOf <- ByOne
  NameOf <- OneName
  ItemEvents <- TwoReports
  Configs <- Edited
  MaxFaults = 1
  MaxChanges = 4
  Baselines <- FeedBaselines
  Feeds = {steam}
  FeedAdapters <- OneAdapter
  FeedsOf <- OneFeedsOf
  FeedOf <- OneFeedOf
  Piecemeal = {"steam"}
  SteamApps = {steam}
  Configured = {steam}
  Links <- NoLinks
  FirstOf <- AnyFirst
  Discoverable = {}
  SearchHit <- Unknown
  Backfills <- BackfillFirst
  BatchSize = 1
INVARIANTS
  SentWasDelivered
  CopiesAccounted
  SeenIsAccounted
PROPERTIES
  NeverResent
  TerminalStable
