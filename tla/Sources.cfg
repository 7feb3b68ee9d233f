SPECIFICATION SourcesSpec
CONSTANTS
  v1 = v1
  v2 = v2
  v3 = v3
  v4 = v4
  p1 = p1
  p2 = p2
  game = game
  sequel = sequel
  bare = bare
  app0 = app0
  blog = blog
  invalid = invalid
  title = title
  dev1 = dev1
  dev2 = dev2
  None = None
  VNs = {v1, v2, v3, v4}
  Producers = {p1, p2}
  Titles <- OneTitle
  Matches <- MCMatches
  Developers <- TwoDevelopers
  Discovery = TRUE
  DiscoverSteam = TRUE
  DevelopersOf <- MCDevelopersOf
  Sources = {game, sequel, bare, app0, blog, invalid}
  Steam = {game, sequel, bare, app0}
  Links <- MCLinks
  ReleaseLinks <- MCReleaseLinks
  Malformed = {invalid, app0}
  Misdated = {v4}
  Configured <- MCConfigured
  MaxRetries = 2
  MaxPages = 2
  Feeds = {f1, f2}
  Items = {a1, a2, b1}
  f1 = f1
  f2 = f2
  a1 = a1
  a2 = a2
  b1 = b1
  FeedOf <- FeedOfItem
  HoursPerDay = 3
  MaxHour = 5
  Offsets <- AnyOffset
  Undated = Undated
  NoFeed = NoFeed
  Adapters = {"steam", "rss"}
INVARIANTS
  AnswerIsWhole
  ResolvedTogether
  ManualIsKept
  LinksAreFollowed
  AnswerIsByFeed
  BackfillWithinADay
PROPERTIES
  FetchEnds
  ReleasesAreOptional
CHECK_DEADLOCK FALSE
