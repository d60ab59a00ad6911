SPECIFICATION MCSpec
CONSTANTS
  site = site
  feed = feed
  before = before
  after = after
  post = post
  long = long
  cve = cve
  actor = actor
  malware = malware
  Collectors = {site, feed}
  Scrapes = {site}
  Contents = {before, after, post, long}
  Visited = {after}
  Keys = {cve, actor, malware}
  Cves = {cve}
  Actors = {actor, malware}
  Overlong = {long}
  UrlOf <- OnPage
  Batches <- Returned
  Mentions <- Names
  OracleAnswers <- Answers
  Threshold = 1
  MaxExponent = 0
  MaxCollects = 3
  MaxMishaps = 1
  ReportAt = 7
  MaxHypotheses = 2
  story = story
  thread = thread
  code = code
  Pages = {story, thread, code}
  Unreadable = {}
  Queries = {"q", "Q", "r"}
  LowerCase <- MCLowerCase
  Providers = {"web", "news"}
  Finds <- MCFinds
  Plans <- MCPlans
  Suggestions <- MCSuggestions
  PerRound = 1
  MaxItems = 2
  SubBatches = 2
  IterationsTarget = 2
  MaxInquiries = 2
  MaxFaults = 2
INVARIANT SightingsAreReal
INVARIANT NewsOnce
INVARIANT ReportsTellRounds
INVARIANT NothingTwice
PROPERTY ConfirmedGetSwept
CHECK_DEADLOCK FALSE
