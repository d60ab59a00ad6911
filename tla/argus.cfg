\* Two sessions, the second progressive, and a watch over one queue of runs.
SPECIFICATION MCSpec
CONSTANTS
  w1 = w1
  plain = plain
  other = other
  long = long
  blank = blank
  Nothing = Nothing
  Topics = {plain, other, long, blank}
  Watches = {w1}
  TopicOf <- MCTopicOf
  Rounds = 1
  MaxEvents = 3
  Sessions = {1, 2}
  Progressive = {2}
  AngleLists <- MCLists
  MaxAngles = 2
  Attempts = 2
  MaxRounds = 2
  Ratings = {0, 2}
  MinimumGain = 3
  Padded = {}
  Plain <- MCNotPadded
  TooLong = {long}
  Blank = {blank}
INVARIANT SessionsAreOrderly
PROPERTIES SessionsEnd DueWatchesRun
CHECK_DEADLOCK FALSE
