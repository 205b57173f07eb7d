CONSTANTS
  DedupKeys = {d1}
  NoKey = NoKey
  Tails = {t1, t2}
  AfterCursors = {1}
  RowLimits = {1, 3}
  Buffer = 1
  MaxEvents = 3
SPECIFICATION FairSpec
INVARIANTS TailerMissesNothing DetachedFeedIsPrefix ChannelsClosedOnce IndexesAgree
PROPERTIES TailsEndAfterClose
CHECK_DEADLOCK FALSE
