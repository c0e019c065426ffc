SPECIFICATION FairSpec
CONSTANTS
  c1 = c1
  Conns = {c1}
  MaxActs = 3
INVARIANT TimedEnds
INVARIANT SilentLawful
INVARIANT BannerAgrees
PROPERTY SilenceEnds
CHECK_DEADLOCK FALSE
