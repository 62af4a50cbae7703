CONSTANTS
  r1 = r1
  r2 = r2
  Runs = {r1, r2}
  Slugs = {s1, s2, s3}
  Watched = {s1}
  Repertoire <- TwoRepertoires
  MaxAge = 2
  Patience = 1
  Thresholds = {0, 2}
  Cases = 2
  MaxOrphans = 1
SPECIFICATION FairSpec
PROPERTIES NeverSweepsLive AbandonedGo
