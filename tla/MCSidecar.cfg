SPECIFICATION FairSpec
CONSTANTS
  None = None
  Threads = {t1, t2}
  Texts <- MCTexts
  PickRequests <- MCPickRequests
  Norm <- MCNorm
  Cosine <- MCCosine
  One <- MCOne
INVARIANTS TypeOK NeverKeyError CacheIsFaithful PicksTheBest
PROPERTY EveryPickAnswered
