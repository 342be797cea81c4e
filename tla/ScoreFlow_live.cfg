SPECIFICATION FairSpec
CONSTANTS
  Handlers = {w1, w2}
  Teams = {t1, t2}
  dyn = dyn
  fix = fix
  Challenges = {dyn}
  Hints = {k1}
  Operations = {"submit", "unlock", "update_challenge", "delete_challenge", "delete_hint", "disqualify"}
  MayFail = FALSE
  InitParams <- MCInitParams
  InitPoints <- MCCheap
  InitRequires <- MCNoRequires
  NoChallenge = NoChallenge
  HintOf <- MCHintOf
  InitCost <- MCInitCost
  NewParams <- MCNoParams
  NewPoints = {2}
  NewRequires = {}
  Keep = Keep
  NewCosts = {}
INVARIANT NeverUnderpriced
INVARIANT FirstBloodAnnounced
PROPERTY ImplementsLedger
