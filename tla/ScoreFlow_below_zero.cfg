SPECIFICATION FairSpec
CONSTANTS
  Handlers = {w1, w2}
  Teams = {t1}
  dyn = dyn
  fix = fix
  Challenges = {dyn, fix}
  Hints = {k1, k2}
  Operations = {"submit", "unlock"}
  MayFail = FALSE
  InitParams <- MCInitParams
  InitPoints <- MCInitPoints
  InitRequires <- MCNoRequires
  NoChallenge = NoChallenge
  HintOf <- MCHintOf
  InitCost <- MCInitCost
  NewParams <- MCNoParams
  NewPoints = {}
  NewRequires = {}
  Keep = Keep
  NewCosts = {}
PROPERTY HintsKeepTeamsSolvent
