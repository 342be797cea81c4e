SPECIFICATION Spec
CONSTANTS
  Handlers = {w1}
  Teams = {t1, t2}
  dyn = dyn
  fix = fix
  Challenges = {dyn, fix}
  Hints = {k1}
  Operations = {"submit", "unlock", "update_challenge", "delete_challenge", "delete_hint", "disqualify"}
  MayFail = FALSE
  InitParams <- MCInitParams
  InitPoints <- MCCheap
  InitRequires <- MCRequires
  NoChallenge = NoChallenge
  HintOf <- MCHintOf
  InitCost <- MCInitCost
  NewParams <- MCNewParams
  NewPoints = {}
  NewRequires = {NoChallenge}
  Keep = Keep
  NewCosts = {}
INVARIANT TypeOK
INVARIANT OneFirstBlood
INVARIANT DynamicPriceCurrent
INVARIANT DeletionsComplete
PROPERTY HintsKeepTeamsSolvent
