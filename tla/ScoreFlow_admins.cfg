SPECIFICATION Spec
CONSTANTS
  Handlers = {w1, w2}
  Teams = {t1}
  dyn = dyn
  fix = fix
  Challenges = {dyn}
  Hints = {k1}
  Operations = {"submit", "unlock", "update_challenge", "delete_challenge", "update_hint", "delete_hint", "disqualify"}
  MayFail = TRUE
  InitParams <- MCInitParams
  InitPoints <- MCInitPoints
  InitRequires <- MCNoRequires
  NoChallenge = NoChallenge
  HintOf <- MCHintOf
  InitCost <- MCInitCost
  NewParams <- MCUndecay
  NewPoints = {}
  NewRequires = {}
  Keep = Keep
  NewCosts = {1}
SYMMETRY Symmetry
INVARIANT ScoresSettled
INVARIANT ChargedOnce
