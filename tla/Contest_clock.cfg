SPECIFICATION Spec
CONSTANTS
  Workers = {w1, w2}
  Teams = {t1, t2, t3}
  Challenges = {c1}
  Params <- MCDynamicParams
  HintCost = 1
  Operations = {"submit", "unlock", "test", "start", "end", "freeze"}
  Never = Never
  ConfigStart = 1
  ConfigEnd = 2
  FreezeBefore = 1
  MaxTime = 2
  MaxEntries = 2
SYMMETRY Symmetry
INVARIANT TypeOK
INVARIANT NothingScoresOutside
INVARIANT RanksAreStandings
PROPERTY FreezeNeverMovesLater
PROPERTY FrozenViewsSettle
