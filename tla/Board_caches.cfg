SPECIFICATION Spec
CONSTANTS
  Workers = {w1, w2}
  Operations = {"submit_flag", "create_challenge", "update_challenge", "delete_challenge", "delete_hint", "delete_spare", "disqualify", "freeze", "start", "get_scoreboard", "list_challenges"}
  Parts = {"scores", "rows"}
  MayFail = TRUE
  NoCopy = NoCopy
SYMMETRY Symmetry
INVARIANT TypeOK
INVARIANT CachesFresh
INVARIANT OwnChangeSent
INVARIANT FreezeRespected
