SPECIFICATION Spec
CONSTANTS
  Workers = {w1, w2}
  People = {p1, p2}
  Teams = {t1}
  MaxTeamSize = 1
  Open = TRUE
  Mixes = {{"register", "create_user", "login", "create_team", "join_team", "update_user_team"},
           {"register", "login", "change_password", "ban_user", "update_user_role", "update_user_password"}}
  MayFail = TRUE
  MaxVersion = 1
  MaxSessions = 1
  NoTeam = NoTeam
  NoOne = NoOne
SYMMETRY Symmetry
INVARIANT TypeOK
PROPERTY SeatsWereFree
PROPERTY LastAdminStays
INVARIANT SessionsCurrent
