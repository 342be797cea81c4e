SPECIFICATION Spec
CONSTANTS
  FLAG = FLAG
  flag = flag
  Server = server
  Tools = {import}
  Handlers = {h1}
  Texts <- MCTexts
  Lower <- MCLower
  Requests <- MCRequests
  Authored <- MCAuthored
  Keys = {k1, k2, k3}
  Salts = {1, 2, 3, 4}
  MaxStops = 1
  None = None
INVARIANT TypeOK
INVARIANT FlagsHold
INVARIANT CopiesReadable
PROPERTY StartsSucceed
