SPECIFICATION HubSpec
CONSTANTS
  Senders = {w1, w2}
  Conns = {k1, k2}
  Capacity = 1
  MaxBoard = 2
  MaxNotices = 1
INVARIANT HubTypeOK
PROPERTY LastBoardShown
PROPERTY ForwardersEnd
