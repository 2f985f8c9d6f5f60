SPECIFICATION MCSpec
CONSTANTS
  Slots = {s1, s2}
  PageSize = 1
  JumpBack = 1
  MaxId = 4
  MaxText = 1
  MaxClicks = 4
  Chats = {1, 2, 3}
  OwnerOf <- MCOwner
  InFolder = {2}
  PerPage = 1
  MaxPage = 2
  Posts = {p1}
  MaxNews = 1
  MaxTaps = 4
INVARIANTS  ListSafe
SYMMETRY Symmetry
CHECK_DEADLOCK FALSE
