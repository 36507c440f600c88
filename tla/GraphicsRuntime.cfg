SPECIFICATION GraphicsSpec
CONSTANTS
  k1 = k1
  k2 = k2
  FormulaKeys = {k1, k2}
  BaseRow <- MCBaseRow
  Scrolls = {0, 1}
  Rows = 3
  ClipTop = 0
  Protocols = {"kitty", "sixel"}
  ImageSize = 2
  ClearSize = 1
  maxFrameBytes = 5
  maxVisibleSlots = 2
  MaxEvents = 3
CHECK_DEADLOCK FALSE
INVARIANTS
    ShownWhenHidden
    NothingLeftBehind
    RequestNotLost
