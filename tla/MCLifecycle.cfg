SPECIFICATION FairSpec
CONSTANTS
  MaxLives = 2
  MaxSignals = 2
  MaxFaults = 1
  Calls = {plain, traced}
  Tracked = {traced}
  Commands = {c1, c2}
  Offers = {o1}
  Caps = {good, better, bad}
  Blocking = {bad}
  None = None
  MaxCommands = 3
  MaxEdits = 1
  plain = plain
  traced = traced
CHECK_DEADLOCK FALSE
INVARIANTS StartsReachTheUser UpdatesAreOrderly
PROPERTIES LifecycleEnds
