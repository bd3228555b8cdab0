SPECIFICATION LockSpec
CONSTANTS
  p1 = p1
  p2 = p2
  p3 = p3
  c1 = c1
  c2 = c2
  r1 = r1
  r2 = r2
  NoFlow = NoFlow
  NoEvent = NoEvent
  Prompts <- OnePrompt
  Closers <- OneCloser
  Reviews <- None
  MaxDrafts = 0
  MaxRepairs = 0
  MaxTimeouts = 0
  MaxCrashes = 2
  MaxDrops = 1
  MaxFaults = 2
INVARIANTS
  WorkspaceIsAsShown
PROPERTIES
  QueueAdvances
CHECK_DEADLOCK FALSE
