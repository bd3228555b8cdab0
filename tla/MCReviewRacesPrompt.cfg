SPECIFICATION Spec
CONSTANTS
  p1 = p1
  p2 = p2
  p3 = p3
  c1 = c1
  c2 = c2
  r1 = r1
  r2 = r2
  NoFlow = NoFlow
  NoEvent = NoEvent
  Prompts <- TwoPrompts
  Closers <- None
  Reviews <- OneReview
  MaxDrafts = 2
  MaxRepairs = 0
  MaxTimeouts = 0
  MaxCrashes = 0
  MaxDrops = 0
  MaxFaults = 2
INVARIANTS
  PullRequestIsValidated
CHECK_DEADLOCK FALSE
