SPECIFICATION FairSpec
CONSTANTS
  p1 = p1
  p2 = p2
  p3 = p3
  c1 = c1
  c2 = c2
  r1 = r1
  r2 = r2
  NoFlow = NoFlow
  NoEvent = NoEvent
  Prompts <- TwoPrompts
  Closers <- None
  Reviews <- OneReview
  MaxDrafts = 1
  MaxRepairs = 1
  MaxTimeouts = 1
  MaxCrashes = 1
  MaxDrops = 1
  MaxFaults = 2
INVARIANTS
  PullRequestIsValidated
PROPERTIES
  RunningEnds
CONSTRAINTS
  ReviewOrRace
CHECK_DEADLOCK FALSE
