SPECIFICATION PartsSpec
CONSTANTS
  None = None
  Sessions = {s1, s2}
  Docker = {s2}
  Pids = {1, 2}
  Ports = {3000}
  Other = Other
  MaxStarts = 1
  MaxRestarts = 1
  MaxOpens = 2
  MaxBytes = 2
  MaxChunks = 4
  MaxRequests = 2
  Prompts = {p1, p2}
  MaxMessages = 0
  MaxRepairs = 1
  Elements = {e1}
  Limit = 1
  MaxHandshakes = 2
  MaxConnects = 3
  MaxToggles = 1
  MaxLoads = 1
  MaxFaults = 3
  Unread = Unread
  Existing = p1
  Second = p2
  Handled = {p1}
  MaxReports = 1
  MaxEdits = 1
  Cursors = {c1, c2}
  MaxPages = 3
  FolderManifests = {None}
  Labels <- MCLabels
  MaxChildren = 1
  LinkedRepositories = {}
  Readers = {r1, r2}
  MaxChanges = 0
PROPERTIES
  PreviewsArrive
  WorkEnds
CHECK_DEADLOCK FALSE
