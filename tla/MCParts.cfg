SPECIFICATION PartsSpec
CONSTANTS
  paired = paired
  static = static
  s1 = s1
  s2 = s2
  s3 = s3
  k1 = k1
  k2 = k2
  c1 = c1
  None = None
  Agent <- MCAgent
  Paired <- MCPaired
  Socket <- TwoSockets
  Key <- MCKey
  AgentOfKey <- MCAgentOfKey
  Command <- OneCommand
  Handler <- TwoSockets
  Starts = {a1}
  Owner = Owner
  Pm = Pm
  Stranger = Stranger
  Repos = {g1, g2}
  Repo = g1
  Models = {m1, m2}
  CreatedModel = m1
  Developers = {d1, d2}
  Creations = {n1, n2}
  Shares = {h1, h2}
  Tabs <- TwoSockets
  Pages = {p1}
  MaxStates = 3
  Captures <- TwoSockets
  Prompts = {p1}
  Images <- TwoSockets
  MaxComparisons = 1
  MaxCaptures = 2
  MaxDecoders = 1
  MaxFaults = 1
  Queries = {q1, q2}
  Messages = q1
  Reports = {r1}
  Others = {o1}
  MaxNotices = 1
  MaxMounts = 1
  Requests <- TwoSockets
  MaxSeconds = 2
  MaxChanges = 2
  MaxLosses = 1
  Setups <- MCSetups
  Handoffs = {"k1"}
  Comparisons = {u1, u2}
  MaxPosts = 2
  Paths = {"plain", "quoted", "secret"}
  Quoted = {"quoted"}
  Sensitive = {"secret"}
  MaxContent = 2
  MaxRepairs = 1
  Texts = {x, y}
  MaxEntries = 3
  MaxTime = 2
  MaxEdits = 2
  Sessions = {e1, e2}
  Docker = {e2}
  Pids = {1, 2}
  Ports = {3000}
  Other = Other
  MaxStarts = 1
  MaxRestarts = 1
  MaxOpens = 2
  MaxBytes = 2
  MaxChunks = 4
  MaxRequests = 2
  CacheRuntimes = {r1, r2}
  LockVersions = {1, 2}
  MaxMessages = 1
  Elements = {e1}
  Limit = 1
  MaxHandshakes = 2
  MaxConnects = 3
  MaxToggles = 2
  MaxLoads = 2
  Unread = Unread
  Older = Older
  Newer = Newer
  MaxReports = 1
  Cursors = {c1, c2}
  MaxPages = 3
  FolderManifests = {None, "docker", "blank", "public", "loopback", "credentials"}
  Labels <- MCLabels
  MaxChildren = 1
  LinkedRepositories = {p1}
  Readers <- TwoSockets
CONSTRAINTS RowBound ChangesBound
SYMMETRY Symmetry
INVARIANTS
  GatewayIsSound
  RowsSurviveInterleaving
  StartsMatchThePolicy
  ProjectWritesSurvive
  SignInsLoseNobody
  UploadsAreAllOrNothing
  PageMissesNothing
  PullRequestsAreFollowed
  ChoicesStayConsistent
  ComposerKeepsTheUsersWork
  SecretsStayLocal
  ConversationIsWhole
  SettingsAgreeWithTheMachine
  ProcessesAreThePreviews
  TunnelsAreAccountedFor
  PagesPassWhole
  VolumesFitTheirSessions
  TurnsAreKeptApart
  SelectionFollowsThePage
  CompanionsFollowTheirPreview
  NewestResultIsShown
  CommandsAreContained
  SavedProjectsStayReady
  ChecksReportWhatRan
  WindowFollowsTheManager
PROPERTIES
  AcceptsFromConnectedAgent
  WhatWasToldStands
CHECK_DEADLOCK FALSE
