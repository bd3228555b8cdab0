SPECIFICATION Spec
CONSTANTS
  paired = paired
  static = static
  s1 = s1
  s2 = s2
  s3 = s3
  k1 = k1
  k2 = k2
  c1 = c1
  None = None
  Agent <- MCAgent
  Paired <- MCPaired
  Socket <- TwoSockets
  Key <- MCKey
  AgentOfKey <- MCAgentOfKey
  Command <- NoCommand
SYMMETRY Symmetry
INVARIANTS
  RegisteredAgentsAreLive
CHECK_DEADLOCK FALSE
