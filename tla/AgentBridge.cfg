\* Two agents with the same id compete with a joiner for two free seats.
SPECIFICATION FairSpec
CONSTANTS
  s1 = s1
  s2 = s2
  claude = claude
  claude2 = claude2
  NoPeer = NoPeer
  Admin = admin
  Joiners = {bob}
  AgentPeers <- MCAgentPeers
  MaxMembers = 3
  EventCap = 1
  MaxRequests = 1
  Sessions = {s1, s2}
  LineKinds <- MCLineKinds
  OutboundCap = 1
  InboxCap = 1
  MaxInbox <- MCMaxInbox
  Closing = {s2}
  Vanishing = {s1}
INVARIANTS
  TypeOK
  OneSeatEach
  EventsTellMembers
  ForwardedInOrder
  NoGhostAgent
PROPERTY
  DepartedAgentLeaves
CHECK_DEADLOCK FALSE
