SPECIFICATION Spec
CONSTANTS
  u1 = u1
  u2 = u2
  u3 = u3
  k1 = k1
  r1 = r1
  r2 = r2
  NoUser = NoUser
  NoClientId = NoClientId
  Users <- MCPair
  ClientIds <- MCClientIds
  Requests <- MCRequests
  SendKeys <- MCKeyed
  Clients <- MCPair
  Movers <- MCNobody
  Hiders <- MCNobody
  IsGroup = FALSE
  MaxSeq = 2
SYMMETRY MCPairSymmetry
INVARIANTS
  SentOnce
  SummaryCatchesUp
