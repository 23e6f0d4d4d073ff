\* Every combination of three calls.
SPECIFICATION AccountsSpec
CONSTANTS
  e1 = e1
  e2 = e2
  n1 = n1
  n2 = n2
  p1 = p1
  p2 = p2
  g1 = g1
  r1 = r1
  r2 = r2
  r3 = r3
  old = old
  closed = closed
  None = None
  MaxTries = 3
  Requests <- MCRequests
  Emails <- MCEmails
  Names <- MCNames
  Phones <- MCPhones
  Uids <- MCUids
  EmailOf <- MCEmailOf
  Base <- MCBase
  Earlier <- old
  Closed0 <- closed
  Calls <- MCCalls
  Seeds <- MCSeeds
INVARIANTS
  SecretsOnce
  PhoneProven
  SocialLinked
  SessionsStart
PROPERTIES
  SignUpSucceeds
SYMMETRY Symmetric
CHECK_DEADLOCK FALSE
