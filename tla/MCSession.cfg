SPECIFICATION FairSpec
CONSTANTS
  Runner = Runner
  Heart = Heart
  u1 = u1
  Callers = {u1}
  MaxDials = 2
  QueueBound = 2
INVARIANTS
  TypeOK
  InboxReadable
  LoginReadable
  AuthenticatedByServer
  SecretsKeyed
  NegotiationHeld
PROPERTIES
  FirstNegotiates
