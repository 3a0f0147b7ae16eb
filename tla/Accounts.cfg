\* One account with an address in two spellings, one key, a token of two ticks, a link of one.
SPECIFICATION Spec
CONSTANTS
  User = {u1}
  Key = {k1}
  Request = {q1}
  Worker = {w1, w2}
  Address <- MCAddress
  Lower <- MCLower
  Ann = Ann
  ann = ann
  Password = {p1, p2}
  None = None
  TokenLife = 2
  LinkLife = 1
  QueueCap = 1
  MaxTime = 2
  MaxTokens = 2
  MaxMails = 2
INVARIANT
  PlanIsRecent
PROPERTIES
  ChangesFollowForgot
  MailGoesOn
CHECK_DEADLOCK FALSE
