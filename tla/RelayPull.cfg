SPECIFICATION FairSpec
CONSTANTS
  u1 = u1
  u2 = u2
  Users = {u1, u2}
  Msgs = {m1, m2}
  To <- MCTo
  Tokens = {t1, t2}
  TTL = 1
  Faulty = TRUE
INVARIANTS TypeOK NoneForgotten OneCustodian
PROPERTIES ImplementsMailbox Fetched
