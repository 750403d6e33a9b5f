SPECIFICATION Spec
CONSTANTS
  u1 = u1
  u2 = u2
  Users = {u1}
  Msgs = {m1}
  To <- MCTo
  Tokens = {t1, t2}
  TTL = 1
  Faulty = FALSE
INVARIANT RemovedIsFetched
