SPECIFICATION Spec
CONSTANTS
  alice = alice
  bob = bob
  Users = {alice, bob}
  Careful = {alice}
  Sealing = {bob}
  Batch = {0, 1}
  Ttl = 0
  None = None
  Installs <- MCInstalls
  MaxSessions = 2
  MaxMail = 3
  MaxRestarts = 1
  MaxNow = 1
CHECK_DEADLOCK FALSE
INVARIANTS TypeOK PrekeyOnce OnlyARefusalRepins UnreadableForCause
PROPERTIES NeverRepinned
