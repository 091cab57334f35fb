SPECIFICATION Spec
CONSTANTS
  r1 = r1
  noLength = noLength
  plain = plain
  create = create
  blocked = blocked
  malformed = malformed
  ok = ok
  bad = bad
  Request = {r1}
  NoLength = noLength
  MaxBodyBytes = 3
  TimeoutEnabled = TRUE
  Heads <- MCHeads
  HeadRule <- MCHeadRule
  Byte <- MCByte
  Frame <- MCFrame
  SafeBody <- MCSafeBody
  Length <- MCLength
INVARIANTS OverrunIs413
