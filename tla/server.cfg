SPECIFICATION ServerSpec
CONSTANTS
  r1 = r1
  r2 = r2
  c1 = c1
  c2 = c2
  noLength = noLength
  plain = plain
  create = create
  blocked = blocked
  ok = ok
  bad = bad
  Request = {r1, r2}
  Conn = {c1, c2}
  NoLength = noLength
  MaxBodyBytes = 1
  TimeoutEnabled = TRUE
  Heads = {plain, create, blocked}
  Byte = {ok, bad}
  Length = {2}
  HeadRule <- MCHeadRule
  Frame <- MCFrame
  SafeBody <- MCSafeBody
  Installable <- MCInstallable
SYMMETRY MCSymmetry
INVARIANTS CountersAgree AnswerJustified SessionsAuthorised NoneForgotten
PROPERTIES NothingAfterTheAnswer NothingWhileDraining
