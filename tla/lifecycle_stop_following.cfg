SPECIFICATION FairSpec
CONSTANTS
  c1 = c1
  c2 = c2
  c3 = c3
  Conn = {c1, c2}
  TimeoutEnabled = FALSE
  Installable <- MCInstallable
PROPERTIES StopTerminates
