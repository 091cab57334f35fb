SPECIFICATION ResponsiveSpec
CONSTANTS
  c1 = c1
  c2 = c2
  c3 = c3
  Conn = {c1, c2, c3}
  TimeoutEnabled = TRUE
  Installable <- MCInstallable
INVARIANTS TypeOK SessionsTracked SeveredOutstayed DrainComplete ShutdownWasAsked
PROPERTIES StopTerminates KeepsPromise
