SPECIFICATION ServiceSpec
CONSTANTS
  Threads = {t1, t2}
  Requests = {q1}
  Relays = {r1, r2}
  Children = {c1, c2}
  Nobody = nobody
  MaxLive = 1
  MaxDeaths = 1
  MaxMisread = 1
INVARIANTS RequestNamesItsRelay FailedStartFreesItsIdentity OneStartPerRequest
SYMMETRY Symmetry
