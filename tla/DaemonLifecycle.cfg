\* Either daemon, three signals, and four starts, one process after the other, or two
\* that may be up together.
CONSTANTS
  Daemons = {d1, d2, d3, d4}
  Programs = {"clacksidd", "clacksd"}
  Overlaps = {TRUE, FALSE}
  MaxOverlapping = 2
  MaxSignals = 3
  NoOne = NoOne
SPECIFICATION FairSpec
INVARIANTS
  TypeOK
  ServerIsReachable
  PidFileNamesServer
  LeftoverCostsOneStart
  LifeInv
PROPERTIES
  TermIsHonoured
  StartsOrGoes
