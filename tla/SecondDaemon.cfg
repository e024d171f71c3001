\* Three processes of either daemon, and nobody sends a signal.
CONSTANTS
  Daemons = {d1, d2, d3}
  Programs = {"clacksidd", "clacksd"}
  Overlaps = {TRUE}
  MaxOverlapping = 3
  MaxSignals = 0
  NoOne = NoOne
SPECIFICATION Spec
INVARIANT OnlyOneServes
