SPECIFICATION NumbersSpec
CONSTANTS
  MAXJOBS = 4
  Pids = {p1, p2, p3, p4, p5}
  MaxJid = 7
SYMMETRY Symmetry
INVARIANT JidsAreDistinctUntilWrapped
PROPERTY DeletingFreesTheNext
