\* Two neighbours closed in one pass.
SPECIFICATION Spec
SYMMETRY Symmetry
CONSTANTS
  k1 = k1  k2 = k2  k3 = k3
  Conns = {k1, k2, k3}
  NoFd = NoFd
  Faulty = {}
  Watched = k1
  MaxSize = 2
  MaxQueue = 2
INVARIANTS NoCrash
