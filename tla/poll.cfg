\* Two connections on one worker: the arrays stay in order, replies are sent, queued
\* connections are taken up, and every connection behaves as Connection says.
SPECIFICATION FairSpec
CONSTANTS
  k1 = k1  k2 = k2  k3 = k3
  Conns = {k1, k2}
  NoFd = NoFd
  Faulty = {k2}
  Watched = k2
  MaxSize = 2
  MaxQueue = 1
INVARIANTS TypeOK Paired PolledForReply
PROPERTIES HeldOnce RepliesSent TakenUp ServesConnection
