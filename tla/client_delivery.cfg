\* Two mails to one host over an unreliable network.
SPECIFICATION RelentingSpec
CONSTANTS
  m1 = m1  m2 = m2
  Mails = {m1, m2}
  NoMail = NoMail
  NoConn = NoConn
  RcptCount = 2
  LineCount = 1
  MaxConnect = 2
  MaxTroubles = 1
INVARIANTS TypeOK InStep HeadInHand ExitsForCause DeliveredOnce ParkedForCause
PROPERTIES DeliveredWhole LeavesForCause Settled
\* exit() ends the worker.
CHECK_DEADLOCK FALSE
