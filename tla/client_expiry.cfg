\* A host that puts a mail off for ever; nothing fails.
SPECIFICATION FairSpec
CONSTANTS
  m1 = m1  m2 = m2
  Mails = {m1}
  NoMail = NoMail
  NoConn = NoConn
  RcptCount = 1
  LineCount = 1
  MaxConnect = 2
  MaxTroubles = 0
PROPERTIES GivenUpInTime
CHECK_DEADLOCK FALSE
