\* A mail joins the connection while QUIT is on its way; nothing fails.
SPECIFICATION Spec
CONSTANTS
  m1 = m1  m2 = m2
  Mails = {m1, m2}
  NoMail = NoMail
  NoConn = NoConn
  RcptCount = 1
  LineCount = 1
  MaxConnect = 2
  MaxTroubles = 0
PROPERTIES QuitLeavesNothing
CHECK_DEADLOCK FALSE
