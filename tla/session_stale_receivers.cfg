\* The second mail also goes to the receivers of the first.
SPECIFICATION Spec
SYMMETRY Symmetry
CONSTANTS
  b1 = b1  b2 = b2  local = local  remote = remote  s1 = s1  s2 = s2
  Boxes = {b1, b2}
  Domains = {local, remote}
  LocalDomains = {local}
  Blank = Blank
  Senders = {s1, s2}
  NoSender = NoSender
  NoArg = NoArg
  MaxRcpt = 2
  Vocabulary = {"EHLO", "HELO", "MAIL", "RCPT", "DATA", "TEXT", "DOT", "RSET", "QUIT", "VRFY"}
  TextKinds = {"TEXT", "QUIT"}
  Pipelining = FALSE
  MaxInbox = 2
  MaxText = 1
  MaxMails = 2
  NoLine = NoLine
PROPERTIES NoStaleReceivers
