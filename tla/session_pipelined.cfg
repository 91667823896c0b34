\* A peer that sends anything at any time.
SPECIFICATION Spec
SYMMETRY Symmetry
CONSTANTS
  b1 = b1  b2 = b2  local = local  remote = remote  s1 = s1  s2 = s2
  Boxes = {b1}
  Domains = {remote}
  LocalDomains = {}
  Blank = Blank
  Senders = {s1}
  NoSender = NoSender
  NoArg = NoArg
  MaxRcpt = 2
  Vocabulary = {"EHLO", "HELO", "MAIL", "RCPT", "DATA", "TEXT", "DOT", "RSET", "QUIT", "VRFY", "ONE"}
  TextKinds = {"TEXT"}
  Pipelining = TRUE
  MaxInbox = 2
  MaxText = 1
  MaxMails = 1
  NoLine = NoLine
INVARIANTS TypeOK WaitingIsPending ReceiversFit
PROPERTIES NothingRunsBehindAReply KeepsPromise
