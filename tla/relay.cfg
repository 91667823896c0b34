\* Two mails, two names for the client; server and client may be killed and started again.
SPECIFICATION FairSpec
CONSTANTS
  m1 = m1  m2 = m2  b1 = b1  b2 = b2  home = home  far = far  t1 = t1
  Mails = {m1, m2}
  NoMail = NoMail
  Boxes = {b1, b2}
  Domains = {home, far}
  LocalDomains = {home}
  Blank = Blank
  Threads = {t1}
  To <- MCTo
  MaxN = 1
  MaxSec = 1
  MaxEvents = 1
  WorkerCount = 2
  MinInterval = 0
  BufSize = 3
  Pieces = 2
  MaxTree = 1
  MaxWaiting = 2
INVARIANTS WholeFiles ConfirmedIsStored LoadedOnce
PROPERTIES NamesInOrder HostStays ClientStops Relayed
\* The client ends.
CHECK_DEADLOCK FALSE
