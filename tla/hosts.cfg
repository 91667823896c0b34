\* Five hosts and four places; one mail may wait for each of the middle hosts, and an
\* attempt be under way, and a reply in pieces, on one of them.
SPECIFICATION Spec
CONSTANTS
  m1 = m1
  Hosts <- MCHosts
  Mails = {m1}
  MaxSize = 4
  MaxQueue <- MCMaxQueue
  Busy = {3}
INVARIANTS StaleIsNext SearchTree
PROPERTIES ImplementsMap
\* The worker ends.
CHECK_DEADLOCK FALSE
