------------------------------- MODULE Spool -------------------------------
(***************************************************************************)
(* The client directory: the place where the server leaves mails for other  *)
(* hosts and the client looks for them.  Nothing but the file system joins   *)
(* the two programs, and a file's name is all the client's master knows.     *)
(***************************************************************************)
EXTENDS MailWriter

CONSTANTS
  Mails,    \* the mails peers hand to the server
  Threads,  \* the tids of the server's workers, the same ones after a restart
  MaxN,     \* bound: mails one worker writes in one run of the server
  MaxSec,   \* bound: seconds that pass
  MaxEvents \* bound: seconds that pass, programs and processes killed or started again

ASSUME SpoolAssumption == MaxN \in Nat /\ MaxSec \in Nat /\ MaxEvents \in Nat

VARIABLES
  spool,  \* cfg.client_maildir: per name the mail and whether its text is all there
  now,    \* time(NULL)
  events  \* how many of these there were

Never == MaxSec + 1

\* "%s.%d.T%ldN%dM%ld": host and its type, thread, counter and second.
Name  == [dom : Domains \ LocalDomains, tid : Threads, n : 0 .. MaxN, sec : 0 .. MaxSec]
Entry == [mail : Mails, whole : BOOLEAN]

\* What get_addr reads from a name.  (It finds none if the host has one letter.)
get_addr(name) == name.dom

\* link(2) to a name that is free.
WithFile(name, entry) == [f \in DOMAIN spool \union {name} |->
                            IF f = name THEN entry ELSE spool[f]]

Event == events < MaxEvents /\ events' = events + 1

Tick(others) == Event /\ now < MaxSec /\ now' = now + 1 /\ UNCHANGED << spool, others >>
=============================================================================
