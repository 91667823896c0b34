------------------------------- MODULE HostMap -------------------------------
(***************************************************************************)
(* What host_vs_conn_map promises a worker (client/src/worker.c): a map from *)
(* the hosts with an open connection to their connections.  One host's mails *)
(* come and go without the others being touched, with one exception: when a  *)
(* host is closed, the next host in order may be spoilt, and no other.  Its   *)
(* half-received reply may be, and the attempt times of its first mail, which *)
(* may then expire at once, and take the mail behind it, or never.            *)
(***************************************************************************)
EXTENDS Naturals, Sequences

CONSTANTS Hosts, Mails

VARIABLES
  mails,  \* per open host: its mails that are not sent
  torn,   \* the hosts whose buffered bytes are spoilt
  lost    \* the hosts whose first mail has lost its attempt times

mapVars == << mails, torn, lost >>

Init == mails = << >> /\ torn = {} /\ lost = {}

\* A host is opened.
Open(h) ==
  /\ h \notin DOMAIN mails
  /\ mails' = [x \in DOMAIN mails \union {h} |-> IF x = h THEN << >> ELSE mails[x]]
  /\ UNCHANGED << torn, lost >>

\* A mail for a host, which is opened if it was not.
Add(h, m) ==
  /\ mails' = [x \in DOMAIN mails \union {h} |->
                 IF x \notin DOMAIN mails THEN << m >>
                 ELSE IF x = h THEN Append(mails[x], m) ELSE mails[x]]
  /\ UNCHANGED << torn, lost >>

\* The host's connection makes a step: its first mail may be done with, and its times
\* with it; a spoilt reply may be over.
Serve(h) ==
  /\ h \in DOMAIN mails
  /\ \/ mails' = mails /\ lost' \in {lost, lost \ {h}}
     \/ mails[h] # << >> /\ mails' = [mails EXCEPT ![h] = Tail(@)] /\ lost' = lost \ {h}
  /\ torn' \in {torn, torn \ {h}}

Next_(h) == {x \in DOMAIN mails : x > h /\ \A y \in DOMAIN mails : y > h => y >= x}

\* The host's connection is over.
Close(h) ==
  /\ h \in DOMAIN mails
  /\ mails' = [x \in DOMAIN mails \ {h} |-> mails[x]]
  /\ torn' \in {torn \ {h}, (torn \ {h}) \union Next_(h)}
  /\ lost' \in {lost \ {h}, (lost \ {h}) \union Next_(h)}

Next ==
  \E h \in Hosts : Open(h) \/ Serve(h) \/ Close(h) \/ \E m \in Mails : Add(h, m)

Spec == Init /\ [][Next]_mapVars
=============================================================================
