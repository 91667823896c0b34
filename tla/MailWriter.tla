---------------------------- MODULE MailWriter ----------------------------
(***************************************************************************)
(* What write_mail (server/src/mail_writer.c) does with the receivers of    *)
(* one mail.  The mail is written once to a temporary file whose            *)
(* X-mysmtp-to header lists every receiver; the file is then linked into    *)
(* the maildir of each local receiver and once into the client directory   *)
(* for each remote domain.  Receivers whose domain was already served get   *)
(* their domain cleaned, in place: the array belongs to the session.        *)
(***************************************************************************)
EXTENDS Naturals, Sequences

CONSTANTS
  Boxes,        \* local parts of the addresses
  Domains,      \* domain parts of the addresses
  LocalDomains, \* the domains for which is_to_local answers 1: the server's
                \* own domain and, the comparison being memcmp over the length
                \* of the receiver's domain, every prefix of it
  Blank         \* a domain emptied by msg_clean

ASSUME DomainAssumption == /\ LocalDomains \subseteq Domains
                           /\ Blank \notin Domains

\* An address as the peer names it, and an entry of the array client->to.
Address  == [box : Boxes, dom : Domains]
Receiver == [box : Boxes, dom : Domains \union {Blank}]

is_to_local(dom) == dom \in LocalDomains

\* The loop's inner test: an earlier receiver of the same remote domain has
\* already had its link created, so entry i is skipped.
Served(to, i) ==
  /\ ~ is_to_local(to[i].dom)
  /\ \E j \in 1 .. (i - 1) : to[j].dom = to[i].dom

\* The entries of the array create_link_to_file is called for.
Linked(to) == { i \in DOMAIN to : to[i].dom # Blank /\ ~ Served(to, i) }

\* The array write_mail leaves behind.
Cleaned(to) ==
  [ i \in DOMAIN to |->
      IF to[i].dom # Blank /\ Served(to, i) THEN [to[i] EXCEPT !.dom = Blank]
                                             ELSE to[i] ]

\* The links made: one per local mailbox (its name is the same for every
\* receiver, so a second link to the same mailbox fails and is ignored), one
\* per remote domain.
Links(to) ==
  { IF is_to_local(to[i].dom)
      THEN [kind |-> "local",  name |-> to[i].box]
      ELSE [kind |-> "remote", name |-> to[i].dom] : i \in Linked(to) }

\* The addresses a mail with header `to` reaches through a set of links: a local
\* mailbox directly; a remote domain's file is sent by the client to the header's
\* receivers of that domain.
Reached(to, links) ==
  { a \in { to[i] : i \in DOMAIN to } :
      /\ a.dom # Blank
      /\ IF is_to_local(a.dom)
           THEN [kind |-> "local",  name |-> a.box] \in links
           ELSE [kind |-> "remote", name |-> a.dom] \in links }
=============================================================================
