----------------------------- MODULE MailFiles -----------------------------
(***************************************************************************)
(* write_mail (server/src/mail_writer.c) step by step, in the workers of a   *)
(* server that may be killed at any point and started again: the temporary   *)
(* file, its links, the counter that makes names unique, and the 250 that     *)
(* follows.  A peer that got no 250 sends its mail again.                     *)
(***************************************************************************)
EXTENDS Spool

CONSTANTS
  To,       \* the receivers of each mail, in the order they were named
  NoMail

ASSUME FilesAssumption ==
  /\ To \in [Mails -> Seq(Address)]
  /\ NoMail \notin Mails

VARIABLES
  step,    \* per thread: "idle", "text" or "link"
  mail,    \* per thread: the mail it writes
  tmp,     \* per thread: its temporary file: "none", "partial" or "full"
  at,      \* per thread: the receiver its loop is at
  N,       \* per thread: server_info.N
  boot,    \* the second it was started again in, Never if it was not
  acked,   \* the mails confirmed with 250
  owed     \* per mail: the links it should have and has not, but for a
           \* failure that excuses it (history)

serverVars == << step, mail, tmp, at, N, boot, acked, owed >>

ServerInit ==
  /\ step = [t \in Threads |-> "idle"] /\ mail = [t \in Threads |-> NoMail]
  /\ tmp = [t \in Threads |-> "none"]
  /\ at = [t \in Threads |-> 1] /\ N = [t \in Threads |-> 0]
  /\ boot = Never /\ acked = {} /\ owed = [m \in Mails |-> {}]

LinkOf(r) == IF is_to_local(r.dom) THEN [kind |-> "local",  name |-> r.box]
                                   ELSE [kind |-> "remote", name |-> r.dom]

generate_for_client_file_name(t, dom) == [dom |-> dom, tid |-> t, n |-> N[t], sec |-> now]

----------------------------------------------------------------------------
\* A message's text has ended: client_data_end_process calls write_mail.
Called(t, m) == /\ step[t] = "idle" /\ m \notin acked /\ N[t] <= MaxN
                /\ \A u \in Threads : mail[u] # m

\* Mutated: the links are made before the text is written.
fopen_hasty(t, m) ==
  /\ Called(t, m)
  /\ step' = [step EXCEPT ![t] = "link"] /\ mail' = [mail EXCEPT ![t] = m]
  /\ tmp' = [tmp EXCEPT ![t] = "partial"] /\ at' = [at EXCEPT ![t] = 1]
  /\ owed' = [owed EXCEPT ![m] = Links(To[m])]
  /\ UNCHANGED << spool, now, events, N, boot, acked >>

\* fopen creates the temporary file.
fopen(t, m) ==
  /\ Called(t, m)
  /\ step' = [step EXCEPT ![t] = "text"] /\ mail' = [mail EXCEPT ![t] = m]
  /\ tmp' = [tmp EXCEPT ![t] = "partial"] /\ at' = [at EXCEPT ![t] = 1]
  /\ owed' = [owed EXCEPT ![m] = Links(To[m])]
  /\ UNCHANGED << spool, now, events, N, boot, acked >>

\* fopen fails: write_mail returns CE_COMMON, and the caller confirms the mail.
FopenFails(t, m) ==
  /\ Called(t, m)
  /\ owed' = [owed EXCEPT ![m] = {}]
  /\ acked' = acked \union {m}
  /\ UNCHANGED << spool, now, events, step, mail, tmp, at, N, boot >>

\* Header and text are written and the file is closed.
fclose(t) ==
  /\ step[t] = "text"
  /\ step' = [step EXCEPT ![t] = "link"] /\ tmp' = [tmp EXCEPT ![t] = "full"]
  /\ UNCHANGED << spool, now, events, mail, at, N, boot, acked, owed >>

Linking(t) == step[t] = "link" /\ at[t] <= Len(To[mail[t]])

Settle(m, link) == owed' = [owed EXCEPT ![m] = @ \ {link}]

\* The receiver's domain was cleaned: an earlier one of the host has the link.
SkipReceiver(t) ==
  /\ Linking(t) /\ Served(To[mail[t]], at[t])
  /\ at' = [at EXCEPT ![t] = @ + 1]
  /\ UNCHANGED << spool, now, events, step, mail, tmp, N, boot, acked, owed >>

\* create_link_to_file into a maildir.  It may not exist: link fails, and its
\* result is ignored.
LinkLocal(t) ==
  LET r == To[mail[t]][at[t]] IN
  /\ Linking(t) /\ is_to_local(r.dom)
  /\ Settle(mail[t], LinkOf(r))
  /\ at' = [at EXCEPT ![t] = @ + 1]
  /\ UNCHANGED << spool, now, events, step, mail, tmp, N, boot, acked >>

\* create_link_to_file into the client directory.  A name that is there already
\* makes link fail; excused if the server was started again in this very second,
\* for then the name may be its predecessor's.
LinkRemote(t) ==
  LET r == To[mail[t]][at[t]]
      f == generate_for_client_file_name(t, r.dom) IN
  /\ Linking(t) /\ ~ Served(To[mail[t]], at[t]) /\ ~ is_to_local(r.dom)
  /\ IF f \in DOMAIN spool
       THEN /\ UNCHANGED spool
            /\ IF boot = now THEN Settle(mail[t], LinkOf(r)) ELSE UNCHANGED owed
       ELSE /\ spool' = WithFile(f, [mail |-> mail[t], whole |-> tmp[t] = "full"])
            /\ Settle(mail[t], LinkOf(r))
  /\ at' = [at EXCEPT ![t] = @ + 1]
  /\ UNCHANGED << now, events, step, mail, tmp, N, boot, acked >>

\* Mutated: the counter stays.
Finish_no_count(t) ==
  /\ step[t] = "link" /\ at[t] > Len(To[mail[t]])
  /\ acked' = acked \union {mail[t]}
  /\ step' = [step EXCEPT ![t] = "idle"] /\ mail' = [mail EXCEPT ![t] = NoMail]
  /\ tmp' = [tmp EXCEPT ![t] = "none"] /\ at' = [at EXCEPT ![t] = 1]
  /\ UNCHANGED << spool, now, events, N, boot, owed >>

\* The counter goes up, the temporary file is removed, write_mail returns and the
\* reply is set.
Finish(t) ==
  /\ step[t] = "link" /\ at[t] > Len(To[mail[t]])
  /\ N' = [N EXCEPT ![t] = @ + 1]
  /\ acked' = acked \union {mail[t]}
  /\ step' = [step EXCEPT ![t] = "idle"] /\ mail' = [mail EXCEPT ![t] = NoMail]
  /\ tmp' = [tmp EXCEPT ![t] = "none"] /\ at' = [at EXCEPT ![t] = 1]
  /\ UNCHANGED << spool, now, events, boot, owed >>

\* The server is killed and started again: the counters begin anew, the links stay,
\* temporary files stay behind under names nobody looks for.
Reboot ==
  /\ Event
  /\ boot' = now
  /\ step' = [t \in Threads |-> "idle"] /\ mail' = [t \in Threads |-> NoMail]
  /\ tmp' = [t \in Threads |-> "none"]
  /\ at' = [t \in Threads |-> 1] /\ N' = [t \in Threads |-> 0]
  /\ UNCHANGED << spool, now, acked, owed >>

ThreadStep(t) == \/ \E m \in Mails : fopen(t, m) \/ FopenFails(t, m)
                 \/ fclose(t) \/ SkipReceiver(t) \/ LinkRemote(t)
                 \/ LinkLocal(t) \/ Finish(t)

ServerNext == (\E t \in Threads : ThreadStep(t)) \/ Reboot

----------------------------------------------------------------------------
\* Every file in the client directory is all there, also while write_mail is at
\* work and after the server was killed: the links are made once the temporary
\* file is closed.
WholeFiles == \A f \in DOMAIN spool : spool[f].whole

\* A mail confirmed with 250 has a link for every mailbox and host it is for.  The
\* exceptions: fopen failed, a maildir is missing, or a server started again gave a
\* name its predecessor had given in the same second.  In one run of the server no
\* name is given twice.
ConfirmedIsStored == \A m \in acked : owed[m] = {}
=============================================================================
