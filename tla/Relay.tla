------------------------------- MODULE Relay -------------------------------
(***************************************************************************)
(* The way of a mail to another host: the server writes it to the client     *)
(* directory (MailFiles) while the client's processes scan the directory,     *)
(* load and remove files (Dispatch).  Each program may be killed and started  *)
(* again while the other goes on.                                             *)
(***************************************************************************)
EXTENDS MailFiles, Dispatch

vars == << spool, now, events, serverVars, clientVars >>

Init == /\ spool = << >> /\ now = 0 /\ events = 0
        /\ ServerInit /\ ClientInit

Next == \/ ServerNext /\ UNCHANGED clientVars
        \/ ClientNext /\ UNCHANGED serverVars
        \/ Tick(<< serverVars, clientVars >>)

Spec == Init /\ [][Next]_vars

\* The client's processes go on running: the master sleeps five seconds a round, a
\* worker's select has a timeout and connect gives up in the end.  Nothing is
\* assumed of the server, of signals or of the clock.
FairSpec == /\ Spec
            /\ WF_vars(MasterStep /\ UNCHANGED serverVars)
            /\ \A w \in Workers : WF_vars(WorkerStep(w) /\ UNCHANGED serverVars)

----------------------------------------------------------------------------
\* Properties.

\* A file is loaded by one worker only of the client that runs: the master sends a
\* name once, even if its file is still there at the next scans.  That is so of the
\* names it could remember, which are all of them until sended_files is full; the rest
\* it sends again.  A worker that a former client left behind is not counted.
LoadedOnce ==
  \A a, b \in loads :
    a.name = b.name /\ (a.name \in sended_files \/ ~ Full(sended_files)) => a = b

\* What a worker has still to do: the messages it has read, what its buffer and its
\* pipe give when they are read, and what the master has queued for it.
Way(w) == messages_out[w] \o Parsed(buffer_out[w] \o pipe[w])
            \o [k \in DOMAIN messages_in[w] |-> Text(messages_in[w][k])]

\* First in, first out, from the master's queue through the pipe to the worker: a new
\* name comes last, the first one leaves when its file is removed, and wherever the
\* reads cut the names nothing else is lost, changed or moved (select_step,
\* fill_messages_out).  Names are dropped with the pipe of a worker whose buffer was
\* overrun, and with the processes when the client is started again.
NamesInOrder ==
  [][\A w \in Workers :
       \/ Way(w)' = Way(w)
       \/ \E f \in todo : Way(w)' = Append(Way(w), Text(f))
       \/ wpc[w] = "remove" /\ Way(w)' = Tail(Way(w))
       \/ fd_open[w] /\ ~ fd_open'[w]
       \/ mpc \in {"ended", "dead"} /\ mpc' = "scan"]_vars

\* The names of a host go to one worker, and to another one only when more than
\* the configured interval has passed since the first of them (pick_worker), unless the
\* map was full when the host was first seen: such a host has no entry.
HostStays ==
  [][\A d \in DOMAIN first :
       d \in DOMAIN first' /\ first'[d].worker # first[d].worker
         => \/ first'[d].since - first[d].since > MinInterval
            \/ d \notin DOMAIN addr_vs_worker /\ Full(DOMAIN addr_vs_worker)]_vars

\* Once every process of the client has been signalled all of them end: no worker
\* waits for the master, and the master's waitpid returns.  (A client whose master is
\* dead may have been started again before its last worker has ended.)
ClientStops == stopped ~> Gone \/ ~ stopped

\* A file in the directory is loaded and removed in the end, also one that a former
\* client had been told of.  What can prevent it: a process that was stopped or
\* died, the undefined behaviours that end the master or close a pipe, and a server
\* that was started again in the second of the name: the name may have been sent
\* before.
Relayed ==
  \A f \in Name :
    f \in DOMAIN spool ~>
      \/ f \notin DOMAIN spool \/ boot = f.sec
      \/ stopped \/ mpc = "dead"
      \/ \E w \in Workers : wpc[w] = "ended" \/ ~ fd_open[w]
=============================================================================
