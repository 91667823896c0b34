----------------------------- MODULE PollLoop -----------------------------
(***************************************************************************)
(* A worker thread of the server (main_worker_func of                      *)
(* server/src/smtp_server.c) with its arrays of descriptors and clients     *)
(* (server/src/server_info.c), the queue that hands it new connections, and *)
(* the sockets.  A client is reduced to what the loop sees of it, as         *)
(* Connection specifies.                                                    *)
(***************************************************************************)
EXTENDS Naturals, Sequences

CONSTANTS
  Conns,     \* the connections that are made, one descriptor each
  NoFd,      \* the descriptor -1
  MaxSize,   \* capacity of the arrays, 50 in the code
  MaxQueue,  \* QUEUE_DEFAULT_MAX_SIZE
  Faulty,    \* the connections poll may report an error for, and nothing else
  Watched    \* the connection the refinement follows: any of them

ASSUME LoopAssumption ==
  /\ NoFd \notin Conns
  /\ MaxSize \in Nat \ {0}
  /\ MaxQueue \in Nat
  /\ Faulty \subseteq Conns
  /\ Watched \in Conns

VARIABLES
  queue,     \* job_queue: descriptors accepted by the listener
  fds,       \* server_info.fds: descriptor and whether POLLOUT is asked for
  clients,   \* server_info.clients: the client objects
  lost,      \* server_info.clients has been set to NULL
  pc,        \* "top", "poll", "pass", "compress", "ended" or "crashed"
  at,        \* the entry process_poll is at
  revents,   \* what poll reported for each entry
  msg,       \* whose bytes are in process_poll's message buffer
  sock,      \* per connection: input waiting, peer closed
  fate,      \* per connection: "new", "queued", "served", "closed", "leaked"
  end_flag,  \* worker->end_flag
  sent       \* parity of the replies Watched was sent (history)

vars == << queue, fds, clients, lost, pc, at, revents, msg, sock, fate, end_flag, sent >>

\* owner is history: whose client it is.
ClientObj == [owner : Conns, need_send : BOOLEAN]
PollFd    == [fd : Conns \union {NoFd}, out : BOOLEAN]
Revents   == SUBSET {"IN", "OUT", "ERR"}

Init ==
  /\ queue = << >> /\ fds = << >> /\ clients = << >> /\ lost = FALSE
  /\ pc = "top" /\ at = 1 /\ revents = << >> /\ msg = {}
  /\ sock = [k \in Conns |-> [input |-> FALSE, fin |-> FALSE]]
  /\ fate = [k \in Conns |-> "new"]
  /\ end_flag = FALSE
  /\ sent = FALSE

----------------------------------------------------------------------------
\* The environment: peers, the listener thread and the shutdown.

\* process_listener accepts; the result of queue_push_back is ignored.
Accept(k) ==
  /\ fate[k] = "new" /\ ~ end_flag
  /\ IF Len(queue) < MaxQueue
       THEN queue' = Append(queue, k) /\ fate' = [fate EXCEPT ![k] = "queued"]
       ELSE queue' = queue            /\ fate' = [fate EXCEPT ![k] = "leaked"]
  /\ UNCHANGED << fds, clients, lost, pc, at, revents, msg, sock, end_flag, sent >>

PeerSends(k) ==
  /\ fate[k] \in {"queued", "served"} /\ ~ sock[k].fin
  /\ sock' = [sock EXCEPT ![k].input = TRUE]
  /\ UNCHANGED << queue, fds, clients, lost, pc, at, revents, msg, fate, end_flag, sent >>

PeerCloses(k) ==
  /\ fate[k] \in {"queued", "served"} /\ ~ sock[k].fin
  /\ sock' = [sock EXCEPT ![k].fin = TRUE]
  /\ UNCHANGED << queue, fds, clients, lost, pc, at, revents, msg, fate, end_flag, sent >>

\* thread_pool_destroy, after SIGINT or SIGQUIT ended the listener's loop.
Shutdown ==
  /\ ~ end_flag /\ end_flag' = TRUE
  /\ UNCHANGED << queue, fds, clients, lost, pc, at, revents, msg, sock, fate, sent >>

----------------------------------------------------------------------------
\* main_worker_func.

\* Mutated: the new descriptor is polled for input only.
NewFd_in_only(k) == [fd |-> k, out |-> FALSE]

NewFd(k) == [fd |-> k, out |-> TRUE]

\* client_init: the greeting is due.
NewClient(k) == [owner |-> k, need_send |-> TRUE]

\* server_info_add_client.  The arrays do not grow: server_info_resize gives up
\* exactly when its second allocation succeeds.
server_info_add_client(k) ==
  IF Len(fds) = MaxSize
    THEN /\ fate' = [fate EXCEPT ![k] = "leaked"]
         /\ pc' = "poll"
         /\ UNCHANGED << fds, clients >>
    ELSE IF lost
    THEN /\ pc' = "crashed"
         /\ UNCHANGED << fate, fds, clients >>
    ELSE /\ fate' = [fate EXCEPT ![k] = "served"]
         /\ fds' = Append(fds, NewFd(k))
         /\ clients' = Append(clients, NewClient(k))
         /\ pc' = "poll"

\* Mutated: the last queued connection is not taken.
Pop_not_last ==
  /\ pc = "top" /\ ~ end_flag
  /\ IF Len(queue) <= 1
       THEN pc' = "poll" /\ UNCHANGED << queue, fds, clients, fate >>
       ELSE queue' = Tail(queue) /\ server_info_add_client(Head(queue))
  /\ UNCHANGED << lost, at, revents, msg, sock, end_flag, sent >>

Pop ==
  /\ pc = "top" /\ ~ end_flag
  /\ IF queue = << >>
       THEN pc' = "poll" /\ UNCHANGED << queue, fds, clients, fate >>
       ELSE queue' = Tail(queue) /\ server_info_add_client(Head(queue))
  /\ UNCHANGED << lost, at, revents, msg, sock, end_flag, sent >>

\* What poll may report for an entry when the peers of `blocked` do not take data
\* and poll reports an error for those of `failing`.
Reported(e, blocked, failing) ==
  { ev \in {"IN", "OUT", "ERR"} :
      \/ ev = "IN"  /\ (sock[e.fd].input \/ sock[e.fd].fin)
      \/ ev = "OUT" /\ e.out /\ e.fd \notin blocked
      \/ ev = "ERR" /\ e.fd \in failing }

\* poll with its 100 ms timeout; with no descriptor the worker only goes round.
Poll(blocked, failing) ==
  /\ pc = "poll"
  /\ LET r == [i \in DOMAIN fds |-> Reported(fds[i], blocked, failing)] IN
     IF \A i \in DOMAIN fds : r[i] = {}
       THEN pc' = "top" /\ UNCHANGED << at, revents, msg >>
       ELSE pc' = "pass" /\ revents' = r /\ UNCHANGED << at, msg >>
  /\ UNCHANGED << queue, fds, clients, lost, sock, fate, end_flag, sent >>

----------------------------------------------------------------------------
\* process_poll, one entry at a time.

InPass == pc = "pass" /\ at <= Len(fds)

Step == at' = at + 1 /\ pc' = "pass"

\* The entry's own bytes go behind those the buffer already holds.
Buffered == IF sock[fds[at].fd].input THEN msg \union {fds[at].fd} ELSE msg

Drained == [sock EXCEPT ![fds[at].fd].input = FALSE]

Dropped == [fate EXCEPT ![fds[at].fd] = "closed"]

Skip ==
  /\ InPass /\ revents[at] = {}
  /\ Step
  /\ UNCHANGED << queue, fds, clients, lost, revents, msg, sock, fate, end_flag, sent >>

\* Mutated: the descriptor is closed and stays in the array.
HandleEof_keeps_fd ==
  /\ InPass /\ "IN" \in revents[at] /\ sock[fds[at].fd].fin
  /\ msg' = Buffered /\ sock' = Drained
  /\ fate' = Dropped
  /\ Step
  /\ UNCHANGED << queue, fds, clients, lost, revents, end_flag, sent >>

\* POLLIN, and recv returns 0.
HandleEof ==
  /\ InPass /\ "IN" \in revents[at] /\ sock[fds[at].fd].fin
  /\ msg' = Buffered /\ sock' = Drained
  /\ fds' = [fds EXCEPT ![at].fd = NoFd]
  /\ fate' = Dropped
  /\ Step
  /\ UNCHANGED << queue, clients, lost, revents, end_flag, sent >>

\* Mutated: a failed recv is taken for the end of the stream.
RecvFails_closes ==
  /\ InPass /\ {"IN", "ERR"} \subseteq revents[at]
  /\ msg' = Buffered /\ sock' = Drained
  /\ fds' = [fds EXCEPT ![at].fd = NoFd]
  /\ fate' = Dropped
  /\ Step
  /\ UNCHANGED << queue, clients, lost, revents, end_flag, sent >>

\* POLLIN, and recv fails: what it had read stays in the buffer, nothing is closed, and
\* neither the reply nor the timeout of this entry gets its turn.
RecvFails ==
  /\ InPass /\ {"IN", "ERR"} \subseteq revents[at]
  /\ msg' = Buffered /\ sock' = Drained
  /\ Step
  /\ UNCHANGED << queue, fds, clients, lost, revents, fate, end_flag, sent >>

\* POLLIN, and the input goes to client_process_recv, which may set a reply.
HandleIn ==
  /\ InPass /\ "IN" \in revents[at] /\ ~ sock[fds[at].fd].fin
  /\ msg' = Buffered /\ sock' = Drained
  /\ IF lost
       THEN pc' = "crashed" /\ UNCHANGED << at, fds, clients >>
       ELSE /\ Step
            /\ \E reply \in BOOLEAN :
                 LET due == clients[at].need_send \/ reply IN
                 /\ clients' = [clients EXCEPT ![at].need_send = due]
                 /\ fds' = [fds EXCEPT ![at].out = due]
  /\ UNCHANGED << queue, lost, revents, fate, end_flag, sent >>

\* POLLOUT: the code looks at need_send of the client.
AtReply == InPass /\ "IN" \notin revents[at] /\ "OUT" \in revents[at]

\* msg_send_one sent part of the reply, or failed.
SendPart ==
  /\ AtReply /\ ~ lost /\ clients[at].need_send
  /\ Step
  /\ UNCHANGED << queue, fds, clients, lost, revents, msg, sock, fate, end_flag, sent >>

\* Mutated: POLLOUT stays asked for.
SendAll_keeps_out ==
  /\ AtReply /\ ~ lost /\ clients[at].need_send
  /\ clients' = [clients EXCEPT ![at].need_send = FALSE]
  /\ \/ UNCHANGED << fds, fate >>
     \/ fds' = [fds EXCEPT ![at].fd = NoFd] /\ fate' = Dropped
  /\ sent' = IF fds[at].fd = Watched THEN ~ sent ELSE sent
  /\ Step
  /\ UNCHANGED << queue, lost, revents, msg, sock, end_flag >>

\* It sent all of it; client_process_send may close the client.
SendAll ==
  /\ AtReply /\ ~ lost /\ clients[at].need_send
  /\ clients' = [clients EXCEPT ![at].need_send = FALSE]
  /\ \/ fds' = [fds EXCEPT ![at].out = FALSE] /\ UNCHANGED fate
     \/ fds' = [fds EXCEPT ![at].fd = NoFd] /\ fate' = Dropped
  /\ sent' = IF fds[at].fd = Watched THEN ~ sent ELSE sent
  /\ Step
  /\ UNCHANGED << queue, lost, revents, msg, sock, end_flag >>

\* Anything else: the timeout is checked, which sets no reply and closes nothing.  If
\* the array of clients is gone, the look at need_send or the check crashes.
HandleTimeout ==
  /\ InPass /\ revents[at] # {} /\ "IN" \notin revents[at]
  /\ lost \/ ("OUT" \in revents[at] => ~ clients[at].need_send)
  /\ IF lost THEN pc' = "crashed" /\ at' = at ELSE Step
  /\ UNCHANGED << queue, fds, clients, lost, revents, msg, sock, fate, end_flag, sent >>

\* The entries closed in the pass.
Closed == { i \in DOMAIN fds : fds[i].fd = NoFd }

\* Mutated: the next pass starts one entry early.
EndPass_from_zero ==
  /\ pc = "pass" /\ at > Len(fds)
  /\ pc' = IF Closed = {} THEN "top" ELSE "compress"
  /\ at' = 0 /\ revents' = << >> /\ msg' = {}
  /\ UNCHANGED << queue, fds, clients, lost, sock, fate, end_flag, sent >>

\* msg_destroy, and the pass is over.
EndPass ==
  /\ pc = "pass" /\ at > Len(fds)
  /\ pc' = IF Closed = {} THEN "top" ELSE "compress"
  /\ at' = 1 /\ revents' = << >> /\ msg' = {}
  /\ UNCHANGED << queue, fds, clients, lost, sock, fate, end_flag, sent >>

\* The two memmoves close the gap from i to j - 1.
MovedFds(i, j) == SubSeq(fds, 1, i - 1) \o SubSeq(fds, j, Len(fds))

\* Mutated: the clients are moved from one entry too far.
MovedClients_off(i, j) == SubSeq(clients, 1, i) \o SubSeq(clients, j + 1, Len(clients))

MovedClients(i, j) == SubSeq(clients, 1, i - 1) \o SubSeq(clients, j, Len(clients))

\* The first closed entry, and the first one after it that is not closed.
FirstClosed == CHOOSE x \in Closed : \A y \in Closed : x <= y

GapEnd ==
  CHOOSE x \in (FirstClosed + 1) .. (Len(fds) + 1) :
    /\ x \notin Closed
    /\ \A y \in FirstClosed .. (x - 1) : y \in Closed

\* One iteration of server_info_compress: the first closed entry i and the closed
\* ones that follow it up to j - 1.  The second of them sets the array pointer
\* itself to NULL.
server_info_compress ==
  /\ pc = "compress"
  /\ LET i == FirstClosed
         j == GapEnd
         n == j - i
     IN  CASE Closed = {} ->
                pc' = "top" /\ UNCHANGED << fds, clients, lost >>
           [] Closed # {} /\ (lost \/ n > 2 \/ (n = 2 /\ j <= Len(fds))) ->
                pc' = "crashed" /\ UNCHANGED << fds, clients, lost >>
           [] Closed # {} /\ ~ lost /\ n = 2 /\ j > Len(fds) ->
                /\ lost' = TRUE /\ pc' = "top"
                /\ fds' = SubSeq(fds, 1, i - 1) /\ clients' = SubSeq(clients, 1, i - 1)
           [] OTHER ->
                /\ fds' = MovedFds(i, j) /\ clients' = MovedClients(i, j)
                /\ UNCHANGED << pc, lost >>
  /\ UNCHANGED << queue, at, revents, msg, sock, fate, end_flag, sent >>

\* The worker leaves its loop; server_info_destroy frees the clients.
End ==
  /\ pc = "top" /\ end_flag
  /\ pc' = IF lost /\ fds # << >> THEN "crashed" ELSE "ended"
  /\ UNCHANGED << queue, fds, clients, lost, at, revents, msg, sock, fate, end_flag, sent >>

Done == pc \in {"ended", "crashed"} /\ UNCHANGED vars

Next ==
  \/ \E k \in Conns : Accept(k) \/ PeerSends(k) \/ PeerCloses(k)
  \/ Shutdown
  \/ Pop
  \/ \E blocked \in SUBSET Conns, failing \in SUBSET Faulty : Poll(blocked, failing)
  \/ Skip \/ HandleEof \/ RecvFails \/ HandleIn \/ SendPart \/ SendAll \/ HandleTimeout
  \/ EndPass \/ server_info_compress
  \/ End
  \/ Done

Spec == Init /\ [][Next]_vars

\* The worker thread is scheduled.  Each peer reads its replies now and then, so that
\* its socket becomes writable again and a reply, being finite, is sent; whether other
\* peers read, fail or send at that moment is left open.
Worker == Pop \/ Skip \/ HandleEof \/ RecvFails \/ HandleIn \/ SendPart \/ SendAll
            \/ HandleTimeout \/ EndPass \/ server_info_compress \/ End

Writable(k) ==
  \E blocked \in SUBSET (Conns \ {k}), failing \in SUBSET (Faulty \ {k}) : Poll(blocked, failing)

Fairness ==
  /\ WF_vars(Worker)
  /\ WF_vars(\E blocked \in SUBSET Conns, failing \in SUBSET Faulty : Poll(blocked, failing))
  /\ \A k \in Conns : SF_vars(Writable(k)) /\ SF_vars(SendAll /\ fds[at].fd = k)

FairSpec == Spec /\ Fairness

----------------------------------------------------------------------------
\* Properties.

TypeOK ==
  /\ queue \in Seq(Conns)
  /\ fds \in Seq(PollFd) /\ clients \in Seq(ClientObj)
  /\ lost \in BOOLEAN /\ end_flag \in BOOLEAN /\ sent \in BOOLEAN
  /\ pc \in {"top", "poll", "pass", "compress", "ended", "crashed"}
  /\ at \in Nat \ {0}
  /\ revents \in Seq(Revents)
  /\ msg \in SUBSET Conns
  /\ sock \in [Conns -> [input : BOOLEAN, fin : BOOLEAN]]
  /\ fate \in [Conns -> {"new", "queued", "served", "closed", "leaked"}]

\* The two arrays stay in step through every close and compression: entry i of fds
\* belongs to the client of entry i, and there are never more than MaxSize.
Paired ==
  /\ Len(fds) = Len(clients) /\ Len(fds) <= MaxSize
  /\ \A i \in DOMAIN fds : fds[i].fd # NoFd => clients[i].owner = fds[i].fd

\* POLLOUT is asked for exactly when there is something to send: a reply is never
\* forgotten, and poll never spins on a writable socket with nothing to send.
PolledForReply ==
  \A i \in DOMAIN fds : fds[i].fd # NoFd => fds[i].out = clients[i].need_send

\* The queue and the arrays hold exactly the connections queued and served, none of
\* them twice.
NoneTwice ==
  pc # "crashed" =>
    /\ \A i, j \in DOMAIN queue : queue[i] = queue[j] => i = j
    /\ \A i, j \in DOMAIN fds : fds[i].fd = fds[j].fd /\ fds[i].fd # NoFd => i = j
    /\ \A k \in Conns :
         /\ fate[k] = "queued" <=> \E i \in DOMAIN queue : queue[i] = k
         /\ fate[k] = "served" <=> \E i \in DOMAIN fds : fds[i].fd = k

\* A step that leaks a connection finds no room for it.
LeaksWhenFull ==
  \A k \in Conns : fate[k] # "leaked" /\ fate'[k] = "leaked" =>
    \/ Len(queue) >= MaxQueue
    \/ Len(fds) = MaxSize /\ \A i \in DOMAIN fds : fate[fds[i].fd] = "served"

\* Descriptors move from the queue to the arrays and within them without one being
\* held twice or given up on the way.  The code does leak a living connection that
\* finds no room; that happens only when MaxQueue others wait, or when every one of
\* the MaxSize entries belongs to a connection that is still served: entries of closed
\* ones never cost a connection its place.
HeldOnce == [][NoneTwice' /\ LeaksWhenFull]_vars

\* A connection of the loop, seen as a Connection.
StatusOf(k) ==
  CASE fate[k] \in {"new", "queued", "leaked"} -> "new"
    [] fate[k] = "served" -> IF pc \in {"ended", "crashed"} THEN "down" ELSE "open"
    [] OTHER -> "closed"

DueOf(k) ==
  /\ StatusOf(k) = "open"
  /\ \E i \in DOMAIN fds : fds[i].fd = k /\ clients[i].need_send

Watching == INSTANCE Connection WITH
              status <- StatusOf(Watched), due <- DueOf(Watched), sent <- sent,
              gone <- sock[Watched].fin

\* Whatever the worker does with its arrays and its other connections, a connection
\* opens once with its greeting due, keeps a reply due until it is sent, and is closed
\* only with a reply or after its peer closed its end: not by a failed recv, and not by
\* what is closed beside it.
ServesConnection == Watching!Spec

\* A reply that is due is sent, once its peer has stopped talking (POLLIN goes before
\* POLLOUT) and if it reads now and then; the other peers may talk for ever, never
\* read, fail and leave.
RepliesSent ==
  \A k \in Conns : <>[][~ PeerSends(k)]_vars => (DueOf(k) ~> ~ DueOf(k))

\* A queued connection is taken up by the worker.
TakenUp ==
  \A k \in Conns : (fate[k] = "queued") ~> (fate[k] # "queued" \/ pc \in {"ended", "crashed"})

----------------------------------------------------------------------------
\* What the repository says of the loop and the code does not do.

\* The connection is a two-way link between one sender and the receiver
\* (server/tex/report.tex): a client processes the bytes of its own peer only.
\* The message buffer of a pass is not emptied between two entries.
OwnBytesOnly == [][ HandleIn => msg' \subseteq {fds[at].fd} ]_vars

\* The server does not terminate unexpectedly (server/tests/system_test.py).  Two
\* neighbours closed in one pass make server_info_compress clear the array pointer.
NoCrash == pc # "crashed"
=============================================================================
