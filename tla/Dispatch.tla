----------------------------- MODULE Dispatch -----------------------------
(***************************************************************************)
(* The client's processes: the master (client/src/master.c), which scans     *)
(* the directory and gives the names of new files to its workers over pipes, *)
(* and the workers (client/src/worker.c), which load the files, remove them   *)
(* and pass the mails on to their connections (ClientConnection).  The       *)
(* pipes' two ends are peers (client/src/peer.c), whose buffers cut names in  *)
(* pieces.  SIGINT ends them all, and a worker may end by itself.            *)
(***************************************************************************)
EXTENDS Spool, FiniteSetsExt, SequencesExt

CONSTANTS
  WorkerCount,  \* config.workers_count
  MinInterval,  \* config.min_interval_working_with_addr
  BufSize,      \* MAX_BUFFER_SIZE
  MaxTree,      \* TREE_DEFAULT_MAX_SIZE
  Pieces,       \* bytes of a name and the marker behind it
  MaxWaiting    \* bound: names on their way to one worker

ASSUME DispatchAssumption ==
  /\ WorkerCount \in Nat \ {0} /\ MinInterval \in Nat
  /\ BufSize \in Nat /\ Pieces \in 2 .. BufSize /\ MaxTree \in Nat /\ MaxWaiting \in Nat

Workers == 0 .. (WorkerCount - 1)

VARIABLES
  mpc,             \* the master: "scan", "assign", "reap", "ended" or "dead"
  todo,            \* new_files: names found and not yet looked at
  sended_files,    \* state->sended_files
  addr_vs_worker,  \* state->addr_vs_worker: per host worker and time
  rr_index,        \* state->rr_index
  messages_in,     \* per worker: names queued on the master's peer
  fd_open,         \* per worker: the master's peer has its descriptor
  pipe,            \* per worker: the pieces in its pipe
  buffer_out,      \* per worker: the pieces in its parent peer's buffer
  messages_out,    \* per worker: messages read and not yet handled
  wpc,             \* per worker: "select", "load", "remove" or "ended"
  stopped,         \* SIGINT was sent to the client's processes
  orphans,         \* names that workers of a former client, still running, have
  loads,           \* the files loaded, and by which worker (history)
  first            \* per host: worker it went to last, and since when (history)

masterVars == << mpc, todo, sended_files, addr_vs_worker, rr_index, messages_in, fd_open >>
workerVars == << buffer_out, messages_out, wpc >>
histVars   == << loads, first >>
clientVars == << masterVars, pipe, workerVars, stopped, orphans, histVars >>

----------------------------------------------------------------------------
\* peer.c, for a pipe.

\* A message of the queue: a name and behind it, as its last piece,
\* PARENT_MESSAGE_END_MARKER.  As bytes: all its pieces.
Bytes(q) == [j \in 1 .. (Pieces * Len(q)) |->
               [name |-> q[((j - 1) \div Pieces) + 1], piece |-> ((j - 1) % Pieces) + 1]]

Text(f) == SubSeq(Bytes(<< f >>), 1, Pieces - 1)

\* fill_buffer_in takes whole messages until the buffer has exactly its full size
\* or none is left: the size is tested with != and the room that is left is not
\* looked at.
Taken(q) == IF BufSize % Pieces = 0 THEN Min({Len(q), BufSize \div Pieces}) ELSE Len(q)

Overruns(q) == Pieces * Taken(q) > BufSize

\* parse_buffer: what stands before each marker, and what is left behind the last.
Ends(buf)   == {j \in DOMAIN buf : buf[j].piece = Pieces}
End(buf, k) == IF k = 0 THEN 0
               ELSE CHOOSE j \in Ends(buf) : Cardinality({x \in Ends(buf) : x <= j}) = k

Parsed(buf) == [k \in 1 .. Cardinality(Ends(buf)) |->
                  SubSeq(buf, End(buf, k - 1) + 1, End(buf, k) - 1)]

\* Mutated: what is left behind the last marker is thrown away.
Unparsed_none(buf) == << >>

Unparsed(buf) == SubSeq(buf, End(buf, Cardinality(Ends(buf))) + 1, Len(buf))

----------------------------------------------------------------------------
\* The master: dispatch.

Each(v) == [w \in Workers |-> v]

ClientInit ==
  /\ mpc = "scan" /\ todo = {} /\ sended_files = {} /\ addr_vs_worker = << >> /\ rr_index = 0
  /\ messages_in = Each(<< >>) /\ fd_open = Each(TRUE) /\ pipe = Each(<< >>)
  /\ buffer_out = Each(<< >>) /\ messages_out = Each(<< >>) /\ wpc = Each("select")
  /\ stopped = FALSE /\ orphans = {}
  /\ loads = {} /\ first = << >>

\* get_filenames.
get_filenames ==
  /\ mpc = "scan" /\ ~ stopped
  /\ todo' = DOMAIN spool
  /\ mpc' = "assign"
  /\ UNCHANGED << spool, now, events, sended_files, addr_vs_worker, rr_index, messages_in, fd_open,
                  pipe, workerVars, stopped, orphans, histVars >>

is_time_expired(entry) == now - entry.last_time_working > MinInterval

Known(dom) == dom \in DOMAIN addr_vs_worker /\ ~ is_time_expired(addr_vs_worker[dom])

\* tree_insert adds no key to a tree that is full; nobody looks at what it returns.
Full(keys) == Cardinality(keys) >= MaxTree

\* add_addr_vs_worker, after tree_delete of an entry that has expired.
add_addr_vs_worker(dom, w) ==
  IF dom \notin DOMAIN addr_vs_worker /\ Full(DOMAIN addr_vs_worker) THEN addr_vs_worker ELSE
  [d \in DOMAIN addr_vs_worker \union {dom} |->
     IF d = dom THEN [worker |-> w, last_time_working |-> now] ELSE addr_vs_worker[d]]

\* Mutated: the host's worker is never looked up.
pick_worker_any(dom) == rr_index

\* pick_worker: the host's worker while its entry is young, else the next in turn.
\* (update_last_time_working changes a copy: the entry keeps its first time.)
pick_worker(dom) == IF Known(dom) THEN addr_vs_worker[dom].worker ELSE rr_index

\* pick_worker_by_rr: whose turn is next.
pick_worker_by_rr == (rr_index + 1) % WorkerCount

\* Mutated: the name is not remembered.
Sended_forgets(f) == sended_files

\* Names are added only: once the tree is full every new one is sent at each scan.
Sended(f) == IF Full(sended_files) THEN sended_files ELSE sended_files \union {f}

Waiting(w) == Len(messages_in[w]) + Len(messages_out[w])
                + (Len(buffer_out[w]) + Len(pipe[w])) \div Pieces

\* add_filenames_to_workers for a new name.
Assign(f) ==
  LET dom == get_addr(f)
      w   == pick_worker(dom) IN
  /\ mpc = "assign" /\ f \in todo /\ f \notin sended_files /\ Waiting(w) < MaxWaiting
  /\ todo' = todo \ {f}
  /\ IF Known(dom)
       THEN UNCHANGED << rr_index, addr_vs_worker >>
       ELSE /\ rr_index' = pick_worker_by_rr
            /\ addr_vs_worker' = add_addr_vs_worker(dom, w)
  /\ messages_in' = [messages_in EXCEPT ![w] = Append(@, f)]
  /\ sended_files' = Sended(f)
  /\ first' = IF dom \in DOMAIN first /\ first[dom].worker = w THEN first
              ELSE [d \in DOMAIN first \union {dom} |->
                      IF d = dom THEN [worker |-> w, since |-> now] ELSE first[d]]
  /\ UNCHANGED << spool, now, events, mpc, fd_open, pipe, workerVars, stopped, orphans, loads >>

\* The bound: the name is left to the next scan.
PassOver(f) ==
  /\ mpc = "assign" /\ f \in todo /\ f \notin sended_files
  /\ Waiting(pick_worker(get_addr(f))) >= MaxWaiting
  /\ todo' = todo \ {f}
  /\ UNCHANGED << spool, now, events, mpc, sended_files, addr_vs_worker, rr_index, messages_in,
                  fd_open, pipe, workerVars, stopped, orphans, histVars >>

\* A name that was sent before: addr is left over from an earlier round, or never
\* set, and freed.  Undefined: the process goes on or is aborted.
AssignAgain(f, aborted) ==
  /\ mpc = "assign" /\ f \in todo /\ f \in sended_files
  /\ todo' = todo \ {f}
  /\ mpc' = IF aborted THEN "dead" ELSE mpc
  /\ UNCHANGED << spool, now, events, sended_files, addr_vs_worker, rr_index, messages_in, fd_open,
                  pipe, workerVars, stopped, orphans, histVars >>

\* select_step over the workers' peers, in their order, and the sleep.  A worker
\* that has ended makes write raise SIGPIPE, which ends the master.  A buffer that
\* is overrun has its size overwritten: the process is killed there, or write is
\* given a size it refuses and the descriptor is closed.
SelectMaster(killed) ==
  LET ready  == {w \in Workers : fd_open[w] /\ messages_in[w] # << >>}
      over   == {w \in ready : Overruns(messages_in[w])}
      fatal  == {w \in ready : wpc[w] = "ended" /\ w \notin over} \union (over \intersect killed)
      sent   == {w \in ready : \A v \in fatal : w < v}
      gone(w) == Taken(messages_in[w]) IN
  /\ mpc = "assign" /\ todo = {} /\ killed \subseteq over
  /\ messages_in' = [w \in Workers |-> IF w \in sent
                       THEN SubSeq(messages_in[w], gone(w) + 1, Len(messages_in[w]))
                       ELSE messages_in[w]]
  /\ pipe' = [w \in Workers |-> IF w \in sent \ over
                THEN pipe[w] \o Bytes(SubSeq(messages_in[w], 1, gone(w))) ELSE pipe[w]]
  /\ fd_open' = [w \in Workers |-> fd_open[w] /\ w \notin sent \intersect over]
  /\ mpc' = IF fatal = {} THEN "scan" ELSE "dead"
  /\ UNCHANGED << spool, now, events, todo, sended_files, addr_vs_worker, rr_index,
                  workerVars, stopped, orphans, histVars >>

\* The loop ends; clear_workers waits for the workers one by one.
StopMaster ==
  /\ mpc = "scan" /\ stopped /\ mpc' = "reap"
  /\ UNCHANGED << spool, now, events, todo, sended_files, addr_vs_worker, rr_index, messages_in, fd_open,
                  pipe, workerVars, stopped, orphans, histVars >>

clear_workers ==
  /\ mpc = "reap" /\ \A w \in Workers : wpc[w] = "ended"
  /\ mpc' = "ended"
  /\ UNCHANGED << spool, now, events, todo, sended_files, addr_vs_worker, rr_index, messages_in, fd_open,
                  pipe, workerVars, stopped, orphans, histVars >>

----------------------------------------------------------------------------
\* A worker: worker_main, seen from the pipe.

\* select_step reads what is in the pipe and fits, fill_messages_out splits it.
SelectWorker(w) ==
  LET size == Min({Len(pipe[w]), BufSize - Len(buffer_out[w])})
      buf  == buffer_out[w] \o SubSeq(pipe[w], 1, size) IN
  /\ wpc[w] = "select" /\ ~ stopped /\ pipe[w] # << >>
  /\ pipe' = [pipe EXCEPT ![w] = SubSeq(@, size + 1, Len(@))]
  /\ buffer_out' = [buffer_out EXCEPT ![w] = Unparsed(buf)]
  /\ messages_out' = [messages_out EXCEPT ![w] = @ \o Parsed(buf)]
  /\ wpc' = [wpc EXCEPT ![w] = IF messages_out'[w] = << >> THEN "select" ELSE "load"]
  /\ UNCHANGED << spool, now, events, masterVars, stopped, orphans, histVars >>

\* parse_message of the first name; a file that is not there gives no mail.
parse_message(w) ==
  /\ wpc[w] = "load"
  /\ loads' = loads \union {[name |-> f, worker |-> w] :
                 f \in {f \in DOMAIN spool : Text(f) = Head(messages_out[w])}}
  /\ wpc' = [wpc EXCEPT ![w] = "remove"]
  /\ UNCHANGED << spool, now, events, masterVars, pipe, buffer_out, messages_out, stopped,
                  orphans, first >>

\* Mutated: the file stays.
remove_file_not(w) ==
  /\ wpc[w] = "remove"
  /\ messages_out' = [messages_out EXCEPT ![w] = Tail(@)]
  /\ wpc' = [wpc EXCEPT ![w] = IF Len(messages_out[w]) = 1 THEN "select" ELSE "load"]
  /\ UNCHANGED << spool, now, events, masterVars, pipe, buffer_out, stopped, orphans, histVars >>

\* remove_file, and on to the next name.
remove_file(w) ==
  /\ wpc[w] = "remove"
  /\ spool' = [f \in {f \in DOMAIN spool : Text(f) # Head(messages_out[w])} |-> spool[f]]
  /\ messages_out' = [messages_out EXCEPT ![w] = Tail(@)]
  /\ wpc' = [wpc EXCEPT ![w] = IF Len(messages_out[w]) = 1 THEN "select" ELSE "load"]
  /\ UNCHANGED << now, events, masterVars, pipe, buffer_out, stopped, orphans, histVars >>

\* Mutated: a worker goes on until its pipe is empty.
StopWorker_drained(w) ==
  /\ wpc[w] = "select" /\ stopped /\ pipe[w] = << >>
  /\ wpc' = [wpc EXCEPT ![w] = "ended"]
  /\ UNCHANGED << spool, now, events, masterVars, pipe, buffer_out, messages_out, stopped,
                  orphans, histVars >>

\* while_true is looked at between two passes only.
StopWorker(w) ==
  /\ wpc[w] = "select" /\ stopped
  /\ wpc' = [wpc EXCEPT ![w] = "ended"]
  /\ UNCHANGED << spool, now, events, masterVars, pipe, buffer_out, messages_out, stopped,
                  orphans, histVars >>

----------------------------------------------------------------------------
\* Signals, deaths and a new start.

\* SIGINT from the terminal reaches every process; each sees it at its next round.
end_program_handler ==
  /\ ~ stopped /\ stopped' = TRUE
  /\ UNCHANGED << spool, now, events, masterVars, pipe, workerVars, orphans, histVars >>

\* exit in client_fsm_do_invalid, or the worker is killed.
WorkerDies(w) ==
  /\ Event /\ wpc[w] # "ended"
  /\ wpc' = [wpc EXCEPT ![w] = "ended"]
  /\ UNCHANGED << spool, now, masterVars, pipe, buffer_out, messages_out, stopped, orphans, histVars >>

Gone == mpc \in {"ended", "dead"} /\ \A w \in Workers : wpc[w] = "ended"

\* What a worker has and will still load, whoever started it.
Holds(w) == {f \in Name : \E k \in DOMAIN messages_out[w] : messages_out[w][k] = Text(f)} \union
            {f \in Name : LET read == Parsed(buffer_out[w] \o pipe[w]) IN
                          \E k \in DOMAIN read : read[k] = Text(f)}

\* The client is started again when its master has ended: nothing is remembered of the
\* names sent before.  Workers that a dead master left behind go on.
Restart ==
  /\ Event /\ mpc \in {"ended", "dead"}
  /\ orphans' = orphans \union UNION {Holds(w) : w \in {w \in Workers : wpc[w] # "ended"}}
  /\ mpc' = "scan" /\ todo' = {} /\ sended_files' = {} /\ addr_vs_worker' = << >> /\ rr_index' = 0
  /\ messages_in' = Each(<< >>) /\ fd_open' = Each(TRUE) /\ pipe' = Each(<< >>)
  /\ buffer_out' = Each(<< >>) /\ messages_out' = Each(<< >>) /\ wpc' = Each("select")
  /\ stopped' = FALSE
  /\ loads' = {} /\ first' = << >>
  /\ UNCHANGED << spool, now >>

\* A worker left behind loads and removes a file, at any time.
OrphanRemoves(f) ==
  /\ f \in orphans /\ orphans' = orphans \ {f}
  /\ spool' = [g \in DOMAIN spool \ {f} |-> spool[g]]
  /\ UNCHANGED << now, events, masterVars, pipe, workerVars, stopped, histVars >>

MasterStep ==
  \/ get_filenames
  \/ \E f \in todo : Assign(f) \/ PassOver(f)
  \/ \E f \in todo, aborted \in BOOLEAN : AssignAgain(f, aborted)
  \/ \E killed \in SUBSET Workers : SelectMaster(killed)
  \/ StopMaster \/ clear_workers

WorkerStep(w) == SelectWorker(w) \/ parse_message(w) \/ remove_file(w) \/ StopWorker(w)

ClientNext ==
  \/ MasterStep
  \/ \E w \in Workers : WorkerStep(w) \/ WorkerDies(w)
  \/ \E f \in orphans : OrphanRemoves(f)
  \/ end_program_handler \/ Restart
=============================================================================
