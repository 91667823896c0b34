# TLA+ models of the pvs_kp mail transfer agent

The repository is an SMTP mail transfer agent in C, in two programs that meet only in
the file system and on the wire:

* **server/** receives mail. One listener thread accepts connections and pushes their
  descriptors into a queue; a pool of worker threads takes them from the queue, and each
  worker drives its own connections with `poll`. A session is a generated finite state
  machine (AutoFSM) whose callbacks set replies, collect receivers and text, and finally
  write a mail: local receivers get a link in their maildir, remote domains get a file in
  the client's directory.
* **client/** delivers the remote mail. A master process watches the client's directory
  and hands file names to worker processes by receiver domain; a worker parses the files,
  groups the messages per domain, and drives SMTP connections with `select` and a second
  generated state machine; a logger process writes the log.

## Inventory

| Component | State | Operations | Interacts with | What is hard | What makes it correct |
|---|---|---|---|---|---|
| Server session (`client.c`, `client-fsm.c`) | FSM state, pending reply, sender, receivers, text | one per event: EHLO ... QUIT, text, end of data, reply sent, timeout | poll loop, mail writer | several lines in one segment, lines split by TCP, replies sent in part, timeouts in the middle | server and peer agree on the state; a mail is what was said; replies are not lost, torn or doubled |
| Mail writer (`mail_writer.c`) | receiver array (the session's), counter, files | `write_mail` | session, file system, client program | cleans the caller's array, failures ignored, crash between steps | every accepted receiver gets the mail |
| Poll loop (`smtp_server.c`, `server_info.c`) | two parallel arrays, message buffer | add, pass over the entries, compress | queue, sessions, sockets | arrays paired by position only; several closes in one pass; buffer shared by a pass | an entry's descriptor and client belong together; POLLOUT is asked for exactly while a reply is due; a connection is served once |
| Job queue (`queue.c`, `node.c`) | linked list, mutex, condition | push, try_pop, destroy (the blocking pop is not used) | listener, workers, logger | full queue, several consumers, destruction while others use it | nothing lost or taken twice; destroyed after its last user |
| Thread pool (`thread_pool.c`, `job.c`) | workers, end flags | init, push_job, destroy | queue, workers | partial creation, shutdown while workers are busy | every worker ends before its queue does; a descriptor is with one worker |
| Logger (`logger.c`) | queue of lines, end flag | log_*, logger_thread | all | stops without draining, the queue is bounded | queued lines are written until it is told to stop |
| Client state machine and connection (`SMTP_connection.c`, `client-fsm.c`) | FSM state, message queue, attempts, timestamps, socket | `generate_event`, `client_fsm_step`, reconnect | server, worker | 4xx retries and expiry race with late replies; unexpected reply ends the process | a message is delivered or given up, never dropped silently or sent twice |
| Client peer (`peer.c`, `select_fd_storage.c`) | input and output buffers, message queues | send, receive, framing, select step | socket, pipes | partial sends, split messages, end of file | messages arrive whole and in order |
| Client worker (`worker.c`, `tree.c`) | tree of connections by domain | load files, remove files, step all connections | master, connections | file removed before delivery; tree deletion while iterating | one host's connection does not disturb another's; a file is loaded once |
| Client master (`master.c`) | workers, table of addresses | dispatch, round robin, stop | workers, directory | a domain must stay with one worker; a file is seen at every scan until it is removed; pipes cut names; kills and restarts | each file is handed to one worker once and loaded in the end; stopping ends all processes |
| Start-up, options, parsing (`server_main.c`, `client_main.c`, `fileparser.c`, `SMTP_message.c`, regular expressions) | none after start | parse, format | all | text grammars | out of a model checker's reach |

`PROJECT.json` lists the hazards at their lines, with the properties that would catch
them going wrong.

## Modules

| Module | Models |
|---|---|
| `MailWriter` | what `write_mail` does with the receiver array: links made, receivers skipped, domains cleaned in place |
| `ServerClient` | `client_t` as a record, the mutators of `client.c`, the transition table and its callbacks, `client_process_recv/send/check_timeout` as operators |
| `ServerSession` | one session: the record, the socket's receive buffer, the branches of `process_poll` for this connection, and a peer |
| `Connection` | abstract: what one connection promises (a due reply stays due until it is sent completely; the server closes only with a reply or once the peer has closed its end, unless the process goes down) |
| `PollLoop` | one worker thread: queue, arrays, a pass entry by entry, compression, sockets |
| `ClientConnection` | the sending side: one worker process with its connection to one host, the mails queued for it, and the host and network as environment |
| `ThreadPool` | the server's threads: main from start to return, the workers of the pool with the shared job queue, the logger with the log queue |
| `Spool` | the client directory: file names, the clock, the bound on disturbances |
| `MailFiles` | `write_mail` step by step in the workers of a server that may be killed and started again |
| `Dispatch` | the client's master and workers: scans, the two trees with their limit, names over pipes, loading and removing, stop, death, restart, and workers left behind |
| `Relay` | `MailFiles` and `Dispatch` composed over `Spool`: a remote mail's way from one program to the other |
| `HostMap` | abstract: what a worker's map of connections promises, and what closing one of them may spoil |
| `HostTree` | the search tree of `tree.c` and the passes of `worker_main` over it |
| `MCServerSession`, `MCPollLoop`, `MCClientConnection`, `MCThreadPool`, `MCRelay`, `MCHostTree` | the model values and symmetry for TLC |
| `ServerSessionProofs`, `PollLoopProofs`, `ThreadPoolProofs`, `RelayProofs`, `ClientConnectionProofs`, `HostTreeProofs` | the theorems |
| `PipeProofs` | lemmas about the pipe of `Dispatch`: what `fill_buffer_in` puts in and `parse_buffer` gets out |

`ServerSession` and `PollLoop` both implement `Connection`: the session from the inside
(its `need_send` and `closed`), the loop from the outside (whatever it does with its
arrays). This is how the two are composed without multiplying their state spaces: the
poll loop knows of a client only what `Connection` allows. In the same way `ThreadPool`
reduces what a worker does with a connection to holding and closing it, `HostTree` what a
connection does to serving its first mail, and `Dispatch` stops where a file is loaded,
which is where `ClientConnection` begins. `HostTree` implements `HostMap`. `Relay` shares
state between its two halves, the directory and the clock, so there the next-state relation
is a disjunction of the components' own.

### Correspondence

* Input is a sequence of *lines*, a line being a kind and an argument. The kinds are the
  classes the regular expressions of `re_definitions.h` tell apart: the commands, the line
  of one dot, another line of one character (`RE_END_DATA` leaves its dot unescaped), and
  all other text, which also stands for a piece of a command cut by TCP. A *chunk* is
  what one `msg_recv_one` finds in the socket; `client_process_recv` executes one command
  of it, in the order of its checks and not in the order of the lines, and drops the rest.
* A reply is its code; `cut` says that a part of it has been sent. `msg_send_one` that
  fails or sends nothing is a stuttering step of the session.
* `write_mail` is one step of the session. `fopen` may fail; with no receiver the header
  loop `i < to_count - 1` runs off the array, modelled as a crash of the process.
  The header `X-mysmtp-to` lists the receivers before the domains are cleaned.
* Timeouts: the clock is not modelled; whether `timeout_start_time`, uninitialised before
  the first line, has expired is a free choice whenever the code compares it, which is
  only in the branch of `process_poll` that an entry with an event, but without POLLIN and
  without a reply it can take, reaches.
* In `PollLoop` a pass is split at every entry; peers send and close, and the listener
  accepts, between any two of these steps. `owner` of a client, `fate` and
  `sent` are history. `server->clients = NULL` is the flag `lost`; using the array
  afterwards is the state "crashed". A `recv` that fails (`RecvFails`) leaves the entry as it
  is: neither output nor timeout is looked at in this pass. A connection for which the queue
  or the arrays have no room is "leaked": its descriptor is neither served nor closed.
* Left out: allocation failures; the greeting text and the `ehlo` flag (never read);
  logging.

### The sending side

* `conn` is the `SMTP_connection_t` of one host with its `peer_t`, or `NoConn` when
  `host_vs_conn_map` has no entry. A pass of `worker_main` over it is `select_step`
  (`SelectNothing`, `SelectStep`, `ReceiveFails`, `SendFails`) and then
  `generate_event`, `client_fsm_step` and the deletion of a closed connection in one step
  (`Step`, `StepReconnect`, `StepGiveUp`, `StepNothing`). The names the master sent come
  last in a pass (`LoadToOpen`, `LoadToNew`), so they are read when `pc` is "select".
* The transition table is given state by state. The `CLOSE_CONNECTION` row, present in
  every state, is one definition. An event without a row calls `exit` in
  `client_fsm_do_invalid`: `worker = "exited"`. Codes that are no number, below 200 or from
  600 on (class ODD) are read and give no event (`EventOf`).
* A file that cannot be parsed is removed like any other (`parsed` in `LoadToOpen`,
  `LoadToNew`), and may leave a connection that has nothing to send. When `get_IP` finds no
  address, `tree_insert` copies a connection whose `ip` is NULL: `worker = "crashed"`, the
  file stays (`LookupFails`).
* A command is its kind and the mail it belongs to; a reply is its class (502 is one of its
  own, as in the code). `messages_in`, `buffer_in` and `messages_out` are the peer's
  queues, whose elements survive a reconnection.
* The clock is three booleans, `elapsed`: has the interval between attempts (`retry`), the
  time for all attempts (`late`), the interval between connects (`connect`) passed. They
  may become true at any time at which the code can notice; `Clocked` and a new
  connection reset them where the code stores a time.
* The host answers the commands of a TCP connection in order, with every class the
  protocol allows for it, and refuses what is out of order; while it takes text every line
  but the dot is text. The network may reset the connection, the host may close its end
  (FIN), a send may fail, and the reply to EHLO may arrive in two pieces; `MaxTroubles`
  bounds how often.
* `delivered`, `verdict`, `skipping` and `rough` are history. `rough` becomes true with the
  first lost connection, split reply or reply without a row. From then on the client
  has stale commands or replies in its queues or is one reply behind, and no property
  claims that the dialogue is in step; `TypeOK` and `Settled` still hold.
* Left out: sizes of socket buffers and partial sends, the signal raised by writing to a
  reset socket, allocation failures, other connections of the same worker (`HostTree`). Descriptor -1
  is also given to `FD_ISSET`; with glibc this asks for descriptor 63, which is taken not to
  be ready. `parse_response_code` hands `atoi` three characters without a terminator; the
  byte behind them is taken not to be a digit.

### The server's threads (`ThreadPool`)

* `mpc` is where the main thread is: starting, creating workers, listening, joining, in
  `main` after `smtp_server`, joining the logger, gone. Returning from `main` ends every
  thread. `lost` is the loop at thread_pool.c:63, which counts `i` and tests `j`: it joins
  identifiers that were never stored and then reads beyond the array, and is left only by a
  crash. A queue call holds the mutex throughout and is one step; a push and the line
  logged with it are taken together.
* A worker without connections that finds the queue empty changes nothing, and has no action.
* Left out: failing allocations (also in `server_info_init` of a new worker), `is_ended`,
  which nothing reads, the lines logged on errors.

### From the server to the client (`Relay`)

* A file name is the tuple its format string is made of: host, thread, counter, second.
  The host's type goes with the host. Threads keep their identifiers over a restart, which
  is the worst case; the process id is not part of the names for the client.
* `write_mail` is split where another program can look: the temporary file created, closed,
  each link, the counter and removal. `owed` (history) is what a mail still lacks; it is
  also cleared by the failures the code does not notice, so that `ConfirmedIsStored`
  names them. A peer that got no 250 sends its mail again.
* The master's round is a scan, one step per name found, and `select_step`; `readdir` is
  taken to see one moment's directory. For a name already sent, `addr` is freed again or
  was never set: the master goes on or is aborted (`AssignAgain`).
* A name and its marker are `Pieces` pieces. The pipe carries pieces, a read takes what is there and fits in
  `BufSize`, so the runs cut names in two. `fill_buffer_in` puts every queued name into
  the buffer unless it is exactly full; beyond `BufSize` it overwrites `buffer_in_size`,
  after which the process is killed or `write` refuses the size and the descriptor is
  closed (`Overruns`).
* `addr_vs_worker` and `sended_files` hold `MaxTree` keys. `tree_insert` into a full tree
  changes nothing and nobody looks (`Full`): a host beyond the limit has no worker of its
  own, and a name beyond it is sent again at every scan. Nothing is ever taken out of
  `sended_files`. `MaxWaiting` bounds the names under way to one worker in the model; a name
  above it is left to the next scan (`PassOver`).
* The client can be started again as soon as its master is gone. Workers that a killed master
  left behind go on and remove what they hold (`orphans`, `OrphanRemoves`); what they hold
  may be loaded by a worker of the new client as well. `loads` and `first` are the history of
  the client that runs.
* A worker loads and removes the names of a read one by one, and looks at the signal only
  between passes. It may die at any time (`exit` for a reply without a row, or killed);
  the master's next write to it raises SIGPIPE, which nobody handles.
* Left out: the logger process, failing `fork` and `pipe` calls, a partial write to a pipe
  (names are shorter than PIPE_BUF).

### A worker's connections (`HostTree`)

* A node is known by its place, the turns that lead to it from the root. The tree is the
  function `root` from the places taken to the nodes there; a place outside its domain is a
  NULL pointer. The operators are `tree.c`'s: a walk (`tree_search`, and the descents of
  `tree_node_insert` and `tree_node_delete`) is described by the place where it ends and the
  turns it took on the way; a node is unlinked by moving its only child's subtree one place
  up (`Up`); the array has the order in which the recursion meets the places (`Before`).
  Host names are numbers in the order of `strcmp`.
* `conns` are the pointers taken at the start of a pass; `freed` those
  whose object is gone. `tree_node_delete` of a node with two children copies the
  successor's connection and frees the original: a later use of that pointer is the state
  "undefined", as is the use of the search's NULL when the tree was full.
* `buffer` is what the peer holds of a reply: "none", a "part", or "torn", since `peer_copy`
  copies the size of the buffer and not its bytes. `times` is whether the attempt times of
  the first mail are "none", "noted" or "lost": `SMTP_message_copy` does not copy them, so
  after a move they hold whatever was in memory, and the mail may expire at once, and take the
  one behind it along, or never.
* A name whose file cannot be parsed opens a connection all the same (`OpenForNothing`); a host
  without an address ends in the state "undefined" (`LookupFails`), since
  `SMTP_connection_copy` dereferences its `ip`.

### The server's peer

With `Pipelining = TRUE` the peer sends any line at any time. With `FALSE` it keeps to the
dialogue: one command, then it waits for the complete reply; text only after 354. It then
keeps its own account of the transaction (`peer`), and the properties compare this account
with what the server holds.

## Runs

| Run | Shows |
|---|---|
| `session_lockstep` | dialogue peer, two mails in a session, a local and a remote domain, three receivers, fair server: server and peer agree on the state, every message is handed to `write_mail` once, and the server is down only for a message without receivers (`InSync`); a mail has the sender, the text and the receivers of the dialogue (`MailMatchesDialogue`); no reply is torn (`NeverTorn`); every command is answered unless RSET, QUIT or a timeout parks the session, and a session that is over closes with its next reply (`AnsweredUnlessParked`) |
| `session_pipelined` | any lines at any time, up to two per chunk: a state that waits for its reply has one (`WaitingIsPending`), nothing takes effect behind a due reply (`NothingRunsBehindAReply`), the array is bounded (`ReceiversFit`), the session implements `Connection` (`KeepsPromise`): a due reply is withdrawn only by sending it, and a peer that has not closed its end loses the connection only with a reply. That the reply may be replaced while it is half sent is allowed here; for the dialogue peer `NeverTorn` excludes it |
| `session_stale_receivers` | *violated*: a mail goes only to its own receivers |
| `poll` | two connections on one worker, errors reported by `poll` and by `recv`: descriptors and clients stay paired (`Paired`), POLLOUT is asked for exactly while a reply is due (`PolledForReply`), a descriptor is in the queue or in the arrays once, and a living one is given up only when the queue or every entry is taken by others (`HeldOnce`); a reply is sent to a peer that reads, whatever the other peer does (`RepliesSent`), queued connections are taken up (`TakenUp`), a connection behaves as `Connection` says, so it is not closed on a living peer without a reply (`ServesConnection`) |
| `poll_foreign_bytes` | *violated*: a client processes its own peer's bytes only |
| `poll_crash` | *violated*: the worker never dereferences the lost array |
| `client_delivery` | two mails, any replies, files that cannot be parsed, failing look-ups, one trouble: one command is unanswered at most, and the state waits for it (`InStep`); the mail at the head is the one the host was told of (`HeadInHand`); a mail taken is complete (`DeliveredWhole`) and taken once (`DeliveredOnce`); a mail leaves the queue for a reason (`LeavesForCause`); the process ends (`ExitsForCause`) and the client waits in vain (`ParkedForCause`) only for the listed causes; every mail is dealt with otherwise (`Settled`) |
| `client_quit_race` | *violated*: QUIT ends the session when nothing is left to send |
| `client_expiry` | *violated*: a mail is given up when the time for its attempts is over |
| `pool` | two workers, three connections, a job queue of two and a log queue of one: queues outlive their users on every way out (`NoUseAfterDestroy`); a descriptor is in one place (`OnePlaceEach`); a signal at any moment ends the server (`ShutdownEnds`); queued lines are written (`LinesWritten`) |
| `relay` | two mails with three remote receivers and a local one, one server thread, two client workers, room for one host and one name in the master's trees, one disturbance at any moment (a second passes, the server, the master or a worker is killed, the client is started again): no half-written file is seen (`WholeFiles`); what is confirmed is stored (`ConfirmedIsStored`); a name the master remembers is loaded once (`LoadedOnce`); from the queue to the worker names stay whole and in their order (`NamesInOrder`); a host in the map stays with its worker (`HostStays`); SIGINT ends all processes (`ClientStops`); a file is loaded and removed in the end (`Relayed`) |
| `hosts` | five hosts, room for four: only the next host's pointer goes stale (`StaleIsNext`); the tree stays a search tree of the size it claims (`SearchTree`) and implements `HostMap`: closing a host may spoil the next one's buffered reply and the attempt times of its first mail, and touches nothing of the others (`ImplementsMap`) |

### Bounds

Two mails per session are enough for one to leave its traces (receivers, cleaned domains,
text) for the next; three receivers allow two of one domain, so that one is cleaned, and a
third that comes after it; two lines in the socket are the least that makes the order of
recognition differ from the order of arrival; one line of text per message distinguishes
the text of two messages. `MaxMails` bounds the MAIL lines sent, `MaxText` the text,
`MaxInbox` the socket; in `PollLoop` a peer may talk without end.
The arrays of both poll runs hold two entries (`MaxSize` 2). `poll_crash` has a third connection,
which is accepted after two neighbours have closed in one pass and meets the lost array.
`poll`, which also checks liveness, has two connections, so the array is never used again
there; its queue of one fills up and leaks a descriptor, but its arrays never lack room for
a third connection. Three entries, gaps with an entry behind them, and full arrays are
covered by the proofs: the invariants, `HeldOnce` and the refinement are proved for any
number of connections and any capacity.

`client_delivery`: two mails are enough for one to be behind another (skipped, mixed up,
taken for the other); two recipients make the loop over recipients run more than once; two
attempts to connect are one reconnection; one trouble can happen at every moment, and a
second one would only meet a client that is `rough` already. `HostLimit` lets a host take
one recipient more than a mail has, so that a surplus would show. `delivered` counts to two.
Deadlock is not checked in the client runs: `exit` ends the worker.

`pool`: two workers are the least that race for a job; three connections fill a queue of two
with one left over; a log queue of one drops lines at once.
`relay`: `MaxEvents` bounds the seconds, kills and restarts together. One of them can
happen at every moment; two seconds (`MaxSec` 1) and an interval of 0 let a host's entry expire. `MaxTree` 1 lets the second name meet a full `sended_files`; a host that meets a full map takes two remote domains, which only the theorem `HostsStay` covers. `MaxWaiting` 2 lets two names be under way to a worker, since a name that is forgotten would otherwise be queued without end. `BufSize` 3 with `Pieces` 2 lets one name fit, cuts the second one, and makes two
queued names overrun. One server thread: the proofs cover any number, for
different threads never give the same name.
`hosts`: four nodes are enough for a node with two children whose successor is not its own
child, or has a child; the fifth host meets the full tree. One mail per host shows whether a copy keeps it; `MaxQueue` lets the middle hosts have one, and one of them, in `Busy`, has an attempt and a reply under way. The three properties are proved for trees of any size and shape.
Deadlock is not checked in these runs: the programs end.

### Fairness

`session_lockstep`: weak fairness of reading, of noticing the end of file, and of sending a
reply completely. The worker thread runs for ever; a reply is at most some tens of bytes,
and the property is about peers that read. Nothing is assumed about the peer's sending,
closing, or about timeouts. `poll`: weak fairness of the worker's steps and of `poll`
(100 ms timeout), and per peer, strong fairness of a `poll` that finds this peer's socket writable and without error (`Writable`), whatever is reported of the others, and of a complete send to it: a peer that reads makes its socket writable again and again. The other peers may talk, block, fail and leave as they like.
The client runs: weak fairness of the worker's steps (`select` returns after one second
at the latest), of the host, and of each time limit. `RelentingSpec` adds that the host
does not answer 4xx for ever, without which `Settled` is false (that is what
`client_expiry` shows). Nothing is assumed of the network or of the master.
`pool`: weak fairness of the main thread, of each worker and of the logger: every `poll` has
a timeout and no mutex is held over anything that waits. Connections and signals come
when they like. `relay`: weak fairness of the master (five seconds' sleep a round) and of
each worker (`select` times out, `connect` gives up in the end); none of the server, of
signals or of the clock.

## Findings

Five disagreements with what the repository says of itself are runs of their own:

* `session_stale_receivers`: `to_count` is never reset, so a session's second mail also
  goes to the receivers of its first.
* `poll_foreign_bytes`: `process_poll` uses one message buffer for a whole pass; with two
  readable connections the second client processes the first one's bytes as well.
* `poll_crash`: two neighbouring connections closed in one pass make
  `server_info_compress` set the array pointer to NULL.
* `client_quit_race`: a mail loaded while QUIT is on its way joins the connection and is
  deleted with it; its file was removed when it was loaded.
* `client_expiry`: after 4xx to MAIL only the interval between attempts is looked at, so a
  host that always answers so keeps the mail, and those behind it, without end.

Others are built into the models as the code has them, and appear in the properties as
explicit exceptions or in the hazards as notes: RSET is never answered, QUIT is answered
and closes the connection only in four states (`Parked` in `AnsweredUnlessParked`); DATA
is taken without RCPT (`InSync`); RSET keeps the receivers; a last line of
one character ends a message (kind ONE); a message whose file cannot be opened is answered
250; the arrays never grow (`server_info_resize` gives up when its allocation succeeds), and a connection that finds them, or the queue, full is forgotten with its descriptor open (`HeldOnce`); a
silent peer is never timed out, since an entry without events is skipped. On the sending
side: the mail behind one that expired is popped too (`skipping` in `LeavesForCause`); RSET
sent in the middle of a text is text, a FIN reads as nothing, and after 4xx to EHLO nothing
is sent again (the three causes in `ParkedForCause`); a reply without a row, and a host whose address cannot be found, end the process with all its connections (`ExitsForCause`). Between the programs: a failed `fopen` or
`link` is not noticed (`ConfirmedIsStored`); a server started again in the same second may
give a name a second time, and the client then ignores the file (`Relayed`); the failure
path of `thread_pool_init` never ends (`failed > 1` in `ShutdownEnds`); the lines queued when
the logger is told to stop are lost (`LinesWritten`); several names queued for one worker
overrun a buffer, and a name seen a second time frees a pointer again (`Relayed`); once
`sended_files` is full, new names are sent and loaded again, and a host beyond the limit of the
map has no worker of its own (`LoadedOnce`, `HostStays`); workers of a killed master are not
waited for, and may load what the next client loads too (`Restart`); closing
one connection may spoil the next host's pointer, its buffer, and the attempt times of its
first mail (`StaleIsNext`, `HostMap`); a host's
entry expires a fixed time after its first mail, in use or not (`HostStays`).

## Proofs

TLAPS checks every proof to the last leaf. The theorems hold for every value of the
constants that satisfies the named assumptions: `SenderAssumption`, `DomainAssumption`,
`RcptAssumption` (the placeholders are not values, the limits are numbers) and
`SessionAssumption` for the session; `LoopAssumption` for the loop (the descriptor -1 is
no connection, the arrays hold at least one entry, limits are numbers); `PoolAssumption`,
`SpoolAssumption`, `FilesAssumption` and `DispatchAssumption` for the threads and the relay
(there is a worker, limits are numbers, zero included for the master's trees, every mail has a sequence of addresses, a name has at least two pieces and fits the buffer); `ClientAssumption` and `NoConnAssumption` for the
sending side (limits are numbers, a mail has a recipient, the placeholder is no
connection); `TreeAssumption` for the tree (hosts are positive numbers, it holds at least one node, every host has a limit of mails). So the capacity
of 50 entries, the queue's limit and any number of connections are covered, which no run
reaches; in particular three and more entries in every arrangement.

**`ServerSessionProofs`**. The first five hold for any peer, pipelining or not:

| Theorem | Property | Argument |
|---|---|---|
| `TypeCorrect` | `TypeOK` | inductive as it stands; one lemma per mutator and callback |
| `ArrayBounded` | `ReceiversFit` | inductive with `TypeOK`: only `client_add_rcpt_to` grows the array, `write_mail` cleans domains and keeps the length |
| `NoLostReply` | `WaitingIsPending` | not inductive: a session in DONE stepped once more would be back in INIT with nothing to send. `Alive` adds that an open session is never in DONE or INVALID |
| `Shielded` | `NothingRunsBehindAReply` | from the transition table: the rows of the waiting states are the reply, QUIT and the timeout |
| `Implements` | `KeepsPromise` | refinement of `Connection`: input never withdraws a reply, only `Send` flips `sent`, and the one branch that closes without a reply, `RecvEof`, reads the peer's end of file |
| `StaysInSync` | `InSync` | not inductive: the phases alone do not say what is in the socket or which reply is due. `Dialogue` says it: an open session that was not timed out is in one of five situations (`Greets`, `Asks`, `Answers`, `Texts`, `Ends`), each with the line under way, the state and the reply that belong together, and both sides agree on sender, receivers and the number of mails (`Agree`) |
| `MailsMatch` | `MailMatchesDialogue` | from `Dialogue`: the receivers confirmed in this transaction are in the array with their domains, or the array was full (`Entered`); `write_mail` reaches every entry that has its domain |
| `RepliesStayWhole` | `NeverTorn` | from `Dialogue` and `CutIsDue`: while a reply is half sent it is due, and then nothing of the peer's is in the socket |

The last three have the hypothesis `"ONE" \notin TextKinds`: the peer's text has no line
of one character. It is needed. `RE_END_DATA` (`src/server/include/re_definitions.h`)
leaves its dot unescaped, so such a line ends the message, the server answers a peer that
is not waiting, and what follows is taken for commands; with ONE among the kinds TLC finds
`InSync` violated. `session_lockstep` checks the same peer. `Dialogue` was checked with
TLC before it was proved.

**`PollLoopProofs`**, all from one inductive invariant `IInv == TypeOK /\ Paired /\ PolledForReply /\ NoneTwice /\ Walk`. `Walk` is the
strengthening: outside a pass and its compression no entry is closed, in a pass closed
entries lie behind the entry at hand, and the reports of `poll` belong to the entries.
Without it a pass could meet a closed entry and send to descriptor -1, and a new
connection could be appended behind a hole.

| Theorem | Property | Argument |
|---|---|---|
| `TypeCorrect`, `ArraysPaired`, `AllRepliesPolledFor` | `TypeOK`, `Paired`, `PolledForReply` | `Inductive`. The branches of `process_poll` are reduced to one shape (`PassShape`: the entry at hand is replaced, or the worker crashes); an iteration of `server_info_compress` to another (`CompressShape`: a gap of closed entries is removed from both arrays by the same map, `GapMap`) |
| `EachHeldOnce` | `HeldOnce` | `NoneTwice` from `Inductive`; `LeaksWhenFull` step by step: a connection can be leaked where the listener pushes and where the worker adds, the arrays have been compressed by then (`Walk`), so if they are full every entry is a connection still served |
| `Implements` | `ServesConnection` | refinement of `Connection` for an arbitrary connection `Watched`; the same two shapes (which keep whether a peer has closed its end, `FinsKept`), and `LinkView`, which says what the abstract state is in each concrete one |

`GapMap` rests on lemmas about `SubSeq` and concatenation (`KeptProperties`) and on the
existence of least elements (`LeastOf`), which makes the two `CHOOSE`s of the compression
well defined.

**`ThreadPoolProofs`**, for any pool size, connections and limits:

| Theorem | Property | Argument |
|---|---|---|
| `Types` | `TypeOK` | inductive; the limits come from `queue_push_back` (lemma `PushBack`) |
| `QueuesOutliveUsers` | `NoUseAfterDestroy` | not inductive: the destruction itself looks at no worker. `ShutdownInv` says for each place of the main thread which workers can still run: none not yet created, none already joined, none once the pool is gone |
| `Places` | `OnePlaceEach` | inductive with `TypeOK`: `fate` follows queue and holders; a pop takes the one occurrence away |

**`RelayProofs`**, for any mails, receivers, threads, workers, seconds, kills and restarts.
The inductive invariant is `IInv == Types /\ AtWork /\ Ahead /\ Fresh /\ WholeFiles`.

| Theorem | Property | Argument |
|---|---|---|
| `FilesAreWhole` | `WholeFiles` | `AtWork`: a thread that links has a full temporary file, and a mail of its own |
| `ConfirmedMailsAreStored` | `ConfirmedIsStored` | `Ahead`: what a mail lacks lies at or behind the receiver the loop is at, so nothing is lacking at its end. A receiver is skipped only if an earlier one of its host has the link (`RoundKeeps`). A link fails only if the name is taken, which `Fresh` excludes: a name of this second has a smaller counter, or this one and a host already passed, unless the server was started in this second (`NameIsNew`) |
| `HostsStay` | `HostStays` | `HostInv`: the map's entry names the worker of the history, and is not older than it; it is replaced only when expired. A host the history knows has an entry, unless the map is full |
| `NamesComeWhole` | every message a worker has read is the name of a file (`NamesArriveWhole`) | `PipeInv` adds `Streams`: a worker's buffer followed by its pipe is a sequence of whole messages, and the buffer alone is less than one. What arrived is whole says nothing of the rest still on its way, so it is not inductive by itself |
| `NamesStayInOrder` | `NamesInOrder` | `Way`, what a worker has read followed by what its buffer and pipe will give and by what is queued for it, is looked at as a whole: a write and a read only move the borders of its parts. A write adds the names taken from the queue behind those of a complete stream (`WrittenInOrder`), a read takes the first names away and leaves the others (`ReadInOrder`); both follow from where the n-th end marker of two streams put together lies (`CountAt`, `ParsedAt`) |
| `FilesLoadedOnce` | `LoadedOnce` | `OnceInv`: a name is held by the worker it is queued for, in whose pipe or buffer it is, that read it or loaded it; everything held is in `sended_files` unless that is full, and no two workers hold one name that is in it. The limit, kills of the master and workers left behind are part of the model: what is claimed is about the names remembered by the client that runs. It needs `PipeInv`: a message glued from two names would be a name nobody had sent |

`PipeProofs` carries the pipe. `Bytes` of a queue is a complete stream (`BytesComplete`),
`Taken` cuts it anywhere (`TakenIs`), `Parsed` returns whole names of the stream and
`Unparsed` the rest (`ParsedNames`, `UnparsedRest`), and buffer and pipe together stay
complete (`CompleteConcat`, `Joined`, `Cut`). Where induction would be used, the proofs
take a least counterexample instead (`LeastNat`), since the library's induction theorems
cannot be instantiated.

**`ClientConnectionProofs`**, for any mails, recipients, lines, attempts and troubles, from the
inductive invariant `CInv == Always /\ Smooth`. `Always` holds whatever the network
does: types, commands and replies travel only on a socket that is there (`Wired`), every
queued mail has one place, the counters of a connection fit its head. `Smooth` holds until
something `rough` happens: the worker runs, a connection with a socket is in `Dialogue` with its
host, one without has said nothing (`Dialing`), and a mail once taken is not offered again
(`TakenMails`). `Dialogue` relates for every state of the table the commands under way, the
replies under way, what the host has seen of the mail, and whether an answer is still due.

| Theorem | Property | Argument |
|---|---|---|
| `TypeCorrect` | `TypeOK` | needs that a mail is at hand where the callbacks peek at the queue (`Steady`) |
| `StaysInStep` | `InStep` | not inductive: that one command is unanswered says nothing of which one; `RepliesInStep` and `CommandsInStep` name it for each state |
| `KeepsHeadInHand` | `HeadInHand` | `TransactionAgreed`: the host's transaction is the head of the queue and is popped only when the host has closed it |
| `ExitHasCause` | `ExitsForCause` | in step every event of `generate_event` has a row in its state; `Rows` gives the table. Only a look-up crashes the worker, and it leaves the file |
| `GivenOnce` | `DeliveredOnce` | `TakenMails`: a mail taken is at the head, its 2xx under way or read, and is popped next |
| `ParkingHasCause` | `ParkedForCause` | `AnswerDue`: in a state that waits, a reply is there or still owed, the three causes excepted |
| `GivenWhole` | `DeliveredWhole` | `TextAgreed`, `TransactionAgreed`: what the host has of recipients and lines is what the connection has counted |
| `LeavingHasCause` | `LeavesForCause` | `WordGiven`: GET_NEXT_MESSAGE is reached with the host's final word or while skipping |

**`HostTreeProofs`**, for any hosts, any limit and trees of any shape, from the inductive
invariant `IInv == TreeInv /\ PassInv /\ StaleIsNext`. `TreeInv` says what a tree is
(`IsTree`: finitely many nodes, each with its parent and its own host's connection,
`Shape`; smaller keys in the left subtree and larger ones in the right subtree of every
node, not only of its children, `Sorted`) and that `size` counts the nodes. `PassInv` says
that the pointers a pass has not used are of different hosts, all of them open: without it a
deletion could leave a pointer to a host that is gone.

| Theorem | Property | Argument |
|---|---|---|
| `KeepsSearchTree` | `SearchTree` | `SearchTree` speaks of what a search returns and is not inductive; `IsTree` is. Two places that are not below one another part at a node (`Parting`), so a key is in one place (`OneNode`) and a walk cannot miss it (`SearchFinds`). A new node ends the walk for its key (`Inserted`); moving a subtree up keeps every node on its side of every other (`UpUnder`, `Unlinked`) |
| `OnlyNextIsStale` | `StaleIsNext` | the leftmost node of the right subtree has the next key of the whole tree, not only of that subtree (`Successor`), and the copy in its new place is the only one changed (`DeletedTwo`) |
| `ImplementsHostMap` | `ImplementsMap` | each of the operations as a change of the map (`Served`, `Opened`, `Queued`, `Closed`), then as a step of `HostMap` (`ServeMaps`, `OpenMaps`, `QueueMaps`, `CloseMaps`). A close with two children copies the next host's connection: its mails stay, its buffer and attempt times may not |

That the places of a finite tree can be listed in the order of the recursion (`Listed`) is
the one fact that calls for induction, over the number of nodes; it is proved with a least
counterexample.

Only model-checked, out of the prover's reach, is liveness under fairness:
`AnsweredUnlessParked`, `RepliesSent`, `TakenUp`, `Settled`, `ShutdownEnds`, `LinesWritten`,
`ClientStops`, `Relayed`.

## Plan

Done: the session, the mail writer, the poll loop, the sending connection, the server's
threads, the client directory with both its programs, the tree of connections; proofs of
every safety invariant, action property and refinement of the runs that pass.

Left: the liveness above, which stays with TLC, and the parts listed next.

## Not modelled

* Option parsing, socket set-up, privilege dropping, log output, the client's logger
  process: pure I/O.
* The text grammars of commands, addresses and headers: regular expressions and string
  processing; the models use the classes they tell apart.
* The byte capacity of `msg_t` and partial sends of the client's sockets.
* `send` without MSG_NOSIGNAL in msg.c: a reset connection can end the server by SIGPIPE;
  a matter of the kernel's signal delivery.
* The blocking `queue_pop_front`, the generic worker of `thread_pool.c`, `job.c`,
  `tree_insert_all`: called by nothing.
* Allocation failures.
