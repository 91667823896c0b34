---------------------------- MODULE ThreadPool ----------------------------
(***************************************************************************)
(* The threads of the server and their two queues: the main thread, which   *)
(* starts the pool, accepts connections and takes everything down again     *)
(* (server_main.c, smtp_server.c, thread_pool.c), the workers, which share   *)
(* the job queue (queue.c), and the logger thread, which empties the log     *)
(* queue (logger.c).  A call of a queue function holds the queue's mutex     *)
(* throughout and is one step; what a worker does with a connection is       *)
(* PollLoop's subject and reduced here to holding and closing it.            *)
(***************************************************************************)
EXTENDS Naturals, Sequences, Functions

CONSTANTS
  PoolSize,  \* cfg.thread_pool_size
  Conns,     \* the connections that are made
  MaxJobs,   \* QUEUE_DEFAULT_MAX_SIZE, for the job queue
  MaxLog     \* QUEUE_DEFAULT_MAX_SIZE, for the log queue

ASSUME PoolAssumption == /\ PoolSize \in Nat \ {0}
                         /\ MaxJobs \in Nat /\ MaxLog \in Nat

Ids == 1 .. PoolSize

VARIABLES
  while_true,  \* cleared by SIGINT and SIGQUIT, and by main
  mpc,         \* where the main thread is
  i,           \* the worker it creates or joins
  failed,      \* the worker whose creation failed, 0 for none
  thread,      \* per worker: "none", "born", "top", "poll" or "ended"
  end_flag,    \* per worker: worker->end_flag
  held,        \* per worker: the connections in its server_info
  jobs,        \* tp.job_queue
  fate,        \* per connection: "new", "queued", "held", "closed" or "leaked"
  logger,      \* the logger thread: "running" or "ended"
  log_end,     \* logger.end_flag
  logs,        \* logger.log_queue
  destroyed    \* the queues queue_destroy was called for

poolVars == << thread, end_flag, held, jobs, fate >>
logVars  == << logger, log_end, logs >>
mainVars == << while_true, mpc, i, failed, destroyed >>
vars     == << mainVars, poolVars, logVars >>

\* The lines the threads log; their wording and the rare warnings are left out.
Line == ({"created", "ended"} \X Ids) \union ({"accepted", "taken"} \X Conns)

MainPlaces == {"start", "create", "lost", "listen", "join", "stop", "joinlog", "exited", "crashed"}

Init ==
  /\ while_true = TRUE /\ mpc = "start" /\ i = 1 /\ failed = 0 /\ destroyed = {}
  /\ thread = [w \in Ids |-> "none"] /\ end_flag = [w \in Ids |-> FALSE]
  /\ held = [w \in Ids |-> {}] /\ jobs = << >> /\ fate = [k \in Conns |-> "new"]
  /\ logger = "running" /\ log_end = FALSE /\ logs = << >>

\* The process is there: returning from main ends all its threads.
Up == mpc \notin {"exited", "crashed"}

\* Mutated: one element too many fits.
queue_push_back_over(q, x, max) == IF Len(q) > max THEN q ELSE Append(q, x)

\* queue_push_back, whose result no caller looks at.
queue_push_back(q, x, max) == IF Len(q) = max THEN q ELSE Append(q, x)

inner_log(line) == logs' = queue_push_back(logs, line, MaxLog)

----------------------------------------------------------------------------
\* The main thread.

\* SIGINT or SIGQUIT, taken by any thread.
end_program_handler ==
  /\ Up /\ while_true
  /\ while_true' = FALSE
  /\ UNCHANGED << mpc, i, failed, destroyed, poolVars, logVars >>

\* The socket is there, root dropped, the directories made.
StartPool ==
  /\ mpc = "start" /\ mpc' = "create"
  /\ UNCHANGED << while_true, i, failed, destroyed, poolVars, logVars >>

\* One of them failed: smtp_server returns before the pool exists.
StartFails ==
  /\ mpc = "start" /\ mpc' = "stop"
  /\ UNCHANGED << while_true, i, failed, destroyed, poolVars, logVars >>

\* smtp_cmd_init failed: main returns while the logger runs.
CmdInitFails ==
  /\ mpc = "start" /\ mpc' = "exited"
  /\ UNCHANGED << while_true, i, failed, destroyed, poolVars, logVars >>

\* thread_pool_init, one thrd_create at a time.
CreateWorker ==
  /\ mpc = "create" /\ i <= PoolSize
  /\ thread' = [thread EXCEPT ![i] = "born"]
  /\ i' = i + 1
  /\ UNCHANGED << while_true, mpc, failed, destroyed, end_flag, held, jobs, fate, logVars >>

PoolReady ==
  /\ mpc = "create" /\ i > PoolSize
  /\ mpc' = "listen"
  /\ UNCHANGED << while_true, i, failed, destroyed, poolVars, logVars >>

\* thrd_create fails.  Without a worker to join the pool is taken down again and
\* smtp_server returns; with one the loop of the joins counts i instead of j.
CreateFails ==
  /\ mpc = "create" /\ i <= PoolSize
  /\ failed' = i
  /\ end_flag' = [w \in Ids |-> w < i]
  /\ IF i = 1 THEN mpc' = "stop" /\ destroyed' = destroyed \union {"jobs"}
              ELSE mpc' = "lost" /\ UNCHANGED destroyed
  /\ UNCHANGED << while_true, i, thread, held, jobs, fate, logVars >>

\* It joins threads that were never created, beyond the array in the end: undefined,
\* and no outcome gets out of the loop.
JoinGarbage ==
  /\ mpc = "lost" /\ mpc' = "crashed"
  /\ UNCHANGED << while_true, i, failed, destroyed, poolVars, logVars >>

\* process_listener and the push of the new descriptor.
Accept(k) ==
  /\ mpc = "listen" /\ while_true /\ fate[k] = "new"
  /\ inner_log(<< "accepted", k >>)
  /\ jobs' = queue_push_back(jobs, k, MaxJobs)
  /\ fate' = [fate EXCEPT ![k] = IF Len(jobs) = MaxJobs THEN "leaked" ELSE "queued"]
  /\ UNCHANGED << mainVars, thread, end_flag, held, logger, log_end >>

\* Mutated: the joins begin at the second worker.
thread_pool_destroy_late ==
  /\ mpc = "listen" /\ ~ while_true
  /\ end_flag' = [w \in Ids |-> TRUE]
  /\ mpc' = "join" /\ i' = 2
  /\ UNCHANGED << while_true, failed, destroyed, thread, held, jobs, fate, logVars >>

\* Mutated: the last worker is not told.
thread_pool_destroy_short ==
  /\ mpc = "listen" /\ ~ while_true
  /\ end_flag' = [w \in Ids |-> w < PoolSize]
  /\ mpc' = "join" /\ i' = 1
  /\ UNCHANGED << while_true, failed, destroyed, thread, held, jobs, fate, logVars >>

\* The loop has seen the signal: every worker is told, then joined in turn.
thread_pool_destroy ==
  /\ mpc = "listen" /\ ~ while_true
  /\ end_flag' = [w \in Ids |-> TRUE]
  /\ mpc' = "join" /\ i' = 1
  /\ UNCHANGED << while_true, failed, destroyed, thread, held, jobs, fate, logVars >>

JoinWorker ==
  /\ mpc = "join" /\ i <= PoolSize /\ thread[i] = "ended"
  /\ i' = i + 1
  /\ UNCHANGED << while_true, mpc, failed, destroyed, poolVars, logVars >>

\* queue_destroy with no destructor: the queued descriptors are not closed.
DestroyJobs ==
  /\ mpc = "join" /\ i > PoolSize
  /\ jobs' = << >> /\ destroyed' = destroyed \union {"jobs"}
  /\ fate' = [k \in Conns |-> IF fate[k] = "queued" THEN "leaked" ELSE fate[k]]
  /\ mpc' = "stop"
  /\ UNCHANGED << while_true, i, failed, thread, end_flag, held, logVars >>

\* smtp_server has returned to main.
StopLogger ==
  /\ mpc = "stop"
  /\ while_true' = FALSE /\ log_end' = TRUE
  /\ mpc' = "joinlog"
  /\ UNCHANGED << i, failed, destroyed, poolVars, logger, logs >>

\* thrd_join and destroy_logger; main returns.
destroy_logger ==
  /\ mpc = "joinlog" /\ logger = "ended"
  /\ logs' = << >> /\ destroyed' = destroyed \union {"logs"}
  /\ mpc' = "exited"
  /\ UNCHANGED << while_true, i, failed, poolVars, logger, log_end >>

----------------------------------------------------------------------------
\* main_worker_func of smtp_server.c.

WorkerBegins(w) ==
  /\ Up /\ thread[w] = "born"
  /\ inner_log(<< "created", w >>)
  /\ thread' = [thread EXCEPT ![w] = "top"]
  /\ UNCHANGED << mainVars, end_flag, held, jobs, fate, logger, log_end >>

\* Mutated: the connection stays in the queue.
TakeJob_leaves(w) ==
  /\ Up /\ thread[w] = "top" /\ ~ end_flag[w] /\ jobs # << >>
  /\ held' = [held EXCEPT ![w] = @ \union {Head(jobs)}]
  /\ fate' = [fate EXCEPT ![Head(jobs)] = "held"]
  /\ inner_log(<< "taken", Head(jobs) >>)
  /\ thread' = [thread EXCEPT ![w] = "poll"]
  /\ UNCHANGED << mainVars, end_flag, jobs, logger, log_end >>

\* queue_try_pop_front finds a descriptor.
TakeJob(w) ==
  /\ Up /\ thread[w] = "top" /\ ~ end_flag[w] /\ jobs # << >>
  /\ jobs' = Tail(jobs)
  /\ held' = [held EXCEPT ![w] = @ \union {Head(jobs)}]
  /\ fate' = [fate EXCEPT ![Head(jobs)] = "held"]
  /\ inner_log(<< "taken", Head(jobs) >>)
  /\ thread' = [thread EXCEPT ![w] = "poll"]
  /\ UNCHANGED << mainVars, end_flag, logger, log_end >>

\* It finds none; a worker without connections goes round at once.
NoJob(w) ==
  /\ Up /\ thread[w] = "top" /\ ~ end_flag[w] /\ jobs = << >> /\ held[w] # {}
  /\ thread' = [thread EXCEPT ![w] = "poll"]
  /\ UNCHANGED << mainVars, end_flag, held, jobs, fate, logVars >>

\* poll returns within 100 ms; process_poll may close connections.
process_poll(w, closed) ==
  /\ Up /\ thread[w] = "poll" /\ closed \subseteq held[w]
  /\ held' = [held EXCEPT ![w] = @ \ closed]
  /\ fate' = [k \in Conns |-> IF k \in closed THEN "closed" ELSE fate[k]]
  /\ thread' = [thread EXCEPT ![w] = "top"]
  /\ UNCHANGED << mainVars, end_flag, jobs, logVars >>

\* server_info_destroy frees the arrays and closes nothing.
WorkerEnds(w) ==
  /\ Up /\ thread[w] = "top" /\ end_flag[w]
  /\ inner_log(<< "ended", w >>)
  /\ thread' = [thread EXCEPT ![w] = "ended"]
  /\ UNCHANGED << mainVars, end_flag, held, jobs, fate, logger, log_end >>

----------------------------------------------------------------------------
\* logger_thread.

\* Mutated: an empty queue ends the thread.
WriteLine_gives_up ==
  /\ Up /\ logger = "running" /\ ~ log_end
  /\ IF logs = << >> THEN logger' = "ended" /\ logs' = logs
                     ELSE logs' = Tail(logs) /\ logger' = logger
  /\ UNCHANGED << mainVars, poolVars, log_end >>

\* A line is taken off the queue and written to the outputs.
WriteLine ==
  /\ Up /\ logger = "running" /\ ~ log_end /\ logs # << >>
  /\ logs' = Tail(logs)
  /\ UNCHANGED << mainVars, poolVars, logger, log_end >>

\* The flag is looked at before the queue: what is queued is not written.
LoggerEnds ==
  /\ Up /\ logger = "running" /\ log_end
  /\ logger' = "ended"
  /\ UNCHANGED << mainVars, poolVars, log_end, logs >>

----------------------------------------------------------------------------
MainStep ==
  \/ StartPool \/ StartFails \/ CmdInitFails
  \/ CreateWorker \/ PoolReady \/ CreateFails \/ JoinGarbage
  \/ thread_pool_destroy \/ JoinWorker \/ DestroyJobs
  \/ StopLogger \/ destroy_logger

WorkerStep(w) ==
  \/ WorkerBegins(w) \/ TakeJob(w) \/ NoJob(w)
  \/ \E closed \in SUBSET held[w] : process_poll(w, closed)
  \/ WorkerEnds(w)

LoggerStep == WriteLine \/ LoggerEnds

Next ==
  \/ end_program_handler
  \/ MainStep
  \/ \E k \in Conns : Accept(k)
  \/ \E w \in Ids : WorkerStep(w)
  \/ LoggerStep

Spec == Init /\ [][Next]_vars

\* Every thread goes on running: poll has a timeout wherever a thread calls it and
\* no mutex is held over anything that waits.
FairSpec == /\ Spec
            /\ WF_vars(MainStep)
            /\ \A w \in Ids : WF_vars(WorkerStep(w))
            /\ WF_vars(LoggerStep)

----------------------------------------------------------------------------
\* Properties.

TypeOK ==
  /\ while_true \in BOOLEAN /\ mpc \in MainPlaces
  /\ i \in 1 .. (PoolSize + 1) /\ failed \in 0 .. PoolSize
  /\ destroyed \in SUBSET {"jobs", "logs"}
  /\ thread \in [Ids -> {"none", "born", "top", "poll", "ended"}]
  /\ end_flag \in [Ids -> BOOLEAN]
  /\ held \in [Ids -> SUBSET Conns]
  /\ jobs \in Seq(Conns) /\ Len(jobs) <= MaxJobs
  /\ fate \in [Conns -> {"new", "queued", "held", "closed", "leaked"}]
  /\ logger \in {"running", "ended"} /\ log_end \in BOOLEAN
  /\ logs \in Seq(Line) /\ Len(logs) <= MaxLog

\* queue_destroy takes the mutex and the nodes away without looking for users: the
\* job queue is destroyed only when no worker can touch it any more, the log queue
\* only when neither a worker nor the logger can (thread_pool_destroy and main join
\* first).
NoUseAfterDestroy ==
  /\ "jobs" \in destroyed => \A w \in Ids : thread[w] \in {"none", "ended"}
  /\ "logs" \in destroyed => /\ \A w \in Ids : thread[w] \in {"none", "ended"}
                             /\ logger = "ended"

\* A descriptor is in one place: in the job queue, once, or with one worker, and a
\* closed or leaked one in neither, however the workers race for the queue and
\* whatever its limit drops.
OnePlaceEach ==
  /\ \A m, n \in DOMAIN jobs : jobs[m] = jobs[n] => m = n
  /\ \A k \in Conns :
       /\ (fate[k] = "queued") <=> (\E n \in DOMAIN jobs : jobs[n] = k)
       /\ (fate[k] = "held") <=> (\E w \in Ids : k \in held[w])
       /\ \A v, w \in Ids : k \in held[v] /\ k \in held[w] => v = w

\* A signal ends the server in good order: the workers and the logger are told,
\* joined and their queues destroyed.  The exception is thread_pool_init's own
\* clean-up after the second or a later thread could not be created.
ShutdownEnds == ~ while_true ~> (mpc = "exited" \/ failed > 1)

\* A line in the log queue is written, until the logger is told to end; what is
\* queued then is lost.
LinesWritten ==
  \A line \in Line :
    line \in Range(logs) ~> (line \notin Range(logs) \/ log_end \/ ~ Up)
=============================================================================
