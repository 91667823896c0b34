------------------------- MODULE ThreadPoolProofs -------------------------
(***************************************************************************)
(* Theorems about ThreadPool, for any number of workers and connections and *)
(* any limits of the queues.                                                *)
(***************************************************************************)
EXTENDS ThreadPool, SequenceTheorems, TLAPS

----------------------------------------------------------------------------
\* The queues.

\* queue_push_back keeps the limit and puts the element, if at all, at the end.
LEMMA PushBack ==
  ASSUME NEW S, NEW q \in Seq(S), NEW x \in S, NEW max \in Nat, Len(q) <= max
  PROVE  /\ queue_push_back(q, x, max) \in Seq(S)
         /\ Len(queue_push_back(q, x, max)) <= max
<1>1. CASE Len(q) = max BY <1>1 DEF queue_push_back
<1>2. CASE Len(q) # max
  <2>1. Append(q, x) \in Seq(S) /\ Len(Append(q, x)) = Len(q) + 1 BY AppendProperties
  <2>2. Len(q) \in Nat BY LenProperties
  <2>. QED BY <1>2, <2>1, <2>2 DEF queue_push_back
<1>. QED BY <1>1, <1>2

\* What try_pop takes is an element, and what it leaves is a shorter queue.
LEMMA PopFront ==
  ASSUME NEW S, NEW q \in Seq(S), q # << >>
  PROVE  /\ Head(q) \in S /\ Head(q) = q[1] /\ 1 \in DOMAIN q
         /\ Tail(q) \in Seq(S) /\ Len(Tail(q)) = Len(q) - 1
         /\ \A n \in DOMAIN Tail(q) : n + 1 \in DOMAIN q /\ Tail(q)[n] = q[n + 1]
         /\ \A n \in DOMAIN q : n # 1 => n - 1 \in DOMAIN Tail(q) /\ Tail(q)[n - 1] = q[n]
<1>1. /\ Head(q) \in S /\ Tail(q) \in Seq(S) /\ Len(Tail(q)) = Len(q) - 1
      /\ \A n \in 1 .. Len(Tail(q)) : Tail(q)[n] = q[n + 1]
  BY HeadTailProperties
<1>2. DOMAIN q = 1 .. Len(q) /\ DOMAIN Tail(q) = 1 .. Len(Tail(q)) /\ Len(q) \in Nat
  BY <1>1, LenProperties
<1>3. Len(q) # 0 BY EmptySeq
<1>4. Head(q) = q[1] OBVIOUS
<1>5. ASSUME NEW n \in DOMAIN q, n # 1
      PROVE  n - 1 \in DOMAIN Tail(q) /\ Tail(q)[n - 1] = q[n]
  <2>1. n - 1 \in 1 .. Len(Tail(q)) /\ (n - 1) + 1 = n BY <1>1, <1>2, <1>5
  <2>. QED BY <1>1, <1>2, <2>1
<1>. QED BY <1>1, <1>2, <1>3, <1>4, <1>5

----------------------------------------------------------------------------
\* Types.

LEMMA LineTypes ==
  /\ \A w \in Ids : << "created", w >> \in Line /\ << "ended", w >> \in Line
  /\ \A k \in Conns : << "accepted", k >> \in Line /\ << "taken", k >> \in Line
BY DEF Line

\* inner_log keeps the log queue a queue of lines within its limit.
LEMMA LogTypes ==
  ASSUME TypeOK, NEW line \in Line, inner_log(line)
  PROVE  logs' \in Seq(Line) /\ Len(logs') <= MaxLog
<1>1. logs \in Seq(Line) /\ Len(logs) <= MaxLog BY DEF TypeOK
<1>2. logs' = queue_push_back(logs, line, MaxLog) BY DEF inner_log
<1>. QED BY <1>1, <1>2, PushBack, PoolAssumption

LEMMA InitTypes == Init => TypeOK
<1>. SUFFICES ASSUME Init PROVE TypeOK OBVIOUS
<1>1. << >> \in Seq(Conns) /\ << >> \in Seq(Line) /\ Len(<< >>) = 0 BY EmptySeq
<1>2. /\ while_true \in BOOLEAN /\ log_end \in BOOLEAN /\ end_flag \in [Ids -> BOOLEAN]
      /\ destroyed \in SUBSET {"jobs", "logs"} /\ held \in [Ids -> SUBSET Conns]
  BY Zenon DEF Init
<1>3. /\ mpc \in MainPlaces /\ i \in 1 .. (PoolSize + 1) /\ failed \in 0 .. PoolSize
      /\ logger \in {"running", "ended"}
      /\ thread \in [Ids -> {"none", "born", "top", "poll", "ended"}]
      /\ fate \in [Conns -> {"new", "queued", "held", "closed", "leaked"}]
  BY PoolAssumption DEF Init, MainPlaces, Ids
<1>4. /\ jobs \in Seq(Conns) /\ Len(jobs) <= MaxJobs
      /\ logs \in Seq(Line) /\ Len(logs) <= MaxLog
  BY <1>1, PoolAssumption DEF Init
<1>. QED BY <1>2, <1>3, <1>4 DEF TypeOK

LEMMA NextTypes == TypeOK /\ [Next]_vars => TypeOK'
<1>. SUFFICES ASSUME TypeOK, [Next]_vars PROVE TypeOK' OBVIOUS
<1>. USE PoolAssumption DEF mainVars, poolVars, logVars
<1>0. << >> \in Seq(Conns) /\ << >> \in Seq(Line) /\ Len(<< >>) = 0 BY EmptySeq
<1>1. CASE end_program_handler BY <1>1 DEF TypeOK, end_program_handler
<1>2. ASSUME MainStep PROVE TypeOK'
  <2>1. CASE StartPool BY <2>1 DEF TypeOK, StartPool, MainPlaces
  <2>2. CASE StartFails BY <2>2 DEF TypeOK, StartFails, MainPlaces
  <2>3. CASE CmdInitFails BY <2>3 DEF TypeOK, CmdInitFails, MainPlaces
  <2>4. CASE CreateWorker BY <2>4 DEF TypeOK, CreateWorker, Ids
  <2>5. CASE PoolReady BY <2>5 DEF TypeOK, PoolReady, MainPlaces
  <2>6. CASE CreateFails
    <3>0. \A w \in Ids : (w < i) \in BOOLEAN BY DEF TypeOK, Ids
    <3>1. end_flag' \in [Ids -> BOOLEAN] BY <2>6, <3>0, Zenon DEF CreateFails
    <3>2. destroyed' \in SUBSET {"jobs", "logs"} BY <2>6 DEF TypeOK, CreateFails
    <3>3. mpc' \in MainPlaces /\ failed' \in 0 .. PoolSize
      BY <2>6 DEF TypeOK, CreateFails, MainPlaces
    <3>. QED BY <2>6, <3>1, <3>2, <3>3 DEF TypeOK, CreateFails
  <2>7. CASE JoinGarbage BY <2>7 DEF TypeOK, JoinGarbage, MainPlaces
  <2>8. CASE thread_pool_destroy BY <2>8 DEF TypeOK, thread_pool_destroy, MainPlaces
  <2>9. CASE JoinWorker BY <2>9 DEF TypeOK, JoinWorker
  <2>10. CASE DestroyJobs BY <1>0, <2>10 DEF TypeOK, DestroyJobs, MainPlaces
  <2>11. CASE StopLogger BY <2>11 DEF TypeOK, StopLogger, MainPlaces
  <2>12. CASE destroy_logger BY <1>0, <2>12 DEF TypeOK, destroy_logger, MainPlaces
  <2>. QED BY <1>2, <2>1, <2>2, <2>3, <2>4, <2>5, <2>6, <2>7, <2>8, <2>9, <2>10, <2>11,
              <2>12 DEF MainStep
<1>3. ASSUME NEW k \in Conns, Accept(k) PROVE TypeOK'
  <2>1. logs' \in Seq(Line) /\ Len(logs') <= MaxLog BY <1>3, LineTypes, LogTypes DEF Accept
  <2>2. jobs \in Seq(Conns) /\ Len(jobs) <= MaxJobs BY DEF TypeOK
  <2>3. jobs' \in Seq(Conns) /\ Len(jobs') <= MaxJobs BY <1>3, <2>2, PushBack DEF Accept
  <2>. QED BY <1>3, <2>1, <2>3 DEF TypeOK, Accept
<1>4. ASSUME NEW w \in Ids, WorkerStep(w) PROVE TypeOK'
  <2>1. CASE WorkerBegins(w)
    <3>1. logs' \in Seq(Line) /\ Len(logs') <= MaxLog
      BY <2>1, LineTypes, LogTypes DEF WorkerBegins
    <3>. QED BY <2>1, <3>1 DEF TypeOK, WorkerBegins
  <2>2. CASE TakeJob(w)
    <3>1. /\ Head(jobs) \in Conns /\ jobs' \in Seq(Conns) /\ Len(jobs') = Len(jobs) - 1
          /\ Len(jobs) \in Nat
      BY <2>2, PopFront, LenProperties DEF TakeJob, TypeOK
    <3>2. logs' \in Seq(Line) /\ Len(logs') <= MaxLog
      BY <2>2, <3>1, LineTypes, LogTypes DEF TakeJob
    <3>. QED BY <2>2, <3>1, <3>2 DEF TypeOK, TakeJob
  <2>3. CASE NoJob(w) BY <2>3 DEF TypeOK, NoJob
  <2>4. ASSUME NEW closed \in SUBSET held[w], process_poll(w, closed) PROVE TypeOK'
    BY <2>4 DEF TypeOK, process_poll
  <2>5. CASE WorkerEnds(w)
    <3>1. logs' \in Seq(Line) /\ Len(logs') <= MaxLog
      BY <2>5, LineTypes, LogTypes DEF WorkerEnds
    <3>. QED BY <2>5, <3>1 DEF TypeOK, WorkerEnds
  <2>. QED BY <1>4, <2>1, <2>2, <2>3, <2>4, <2>5 DEF WorkerStep
<1>5. CASE WriteLine
  <2>1. /\ logs' \in Seq(Line) /\ Len(logs') = Len(logs) - 1 /\ Len(logs) \in Nat
    BY <1>5, PopFront, LenProperties DEF WriteLine, TypeOK
  <2>. QED BY <1>5, <2>1 DEF TypeOK, WriteLine
<1>6. CASE LoggerEnds BY <1>6 DEF TypeOK, LoggerEnds
<1>7. CASE UNCHANGED vars BY <1>7 DEF TypeOK, vars
<1>. QED BY <1>1, <1>2, <1>3, <1>4, <1>5, <1>6, <1>7 DEF Next, LoggerStep

\* The variables of every thread keep their types and the queues their limits.
THEOREM Types == Spec => []TypeOK
<1>. QED BY InitTypes, NextTypes, PTL DEF Spec

----------------------------------------------------------------------------
\* Shutdown.

Quiet == \A w \in Ids : thread[w] \in {"none", "ended"}

\* Where the main thread is tells which workers can still run: none before the pool
\* is created, the ones created so far while it is, none of those joined, and none
\* any more when the pool is gone or a queue destroyed.
ShutdownInv ==
  /\ mpc = "start" => i = 1 /\ \A w \in Ids : thread[w] = "none"
  /\ mpc = "create" => \A w \in Ids : w >= i => thread[w] = "none"
  /\ mpc = "join" => \A w \in Ids : w < i => thread[w] = "ended"
  /\ mpc \in {"stop", "joinlog"} => Quiet
  /\ destroyed # {} => Quiet /\ mpc \in {"stop", "joinlog", "exited"}
  /\ "logs" \in destroyed => logger = "ended" /\ mpc = "exited"

LEMMA InitShutdown == Init => ShutdownInv
BY DEF Init, ShutdownInv, Ids

LEMMA NextShutdown == TypeOK /\ ShutdownInv /\ [Next]_vars => ShutdownInv'
<1>. SUFFICES ASSUME TypeOK, ShutdownInv, [Next]_vars PROVE ShutdownInv' OBVIOUS
<1>. USE PoolAssumption DEF mainVars, poolVars, logVars
<1>1. CASE end_program_handler BY <1>1 DEF ShutdownInv, Quiet, end_program_handler
<1>2. ASSUME MainStep PROVE ShutdownInv'
  <2>1. CASE StartPool BY <2>1 DEF ShutdownInv, Quiet, StartPool
  <2>2. CASE StartFails BY <2>2 DEF ShutdownInv, Quiet, StartFails
  <2>3. CASE CmdInitFails BY <2>3 DEF ShutdownInv, Quiet, CmdInitFails
  <2>4. CASE CreateWorker BY <2>4 DEF ShutdownInv, Quiet, CreateWorker, TypeOK, Ids
  <2>5. CASE PoolReady BY <2>5 DEF ShutdownInv, Quiet, PoolReady
  <2>6. CASE CreateFails
    <3>1. i = 1 => Quiet BY <2>6 DEF ShutdownInv, Quiet, CreateFails, Ids
    <3>. QED BY <2>6, <3>1 DEF ShutdownInv, Quiet, CreateFails
  <2>7. CASE JoinGarbage BY <2>7 DEF ShutdownInv, Quiet, JoinGarbage
  <2>8. CASE thread_pool_destroy
    BY <2>8 DEF ShutdownInv, Quiet, thread_pool_destroy, Ids
  <2>9. CASE JoinWorker BY <2>9 DEF ShutdownInv, Quiet, JoinWorker, TypeOK, Ids
  <2>10. CASE DestroyJobs
    <3>1. Quiet BY <2>10 DEF ShutdownInv, Quiet, DestroyJobs, TypeOK, Ids
    <3>. QED BY <2>10, <3>1 DEF ShutdownInv, Quiet, DestroyJobs
  <2>11. CASE StopLogger BY <2>11 DEF ShutdownInv, Quiet, StopLogger
  <2>12. CASE destroy_logger BY <2>12 DEF ShutdownInv, Quiet, destroy_logger
  <2>. QED BY <1>2, <2>1, <2>2, <2>3, <2>4, <2>5, <2>6, <2>7, <2>8, <2>9, <2>10, <2>11,
              <2>12 DEF MainStep
<1>3. ASSUME NEW k \in Conns, Accept(k) PROVE ShutdownInv'
  BY <1>3 DEF ShutdownInv, Quiet, Accept
<1>4. ASSUME NEW w \in Ids, WorkerStep(w) PROVE ShutdownInv'
  <2>. DEFINE Confined == /\ Up /\ thread[w] \in {"born", "top", "poll"}
                          /\ UNCHANGED << mainVars, logger >>
                          /\ \A v \in Ids : v # w => thread'[v] = thread[v]
  <2>0. Confined
    <3>1. CASE WorkerBegins(w) BY <3>1 DEF WorkerBegins, TypeOK
    <3>2. CASE TakeJob(w) BY <3>2 DEF TakeJob, TypeOK
    <3>3. CASE NoJob(w) BY <3>3 DEF NoJob, TypeOK
    <3>4. ASSUME NEW closed \in SUBSET held[w], process_poll(w, closed)
          PROVE  Confined
      BY <3>4 DEF process_poll, TypeOK
    <3>5. CASE WorkerEnds(w) BY <3>5 DEF WorkerEnds, TypeOK
    <3>. QED BY <1>4, <3>1, <3>2, <3>3, <3>4, <3>5 DEF WorkerStep
  <2>. QED BY <2>0 DEF ShutdownInv, Quiet, TypeOK
<1>5. CASE WriteLine BY <1>5 DEF ShutdownInv, Quiet, WriteLine
<1>6. CASE LoggerEnds BY <1>6 DEF ShutdownInv, Quiet, LoggerEnds
<1>7. CASE UNCHANGED vars BY <1>7 DEF ShutdownInv, Quiet, vars
<1>. QED BY <1>1, <1>2, <1>3, <1>4, <1>5, <1>6, <1>7 DEF Next, LoggerStep

\* No queue is used after it was destroyed, whenever the signal comes and whatever
\* thread creation fails: thread_pool_destroy and main join every user first.
THEOREM QueuesOutliveUsers == Spec => []NoUseAfterDestroy
<1>1. ShutdownInv => NoUseAfterDestroy
  BY DEF ShutdownInv, Quiet, NoUseAfterDestroy
<1>2. Spec => []ShutdownInv BY InitShutdown, NextShutdown, Types, PTL DEF Spec
<1>. QED BY <1>1, <1>2, PTL

----------------------------------------------------------------------------
\* Descriptors.

InQueue(k) == \E n \in DOMAIN jobs : jobs[n] = k

LEMMA InitPlaces == Init => OnePlaceEach
BY DEF Init, OnePlaceEach

LEMMA NextPlaces == TypeOK /\ OnePlaceEach /\ [Next]_vars => OnePlaceEach'
<1>. SUFFICES ASSUME TypeOK, OnePlaceEach, [Next]_vars PROVE OnePlaceEach' OBVIOUS
<1>. USE DEF mainVars, poolVars, logVars
<1>0. ASSUME UNCHANGED << jobs, fate, held >> PROVE OnePlaceEach'
  BY <1>0 DEF OnePlaceEach
<1>1. CASE end_program_handler BY <1>0, <1>1 DEF end_program_handler
<1>2. ASSUME MainStep PROVE OnePlaceEach'
  <2>1. CASE DestroyJobs
    <3>1. jobs' = << >> /\ held' = held
          /\ \A k \in Conns : fate'[k] = IF fate[k] = "queued" THEN "leaked" ELSE fate[k]
      BY <2>1 DEF DestroyJobs
    <3>2. DOMAIN jobs' = {} BY <3>1
    <3>. QED BY <3>1, <3>2 DEF OnePlaceEach
  <2>2. CASE ~ DestroyJobs
    <3>1. UNCHANGED << jobs, fate, held >>
      BY <1>2, <2>2 DEF MainStep, StartPool, StartFails, CmdInitFails, CreateWorker,
         PoolReady, CreateFails, JoinGarbage, thread_pool_destroy, JoinWorker, StopLogger,
         destroy_logger
    <3>. QED BY <1>0, <3>1
  <2>. QED BY <2>1, <2>2
<1>3. ASSUME NEW k \in Conns, Accept(k) PROVE OnePlaceEach'
  <2>0. /\ jobs \in Seq(Conns) /\ fate[k] = "new" /\ held' = held
        /\ Len(jobs) \in Nat /\ DOMAIN jobs = 1 .. Len(jobs)
    BY <1>3, LenProperties DEF TypeOK, Accept
  <2>1. CASE Len(jobs) = MaxJobs
    <3>1. jobs' = jobs /\ fate' = [fate EXCEPT ![k] = "leaked"]
      BY <1>3, <2>1 DEF Accept, queue_push_back
    <3>. QED BY <2>0, <3>1 DEF OnePlaceEach, TypeOK
  <2>2. CASE Len(jobs) # MaxJobs
    <3>1. jobs' = Append(jobs, k) /\ fate' = [fate EXCEPT ![k] = "queued"]
      BY <1>3, <2>2 DEF Accept, queue_push_back
    <3>2. /\ DOMAIN jobs' = DOMAIN jobs \union {Len(jobs) + 1}
          /\ \A n \in DOMAIN jobs : jobs'[n] = jobs[n]
          /\ jobs'[Len(jobs) + 1] = k /\ Len(jobs) + 1 \notin DOMAIN jobs
      BY <2>0, <3>1, AppendProperties
    <3>3. \A n \in DOMAIN jobs : jobs[n] # k BY <2>0 DEF OnePlaceEach
    <3>4. \A m, n \in DOMAIN jobs' : jobs'[m] = jobs'[n] => m = n
      BY <3>2, <3>3 DEF OnePlaceEach
    <3>5. ASSUME NEW x \in Conns
          PROVE  /\ (fate'[x] = "queued") <=> InQueue(x)'
                 /\ (fate'[x] = "held") <=> (fate[x] = "held")
      <4>1. CASE x = k BY <2>0, <3>1, <3>2, <4>1 DEF InQueue, TypeOK
      <4>2. CASE x # k
        <5>1. fate'[x] = fate[x] BY <3>1, <4>2 DEF TypeOK
        <5>2. InQueue(x)' <=> InQueue(x) BY <3>2, <4>2 DEF InQueue
        <5>. QED BY <5>1, <5>2 DEF InQueue, OnePlaceEach
      <4>. QED BY <4>1, <4>2
    <3>. QED BY <2>0, <3>4, <3>5 DEF InQueue, OnePlaceEach
  <2>. QED BY <2>1, <2>2
<1>4. ASSUME NEW w \in Ids, WorkerStep(w) PROVE OnePlaceEach'
  <2>1. CASE TakeJob(w)
    <3>. DEFINE h == Head(jobs)
    <3>1. /\ h \in Conns /\ h = jobs[1] /\ 1 \in DOMAIN jobs
          /\ \A n \in DOMAIN jobs' : n + 1 \in DOMAIN jobs /\ jobs'[n] = jobs[n + 1]
          /\ \A n \in DOMAIN jobs : n # 1 => n - 1 \in DOMAIN jobs' /\ jobs'[n - 1] = jobs[n]
          /\ DOMAIN jobs \subseteq Nat /\ DOMAIN jobs' \subseteq Nat \ {0}
      <4>1. jobs \in Seq(Conns) /\ jobs # << >> /\ jobs' = Tail(jobs)
        BY <2>1 DEF TakeJob, TypeOK
      <4>2. /\ Tail(jobs) \in Seq(Conns) BY <4>1, PopFront
      <4>3. DOMAIN jobs = 1 .. Len(jobs) /\ DOMAIN Tail(jobs) = 1 .. Len(Tail(jobs))
        BY <4>1, <4>2, LenProperties
      <4>. QED BY <4>1, <4>3, PopFront
    <3>2. /\ fate' = [fate EXCEPT ![h] = "held"]
          /\ held' = [held EXCEPT ![w] = @ \union {h}]
      BY <2>1 DEF TakeJob
    <3>. HIDE DEF h
    <3>3. fate[h] = "queued" /\ \A v \in Ids : h \notin held[v] BY <3>1 DEF OnePlaceEach
    <3>4. \A m, n \in DOMAIN jobs' : jobs'[m] = jobs'[n] => m = n
      <4>. SUFFICES ASSUME NEW m \in DOMAIN jobs', NEW n \in DOMAIN jobs', jobs'[m] = jobs'[n]
                    PROVE  m = n
        OBVIOUS
      <4>1. m + 1 = n + 1 BY <3>1 DEF OnePlaceEach
      <4>. QED BY <3>1, <4>1
    <3>5. ASSUME NEW x \in Conns PROVE (fate'[x] = "queued") <=> InQueue(x)'
      <4>1. CASE x = h
        <5>1. ASSUME NEW n \in DOMAIN jobs' PROVE jobs'[n] # h
          <6>1. n + 1 \in DOMAIN jobs /\ n + 1 # 1 /\ jobs'[n] = jobs[n + 1] BY <3>1, <5>1
          <6>. QED BY <3>1, <6>1 DEF OnePlaceEach
        <5>. QED BY <3>1, <3>2, <4>1, <5>1 DEF InQueue, TypeOK
      <4>2. CASE x # h
        <5>1. InQueue(x)' <=> InQueue(x) BY <3>1, <4>2 DEF InQueue
        <5>. QED BY <3>2, <4>2, <5>1 DEF InQueue, OnePlaceEach, TypeOK
      <4>. QED BY <4>1, <4>2
    <3>6. ASSUME NEW x \in Conns
          PROVE  /\ (fate'[x] = "held") <=> (\E v \in Ids : x \in held'[v])
                 /\ \A u, v \in Ids : x \in held'[u] /\ x \in held'[v] => u = v
      <4>1. CASE x = h BY <3>1, <3>2, <3>3, <4>1 DEF OnePlaceEach, TypeOK
      <4>2. CASE x # h
        <5>1. fate'[x] = fate[x] BY <3>2, <4>2 DEF TypeOK
        <5>2. \A v \in Ids : x \in held'[v] <=> x \in held[v] BY <3>2, <4>2 DEF TypeOK
        <5>. QED BY <5>1, <5>2 DEF OnePlaceEach
      <4>. QED BY <4>1, <4>2
    <3>. QED BY <3>4, <3>5, <3>6 DEF InQueue, OnePlaceEach
  <2>2. ASSUME NEW closed \in SUBSET held[w], process_poll(w, closed) PROVE OnePlaceEach'
    <3>1. /\ jobs' = jobs /\ closed \subseteq Conns
          /\ held' = [held EXCEPT ![w] = @ \ closed]
          /\ \A x \in Conns : fate'[x] = IF x \in closed THEN "closed" ELSE fate[x]
      BY <2>2 DEF process_poll, TypeOK
    <3>2. ASSUME NEW x \in Conns, x \in closed
          PROVE fate[x] = "held" /\ \A v \in Ids : x \notin held'[v]
      BY <3>1, <3>2 DEF OnePlaceEach, TypeOK
    <3>3. ASSUME NEW x \in Conns, x \notin closed
          PROVE \A v \in Ids : x \in held'[v] <=> x \in held[v]
      BY <3>1, <3>3 DEF TypeOK
    <3>. QED BY <3>1, <3>2, <3>3 DEF OnePlaceEach
  <2>3. CASE WorkerBegins(w) \/ NoJob(w) \/ WorkerEnds(w)
    BY <1>0, <2>3 DEF WorkerBegins, NoJob, WorkerEnds
  <2>. QED BY <1>4, <2>1, <2>2, <2>3 DEF WorkerStep
<1>5. CASE LoggerStep BY <1>0, <1>5 DEF LoggerStep, WriteLine, LoggerEnds
<1>6. CASE UNCHANGED vars BY <1>0, <1>6 DEF vars
<1>. QED BY <1>1, <1>2, <1>3, <1>4, <1>5, <1>6 DEF Next

\* However many workers pop from the one queue, every connection is in one place.
THEOREM Places == Spec => []OnePlaceEach
<1>. QED BY InitPlaces, NextPlaces, Types, PTL DEF Spec
=============================================================================
