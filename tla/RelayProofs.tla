---------------------------- MODULE RelayProofs ----------------------------
(***************************************************************************)
(* Theorems about Relay: what the server leaves in the client directory    *)
(* and what the client makes of it, for any mails, receivers, threads and  *)
(* workers, any length of names and size of buffers, any number of         *)
(* seconds, kills and restarts of either program.                          *)
(***************************************************************************)
EXTENDS Relay, PipeProofs

----------------------------------------------------------------------------
\* The types the argument rests on.

AllLinks == UNION {Links(To[m]) : m \in Mails}

Types ==
  /\ now \in Nat
  /\ step \in [Threads -> {"idle", "text", "link"}]
  /\ mail \in [Threads -> Mails \union {NoMail}]
  /\ tmp \in [Threads -> {"none", "partial", "full"}]
  /\ at \in [Threads -> Nat \ {0}] /\ N \in [Threads -> Nat]
  /\ owed \in [Mails -> SUBSET AllLinks] /\ acked \subseteq Mails
  /\ \A f \in DOMAIN spool : f.sec \in Nat /\ f.n \in Nat /\ f.tid \in Threads

\* A thread at work has a mail of its own, not yet confirmed, and its links are
\* made from a full file.
AtWork ==
  /\ \A t \in Threads : step[t] = "link" => tmp[t] = "full"
  /\ \A t \in Threads : step[t] # "idle" => mail[t] \in Mails \ acked
  /\ \A t \in Threads : step[t] = "idle" => mail[t] = NoMail
  /\ \A t, u \in Threads : mail[t] = mail[u] /\ mail[t] # NoMail => t = u

\* The links of m that are made at index a of the receivers or behind it.
From(m, a) == {LinkOf(To[m][j]) : j \in {j \in Linked(To[m]) : j >= a}}

\* What a mail still lacks is ahead of the thread that writes it, or nothing once
\* it is confirmed.
Ahead ==
  /\ \A t \in Threads : step[t] # "idle" => owed[mail[t]] \subseteq From(mail[t], at[t])
  /\ \A t \in Threads : step[t] = "text" => at[t] = 1
  /\ ConfirmedIsStored

\* A name of this second was given with an earlier count, or with this one for a
\* host the thread has been at; unless the server was started in this second.
Fresh ==
  \A f \in DOMAIN spool :
    /\ f.sec <= now
    /\ f.sec = now /\ boot # now =>
         \/ f.n < N[f.tid]
         \/ /\ f.n = N[f.tid] /\ step[f.tid] = "link"
            /\ \E j \in 1 .. (at[f.tid] - 1) : /\ j \in DOMAIN To[mail[f.tid]]
                                               /\ To[mail[f.tid]][j].dom = f.dom

\* All of it, with the property about the files.
IInv == Types /\ AtWork /\ Ahead /\ Fresh /\ WholeFiles

----------------------------------------------------------------------------
\* The receivers of a mail.

LEMMA ToTypes ==
  ASSUME NEW m \in Mails
  PROVE  /\ To[m] \in Seq(Address) /\ Len(To[m]) \in Nat /\ DOMAIN To[m] = 1 .. Len(To[m])
         /\ \A j \in DOMAIN To[m] : To[m][j] \in Address /\ To[m][j].dom # Blank
         /\ Links(To[m]) \in SUBSET AllLinks
<1>1. To[m] \in Seq(Address) BY FilesAssumption
<1>2. Len(To[m]) \in Nat /\ DOMAIN To[m] = 1 .. Len(To[m]) /\ To[m] \in [1 .. Len(To[m]) -> Address]
  BY <1>1, LenProperties
<1>3. \A j \in DOMAIN To[m] : To[m][j] \in Address BY <1>2
<1>4. \A j \in DOMAIN To[m] : To[m][j].dom # Blank BY <1>3, DomainAssumption DEF Address
<1>5. Links(To[m]) \in SUBSET AllLinks BY DEF AllLinks
<1>. QED BY <1>1, <1>2, <1>3, <1>4, <1>5

\* At the first receiver all links are ahead, behind the last one none.
LEMMA FromEnds ==
  ASSUME NEW m \in Mails
  PROVE  /\ Links(To[m]) = From(m, 1)
         /\ \A a \in Nat : a > Len(To[m]) => From(m, a) = {}
<1>1. \A j \in Linked(To[m]) : j \in Nat /\ j >= 1 /\ j <= Len(To[m])
  BY ToTypes DEF Linked
<1>2. Links(To[m]) = From(m, 1)
  <2>1. {j \in Linked(To[m]) : j >= 1} = Linked(To[m]) BY <1>1
  <2>2. Links(To[m]) = {LinkOf(To[m][j]) : j \in Linked(To[m])} BY DEF Links, LinkOf
  <2>. QED BY <2>1, <2>2 DEF From
<1>3. ASSUME NEW a \in Nat, a > Len(To[m]) PROVE From(m, a) = {}
  <2>1. {j \in Linked(To[m]) : j >= a} = {} BY <1>1, <1>3, ToTypes
  <2>. QED BY <2>1 DEF From
<1>. QED BY <1>2, <1>3

\* One step of the loop leaves at most one link behind: none if the receiver is
\* skipped.
LEMMA FromStep ==
  ASSUME NEW m \in Mails, NEW a \in Nat
  PROVE  /\ From(m, a) \subseteq From(m, a + 1) \union {LinkOf(To[m][a])}
         /\ Served(To[m], a) => From(m, a) \subseteq From(m, a + 1)
<1>. SUFFICES ASSUME NEW x \in From(m, a)
              PROVE  \/ x \in From(m, a + 1)
                     \/ x = LinkOf(To[m][a]) /\ ~ Served(To[m], a)
  OBVIOUS
<1>1. PICK j \in Linked(To[m]) : j >= a /\ x = LinkOf(To[m][j]) BY DEF From
<1>2. j \in Nat /\ ~ Served(To[m], j) BY <1>1, ToTypes DEF Linked
<1>3. CASE j = a BY <1>1, <1>2, <1>3
<1>4. CASE j # a
  <2>1. j >= a + 1 BY <1>1, <1>2, <1>4
  <2>. QED BY <1>1, <2>1 DEF From
<1>. QED BY <1>3, <1>4

----------------------------------------------------------------------------
\* The client: files go, and nothing else of this changes.

LEMMA ClientOnlyRemoves ==
  ASSUME ClientNext
  PROVE  /\ now' = now
         /\ DOMAIN spool' \subseteq DOMAIN spool
         /\ \A f \in DOMAIN spool' : spool'[f] = spool[f]
<1>1. ASSUME MasterStep PROVE UNCHANGED << spool, now >>
  BY <1>1 DEF MasterStep, get_filenames, Assign, PassOver, AssignAgain, SelectMaster, StopMaster,
     clear_workers
<1>2. ASSUME NEW w \in Workers, WorkerStep(w), ~ remove_file(w) PROVE UNCHANGED << spool, now >>
  BY <1>2 DEF WorkerStep, SelectWorker, parse_message, StopWorker
<1>3. ASSUME NEW w \in Workers, remove_file(w)
      PROVE  /\ now' = now
             /\ DOMAIN spool' \subseteq DOMAIN spool
             /\ \A f \in DOMAIN spool' : spool'[f] = spool[f]
  BY <1>3 DEF remove_file
<1>4. ASSUME NEW w \in Workers, WorkerDies(w) PROVE UNCHANGED << spool, now >>
  BY <1>4 DEF WorkerDies
<1>5. ASSUME end_program_handler \/ Restart PROVE UNCHANGED << spool, now >>
  BY <1>5 DEF end_program_handler, Restart
<1>6. ASSUME NEW f \in orphans, OrphanRemoves(f)
      PROVE  /\ now' = now
             /\ DOMAIN spool' \subseteq DOMAIN spool
             /\ \A g \in DOMAIN spool' : spool'[g] = spool[g]
  BY <1>6 DEF OrphanRemoves
<1>. QED BY <1>1, <1>2, <1>3, <1>4, <1>5, <1>6 DEF ClientNext

LEMMA ClientKeeps ==
  ASSUME IInv, ClientNext, UNCHANGED serverVars
  PROVE  IInv'
<1>. USE ClientOnlyRemoves DEF serverVars
<1>1. Types' BY DEF IInv, Types
<1>2. AtWork' BY DEF IInv, AtWork
<1>3. Ahead' BY DEF IInv, Ahead, ConfirmedIsStored, From, LinkOf
<1>4. Fresh' BY DEF IInv, Fresh
<1>5. WholeFiles' BY DEF IInv, WholeFiles
<1>. QED BY <1>1, <1>2, <1>3, <1>4, <1>5 DEF IInv

----------------------------------------------------------------------------
\* The server.

LEMMA FopenKeeps ==
  ASSUME IInv, NEW t \in Threads, NEW m \in Mails, fopen(t, m)
  PROVE  IInv'
<1>. USE DEF IInv
<1>0. /\ step[t] = "idle" /\ m \notin acked /\ \A u \in Threads : mail[u] # m
      /\ step' = [step EXCEPT ![t] = "text"] /\ mail' = [mail EXCEPT ![t] = m]
      /\ tmp' = [tmp EXCEPT ![t] = "partial"] /\ at' = [at EXCEPT ![t] = 1]
      /\ owed' = [owed EXCEPT ![m] = Links(To[m])]
      /\ UNCHANGED << spool, now, N, boot, acked >>
  BY DEF fopen, Called
<1>1. Types' BY <1>0, ToTypes DEF Types
<1>2. AtWork' BY <1>0, FilesAssumption DEF AtWork, Types
<1>3. Ahead'
  <2>1. owed'[m] = From(m, 1) /\ \A x \in Mails : x # m => owed'[x] = owed[x]
    BY <1>0, FromEnds DEF Types
  <2>2. ASSUME NEW u \in Threads, step'[u] # "idle"
        PROVE  owed'[mail'[u]] \subseteq From(mail'[u], at'[u])
    <3>1. CASE u = t BY <1>0, <2>1, <3>1 DEF Types
    <3>2. CASE u # t
      <4>1. step'[u] = step[u] /\ mail'[u] = mail[u] /\ at'[u] = at[u] BY <1>0, <3>2 DEF Types
      <4>2. mail[u] \in Mails /\ mail[u] # m BY <1>0, <2>2, <4>1 DEF AtWork
      <4>. QED BY <2>1, <2>2, <4>1, <4>2 DEF Ahead
    <3>. QED BY <3>1, <3>2
  <2>3. \A u \in Threads : step'[u] = "text" => at'[u] = 1 BY <1>0 DEF Ahead, Types
  <2>4. ConfirmedIsStored'
    <3>1. \A x \in acked : x # m /\ owed[x] = {} BY <1>0 DEF Ahead, ConfirmedIsStored
    <3>2. \A x \in acked : owed'[x] = owed[x] BY <1>0, <3>1 DEF Types
    <3>. QED BY <1>0, <3>1, <3>2 DEF ConfirmedIsStored
  <2>. QED BY <2>2, <2>3, <2>4 DEF Ahead
<1>4. Fresh' BY <1>0 DEF Fresh, Types
<1>5. WholeFiles' BY <1>0 DEF WholeFiles
<1>. QED BY <1>1, <1>2, <1>3, <1>4, <1>5

LEMMA FopenFailsKeeps ==
  ASSUME IInv, NEW t \in Threads, NEW m \in Mails, FopenFails(t, m)
  PROVE  IInv'
<1>. USE DEF IInv
<1>0. /\ \A u \in Threads : mail[u] # m
      /\ owed' = [owed EXCEPT ![m] = {}] /\ acked' = acked \union {m}
      /\ UNCHANGED << spool, now, step, mail, tmp, at, N, boot >>
  BY DEF FopenFails, Called
<1>1. Types' BY <1>0 DEF Types
<1>2. AtWork' BY <1>0 DEF AtWork, Types
<1>3. Ahead' BY <1>0 DEF Ahead, AtWork, Types, ConfirmedIsStored, From, LinkOf
<1>4. Fresh' BY <1>0 DEF Fresh
<1>5. WholeFiles' BY <1>0 DEF WholeFiles
<1>. QED BY <1>1, <1>2, <1>3, <1>4, <1>5

LEMMA FcloseKeeps ==
  ASSUME IInv, NEW t \in Threads, fclose(t)
  PROVE  IInv'
<1>. USE DEF IInv
<1>0. /\ step[t] = "text" /\ step' = [step EXCEPT ![t] = "link"]
      /\ tmp' = [tmp EXCEPT ![t] = "full"]
      /\ UNCHANGED << spool, now, mail, at, N, boot, acked, owed >>
  BY DEF fclose
<1>1. Types' BY <1>0 DEF Types
<1>2. AtWork' BY <1>0 DEF AtWork, Types
<1>3. Ahead' BY <1>0 DEF Ahead, Types, ConfirmedIsStored, From, LinkOf
<1>4. Fresh' BY <1>0 DEF Fresh, Types
<1>5. WholeFiles' BY <1>0 DEF WholeFiles
<1>. QED BY <1>1, <1>2, <1>3, <1>4, <1>5

\* A round of the loop over the receivers, whatever it did: nothing behind the loop
\* is owed, and a new file has the name of this receiver's host and a full text.
LEMMA RoundKeeps ==
  ASSUME IInv, NEW t \in Threads, Linking(t),
         at' = [at EXCEPT ![t] = @ + 1],
         UNCHANGED << now, step, mail, tmp, N, boot, acked >>,
         owed' \in [Mails -> SUBSET AllLinks],
         owed'[mail[t]] \subseteq From(mail[t], at[t] + 1),
         \A x \in Mails : x # mail[t] => owed'[x] = owed[x],
         \A f \in DOMAIN spool' :
           \/ f \in DOMAIN spool /\ spool'[f] = spool[f]
           \/ f = generate_for_client_file_name(t, To[mail[t]][at[t]].dom) /\ spool'[f].whole
  PROVE  IInv'
<1>. USE DEF IInv
<1>0. /\ step[t] = "link" /\ mail[t] \in Mails \ acked /\ at[t] \in Nat \ {0}
      /\ at[t] \in DOMAIN To[mail[t]]
  <2>1. step[t] = "link" /\ at[t] <= Len(To[mail[t]]) BY DEF Linking
  <2>2. mail[t] \in Mails \ acked /\ at[t] \in Nat \ {0} BY <2>1 DEF AtWork, Types
  <2>. QED BY <2>1, <2>2, ToTypes
<1>1. Types'
  <2>1. \A f \in DOMAIN spool' : f.sec \in Nat /\ f.n \in Nat /\ f.tid \in Threads
    BY DEF Types, generate_for_client_file_name
  <2>2. at' \in [Threads -> Nat \ {0}] BY <1>0 DEF Types
  <2>. QED BY <2>1, <2>2 DEF Types
<1>2. AtWork' BY DEF AtWork
<1>3. Ahead'
  <2>1. ASSUME NEW u \in Threads, step[u] # "idle"
        PROVE  owed'[mail[u]] \subseteq From(mail[u], at'[u])
    <3>1. CASE u = t BY <3>1 DEF Types
    <3>2. CASE u # t
      <4>1. mail[u] \in Mails /\ mail[u] # mail[t] BY <1>0, <2>1, <3>2, FilesAssumption DEF AtWork
      <4>2. at'[u] = at[u] BY <3>2 DEF Types
      <4>. QED BY <2>1, <4>1, <4>2 DEF Ahead
    <3>. QED BY <3>1, <3>2
  <2>2. \A u \in Threads : step'[u] = "text" => at'[u] = 1 BY <1>0 DEF Ahead, Types
  <2>3. ConfirmedIsStored'
    <3>1. \A x \in acked : x # mail[t] /\ owed[x] = {} BY <1>0 DEF Ahead, ConfirmedIsStored
    <3>2. \A x \in acked : owed'[x] = owed[x] BY <3>1 DEF Types
    <3>. QED BY <3>1, <3>2 DEF ConfirmedIsStored
  <2>. QED BY <2>1, <2>2, <2>3 DEF Ahead
<1>4. Fresh'
  <2>. SUFFICES ASSUME NEW f \in DOMAIN spool'
                PROVE  /\ f.sec <= now
                       /\ f.sec = now /\ boot # now =>
                            \/ f.n < N[f.tid]
                            \/ /\ f.n = N[f.tid] /\ step[f.tid] = "link"
                               /\ \E j \in 1 .. (at'[f.tid] - 1) :
                                    /\ j \in DOMAIN To[mail[f.tid]]
                                    /\ To[mail[f.tid]][j].dom = f.dom
    BY DEF Fresh
  <2>1. CASE f \in DOMAIN spool
    <3>1. f.tid \in Threads BY <2>1 DEF Types
    <3>2. 1 .. (at[f.tid] - 1) \subseteq 1 .. (at'[f.tid] - 1)
      BY <3>1 DEF Types
    <3>. QED BY <2>1, <3>2 DEF Fresh
  <2>2. CASE f = generate_for_client_file_name(t, To[mail[t]][at[t]].dom)
    <3>1. /\ f.tid = t /\ f.n = N[t] /\ f.sec = now /\ f.dom = To[mail[t]][at[t]].dom
      BY <2>2 DEF generate_for_client_file_name
    <3>2. at'[t] = at[t] + 1 BY DEF Types
    <3>3. at[t] \in 1 .. (at'[t] - 1) BY <1>0, <3>2
    <3>4. f.sec <= now BY <3>1 DEF Types
    <3>. QED BY <1>0, <3>1, <3>3, <3>4
  <2>. QED BY <2>1, <2>2
<1>5. WholeFiles' BY DEF WholeFiles
<1>. QED BY <1>1, <1>2, <1>3, <1>4, <1>5

LEMMA SkipKeeps ==
  ASSUME IInv, NEW t \in Threads, SkipReceiver(t)
  PROVE  IInv'
<1>1. /\ Linking(t) /\ Served(To[mail[t]], at[t])
      /\ at' = [at EXCEPT ![t] = @ + 1]
      /\ UNCHANGED << spool, now, step, mail, tmp, N, boot, acked, owed >>
  BY DEF SkipReceiver
<1>2. mail[t] \in Mails /\ at[t] \in Nat /\ step[t] # "idle" BY <1>1 DEF IInv, Types, AtWork, Linking
<1>3. owed[mail[t]] \subseteq From(mail[t], at[t] + 1)
  BY <1>1, <1>2, FromStep DEF IInv, Ahead
<1>4. owed' \in [Mails -> SUBSET AllLinks] BY <1>1 DEF IInv, Types
<1>5. \A f \in DOMAIN spool' : f \in DOMAIN spool /\ spool'[f] = spool[f] BY <1>1
<1>. QED BY <1>1, <1>3, <1>4, <1>5, RoundKeeps

\* Settling the link of the loop's receiver is enough.
LEMMA SettleMoves ==
  ASSUME IInv, NEW t \in Threads, Linking(t), Settle(mail[t], LinkOf(To[mail[t]][at[t]]))
  PROVE  /\ owed' \in [Mails -> SUBSET AllLinks]
         /\ owed'[mail[t]] \subseteq From(mail[t], at[t] + 1)
         /\ \A x \in Mails : x # mail[t] => owed'[x] = owed[x]
<1>. DEFINE m == mail[t]
<1>1. m \in Mails /\ at[t] \in Nat /\ step[t] # "idle" BY DEF IInv, Types, AtWork, Linking
<1>2. owed' = [owed EXCEPT ![m] = @ \ {LinkOf(To[m][at[t]])}] BY DEF Settle
<1>3. owed[m] \subseteq From(m, at[t] + 1) \union {LinkOf(To[m][at[t]])}
  BY <1>1, FromStep DEF IInv, Ahead
<1>. HIDE DEF m
<1>4. owed \in [Mails -> SUBSET AllLinks] BY DEF IInv, Types
<1>5. owed'[m] = owed[m] \ {LinkOf(To[m][at[t]])} BY <1>1, <1>2, <1>4
<1>6. owed' \in [Mails -> SUBSET AllLinks] /\ \A x \in Mails : x # m => owed'[x] = owed[x]
  BY <1>1, <1>2, <1>4
<1>7. owed'[m] \subseteq From(m, at[t] + 1) BY <1>3, <1>5
<1>. QED BY <1>6, <1>7 DEF m

LEMMA LinkLocalKeeps ==
  ASSUME IInv, NEW t \in Threads, LinkLocal(t)
  PROVE  IInv'
<1>1. /\ Linking(t) /\ Settle(mail[t], LinkOf(To[mail[t]][at[t]]))
      /\ at' = [at EXCEPT ![t] = @ + 1]
      /\ UNCHANGED << spool, now, step, mail, tmp, N, boot, acked >>
  BY DEF LinkLocal
<1>2. \A f \in DOMAIN spool' : f \in DOMAIN spool /\ spool'[f] = spool[f] BY <1>1
<1>. QED BY <1>1, <1>2, SettleMoves, RoundKeeps

\* In one run of the server a name is given once: if it is there already the server
\* was started in this second.
LEMMA NameIsNew ==
  ASSUME IInv, NEW t \in Threads, Linking(t), ~ Served(To[mail[t]], at[t]),
         ~ is_to_local(To[mail[t]][at[t]].dom), boot # now
  PROVE  generate_for_client_file_name(t, To[mail[t]][at[t]].dom) \notin DOMAIN spool
<1>. DEFINE f == generate_for_client_file_name(t, To[mail[t]][at[t]].dom)
<1>. SUFFICES ASSUME f \in DOMAIN spool PROVE FALSE OBVIOUS
<1>1. /\ f.tid = t /\ f.n = N[t] /\ f.sec = now /\ f.dom = To[mail[t]][at[t]].dom
  BY DEF generate_for_client_file_name
<1>. HIDE DEF f
<1>2. ~ (f.n < N[f.tid]) BY <1>1 DEF IInv, Types
<1>3. PICK j \in 1 .. (at[t] - 1) : To[mail[t]][j].dom = To[mail[t]][at[t]].dom
  BY <1>1, <1>2 DEF IInv, Fresh
<1>. QED BY <1>3 DEF Served

LEMMA LinkRemoteKeeps ==
  ASSUME IInv, NEW t \in Threads, LinkRemote(t)
  PROVE  IInv'
<1>. DEFINE dom == To[mail[t]][at[t]].dom
            f   == generate_for_client_file_name(t, dom)
<1>1. /\ Linking(t) /\ ~ Served(To[mail[t]], at[t]) /\ ~ is_to_local(dom)
      /\ at' = [at EXCEPT ![t] = @ + 1]
      /\ UNCHANGED << now, step, mail, tmp, N, boot, acked >>
  BY DEF LinkRemote
<1>2. CASE f \in DOMAIN spool
  <2>1. boot = now BY <1>1, <1>2, NameIsNew
  <2>2. spool' = spool /\ Settle(mail[t], LinkOf(To[mail[t]][at[t]]))
    BY <1>2, <2>1 DEF LinkRemote
  <2>3. \A x \in DOMAIN spool' : x \in DOMAIN spool /\ spool'[x] = spool[x] BY <2>2
  <2>. QED BY <1>1, <2>2, <2>3, SettleMoves, RoundKeeps
<1>3. CASE f \notin DOMAIN spool
  <2>1. /\ spool' = WithFile(f, [mail |-> mail[t], whole |-> tmp[t] = "full"])
        /\ Settle(mail[t], LinkOf(To[mail[t]][at[t]]))
    BY <1>3 DEF LinkRemote
  <2>2. tmp[t] = "full" BY <1>1 DEF IInv, AtWork, Linking
  <2>. HIDE DEF f
  <2>3. \A x \in DOMAIN spool' :
          \/ x \in DOMAIN spool /\ spool'[x] = spool[x]
          \/ x = f /\ spool'[x].whole
    <3>. DEFINE entry == [mail |-> mail[t], whole |-> tmp[t] = "full"]
    <3>1. entry.whole BY <2>2
    <3>. HIDE DEF entry
    <3>2. spool' = [x \in DOMAIN spool \union {f} |-> IF x = f THEN entry ELSE spool[x]]
      BY <2>1 DEF WithFile, entry
    <3>3. /\ DOMAIN spool' = DOMAIN spool \union {f} /\ spool'[f] = entry
          /\ \A x \in DOMAIN spool : spool'[x] = spool[x]
      BY <1>3, <3>2
    <3>. QED BY <3>1, <3>3
  <2>. QED BY <1>1, <2>1, <2>3, SettleMoves, RoundKeeps DEF f
<1>. QED BY <1>2, <1>3

LEMMA FinishKeeps ==
  ASSUME IInv, NEW t \in Threads, Finish(t)
  PROVE  IInv'
<1>. USE DEF IInv
<1>0. /\ step[t] = "link" /\ at[t] > Len(To[mail[t]])
      /\ N' = [N EXCEPT ![t] = @ + 1] /\ acked' = acked \union {mail[t]}
      /\ step' = [step EXCEPT ![t] = "idle"] /\ mail' = [mail EXCEPT ![t] = NoMail]
      /\ tmp' = [tmp EXCEPT ![t] = "none"] /\ at' = [at EXCEPT ![t] = 1]
      /\ UNCHANGED << spool, now, boot, owed >>
  BY DEF Finish
<1>1. mail[t] \in Mails \ acked BY <1>0 DEF AtWork
<1>2. Types' BY <1>0, <1>1 DEF Types
<1>3. AtWork'
  <2>1. ASSUME NEW u \in Threads, u # t PROVE mail[u] # mail[t]
    BY <1>1, <2>1, FilesAssumption DEF AtWork
  <2>. QED BY <1>0, <2>1 DEF AtWork, Types
<1>4. owed[mail[t]] = {}
  <2>1. owed[mail[t]] \subseteq From(mail[t], at[t]) BY <1>0 DEF Ahead
  <2>2. at[t] \in Nat BY DEF Types
  <2>. QED BY <1>0, <1>1, <2>1, <2>2, FromEnds
<1>5. Ahead'
  <2>1. ASSUME NEW u \in Threads, step'[u] # "idle"
        PROVE  /\ mail'[u] = mail[u] /\ at'[u] = at[u] /\ step'[u] = step[u]
    BY <1>0, <2>1 DEF Types
  <2>2. ConfirmedIsStored' BY <1>0, <1>4 DEF Ahead, ConfirmedIsStored
  <2>3. \A u \in Threads : step'[u] # "idle" => owed'[mail'[u]] \subseteq From(mail'[u], at'[u])
    BY <1>0, <2>1 DEF Ahead
  <2>4. \A u \in Threads : step'[u] = "text" => at'[u] = 1 BY <2>1 DEF Ahead
  <2>. QED BY <2>2, <2>3, <2>4 DEF Ahead
<1>6. Fresh'
  <2>. SUFFICES ASSUME NEW f \in DOMAIN spool
                PROVE  /\ f.sec <= now
                       /\ f.sec = now /\ boot # now =>
                            \/ f.n < N'[f.tid]
                            \/ /\ f.n = N'[f.tid] /\ step'[f.tid] = "link"
                               /\ \E j \in 1 .. (at'[f.tid] - 1) :
                                    /\ j \in DOMAIN To[mail'[f.tid]]
                                    /\ To[mail'[f.tid]][j].dom = f.dom
    BY <1>0 DEF Fresh
  <2>1. f.tid \in Threads /\ f.n \in Nat BY DEF Types
  <2>2. CASE f.tid = t
    <3>1. N'[t] = N[t] + 1 /\ N[t] \in Nat BY <1>0 DEF Types
    <3>2. f.sec <= now /\ (f.sec = now /\ boot # now => f.n <= N[t])
      BY <2>1, <2>2, <3>1 DEF Fresh
    <3>. QED BY <2>1, <2>2, <3>1, <3>2
  <2>3. CASE f.tid # t
    <3>1. /\ N'[f.tid] = N[f.tid] /\ step'[f.tid] = step[f.tid]
          /\ at'[f.tid] = at[f.tid] /\ mail'[f.tid] = mail[f.tid]
      BY <1>0, <2>1, <2>3 DEF Types
    <3>. QED BY <3>1 DEF Fresh
  <2>. QED BY <2>2, <2>3
<1>7. WholeFiles' BY <1>0 DEF WholeFiles
<1>. QED BY <1>2, <1>3, <1>5, <1>6, <1>7

LEMMA RebootKeeps ==
  ASSUME IInv, Reboot
  PROVE  IInv'
<1>. USE DEF IInv
<1>0. /\ boot' = now
      /\ step' = [t \in Threads |-> "idle"] /\ mail' = [t \in Threads |-> NoMail]
      /\ tmp' = [t \in Threads |-> "none"]
      /\ at' = [t \in Threads |-> 1] /\ N' = [t \in Threads |-> 0]
      /\ UNCHANGED << spool, now, acked, owed >>
  BY DEF Reboot
<1>1. Types' BY <1>0 DEF Types
<1>2. AtWork' BY <1>0 DEF AtWork
<1>3. Ahead' BY <1>0 DEF Ahead, ConfirmedIsStored
<1>4. Fresh' BY <1>0 DEF Fresh
<1>5. WholeFiles' BY <1>0 DEF WholeFiles
<1>. QED BY <1>1, <1>2, <1>3, <1>4, <1>5

LEMMA TickKeeps ==
  ASSUME IInv, Tick(<< serverVars, clientVars >>)
  PROVE  IInv'
<1>. USE DEF IInv, serverVars
<1>0. now' = now + 1 /\ now \in Nat
      /\ UNCHANGED << spool, step, mail, tmp, at, N, boot, acked, owed >>
  BY DEF Tick, Types
<1>1. Types' BY <1>0 DEF Types
<1>2. AtWork' BY <1>0 DEF AtWork
<1>3. Ahead' BY <1>0 DEF Ahead, ConfirmedIsStored, From, LinkOf
<1>4. Fresh'
  <2>1. ASSUME NEW f \in DOMAIN spool PROVE f.sec <= now' /\ f.sec # now'
    BY <1>0 DEF Fresh, Types
  <2>. QED BY <1>0, <2>1 DEF Fresh
<1>5. WholeFiles' BY <1>0 DEF WholeFiles
<1>. QED BY <1>1, <1>2, <1>3, <1>4, <1>5

----------------------------------------------------------------------------
LEMMA InitIInv == Init => IInv
<1>. SUFFICES ASSUME Init PROVE IInv OBVIOUS
<1>. USE DEF Init, ServerInit
<1>1. DOMAIN spool = {} OBVIOUS
<1>2. Types BY <1>1 DEF Types
<1>3. AtWork BY DEF AtWork
<1>4. Ahead BY DEF Ahead, ConfirmedIsStored
<1>5. Fresh BY <1>1 DEF Fresh
<1>6. WholeFiles BY <1>1 DEF WholeFiles
<1>. QED BY <1>2, <1>3, <1>4, <1>5, <1>6 DEF IInv

LEMMA NextIInv == IInv /\ [Next]_vars => IInv'
<1>. SUFFICES ASSUME IInv, [Next]_vars PROVE IInv' OBVIOUS
<1>1. ASSUME ServerNext PROVE IInv'
  <2>1. ASSUME NEW t \in Threads, ThreadStep(t) PROVE IInv'
    BY <2>1, FopenKeeps, FopenFailsKeeps, FcloseKeeps, SkipKeeps, LinkRemoteKeeps,
       LinkLocalKeeps, FinishKeeps DEF ThreadStep
  <2>. QED BY <1>1, <2>1, RebootKeeps DEF ServerNext
<1>2. ASSUME ClientNext, UNCHANGED serverVars PROVE IInv' BY <1>2, ClientKeeps
<1>3. ASSUME UNCHANGED vars PROVE IInv'
  <2>1. UNCHANGED << spool, now, step, mail, tmp, at, N, boot, acked, owed >>
    BY <1>3 DEF vars, serverVars
  <2>. QED BY <2>1 DEF IInv, Types, AtWork, Ahead, Fresh, WholeFiles, ConfirmedIsStored,
                      From, LinkOf
<1>. QED BY <1>1, <1>2, <1>3, TickKeeps DEF Next

LEMMA Invariance == Spec => []IInv
<1>. QED BY InitIInv, NextIInv, PTL DEF Spec

\* Whatever the two programs do at the same time and whenever they are killed, the
\* client never finds a file that write_mail has not finished.
THEOREM FilesAreWhole == Spec => []WholeFiles
<1>1. IInv => WholeFiles BY DEF IInv
<1>. QED BY <1>1, Invariance, PTL

\* A confirmed mail has all its links but for a failure of fopen, a missing maildir,
\* or a name of a former run in the second the server was started: any number of
\* threads, mails and receivers.
THEOREM ConfirmedMailsAreStored == Spec => []ConfirmedIsStored
<1>1. IInv => ConfirmedIsStored BY DEF IInv, Ahead
<1>. QED BY <1>1, Invariance, PTL

----------------------------------------------------------------------------
\* The master's map of hosts.

\* The map remembers of a host the worker its names go to, since when at least; it
\* knows all hosts but those that came when it was full.
HostInv ==
  /\ now \in Nat
  /\ DOMAIN addr_vs_worker \subseteq DOMAIN first
  /\ DOMAIN first \subseteq DOMAIN addr_vs_worker \/ Full(DOMAIN addr_vs_worker)
  /\ \A d \in DOMAIN first : first[d].since \in Nat
  /\ \A d \in DOMAIN addr_vs_worker :
       /\ first[d].worker = addr_vs_worker[d].worker
       /\ addr_vs_worker[d].last_time_working \in Nat
       /\ first[d].since <= addr_vs_worker[d].last_time_working
       /\ addr_vs_worker[d].last_time_working <= now

\* What HostStays says of a step.
Stays == \A d \in DOMAIN first :
           d \in DOMAIN first' /\ first'[d].worker # first[d].worker
             => \/ first'[d].since - first[d].since > MinInterval
                \/ d \notin DOMAIN addr_vs_worker /\ Full(DOMAIN addr_vs_worker)

LEMMA HostQuiet ==
  ASSUME HostInv, UNCHANGED << first, addr_vs_worker >>, now' \in {now, now + 1}
  PROVE  HostInv' /\ Stays
BY DEF HostInv, Stays

LEMMA AssignStays ==
  ASSUME HostInv, NEW f \in todo, Assign(f)
  PROVE  HostInv' /\ Stays
<1>. DEFINE dom == get_addr(f)
            w   == pick_worker(dom)
<1>. HIDE DEF dom, w
<1>0. now' = now /\ now \in Nat BY DEF Assign, HostInv
<1>1. first' = IF dom \in DOMAIN first /\ first[dom].worker = w THEN first
               ELSE [d \in DOMAIN first \union {dom} |->
                       IF d = dom THEN [worker |-> w, since |-> now] ELSE first[d]]
  BY DEF Assign, dom, w
<1>2. CASE Known(dom)
  <2>1. dom \in DOMAIN addr_vs_worker /\ w = addr_vs_worker[dom].worker
    BY <1>2 DEF Known, pick_worker, w
  <2>2. first' = first BY <1>1, <2>1 DEF HostInv
  <2>3. addr_vs_worker' = addr_vs_worker BY <1>2 DEF Assign, dom
  <2>. QED BY <1>0, <2>2, <2>3, HostQuiet
<1>3. CASE ~ Known(dom) /\ dom \notin DOMAIN addr_vs_worker /\ Full(DOMAIN addr_vs_worker)
  <2>1. addr_vs_worker' = addr_vs_worker
    BY <1>3 DEF Assign, add_addr_vs_worker, dom, w
  <2>2. first' = first \/ first' = [d \in DOMAIN first \union {dom} |->
                                     IF d = dom THEN [worker |-> w, since |-> now] ELSE first[d]]
    BY <1>1
  <2>3. HostInv' BY <1>0, <1>3, <2>1, <2>2 DEF HostInv
  <2>4. Stays BY <1>3, <2>2 DEF Stays
  <2>. QED BY <2>3, <2>4
<1>4. CASE ~ Known(dom) /\ ~ (dom \notin DOMAIN addr_vs_worker /\ Full(DOMAIN addr_vs_worker))
  <2>1. addr_vs_worker' = [d \in DOMAIN addr_vs_worker \union {dom} |->
                             IF d = dom THEN [worker |-> w, last_time_working |-> now]
                             ELSE addr_vs_worker[d]]
    BY <1>4 DEF Assign, add_addr_vs_worker, dom, w
  <2>2. dom \in DOMAIN first => dom \in DOMAIN addr_vs_worker /\ now - first[dom].since > MinInterval
    <3>1. dom \in DOMAIN first => dom \in DOMAIN addr_vs_worker BY <1>4 DEF HostInv
    <3>2. dom \in DOMAIN first => now - addr_vs_worker[dom].last_time_working > MinInterval
      BY <1>4, <3>1 DEF Known, is_time_expired
    <3>. QED BY <1>0, <3>1, <3>2, DispatchAssumption DEF HostInv
  <2>3. DOMAIN first \subseteq DOMAIN addr_vs_worker' \/ Full(DOMAIN addr_vs_worker')
    <3>1. CASE dom \in DOMAIN addr_vs_worker
      <4>1. DOMAIN addr_vs_worker' = DOMAIN addr_vs_worker BY <2>1, <3>1
      <4>. QED BY <4>1 DEF HostInv
    <3>2. CASE dom \notin DOMAIN addr_vs_worker
      <4>1. DOMAIN first \subseteq DOMAIN addr_vs_worker BY <1>4, <3>2 DEF HostInv
      <4>. QED BY <2>1, <4>1
    <3>. QED BY <3>1, <3>2
  <2>4. CASE dom \in DOMAIN first /\ first[dom].worker = w
    <3>1. first' = first BY <1>1, <2>4
    <3>2. dom \in DOMAIN addr_vs_worker /\ first[dom].since \in Nat /\ first[dom].since <= now
      BY <1>0, <2>2, <2>4 DEF HostInv
    <3>3. DOMAIN addr_vs_worker' = DOMAIN addr_vs_worker BY <2>1, <3>2
    <3>4. ASSUME NEW d \in DOMAIN addr_vs_worker'
          PROVE  /\ first'[d].worker = addr_vs_worker'[d].worker
                 /\ addr_vs_worker'[d].last_time_working \in Nat
                 /\ first'[d].since <= addr_vs_worker'[d].last_time_working
                 /\ addr_vs_worker'[d].last_time_working <= now'
      <4>1. CASE d = dom BY <1>0, <2>1, <2>4, <3>1, <3>2, <3>3, <4>1
      <4>2. CASE d # dom BY <1>0, <2>1, <3>1, <3>3, <4>2 DEF HostInv
      <4>. QED BY <4>1, <4>2
    <3>5. HostInv' BY <1>0, <2>3, <3>1, <3>3, <3>4 DEF HostInv
    <3>6. Stays BY <3>1 DEF Stays
    <3>. QED BY <3>5, <3>6
  <2>5. CASE ~ (dom \in DOMAIN first /\ first[dom].worker = w)
    <3>1. first' = [d \in DOMAIN first \union {dom} |->
                      IF d = dom THEN [worker |-> w, since |-> now] ELSE first[d]]
      BY <1>1, <2>5
    <3>2. DOMAIN first' \subseteq DOMAIN addr_vs_worker' \/ Full(DOMAIN addr_vs_worker')
      BY <2>1, <2>3, <3>1
    <3>3. HostInv' BY <1>0, <2>1, <3>1, <3>2 DEF HostInv
    <3>4. Stays BY <2>2, <3>1 DEF Stays
    <3>. QED BY <3>3, <3>4
  <2>. QED BY <2>4, <2>5
<1>. QED BY <1>2, <1>3, <1>4

LEMMA NextHosts == HostInv /\ [Next]_vars => HostInv' /\ (Stays \/ UNCHANGED vars)
<1>. SUFFICES ASSUME HostInv, [Next]_vars PROVE HostInv' /\ (Stays \/ UNCHANGED vars) OBVIOUS
<1>. USE DEF clientVars, masterVars, histVars, workerVars
<1>1. ASSUME ServerNext, UNCHANGED clientVars PROVE HostInv' /\ Stays
  <2>1. now' = now
    BY <1>1 DEF ServerNext, ThreadStep, fopen, FopenFails, fclose, SkipReceiver, LinkLocal,
       LinkRemote, Finish, Reboot
  <2>. QED BY <1>1, <2>1, HostQuiet
<1>2. ASSUME ClientNext PROVE HostInv' /\ Stays
  <2>1. ASSUME NEW f \in todo, Assign(f) PROVE HostInv' /\ Stays BY <2>1, AssignStays
  <2>2. CASE Restart
    <3>1. DOMAIN first' = {} /\ DOMAIN addr_vs_worker' = {} /\ now' = now BY <2>2 DEF Restart
    <3>. QED BY <3>1 DEF HostInv, Stays
  <2>3. CASE ~ Restart /\ ~ (\E f \in todo : Assign(f))
    <3>1. UNCHANGED << first, addr_vs_worker, now >>
      BY <1>2, <2>3 DEF ClientNext, MasterStep, get_filenames, PassOver, AssignAgain, SelectMaster,
         StopMaster, clear_workers, WorkerStep, SelectWorker, parse_message, remove_file,
         StopWorker, WorkerDies, OrphanRemoves, end_program_handler
    <3>. QED BY <3>1, HostQuiet
  <2>. QED BY <2>1, <2>2, <2>3
<1>3. ASSUME Tick(<< serverVars, clientVars >>) PROVE HostInv' /\ Stays
  <2>1. UNCHANGED << first, addr_vs_worker >> /\ now' = now + 1 BY <1>3 DEF Tick
  <2>. QED BY <2>1, HostQuiet
<1>4. ASSUME UNCHANGED vars PROVE HostInv'
  <2>1. UNCHANGED << first, addr_vs_worker, now >> BY <1>4 DEF vars
  <2>. QED BY <2>1, HostQuiet
<1>. QED BY <1>1, <1>2, <1>3, <1>4 DEF Next

\* A host keeps its worker for longer than the configured interval, however many
\* workers there are and as many hosts as the map has room for: pick_worker takes
\* another one only for an entry that has expired, and an entry is never younger than
\* the host's first name.  Only a host that came to a full map has none.
THEOREM HostsStay == Spec => HostStays
<1>1. Init => HostInv BY DEF Init, ClientInit, HostInv
<1>2. HostInv /\ [Next]_vars => HostInv' /\ [Stays]_vars BY NextHosts
<1>3. Spec => [][Stays]_vars BY <1>1, <1>2, PTL DEF Spec
<1>. QED BY <1>3 DEF HostStays, Stays

----------------------------------------------------------------------------
\* The names on their way from the directory to the workers.

\* What the server gives names to is within the bounds of names.
NameInv ==
  /\ now \in 0 .. MaxSec
  /\ \A t \in Threads : step[t] # "idle" => N[t] \in 0 .. MaxN
  /\ DOMAIN spool \subseteq Name

\* What a worker has of the names sent to it and has not taken out yet.
Stream(w) == buffer_out[w] \o pipe[w]

MasterTypes ==
  /\ todo \subseteq Name /\ rr_index \in Workers
  /\ \A d \in DOMAIN addr_vs_worker : addr_vs_worker[d].worker \in Workers
  /\ messages_in \in [Workers -> Seq(Name)]

WorkerTypes ==
  /\ pipe \in [Workers -> Seq(Piece)] /\ buffer_out \in [Workers -> Seq(Piece)]
  /\ messages_out \in [Workers -> Seq(Seq(Piece))]
  /\ wpc \in [Workers -> {"select", "load", "remove", "ended"}]
  /\ \A w \in Workers : wpc[w] \in {"load", "remove"} => messages_out[w] # << >>

\* The pipe and the buffer behind it hold whole messages, the buffer less than one.
Streams == \A w \in Workers : Complete(Stream(w)) /\ Len(buffer_out[w]) < Pieces

\* The messages a worker takes from its pipe are the names the master sent: a name
\* that the end of a read cuts in two is put together again (peer_receive,
\* parse_buffer).
NamesArriveWhole ==
  \A w \in Workers : \A j \in DOMAIN messages_out[w] :
    \E f \in Name : messages_out[w][j] = Text(f)

PipeInv == NameInv /\ MasterTypes /\ WorkerTypes /\ Streams /\ NamesArriveWhole

----------------------------------------------------------------------------
LEMMA NamesServer ==
  ASSUME IInv, NameInv, ServerNext
  PROVE  NameInv'
<1>1. ASSUME NEW t \in Threads, ThreadStep(t) PROVE NameInv'
  <2>1. CASE \E m \in Mails : fopen(t, m) \/ FopenFails(t, m)
    BY <2>1 DEF NameInv, IInv, Types, fopen, FopenFails, Called
  <2>2. CASE fclose(t) \/ SkipReceiver(t) \/ LinkLocal(t)
    BY <2>2 DEF NameInv, IInv, Types, fclose, SkipReceiver, LinkLocal
  <2>3. CASE Finish(t)
    BY <2>3 DEF NameInv, IInv, Types, Finish
  <2>4. CASE LinkRemote(t)
    <3>. DEFINE dom == To[mail[t]][at[t]].dom
                f   == generate_for_client_file_name(t, dom)
    <3>1. /\ Linking(t) /\ ~ is_to_local(dom) /\ UNCHANGED << now, step, N >>
          /\ \/ spool' = spool
             \/ spool' = WithFile(f, [mail |-> mail[t], whole |-> tmp[t] = "full"])
      BY <2>4 DEF LinkRemote
    <3>2. step[t] # "idle" /\ mail[t] \in Mails /\ at[t] \in DOMAIN To[mail[t]]
      <4>1. step[t] = "link" /\ at[t] <= Len(To[mail[t]]) BY <3>1 DEF Linking
      <4>2. mail[t] \in Mails /\ at[t] \in Nat \ {0} BY <4>1 DEF IInv, AtWork, Types
      <4>. QED BY <4>1, <4>2, ToTypes
    <3>3. dom \in Domains \ LocalDomains
      <4>1. To[mail[t]][at[t]] \in Address BY <3>2, ToTypes
      <4>. QED BY <3>1, <4>1 DEF Address, is_to_local
    <3>4. f \in Name
      <4>1. N[t] \in 0 .. MaxN /\ now \in 0 .. MaxSec BY <3>2 DEF NameInv
      <4>. HIDE DEF dom
      <4>. QED BY <3>3, <4>1 DEF generate_for_client_file_name, Name
    <3>. HIDE DEF f
    <3>5. DOMAIN spool' \subseteq Name BY <3>1, <3>4 DEF NameInv, WithFile
    <3>. QED BY <3>1, <3>5 DEF NameInv
  <2>. QED BY <1>1, <2>1, <2>2, <2>3, <2>4 DEF ThreadStep
<1>2. ASSUME Reboot PROVE NameInv' BY <1>2 DEF NameInv, Reboot
<1>. QED BY <1>1, <1>2 DEF ServerNext

LEMMA NamesKeep ==
  ASSUME IInv, NameInv, [Next]_vars
  PROVE  NameInv'
<1>1. ASSUME ClientNext, UNCHANGED serverVars PROVE NameInv'
  BY <1>1, ClientOnlyRemoves DEF NameInv, serverVars
<1>2. ASSUME Tick(<< serverVars, clientVars >>) PROVE NameInv'
  <2>1. now' = now + 1 /\ now < MaxSec /\ UNCHANGED << spool, step, N >>
    BY <1>2 DEF Tick, serverVars
  <2>. QED BY <2>1, SpoolAssumption DEF NameInv
<1>3. ASSUME UNCHANGED vars PROVE NameInv' BY <1>3 DEF NameInv, vars, serverVars
<1>. QED BY <1>1, <1>2, <1>3, NamesServer DEF Next

----------------------------------------------------------------------------
LEMMA ScanPipes ==
  ASSUME PipeInv, NameInv', get_filenames
  PROVE  PipeInv'
<1>0. /\ todo' = DOMAIN spool
      /\ UNCHANGED << rr_index, addr_vs_worker, messages_in, pipe, buffer_out, messages_out, wpc >>
  BY DEF get_filenames, workerVars
<1>1. MasterTypes' BY <1>0 DEF PipeInv, MasterTypes, NameInv
<1>2. WorkerTypes' BY <1>0 DEF PipeInv, WorkerTypes
<1>3. Streams' BY <1>0 DEF PipeInv, Streams, Stream
<1>4. NamesArriveWhole' BY <1>0 DEF PipeInv, NamesArriveWhole
<1>. QED BY <1>1, <1>2, <1>3, <1>4 DEF PipeInv

\* A name is queued for a worker there is.
LEMMA Assigned ==
  ASSUME MasterTypes, NEW f \in todo, Assign(f), NEW w, w = pick_worker(get_addr(f))
  PROVE  /\ MasterTypes' /\ w \in Workers /\ f \in Name
         /\ messages_in' = [messages_in EXCEPT ![w] = Append(@, f)]
<1>0. f \in Name BY DEF MasterTypes
<1>1. w \in Workers BY DEF pick_worker, Known, MasterTypes
<1>2. messages_in' = [messages_in EXCEPT ![w] = Append(@, f)] /\ todo' = todo \ {f}
  BY DEF Assign
<1>3. messages_in' \in [Workers -> Seq(Name)]
  <2>1. messages_in[w] \in Seq(Name) BY <1>1 DEF MasterTypes
  <2>2. Append(messages_in[w], f) \in Seq(Name) BY <1>0, <2>1, AppendProperties
  <2>. QED BY <1>1, <1>2, <2>2 DEF MasterTypes
<1>4. rr_index' \in Workers
  <2>1. rr_index' = rr_index \/ rr_index' = (rr_index + 1) % WorkerCount
    BY DEF Assign, pick_worker_by_rr
  <2>2. WorkerCount \in Nat \ {0} /\ rr_index \in Nat
    BY DispatchAssumption DEF MasterTypes, Workers
  <2>3. (rr_index + 1) % WorkerCount \in 0 .. (WorkerCount - 1) BY <2>2
  <2>. QED BY <2>1, <2>3 DEF MasterTypes, Workers
<1>5. \A d \in DOMAIN addr_vs_worker' : addr_vs_worker'[d].worker \in Workers
  <2>1. \/ addr_vs_worker' = addr_vs_worker
        \/ addr_vs_worker' = add_addr_vs_worker(get_addr(f), w)
    BY DEF Assign
  <2>. QED BY <1>1, <2>1 DEF add_addr_vs_worker, MasterTypes
<1>. QED BY <1>0, <1>1, <1>2, <1>3, <1>4, <1>5 DEF MasterTypes

LEMMA AssignPipes ==
  ASSUME PipeInv, NameInv', NEW f \in todo, Assign(f)
  PROVE  PipeInv'
<1>0. UNCHANGED << pipe, buffer_out, messages_out, wpc >> BY DEF Assign, workerVars
<1>1. MasterTypes' BY Assigned DEF PipeInv
<1>2. WorkerTypes' BY <1>0 DEF PipeInv, WorkerTypes
<1>3. Streams' BY <1>0 DEF PipeInv, Streams, Stream
<1>4. NamesArriveWhole' BY <1>0 DEF PipeInv, NamesArriveWhole
<1>. QED BY <1>1, <1>2, <1>3, <1>4 DEF PipeInv

----------------------------------------------------------------------------
\* The names a worker has to do with: queued for it, on their way, read, loaded.

Queued(w)  == {messages_in[w][i] : i \in DOMAIN messages_in[w]}
Flowing(w) == {Stream(w)[i].name : i \in DOMAIN Stream(w)}
Arrived(w) == {f \in Name : \E j \in DOMAIN messages_out[w] : messages_out[w][j] = Text(f)}
Loaded(w)  == {f \in Name : [name |-> f, worker |-> w] \in loads}

\* What the master writes for one worker: whole messages of its queue, or nothing.
LEMMA Sent ==
  ASSUME PipeInv, NEW killed, SelectMaster(killed), NEW w \in Workers
  PROVE  /\ messages_in'[w] \in Seq(Name) /\ pipe'[w] \in Seq(Piece) /\ Complete(Stream(w)')
         /\ Queued(w)' \subseteq Queued(w)
         /\ Flowing(w)' \subseteq Queued(w) \union Flowing(w)
<1>. DEFINE q == messages_in[w]
            n == Taken(q)
            front == SubSeq(q, 1, n)
            back  == SubSeq(q, n + 1, Len(q))
            b == Bytes(front)
            s == Stream(w)
<1>1. /\ messages_in'[w] = q \/ messages_in'[w] = back
      /\ pipe'[w] = pipe[w] \/ pipe'[w] = pipe[w] \o b
      /\ buffer_out' = buffer_out
  BY DEF SelectMaster, workerVars
<1>2. q \in Seq(Name) /\ pipe[w] \in Seq(Piece) /\ buffer_out[w] \in Seq(Piece) /\ Complete(s)
  BY DEF PipeInv, MasterTypes, WorkerTypes, Streams
<1>3. n \in Nat /\ n <= Len(q) /\ Len(q) \in Nat
  <2>1. n \in 0 .. Len(q) /\ Len(q) \in Nat BY <1>2, TakenIs, LenProperties
  <2>. QED BY <2>1
<1>. HIDE DEF n, q
<1>4. /\ front \in Seq(Name) /\ \A i \in DOMAIN front : \E k \in DOMAIN q : front[i] = q[k]
      /\ back \in Seq(Name) /\ \A i \in DOMAIN back : \E k \in DOMAIN q : back[i] = q[k]
  <2>1. /\ 1 \in Int /\ n + 1 \in Int /\ n \in Int /\ Len(q) \in Int
        /\ 1 <= 1 /\ 1 <= n + 1 /\ Len(q) <= Len(q) /\ n <= Len(q)
    BY <1>3
  <2>2. ASSUME NEW i \in Int, NEW j \in Int, 1 <= i, j <= Len(q)
        PROVE  /\ SubSeq(q, i, j) \in Seq(Name)
               /\ \A x \in DOMAIN SubSeq(q, i, j) : \E k \in DOMAIN q : SubSeq(q, i, j)[x] = q[k]
    <3>1. \A z \in Seq(Name) : \A m, k \in Int : 1 <= m /\ k <= Len(z) =>
            /\ SubSeq(z, m, k) \in Seq(Name)
            /\ \A x \in DOMAIN SubSeq(z, m, k) : \E l \in DOMAIN z : SubSeq(z, m, k)[x] = z[l]
      BY Part
    <3>. QED BY <1>2, <2>2, <3>1, Zenon
  <2>3. front \in Seq(Name) /\ \A i \in DOMAIN front : \E k \in DOMAIN q : front[i] = q[k]
    BY <2>1, <2>2, Zenon
  <2>4. back \in Seq(Name) /\ \A i \in DOMAIN back : \E k \in DOMAIN q : back[i] = q[k]
    BY <2>1, <2>2, Zenon
  <2>. QED BY <2>3, <2>4, Zenon
<1>. HIDE DEF front, back
<1>5. Complete(b) /\ \A i \in DOMAIN b : \E k \in DOMAIN front : b[i].name = front[k]
  BY <1>4, BytesComplete
<1>6. b \in Seq(Piece) BY <1>5 DEF Complete, Framed
<1>. HIDE DEF b
<1>7. messages_in'[w] \in Seq(Name) /\ Queued(w)' \subseteq Queued(w)
  <2>1. CASE messages_in'[w] = q BY <2>1, <1>2 DEF Queued, q
  <2>2. CASE messages_in'[w] = back
    <3>1. Queued(w)' = {back[i] : i \in DOMAIN back} BY <2>2 DEF Queued
    <3>2. Queued(w) = {q[i] : i \in DOMAIN q} BY DEF Queued, q
    <3>. QED BY <3>1, <3>2, <2>2, <1>4
  <2>. QED BY <1>1, <2>1, <2>2
<1>8. /\ pipe'[w] \in Seq(Piece) /\ Complete(Stream(w)')
      /\ Flowing(w)' \subseteq Queued(w) \union Flowing(w)
  <2>1. CASE pipe'[w] = pipe[w]
    BY <2>1, <1>1, <1>2 DEF Flowing, Stream
  <2>2. CASE pipe'[w] = pipe[w] \o b
    <3>1. Stream(w)' = buffer_out[w] \o (pipe[w] \o b) BY <2>2, <1>1 DEF Stream
    <3>2. \A x, y, z \in Seq(Piece) : x \o (y \o z) = (x \o y) \o z BY ConcatAssociative
    <3>3. Stream(w)' = s \o b BY <3>1, <3>2, <1>2, <1>6 DEF Stream
    <3>4. Complete(Stream(w)') BY <3>3, <1>2, <1>5, CompleteConcat
    <3>5. pipe[w] \o b \in Seq(Piece) BY <1>2, <1>6, ConcatProperties
    <3>6. s \in Seq(Piece) BY <1>2 DEF Complete, Framed
    <3>7. \A x, y \in Seq(Piece) : \A i \in DOMAIN (x \o y) :
            \/ \E k \in DOMAIN x : (x \o y)[i] = x[k]
            \/ \E k \in DOMAIN y : (x \o y)[i] = y[k]
      BY Joined
    <3>8. ASSUME NEW i \in DOMAIN (s \o b)
          PROVE  (s \o b)[i].name \in Queued(w) \union Flowing(w)
      <4>1. \/ \E k \in DOMAIN s : (s \o b)[i] = s[k]
            \/ \E k \in DOMAIN b : (s \o b)[i] = b[k]
        BY <3>6, <3>7, <1>6
      <4>2. ASSUME NEW k \in DOMAIN s PROVE s[k].name \in Flowing(w) BY DEF Flowing
      <4>3. ASSUME NEW k \in DOMAIN b PROVE b[k].name \in Queued(w)
        <5>1. PICK j \in DOMAIN front : b[k].name = front[j] BY <1>5
        <5>2. PICK l \in DOMAIN q : front[j] = q[l] BY <1>4
        <5>. QED BY <5>1, <5>2 DEF Queued, q
      <4>. QED BY <4>1, <4>2, <4>3
    <3>9. Flowing(w)' = {(s \o b)[i].name : i \in DOMAIN (s \o b)} BY <3>3 DEF Flowing
    <3>. QED BY <2>2, <3>4, <3>5, <3>8, <3>9
  <2>. QED BY <1>1, <2>1, <2>2
<1>. QED BY <1>7, <1>8

LEMMA SendPipes ==
  ASSUME PipeInv, NameInv', NEW killed, SelectMaster(killed)
  PROVE  PipeInv'
<1>0. UNCHANGED << todo, rr_index, addr_vs_worker, buffer_out, messages_out, wpc >>
  BY DEF SelectMaster, workerVars
<1>1. \E F, G : messages_in' = [w \in Workers |-> F[w]] /\ pipe' = [w \in Workers |-> G[w]]
  <2>1. /\ messages_in' = [w \in Workers |-> messages_in'[w]]
        /\ pipe' = [w \in Workers |-> pipe'[w]]
    BY DEF SelectMaster
  <2>. QED BY <2>1, Zenon
<1>2. messages_in' \in [Workers -> Seq(Name)] /\ pipe' \in [Workers -> Seq(Piece)]
  <2>1. \A w \in Workers : messages_in'[w] \in Seq(Name) /\ pipe'[w] \in Seq(Piece) BY Sent
  <2>. QED BY <1>1, <2>1
<1>3. MasterTypes' BY <1>0, <1>2 DEF PipeInv, MasterTypes
<1>4. WorkerTypes' BY <1>0, <1>2 DEF PipeInv, WorkerTypes
<1>5. Streams'
  <2>1. ASSUME NEW w \in Workers PROVE Complete(Stream(w)') BY Sent
  <2>. QED BY <1>0, <2>1 DEF PipeInv, Streams
<1>6. NamesArriveWhole' BY <1>0 DEF PipeInv, NamesArriveWhole
<1>. QED BY <1>3, <1>4, <1>5, <1>6 DEF PipeInv

\* What a read leaves of the pipe of w, p, and of the buffer, b, and the texts m that
\* it adds to the messages: whole names, and the rest is kept to go on with.
Reads(w, p, b, m) ==
  /\ p \in Seq(Piece) /\ b \in Seq(Piece) /\ m \in Seq(Seq(Piece))
  /\ Complete(b \o p) /\ Len(b) < Pieces
  /\ Parsed(Stream(w)) = m \o Parsed(b \o p)
  /\ pipe' = [pipe EXCEPT ![w] = p]
  /\ buffer_out' = [buffer_out EXCEPT ![w] = b]
  /\ messages_out' = [messages_out EXCEPT ![w] = @ \o m]
  /\ \A j \in DOMAIN m : \E f \in Flowing(w) \intersect Name : m[j] = Text(f)
  /\ \A i \in DOMAIN (b \o p) : (b \o p)[i].name \in Flowing(w)

LEMMA Received ==
  ASSUME PipeInv, NEW w \in Workers, SelectWorker(w)
  PROVE  /\ \E p, b, m : Reads(w, p, b, m)
         /\ wpc' = [wpc EXCEPT ![w] = IF messages_out'[w] = << >> THEN "select" ELSE "load"]
<1>. DEFINE o == buffer_out[w]
            r == pipe[w]
            size == Min({Len(r), BufSize - Len(o)})
            head == SubSeq(r, 1, size)
            rest == SubSeq(r, size + 1, Len(r))
            buf  == o \o head
<1>1. /\ pipe' = [pipe EXCEPT ![w] = SubSeq(@, size + 1, Len(@))]
      /\ buffer_out' = [buffer_out EXCEPT ![w] = Unparsed(buf)]
      /\ messages_out' = [messages_out EXCEPT ![w] = @ \o Parsed(buf)]
      /\ wpc' = [wpc EXCEPT ![w] = IF messages_out'[w] = << >> THEN "select" ELSE "load"]
  BY DEF SelectWorker
<1>2. pipe' = [pipe EXCEPT ![w] = rest] BY <1>1, Zenon
<1>3. o \in Seq(Piece) /\ r \in Seq(Piece) /\ Complete(o \o r) /\ Len(o) < Pieces
  BY DEF PipeInv, WorkerTypes, Streams, Stream
<1>. HIDE DEF o, r
<1>4. size \in Nat /\ size <= Len(r) /\ Len(r) \in Nat
  <2>1. Len(r) \in Nat /\ Len(o) \in Nat BY <1>3, LenProperties
  <2>2. BufSize - Len(o) \in Nat BY <1>3, <2>1, Sizes
  <2>. QED BY <2>1, <2>2, Smaller
<1>. HIDE DEF size
<1>5. head \in Seq(Piece) /\ rest \in Seq(Piece) /\ head \o rest = r
  <2>1. \A x \in Seq(Piece) : \A k \in 0 .. Len(x) :
          /\ SubSeq(x, 1, k) \in Seq(Piece) /\ SubSeq(x, k + 1, Len(x)) \in Seq(Piece)
          /\ SubSeq(x, 1, k) \o SubSeq(x, k + 1, Len(x)) = x
    BY Cut
  <2>2. size \in 0 .. Len(r) BY <1>4
  <2>. QED BY <1>3, <2>1, <2>2, Zenon
<1>. HIDE DEF head, rest
<1>6. buf \o rest = o \o r
  <2>1. \A x, y, z \in Seq(Piece) : (x \o y) \o z = x \o (y \o z) BY ConcatAssociative
  <2>. QED BY <1>3, <1>5, <2>1
<1>7. buf \in Seq(Piece) BY <1>3, <1>5, ConcatProperties
<1>. HIDE DEF buf
<1>8. Complete(buf \o rest) BY <1>3, <1>6
<1>9. /\ Framed(buf) /\ Unparsed(buf) \in Seq(Piece) /\ Len(Unparsed(buf)) < Pieces
      /\ Complete(Unparsed(buf) \o rest)
      /\ \A i \in DOMAIN (Unparsed(buf) \o rest) : \E j \in DOMAIN (buf \o rest) :
           (Unparsed(buf) \o rest)[i] = (buf \o rest)[j]
  BY <1>5, <1>7, <1>8, UnparsedRest
<1>10. ASSUME NEW j \in DOMAIN (buf \o rest) PROVE (buf \o rest)[j].name \in Flowing(w)
  BY <1>6 DEF Flowing, Stream, o, r
<1>11. ASSUME NEW i \in DOMAIN (Unparsed(buf) \o rest)
       PROVE  (Unparsed(buf) \o rest)[i].name \in Flowing(w)
  BY <1>9, <1>10
<1>12. ASSUME NEW j \in DOMAIN buf PROVE buf[j].name \in Flowing(w)
  <2>1. \A x, y \in Seq(Piece) : \A k \in DOMAIN x : k \in DOMAIN (x \o y) /\ (x \o y)[k] = x[k]
    OBVIOUS
  <2>2. j \in DOMAIN (buf \o rest) /\ (buf \o rest)[j] = buf[j] BY <2>1, <1>5, <1>7, Zenon
  <2>. QED BY <2>2, <1>10
<1>13. /\ Parsed(buf) \in Seq(Seq(Piece))
       /\ \A k \in DOMAIN Parsed(buf) : \E f \in Flowing(w) \intersect Name : Parsed(buf)[k] = Text(f)
  <2>1. /\ Parsed(buf) \in Seq(Seq(Piece))
        /\ \A k \in DOMAIN Parsed(buf) :
             \E j \in DOMAIN buf : buf[j].name \in Name /\ Parsed(buf)[k] = Text(buf[j].name)
    BY <1>9, ParsedNames
  <2>2. ASSUME NEW k \in DOMAIN Parsed(buf)
        PROVE  \E f \in Flowing(w) \intersect Name : Parsed(buf)[k] = Text(f)
    <3>1. PICK j \in DOMAIN buf : buf[j].name \in Name /\ Parsed(buf)[k] = Text(buf[j].name)
      BY <2>1
    <3>2. buf[j].name \in Flowing(w) \intersect Name BY <3>1, <1>12
    <3>. QED BY <3>1, <3>2, Zenon
  <2>. QED BY <2>1, <2>2
<1>14. Reads(w, rest, Unparsed(buf), Parsed(buf))
  <2>1. Parsed(Stream(w)) = Parsed(buf) \o Parsed(Unparsed(buf) \o rest)
    <3>1. Parsed(buf \o rest) = Parsed(buf) \o Parsed(Unparsed(buf) \o rest)
      BY <1>5, <1>7, <1>8, ReadInOrder
    <3>. QED BY <1>6, <3>1 DEF Stream, o, r
  <2>. DEFINE u == Unparsed(buf)
              m == Parsed(buf)
  <2>2. /\ rest \in Seq(Piece) /\ u \in Seq(Piece) /\ m \in Seq(Seq(Piece))
        /\ Complete(u \o rest) /\ Len(u) < Pieces
    BY <1>5, <1>9, <1>13
  <2>3. /\ Parsed(Stream(w)) = m \o Parsed(u \o rest)
        /\ pipe' = [pipe EXCEPT ![w] = rest]
        /\ buffer_out' = [buffer_out EXCEPT ![w] = u]
        /\ messages_out' = [messages_out EXCEPT ![w] = @ \o m]
    BY <1>1, <1>2, <2>1, Zenon
  <2>4. /\ \A j \in DOMAIN m : \E f \in Flowing(w) \intersect Name : m[j] = Text(f)
        /\ \A i \in DOMAIN (u \o rest) : (u \o rest)[i].name \in Flowing(w)
    BY <1>11, <1>13
  <2>. QED BY <2>2, <2>3, <2>4, Zenon DEF Reads
<1>. QED BY <1>1, <1>14, Zenon

LEMMA ReceivePipes ==
  ASSUME PipeInv, NameInv', NEW w \in Workers, SelectWorker(w)
  PROVE  PipeInv'
<1>0. UNCHANGED << todo, rr_index, addr_vs_worker, messages_in >> BY DEF SelectWorker, masterVars
<1>. PICK p, b, m : Reads(w, p, b, m) BY Received
<1>1. /\ p \in Seq(Piece) /\ b \in Seq(Piece) /\ m \in Seq(Seq(Piece))
      /\ Complete(b \o p) /\ Len(b) < Pieces
      /\ Parsed(Stream(w)) = m \o Parsed(b \o p)
      /\ pipe' = [pipe EXCEPT ![w] = p]
      /\ buffer_out' = [buffer_out EXCEPT ![w] = b]
      /\ messages_out' = [messages_out EXCEPT ![w] = @ \o m]
      /\ \A j \in DOMAIN m : \E f \in Flowing(w) \intersect Name : m[j] = Text(f)
      /\ \A i \in DOMAIN (b \o p) : (b \o p)[i].name \in Flowing(w)
  BY DEF Reads
<1>2. wpc' = [wpc EXCEPT ![w] = IF messages_out'[w] = << >> THEN "select" ELSE "load"]
  BY Received
<1>3. /\ pipe \in [Workers -> Seq(Piece)] /\ buffer_out \in [Workers -> Seq(Piece)]
      /\ messages_out \in [Workers -> Seq(Seq(Piece))]
      /\ wpc \in [Workers -> {"select", "load", "remove", "ended"}]
      /\ \A v \in Workers : wpc[v] \in {"load", "remove"} => messages_out[v] # << >>
  BY DEF PipeInv, WorkerTypes
<1>. DEFINE o == messages_out[w]
<1>4. o \in Seq(Seq(Piece)) /\ o \o m \in Seq(Seq(Piece)) /\ messages_out'[w] = o \o m
  BY <1>1, <1>3, ConcatProperties
<1>. HIDE DEF o
<1>5. MasterTypes' BY <1>0 DEF PipeInv, MasterTypes
<1>6. WorkerTypes'
  <2>1. /\ pipe' \in [Workers -> Seq(Piece)] /\ buffer_out' \in [Workers -> Seq(Piece)]
    BY <1>1, <1>3
  <2>2. messages_out' \in [Workers -> Seq(Seq(Piece))] BY <1>1, <1>3, <1>4 DEF o
  <2>3. wpc' \in [Workers -> {"select", "load", "remove", "ended"}] BY <1>2, <1>3
  <2>4. ASSUME NEW v \in Workers, wpc'[v] \in {"load", "remove"} PROVE messages_out'[v] # << >>
    <3>1. CASE v = w BY <3>1, <2>4, <1>2, <1>3
    <3>2. CASE v # w
      <4>1. wpc'[v] = wpc[v] /\ messages_out'[v] = messages_out[v] BY <3>2, <1>1, <1>2, <1>3
      <4>. QED BY <4>1, <2>4, <1>3
    <3>. QED BY <3>1, <3>2
  <2>. QED BY <2>1, <2>2, <2>3, <2>4 DEF WorkerTypes
<1>7. Streams'
  <2>1. ASSUME NEW v \in Workers PROVE Complete(Stream(v)') /\ Len(buffer_out'[v]) < Pieces
    <3>1. CASE v = w BY <3>1, <1>1, <1>3 DEF Stream
    <3>2. CASE v # w BY <3>2, <1>1, <1>3 DEF Stream, PipeInv, Streams
    <3>. QED BY <3>1, <3>2
  <2>. QED BY <2>1 DEF Streams
<1>8. NamesArriveWhole'
  <2>1. ASSUME NEW v \in Workers, NEW j \in DOMAIN messages_out'[v]
        PROVE  \E f \in Name : messages_out'[v][j] = Text(f)
    <3>1. CASE v = w
      <4>1. j \in DOMAIN (o \o m) BY <3>1, <2>1, <1>4
      <4>2. \/ \E k \in DOMAIN o : (o \o m)[j] = o[k]
            \/ \E k \in DOMAIN m : (o \o m)[j] = m[k]
        <5>. DEFINE S == Seq(Piece)
        <5>1. o \in Seq(S) /\ m \in Seq(S) BY <1>1, <1>4
        <5>. HIDE DEF S
        <5>. QED BY <4>1, <5>1, Joined
      <4>3. \A k \in DOMAIN o : \E f \in Name : o[k] = Text(f) BY DEF PipeInv, NamesArriveWhole, o
      <4>4. \A k \in DOMAIN m : \E f \in Name : m[k] = Text(f) BY <1>1
      <4>5. \E f \in Name : (o \o m)[j] = Text(f) BY <4>2, <4>3, <4>4, Zenon
      <4>. QED BY <4>5, <3>1, <1>4
    <3>2. CASE v # w
      <4>1. messages_out'[v] = messages_out[v] BY <3>2, <1>1, <1>3
      <4>. QED BY <4>1, <2>1 DEF PipeInv, NamesArriveWhole
    <3>. QED BY <3>1, <3>2
  <2>. QED BY <2>1 DEF NamesArriveWhole
<1>. QED BY <1>5, <1>6, <1>7, <1>8 DEF PipeInv

\* A name is dropped when its file has been removed.
LEMMA RemovePipes ==
  ASSUME PipeInv, NameInv', NEW w \in Workers, remove_file(w)
  PROVE  PipeInv'
<1>0. /\ UNCHANGED << todo, rr_index, addr_vs_worker, messages_in, pipe, buffer_out >>
      /\ messages_out' = [messages_out EXCEPT ![w] = Tail(@)] /\ wpc[w] = "remove"
      /\ wpc' = [wpc EXCEPT ![w] = IF Len(messages_out[w]) = 1 THEN "select" ELSE "load"]
  BY DEF remove_file, masterVars
<1>1. /\ messages_out \in [Workers -> Seq(Seq(Piece))]
      /\ wpc \in [Workers -> {"select", "load", "remove", "ended"}]
      /\ \A v \in Workers : wpc[v] \in {"load", "remove"} => messages_out[v] # << >>
  BY DEF PipeInv, WorkerTypes
<1>. DEFINE o == messages_out[w]
<1>2. o \in Seq(Seq(Piece)) /\ o # << >> /\ messages_out'[w] = Tail(o) BY <1>0, <1>1
<1>. HIDE DEF o
<1>3. /\ Tail(o) \in Seq(Seq(Piece)) /\ Len(o) # 1 => Tail(o) # << >>
      /\ \A j \in DOMAIN Tail(o) : j + 1 \in DOMAIN o /\ Tail(o)[j] = o[j + 1]
  BY <1>2, Behind
<1>4. MasterTypes' BY <1>0 DEF PipeInv, MasterTypes
<1>5. WorkerTypes'
  <2>1. messages_out' \in [Workers -> Seq(Seq(Piece))] BY <1>0, <1>1, <1>3 DEF o
  <2>2. wpc' \in [Workers -> {"select", "load", "remove", "ended"}] BY <1>0, <1>1
  <2>3. ASSUME NEW v \in Workers, wpc'[v] \in {"load", "remove"} PROVE messages_out'[v] # << >>
    <3>1. CASE v = w
      <4>1. Len(o) # 1 BY <3>1, <2>3, <1>0, <1>1 DEF o
      <4>. QED BY <4>1, <3>1, <1>2, <1>3
    <3>2. CASE v # w
      <4>1. wpc'[v] = wpc[v] /\ messages_out'[v] = messages_out[v] BY <3>2, <1>0, <1>1
      <4>. QED BY <4>1, <2>3, <1>1
    <3>. QED BY <3>1, <3>2
  <2>. QED BY <1>0, <2>1, <2>2, <2>3 DEF WorkerTypes, PipeInv
<1>6. Streams' BY <1>0 DEF PipeInv, Streams, Stream
<1>7. NamesArriveWhole'
  <2>1. ASSUME NEW v \in Workers, NEW j \in DOMAIN messages_out'[v]
        PROVE  \E f \in Name : messages_out'[v][j] = Text(f)
    <3>1. CASE v = w
      <4>1. \A k \in DOMAIN o : \E f \in Name : o[k] = Text(f) BY DEF PipeInv, NamesArriveWhole, o
      <4>2. messages_out'[v][j] = o[j + 1] /\ j + 1 \in DOMAIN o BY <2>1, <3>1, <1>2, <1>3
      <4>. QED BY <4>1, <4>2, Zenon
    <3>2. CASE v # w
      <4>1. messages_out'[v] = messages_out[v] BY <3>2, <1>0, <1>1
      <4>. QED BY <4>1, <2>1 DEF PipeInv, NamesArriveWhole
    <3>. QED BY <3>1, <3>2
  <2>. QED BY <2>1 DEF NamesArriveWhole
<1>. QED BY <1>4, <1>5, <1>6, <1>7 DEF PipeInv

\* A client that has just been started has sent nothing.
Started ==
  /\ todo = {} /\ rr_index = 0 /\ addr_vs_worker = << >> /\ messages_in = Each(<< >>)
  /\ pipe = Each(<< >>) /\ buffer_out = Each(<< >>) /\ messages_out = Each(<< >>)
  /\ wpc = Each("select") /\ loads = {}

LEMMA EmptyPipes == NameInv /\ Started => PipeInv
<1>. SUFFICES ASSUME NameInv, Started PROVE PipeInv OBVIOUS
<1>. USE DEF Started
<1>0. \A w \in Workers : /\ messages_in[w] = << >> /\ pipe[w] = << >> /\ buffer_out[w] = << >>
                         /\ messages_out[w] = << >> /\ wpc[w] = "select"
  BY DEF Each
<1>1. MasterTypes
  <2>1. 0 \in Workers BY DispatchAssumption DEF Workers
  <2>2. DOMAIN addr_vs_worker = {} OBVIOUS
  <2>3. messages_in \in [Workers -> Seq(Name)]
    <3>1. << >> \in Seq(Name) BY EmptySeq
    <3>. QED BY <3>1 DEF Each
  <2>. QED BY <2>1, <2>2, <2>3 DEF MasterTypes
<1>2. WorkerTypes
  <2>1. << >> \in Seq(Piece) /\ << >> \in Seq(Seq(Piece)) BY EmptySeq
  <2>2. pipe \in [Workers -> Seq(Piece)] /\ buffer_out \in [Workers -> Seq(Piece)]
    BY <2>1 DEF Each
  <2>3. messages_out \in [Workers -> Seq(Seq(Piece))] BY <2>1 DEF Each
  <2>4. wpc \in [Workers -> {"select", "load", "remove", "ended"}] BY DEF Each
  <2>. QED BY <1>0, <2>2, <2>3, <2>4 DEF WorkerTypes
<1>3. Streams
  <2>1. ASSUME NEW w \in Workers PROVE Complete(Stream(w)) /\ Len(buffer_out[w]) < Pieces
    <3>1. Stream(w) = << >> BY <1>0 DEF Stream
    <3>2. Complete(<< >>)
      <4>1. << >> \in Seq(Piece) /\ \A i \in 1 .. (Len(<< >>) - 1) : FALSE BY EmptySeq
      <4>. QED BY <4>1 DEF Complete, Framed
    <3>3. Len(buffer_out[w]) = 0 BY <1>0
    <3>. QED BY <3>1, <3>2, <3>3, Sizes
  <2>. QED BY <2>1 DEF Streams
<1>4. NamesArriveWhole
  <2>1. \A w \in Workers : DOMAIN messages_out[w] = {} BY <1>0
  <2>. QED BY <2>1 DEF NamesArriveWhole
<1>. QED BY <1>1, <1>2, <1>3, <1>4 DEF PipeInv

\* The steps that move no name: they end a process, drop a name that was sent before
\* or must wait, look at a file, or are those of a former client's workers.
Still ==
  /\ UNCHANGED << rr_index, addr_vs_worker, messages_in, pipe, buffer_out, messages_out >>
  /\ sended_files' = sended_files /\ todo' \subseteq todo
  /\ wpc' \in [Workers -> {"select", "load", "remove", "ended"}]
  /\ \A w \in Workers : wpc'[w] \in {"load", "remove"} => wpc[w] \in {"load", "remove"}

Moving == \/ get_filenames \/ Restart
          \/ \E f \in todo : Assign(f)
          \/ \E killed \in SUBSET Workers : SelectMaster(killed)
          \/ \E w \in Workers : SelectWorker(w) \/ remove_file(w)

LEMMA StillOrMoving ==
  ASSUME WorkerTypes, [Next]_vars
  PROVE  \/ Moving
         \/ Still /\ \E w \in Workers : parse_message(w)
         \/ Still /\ loads' = loads
<1>. USE DEF masterVars, workerVars, histVars, clientVars
<1>. DEFINE W == [Workers -> {"select", "load", "remove", "ended"}]
<1>0. wpc \in W BY DEF WorkerTypes
<1>1. ASSUME UNCHANGED clientVars PROVE Still /\ loads' = loads
  <2>1. wpc' \in W BY <1>0, <1>1
  <2>. QED BY <1>1, <2>1 DEF Still
<1>2. ASSUME \/ StopMaster \/ clear_workers \/ end_program_handler
             \/ \E f \in todo, aborted \in BOOLEAN : AssignAgain(f, aborted)
             \/ \E f \in todo : PassOver(f)
             \/ \E f \in orphans : OrphanRemoves(f)
      PROVE  Still /\ loads' = loads
  <2>1. /\ UNCHANGED << rr_index, addr_vs_worker, messages_in, pipe, buffer_out, messages_out >>
        /\ UNCHANGED << sended_files, wpc, loads >> /\ todo' \subseteq todo
    BY <1>2 DEF StopMaster, clear_workers, end_program_handler, AssignAgain, PassOver,
       OrphanRemoves
  <2>2. wpc' \in W BY <1>0, <2>1
  <2>. QED BY <2>1, <2>2 DEF Still
<1>3. ASSUME NEW w \in Workers, StopWorker(w) \/ WorkerDies(w) PROVE Still /\ loads' = loads
  <2>1. /\ UNCHANGED << rr_index, addr_vs_worker, messages_in, pipe, buffer_out, messages_out >>
        /\ UNCHANGED << sended_files, todo, loads >> /\ wpc' = [wpc EXCEPT ![w] = "ended"]
    BY <1>3 DEF StopWorker, WorkerDies
  <2>2. wpc' \in W /\ \A v \in Workers : wpc'[v] = "ended" \/ wpc'[v] = wpc[v] BY <1>0, <2>1
  <2>. QED BY <2>1, <2>2 DEF Still
<1>4. ASSUME NEW w \in Workers, parse_message(w) PROVE Still
  <2>1. /\ UNCHANGED << rr_index, addr_vs_worker, messages_in, pipe, buffer_out, messages_out >>
        /\ UNCHANGED << sended_files, todo >>
        /\ wpc[w] = "load" /\ wpc' = [wpc EXCEPT ![w] = "remove"]
    BY <1>4 DEF parse_message
  <2>2. wpc' \in W /\ \A v \in Workers : v = w \/ wpc'[v] = wpc[v] BY <1>0, <2>1
  <2>. QED BY <2>1, <2>2 DEF Still
<1>5. ASSUME ClientNext
      PROVE  \/ Moving
             \/ Still /\ \E w \in Workers : parse_message(w)
             \/ Still /\ loads' = loads
  BY <1>5, <1>2, <1>3, <1>4 DEF ClientNext, MasterStep, WorkerStep, Moving
<1>6. ASSUME Tick(<< serverVars, clientVars >>) PROVE Still /\ loads' = loads
  <2>1. UNCHANGED clientVars BY <1>6 DEF Tick
  <2>. QED BY <1>1, <2>1
<1>7. ASSUME UNCHANGED vars PROVE Still /\ loads' = loads
  <2>1. UNCHANGED clientVars BY <1>7 DEF vars
  <2>. QED BY <1>1, <2>1
<1>. QED BY <1>1, <1>5, <1>6, <1>7 DEF Next

LEMMA StillPipes ==
  ASSUME PipeInv, NameInv', Still
  PROVE  PipeInv'
<1>1. MasterTypes' BY DEF PipeInv, MasterTypes, Still
<1>2. WorkerTypes' BY DEF PipeInv, WorkerTypes, Still
<1>3. Streams' BY DEF PipeInv, Streams, Stream, Still
<1>4. NamesArriveWhole' BY DEF PipeInv, NamesArriveWhole, Still
<1>. QED BY <1>1, <1>2, <1>3, <1>4 DEF PipeInv

LEMMA RestartPipes == NameInv' /\ Restart => PipeInv'
<1>1. Restart => Started' BY DEF Restart, Started, Each
<1>2. NameInv' /\ Started' => PipeInv' BY EmptyPipes, PTL
<1>. QED BY <1>1, <1>2

LEMMA InitPipes == Init => PipeInv
<1>. SUFFICES ASSUME Init PROVE PipeInv OBVIOUS
<1>1. NameInv
  <2>1. DOMAIN spool = {} BY DEF Init
  <2>. QED BY <2>1, SpoolAssumption DEF Init, ServerInit, NameInv
<1>2. Started BY DEF Init, ClientInit, Started
<1>. QED BY <1>1, <1>2, EmptyPipes

LEMMA NextPipes == IInv /\ PipeInv /\ [Next]_vars => PipeInv'
<1>. SUFFICES ASSUME IInv, PipeInv, [Next]_vars PROVE PipeInv' OBVIOUS
<1>1. NameInv' BY NamesKeep DEF PipeInv
<1>2. ASSUME Moving PROVE PipeInv'
  BY <1>1, <1>2, ScanPipes, RestartPipes, AssignPipes, SendPipes, ReceivePipes, RemovePipes DEF Moving
<1>3. WorkerTypes BY DEF PipeInv
<1>. QED BY <1>1, <1>2, <1>3, StillOrMoving, StillPipes

LEMMA PipeInvariance == Spec => [](IInv /\ PipeInv)
<1>. QED BY InitIInv, NextIInv, InitPipes, NextPipes, PTL DEF Spec

\* However long names are, however large the buffers of the peers and wherever a read
\* cuts the bytes: what parse_buffer hands to a worker is a name the master sent.
THEOREM NamesComeWhole == Spec => []NamesArriveWhole
<1>1. PipeInv => NamesArriveWhole BY DEF PipeInv
<1>. QED BY <1>1, PipeInvariance, PTL

----------------------------------------------------------------------------
\* Who has a name.

Held(w) == Queued(w) \union Flowing(w) \union Arrived(w) \union Loaded(w)

\* Until the record is full every name that anyone has is in it; and of the names in it
\* each is with one worker.
OnceInv ==
  /\ loads \subseteq [name : Name, worker : Workers]
  /\ Full(sended_files) \/ \A w \in Workers : Held(w) \subseteq sended_files
  /\ \A w, v \in Workers : w # v => Held(w) \intersect Held(v) \intersect sended_files = {}

LEMMA HeldShrinks ==
  ASSUME OnceInv, loads' \subseteq [name : Name, worker : Workers],
         sended_files' = sended_files, \A w \in Workers : Held(w)' \subseteq Held(w)
  PROVE  OnceInv'
<1>1. Full(sended_files)' \/ \A w \in Workers : Held(w)' \subseteq sended_files'
  BY DEF OnceInv, Full
<1>2. ASSUME NEW w \in Workers, NEW v \in Workers, w # v
      PROVE  Held(w)' \intersect Held(v)' \intersect sended_files' = {}
  <2>1. Held(w) \intersect Held(v) \intersect sended_files = {} BY <1>2 DEF OnceInv
  <2>2. Held(w)' \subseteq Held(w) /\ Held(v)' \subseteq Held(v) OBVIOUS
  <2>. QED BY <2>1, <2>2
<1>. QED BY <1>1, <1>2 DEF OnceInv

LEMMA StillOnce ==
  ASSUME OnceInv, UNCHANGED << messages_in, pipe, buffer_out, messages_out, loads, sended_files >>
  PROVE  OnceInv'
<1>1. ASSUME NEW w \in Workers PROVE Held(w)' = Held(w)
  BY DEF Held, Queued, Flowing, Stream, Arrived, Loaded
<1>2. loads' \subseteq [name : Name, worker : Workers] BY DEF OnceInv
<1>. QED BY <1>1, <1>2, HeldShrinks

\* A file is loaded for a name that has arrived.
LEMMA LoadOnce ==
  ASSUME PipeInv, OnceInv, Still, NEW w \in Workers, parse_message(w)
  PROVE  OnceInv'
<1>. DEFINE o == messages_out[w]
            new == {f \in DOMAIN spool : Text(f) = Head(o)}
<1>0. loads' = loads \union {[name |-> f, worker |-> w] : f \in new} BY DEF parse_message
<1>1. 1 \in DOMAIN o /\ Head(o) = o[1]
  <2>1. wpc[w] = "load" BY DEF parse_message
  <2>2. o # << >> /\ o \in Seq(Seq(Piece)) BY <2>1 DEF PipeInv, WorkerTypes
  <2>. HIDE DEF o
  <2>. QED BY <2>2
<1>2. new \subseteq Arrived(w) /\ new \subseteq Name
  <2>1. ASSUME NEW f \in new PROVE f \in Arrived(w) /\ f \in Name
    <3>1. f \in Name BY DEF PipeInv, NameInv
    <3>2. o[1] = Text(f) BY <1>1
    <3>. QED BY <3>1, <3>2, <1>1 DEF Arrived
  <2>. QED BY <2>1
<1>. HIDE DEF new, o
<1>3. loads' \subseteq [name : Name, worker : Workers] BY <1>0, <1>2 DEF OnceInv
<1>4. ASSUME NEW v \in Workers PROVE Held(v)' \subseteq Held(v)
  <2>1. Queued(v)' = Queued(v) /\ Flowing(v)' = Flowing(v) /\ Arrived(v)' = Arrived(v)
    BY DEF Still, Queued, Flowing, Stream, Arrived
  <2>2. Loaded(v)' \subseteq Loaded(v) \union Arrived(v)
    <3>1. ASSUME NEW f \in Loaded(v)' PROVE f \in Loaded(v) \union Arrived(v)
      <4>1. f \in Name /\ [name |-> f, worker |-> v] \in loads' BY <3>1 DEF Loaded
      <4>2. CASE [name |-> f, worker |-> v] \in loads BY <4>1, <4>2 DEF Loaded
      <4>3. CASE [name |-> f, worker |-> v] \notin loads
        <5>1. PICK g \in new : [name |-> f, worker |-> v] = [name |-> g, worker |-> w]
          BY <1>0, <4>1, <4>3
        <5>2. f = g /\ v = w BY <5>1
        <5>. QED BY <5>2, <1>2
      <4>. QED BY <4>2, <4>3
    <3>. QED BY <3>1
  <2>. QED BY <2>1, <2>2 DEF Held
<1>5. sended_files' = sended_files BY DEF Still
<1>. QED BY <1>3, <1>4, <1>5, HeldShrinks

\* A name that goes to a worker has not gone to one before, or is not remembered.
LEMMA AssignOnce ==
  ASSUME PipeInv, OnceInv, NEW f \in todo, Assign(f)
  PROVE  OnceInv'
<1>0. PICK w : w = pick_worker(get_addr(f)) OBVIOUS
<1>1. /\ w \in Workers /\ f \in Name
      /\ messages_in' = [messages_in EXCEPT ![w] = Append(@, f)]
  BY <1>0, Assigned DEF PipeInv
<1>2. /\ f \notin sended_files /\ sended_files' = Sended(f)
      /\ UNCHANGED << pipe, buffer_out, messages_out, loads >>
  BY DEF Assign, workerVars
<1>3. messages_in \in [Workers -> Seq(Name)] BY DEF PipeInv, MasterTypes
<1>4. ASSUME NEW v \in Workers
      PROVE  /\ Flowing(v)' = Flowing(v) /\ Arrived(v)' = Arrived(v) /\ Loaded(v)' = Loaded(v)
             /\ v # w => Queued(v)' = Queued(v)
  BY <1>1, <1>2, <1>3 DEF Flowing, Stream, Arrived, Loaded, Queued
<1>5. Queued(w)' \subseteq Queued(w) \union {f}
  <2>. DEFINE q == messages_in[w]
  <2>1. q \in Seq(Name) /\ messages_in'[w] = Append(q, f) BY <1>1, <1>3
  <2>. HIDE DEF q
  <2>2. /\ Len(q) \in Nat /\ DOMAIN q = 1 .. Len(q) /\ DOMAIN Append(q, f) = 1 .. (Len(q) + 1)
        /\ \A i \in 1 .. Len(q) : Append(q, f)[i] = q[i]
        /\ Append(q, f)[Len(q) + 1] = f
    BY <2>1, <1>1, LenProperties
  <2>3. ASSUME NEW i \in DOMAIN Append(q, f) PROVE Append(q, f)[i] \in Queued(w) \union {f}
    <3>1. i = Len(q) + 1 \/ i \in 1 .. Len(q) BY <2>2
    <3>2. ASSUME i \in 1 .. Len(q) PROVE q[i] \in Queued(w) BY <2>2, <3>2 DEF Queued, q
    <3>. QED BY <2>2, <3>1, <3>2
  <2>. QED BY <2>1, <2>3 DEF Queued
<1>6. ASSUME NEW v \in Workers
      PROVE  Held(v)' \subseteq Held(v) \union {f} /\ (v # w => Held(v)' = Held(v))
  BY <1>4, <1>5 DEF Held
<1>7. loads' \subseteq [name : Name, worker : Workers] BY <1>2 DEF OnceInv
<1>8. CASE Full(sended_files)
  <2>1. sended_files' = sended_files BY <1>2, <1>8 DEF Sended
  <2>2. Full(sended_files)' BY <1>8, <2>1 DEF Full
  <2>3. ASSUME NEW v \in Workers, NEW u \in Workers, v # u
        PROVE  Held(v)' \intersect Held(u)' \intersect sended_files' = {}
    <3>1. Held(v) \intersect Held(u) \intersect sended_files = {} BY <2>3 DEF OnceInv
    <3>2. Held(v)' \subseteq Held(v) \union {f} /\ Held(u)' \subseteq Held(u) \union {f} BY <1>6
    <3>. QED BY <1>2, <2>1, <3>1, <3>2
  <2>. QED BY <1>7, <2>2, <2>3 DEF OnceInv
<1>9. CASE ~ Full(sended_files)
  <2>1. sended_files' = sended_files \union {f} BY <1>2, <1>9 DEF Sended
  <2>2. \A v \in Workers : Held(v) \subseteq sended_files BY <1>9 DEF OnceInv
  <2>3. \A v \in Workers : f \notin Held(v) BY <1>2, <2>2
  <2>4. \A v \in Workers : Held(v)' \subseteq sended_files' BY <1>6, <2>1, <2>2
  <2>5. ASSUME NEW v \in Workers, NEW u \in Workers, v # u
        PROVE  Held(v)' \intersect Held(u)' \intersect sended_files' = {}
    <3>1. Held(v) \intersect Held(u) = {}
      <4>1. Held(v) \intersect Held(u) \intersect sended_files = {} BY <2>5 DEF OnceInv
      <4>. QED BY <2>2, <4>1
    <3>2. CASE v = w
      <4>1. Held(u)' = Held(u) BY <1>6, <2>5, <3>2
      <4>. QED BY <3>1, <4>1, <1>6, <2>3
    <3>3. CASE v # w
      <4>1. Held(v)' = Held(v) BY <1>6, <3>3
      <4>. QED BY <3>1, <4>1, <1>6, <2>3
    <3>. QED BY <3>2, <3>3
  <2>. QED BY <1>7, <2>4, <2>5 DEF OnceInv
<1>. QED BY <1>8, <1>9

LEMMA SendOnce ==
  ASSUME PipeInv, OnceInv, NEW killed, SelectMaster(killed)
  PROVE  OnceInv'
<1>1. UNCHANGED << messages_out, loads, sended_files >> BY DEF SelectMaster, workerVars, histVars
<1>2. ASSUME NEW w \in Workers PROVE Held(w)' \subseteq Held(w)
  <2>1. Arrived(w)' = Arrived(w) /\ Loaded(w)' = Loaded(w) BY <1>1 DEF Arrived, Loaded
  <2>2. Queued(w)' \subseteq Queued(w) /\ Flowing(w)' \subseteq Queued(w) \union Flowing(w) BY Sent
  <2>. QED BY <2>1, <2>2 DEF Held
<1>3. loads' \subseteq [name : Name, worker : Workers] BY <1>1 DEF OnceInv
<1>. QED BY <1>1, <1>2, <1>3, HeldShrinks

\* What a worker takes out of its pipe was in it.
LEMMA ReceiveOnce ==
  ASSUME PipeInv, OnceInv, NEW w \in Workers, SelectWorker(w)
  PROVE  OnceInv'
<1>0. UNCHANGED << messages_in, loads, sended_files >> BY DEF SelectWorker, masterVars, histVars
<1>. PICK p, b, m : Reads(w, p, b, m) BY Received
<1>1. /\ p \in Seq(Piece) /\ b \in Seq(Piece) /\ m \in Seq(Seq(Piece))
      /\ Complete(b \o p) /\ Len(b) < Pieces
      /\ Parsed(Stream(w)) = m \o Parsed(b \o p)
      /\ pipe' = [pipe EXCEPT ![w] = p]
      /\ buffer_out' = [buffer_out EXCEPT ![w] = b]
      /\ messages_out' = [messages_out EXCEPT ![w] = @ \o m]
      /\ \A j \in DOMAIN m : \E f \in Flowing(w) \intersect Name : m[j] = Text(f)
      /\ \A i \in DOMAIN (b \o p) : (b \o p)[i].name \in Flowing(w)
  BY DEF Reads
<1>2. /\ pipe \in [Workers -> Seq(Piece)] /\ buffer_out \in [Workers -> Seq(Piece)]
      /\ messages_out \in [Workers -> Seq(Seq(Piece))]
  BY DEF PipeInv, WorkerTypes
<1>3. Flowing(w)' \subseteq Flowing(w)
  <2>1. Stream(w)' = b \o p BY <1>1, <1>2 DEF Stream
  <2>2. Flowing(w)' = {(b \o p)[i].name : i \in DOMAIN (b \o p)} BY <2>1 DEF Flowing
  <2>3. \A i \in DOMAIN (b \o p) : (b \o p)[i].name \in Flowing(w) BY <1>1, Zenon
  <2>. QED BY <2>2, <2>3, Zenon
<1>4. Arrived(w)' \subseteq Arrived(w) \union Flowing(w)
  <2>. DEFINE o == messages_out[w]
              S == Seq(Piece)
  <2>1. o \in Seq(S) /\ m \in Seq(S) /\ messages_out'[w] = o \o m BY <1>1, <1>2
  <2>. HIDE DEF S, o
  <2>2. ASSUME NEW f \in Arrived(w)' PROVE f \in Arrived(w) \union Flowing(w)
    <3>1. f \in Name BY <2>2 DEF Arrived
    <3>2. PICK j \in DOMAIN (o \o m) : (o \o m)[j] = Text(f) BY <2>1, <2>2 DEF Arrived
    <3>3. \/ \E k \in DOMAIN o : (o \o m)[j] = o[k]
          \/ \E k \in DOMAIN m : (o \o m)[j] = m[k]
      BY <2>1, Joined
    <3>4. CASE \E k \in DOMAIN o : (o \o m)[j] = o[k] BY <3>1, <3>2, <3>4 DEF Arrived, o
    <3>5. CASE \E k \in DOMAIN m : (o \o m)[j] = m[k]
      <4>1. PICK k \in DOMAIN m : m[k] = Text(f) BY <3>2, <3>5
      <4>2. PICK g \in Flowing(w) : m[k] = Text(g) BY <1>1, <4>1
      <4>3. f = g BY <4>1, <4>2, TextTellsName
      <4>. QED BY <4>2, <4>3
    <3>. QED BY <3>3, <3>4, <3>5
  <2>. QED BY <2>2
<1>5. ASSUME NEW v \in Workers PROVE Held(v)' \subseteq Held(v)
  <2>1. Queued(v)' = Queued(v) /\ Loaded(v)' = Loaded(v) BY <1>0 DEF Queued, Loaded
  <2>2. CASE v = w BY <2>1, <2>2, <1>3, <1>4 DEF Held
  <2>3. CASE v # w
    <3>1. /\ pipe'[v] = pipe[v] /\ buffer_out'[v] = buffer_out[v]
          /\ messages_out'[v] = messages_out[v]
      BY <2>3, <1>1, <1>2
    <3>2. Flowing(v)' = Flowing(v) /\ Arrived(v)' = Arrived(v)
      BY <3>1 DEF Flowing, Stream, Arrived
    <3>. QED BY <2>1, <3>2 DEF Held
  <2>. QED BY <2>2, <2>3
<1>6. loads' \subseteq [name : Name, worker : Workers] BY <1>0 DEF OnceInv
<1>. QED BY <1>0, <1>5, <1>6, HeldShrinks

LEMMA RemoveOnce ==
  ASSUME PipeInv, OnceInv, NEW w \in Workers, remove_file(w)
  PROVE  OnceInv'
<1>0. /\ UNCHANGED << messages_in, pipe, buffer_out, loads, sended_files >> /\ wpc[w] = "remove"
      /\ messages_out' = [messages_out EXCEPT ![w] = Tail(@)]
  BY DEF remove_file, masterVars, histVars
<1>1. /\ messages_out \in [Workers -> Seq(Seq(Piece))] /\ messages_out[w] # << >>
  BY <1>0 DEF PipeInv, WorkerTypes
<1>2. ASSUME NEW v \in Workers PROVE Arrived(v)' \subseteq Arrived(v)
  <2>1. CASE v = w
    <3>. DEFINE o == messages_out[w]
    <3>1. o \in Seq(Seq(Piece)) /\ o # << >> /\ messages_out'[v] = Tail(o) BY <2>1, <1>0, <1>1
    <3>. HIDE DEF o
    <3>2. \A j \in DOMAIN Tail(o) : j + 1 \in DOMAIN o /\ Tail(o)[j] = o[j + 1] BY <3>1, Behind
    <3>3. ASSUME NEW f \in Arrived(v)' PROVE f \in Arrived(v)
      <4>1. f \in Name BY <3>3 DEF Arrived
      <4>2. PICK j \in DOMAIN Tail(o) : Tail(o)[j] = Text(f) BY <3>1, <3>3 DEF Arrived
      <4>. QED BY <2>1, <4>1, <4>2, <3>2 DEF Arrived, o
    <3>. QED BY <3>3
  <2>2. CASE v # w
    <3>1. messages_out'[v] = messages_out[v] BY <2>2, <1>0, <1>1
    <3>. QED BY <3>1 DEF Arrived
  <2>. QED BY <2>1, <2>2
<1>3. ASSUME NEW v \in Workers PROVE Held(v)' \subseteq Held(v)
  <2>1. Queued(v)' = Queued(v) /\ Flowing(v)' = Flowing(v) /\ Loaded(v)' = Loaded(v)
    BY <1>0 DEF Queued, Flowing, Stream, Loaded
  <2>. QED BY <2>1, <1>2 DEF Held
<1>4. loads' \subseteq [name : Name, worker : Workers] BY <1>0 DEF OnceInv
<1>. QED BY <1>0, <1>3, <1>4, HeldShrinks

LEMMA StartedOnce == Started => OnceInv
<1>. SUFFICES ASSUME Started PROVE OnceInv OBVIOUS
<1>1. ASSUME NEW w \in Workers PROVE Held(w) = {}
  <2>1. messages_in[w] = << >> /\ Stream(w) = << >> /\ messages_out[w] = << >> /\ loads = {}
    BY DEF Started, Each, Stream
  <2>2. Queued(w) = {} /\ Flowing(w) = {} /\ Arrived(w) = {} /\ Loaded(w) = {}
    BY <2>1 DEF Queued, Flowing, Arrived, Loaded
  <2>. QED BY <2>2 DEF Held
<1>2. loads = {} BY DEF Started
<1>. QED BY <1>1, <1>2 DEF OnceInv

LEMMA NextOnce == PipeInv /\ OnceInv /\ [Next]_vars => OnceInv'
<1>1. Restart => Started' BY DEF Restart, Started, Each
<1>2. Started' => OnceInv' BY StartedOnce, PTL
<1>. SUFFICES ASSUME PipeInv, OnceInv, [Next]_vars PROVE OnceInv' OBVIOUS
<1>3. ASSUME get_filenames PROVE OnceInv'
  BY <1>3, StillOnce DEF get_filenames, workerVars, histVars
<1>4. ASSUME Moving PROVE OnceInv'
  BY <1>1, <1>2, <1>3, <1>4, AssignOnce, SendOnce, ReceiveOnce, RemoveOnce DEF Moving
<1>5. ASSUME Still, loads' = loads PROVE OnceInv' BY <1>5, StillOnce DEF Still
<1>6. WorkerTypes BY DEF PipeInv
<1>. QED BY <1>4, <1>5, <1>6, StillOrMoving, LoadOnce

LEMMA OnceInvariance == Spec => [](PipeInv /\ OnceInv)
<1>1. Init => OnceInv
  <2>1. Init => Started BY DEF Init, ClientInit, Started
  <2>. QED BY <2>1, StartedOnce
<1>. QED BY <1>1, NextOnce, PipeInvariance, PTL DEF Spec

\* For any number of workers and hosts, any size of the record and wherever processes
\* die: no two workers of a running client load one file, as long as the record of the
\* names sent has room; when it is full that stays so of the names in it, and of no
\* other.  What workers that a former client left behind load is not counted.
THEOREM FilesLoadedOnce == Spec => []LoadedOnce
<1>1. OnceInv => LoadedOnce
  <2>. SUFFICES ASSUME OnceInv, NEW a \in loads, NEW b \in loads, a.name = b.name,
                       a.name \in sended_files \/ ~ Full(sended_files)
                PROVE  a = b
    BY DEF LoadedOnce
  <2>1. /\ a \in [name : Name, worker : Workers] /\ b \in [name : Name, worker : Workers]
        /\ a = [name |-> a.name, worker |-> a.worker] /\ b = [name |-> b.name, worker |-> b.worker]
    BY DEF OnceInv
  <2>2. a.name \in Held(a.worker) /\ a.name \in Held(b.worker) BY <2>1 DEF Held, Loaded
  <2>3. a.name \in sended_files BY <2>1, <2>2 DEF OnceInv
  <2>4. a.worker = b.worker BY <2>1, <2>2, <2>3 DEF OnceInv
  <2>. QED BY <2>1, <2>4
<1>. QED BY <1>1, OnceInvariance, PTL

----------------------------------------------------------------------------
\* The order of the names.

\* Texts are parted and joined as any sequences are.
LEMMA TextLaws ==
  /\ \A x, y, z \in Seq(Seq(Piece)) : (x \o y) \o z = x \o (y \o z)
  /\ \A x, y \in Seq(Seq(Piece)) : x \o y \in Seq(Seq(Piece))
  /\ \A x, y \in Seq(Seq(Piece)) : x # << >> => Tail(x \o y) = Tail(x) \o y
  /\ \A x, y \in Seq(Seq(Piece)), e \in Seq(Piece) : x \o Append(y, e) = Append(x \o y, e)
  /\ \A x \in Seq(Seq(Piece)) : x # << >> => Tail(x) \in Seq(Seq(Piece))
<1>. DEFINE S == Seq(Piece)
<1>. SUFFICES /\ \A x, y, z \in Seq(S) : (x \o y) \o z = x \o (y \o z)
              /\ \A x, y \in Seq(S) : x \o y \in Seq(S)
              /\ \A x, y \in Seq(S) : x # << >> => Tail(x \o y) = Tail(x) \o y
              /\ \A x, y \in Seq(S), e \in S : x \o Append(y, e) = Append(x \o y, e)
              /\ \A x \in Seq(S) : x # << >> => Tail(x) \in Seq(S)
  OBVIOUS
<1>. HIDE DEF S
<1>1. \A x, y, z \in Seq(S) : (x \o y) \o z = x \o (y \o z) BY ConcatAssociative
<1>2. \A x, y \in Seq(S) : x \o y \in Seq(S) BY ConcatProperties
<1>3. ASSUME NEW x \in Seq(S), NEW y \in Seq(S), x # << >>
      PROVE  Tail(x \o y) = Tail(x) \o y
  <2>1. Len(x) \in Nat /\ Len(x) # 0 BY <1>3, EmptySeq, LenProperties
  <2>2. x \o y \in Seq(S) /\ x \o y # << >> /\ Tail(x) \in Seq(S) BY <1>3, <2>1
  <2>3. Tail(x \o y) \in Seq(S) /\ Tail(x) \o y \in Seq(S) BY <2>2, HeadTailProperties, <1>2
  <2>4. Len(Tail(x \o y)) = Len(Tail(x) \o y) BY <2>1, <2>2
  <2>5. \A k \in 1 .. Len(Tail(x \o y)) : Tail(x \o y)[k] = (Tail(x) \o y)[k] BY <2>1, <2>2
  <2>. QED BY <2>3, <2>4, <2>5, SeqEqual
<1>4. ASSUME NEW x \in Seq(S), NEW y \in Seq(S), NEW e \in S
      PROVE  x \o Append(y, e) = Append(x \o y, e)
  <2>1. Append(y, e) = y \o << e >> /\ Append(x \o y, e) = (x \o y) \o << e >>
    BY <1>2, AppendIsConcat
  <2>2. << e >> \in Seq(S) OBVIOUS
  <2>. QED BY <1>1, <2>1, <2>2
<1>5. \A x \in Seq(S) : x # << >> => Tail(x) \in Seq(S) BY HeadTailProperties
<1>. QED BY <1>1, <1>2, <1>3, <1>4, <1>5

\* The three parts of a worker's way.
LEMMA WayIs ==
  ASSUME PipeInv, NEW w \in Workers
  PROVE  /\ Way(w) = (messages_out[w] \o Parsed(Stream(w))) \o Texts(messages_in[w])
         /\ messages_out[w] \in Seq(Seq(Piece)) /\ Parsed(Stream(w)) \in Seq(Seq(Piece))
         /\ Texts(messages_in[w]) \in Seq(Seq(Piece)) /\ messages_in[w] \in Seq(Name)
<1>1. Way(w) = (messages_out[w] \o Parsed(Stream(w))) \o Texts(messages_in[w])
  BY DEF Way, Stream, Texts
<1>2. messages_out[w] \in Seq(Seq(Piece)) /\ messages_in[w] \in Seq(Name)
  BY DEF PipeInv, WorkerTypes, MasterTypes
<1>3. Framed(Stream(w)) BY DEF PipeInv, Streams, Complete
<1>. QED BY <1>1, <1>2, <1>3, ParsedNames, TextsAre

LEMMA WayIsNext ==
  ASSUME NEW w \in Workers
  PROVE  Way(w)' = (messages_out'[w] \o Parsed(Stream(w)')) \o Texts(messages_in'[w])
BY DEF Way, Stream, Texts

LEMMA WaySame ==
  ASSUME NEW w \in Workers, messages_out'[w] = messages_out[w], pipe'[w] = pipe[w],
         buffer_out'[w] = buffer_out[w], messages_in'[w] = messages_in[w]
  PROVE  Way(w)' = Way(w)
BY DEF Way

\* A name that is assigned comes last.
LEMMA AssignOrder ==
  ASSUME PipeInv, NEW f \in todo, Assign(f), NEW w \in Workers
  PROVE  Way(w)' = Way(w) \/ Way(w)' = Append(Way(w), Text(f))
<1>1. PICK v : v = pick_worker(get_addr(f)) OBVIOUS
<1>2. f \in Name /\ v \in Workers /\ messages_in' = [messages_in EXCEPT ![v] = Append(@, f)]
  BY <1>1, Assigned DEF PipeInv
<1>3. UNCHANGED << pipe, buffer_out, messages_out >> BY DEF Assign, workerVars
<1>4. messages_in \in [Workers -> Seq(Name)] BY DEF PipeInv, MasterTypes
<1>5. CASE w # v
  <2>1. messages_in'[w] = messages_in[w] BY <1>2, <1>4, <1>5
  <2>. QED BY <1>3, <2>1, WaySame
<1>6. CASE w = v
  <2>. DEFINE q == messages_in[w]
              x == messages_out[w] \o Parsed(Stream(w))
  <2>1. q \in Seq(Name) /\ messages_in'[w] = Append(q, f) BY <1>2, <1>4, <1>6
  <2>2. /\ Way(w) = x \o Texts(q) /\ x \in Seq(Seq(Piece)) /\ Texts(q) \in Seq(Seq(Piece))
    BY WayIs, TextLaws
  <2>3. Way(w)' = x \o Texts(Append(q, f)) BY <1>3, <2>1, WayIsNext DEF Stream
  <2>. HIDE DEF q, x
  <2>4. Text(f) \in Seq(Piece) BY <1>2, TextIs
  <2>5. Texts(Append(q, f)) = Append(Texts(q), Text(f))
    <3>1. /\ Len(q) \in Nat /\ Append(q, f) \in Seq(Name) /\ Len(Append(q, f)) = Len(q) + 1
          /\ \A k \in 1 .. Len(q) : Append(q, f)[k] = q[k]
          /\ Append(q, f)[Len(q) + 1] = f
      BY <1>2, <2>1
    <3>2. /\ Texts(Append(q, f)) \in Seq(Seq(Piece)) /\ Len(Texts(Append(q, f))) = Len(q) + 1
          /\ \A k \in 1 .. (Len(q) + 1) : Texts(Append(q, f))[k] = Text(Append(q, f)[k])
      BY <3>1, TextsAre
    <3>3. Len(Texts(q)) = Len(q) /\ \A k \in 1 .. Len(q) : Texts(q)[k] = Text(q[k])
      BY <2>1, TextsAre
    <3>. DEFINE S == Seq(Piece)
                y == Texts(q)
                z == Texts(Append(q, f))
                e == Text(f)
    <3>4. y \in Seq(S) /\ z \in Seq(S) /\ e \in S BY <2>2, <2>4, <3>2
    <3>5. Len(y) = Len(q) /\ Len(z) = Len(q) + 1 BY <3>2, <3>3
    <3>6. ASSUME NEW k \in 1 .. Len(q) PROVE z[k] = y[k]
      <4>1. k \in 1 .. (Len(q) + 1) BY <3>1
      <4>2. Append(q, f)[k] = q[k] BY <3>1
      <4>3. z[k] = Text(Append(q, f)[k]) BY <3>2, <4>1
      <4>4. y[k] = Text(q[k]) BY <3>3
      <4>. QED BY <4>2, <4>3, <4>4
    <3>7. z[Len(q) + 1] = e BY <3>1, <3>2
    <3>. HIDE DEF S, y, z, e
    <3>8. /\ Append(y, e) \in Seq(S) /\ Len(Append(y, e)) = Len(q) + 1
          /\ \A k \in 1 .. Len(q) : Append(y, e)[k] = y[k] /\ Append(y, e)[Len(q) + 1] = e
      BY <3>4, <3>5, AppendProperties
    <3>9. \A k \in 1 .. (Len(q) + 1) : k \in 1 .. Len(q) \/ k = Len(q) + 1 BY <3>1
    <3>10. Append(y, e)[Len(q) + 1] = e BY <3>1, <3>4, <3>5, AppendProperties
    <3>11. \A k \in 1 .. Len(z) : z[k] = Append(y, e)[k] BY <3>5, <3>6, <3>7, <3>8, <3>9, <3>10
    <3>12. z = Append(y, e) BY <3>4, <3>5, <3>8, <3>11, SeqEqual
    <3>. QED BY <3>12 DEF y, z, e
  <2>6. x \o Append(Texts(q), Text(f)) = Append(x \o Texts(q), Text(f))
    <3>1. \A u, y \in Seq(Seq(Piece)), e \in Seq(Piece) : u \o Append(y, e) = Append(u \o y, e)
      BY TextLaws
    <3>2. x \in Seq(Seq(Piece)) /\ Texts(q) \in Seq(Seq(Piece)) BY <2>2
    <3>. QED BY <2>4, <3>1, <3>2, Zenon
  <2>. QED BY <2>2, <2>3, <2>5, <2>6, Zenon
<1>. QED BY <1>5, <1>6

\* Writing to a pipe moves names from the queue to the stream.
LEMMA SendOrder ==
  ASSUME PipeInv, NEW killed, SelectMaster(killed), NEW w \in Workers
  PROVE  Way(w)' = Way(w) \/ (fd_open[w] /\ ~ fd_open'[w])
<1>. DEFINE q == messages_in[w]
            n == Taken(q)
            front == SubSeq(q, 1, n)
            back  == SubSeq(q, n + 1, Len(q))
            b == Bytes(front)
            s == Stream(w)
            o == messages_out[w]
<1>1. /\ \/ messages_in'[w] = q /\ pipe'[w] = pipe[w]
         \/ messages_in'[w] = back /\ pipe'[w] = pipe[w] \o b
         \/ fd_open[w] /\ ~ fd_open'[w]
      /\ buffer_out' = buffer_out /\ messages_out' = messages_out
  BY DEF SelectMaster, workerVars
<1>2. CASE messages_in'[w] = q /\ pipe'[w] = pipe[w] BY <1>1, <1>2, WaySame
<1>3. CASE messages_in'[w] = back /\ pipe'[w] = pipe[w] \o b
  <2>1. q \in Seq(Name) /\ pipe[w] \in Seq(Piece) /\ buffer_out[w] \in Seq(Piece) /\ Complete(s)
    BY DEF PipeInv, MasterTypes, WorkerTypes, Streams
  <2>2. /\ Way(w) = (o \o Parsed(s)) \o Texts(q)
        /\ o \in Seq(Seq(Piece)) /\ Parsed(s) \in Seq(Seq(Piece)) /\ Texts(q) \in Seq(Seq(Piece))
    BY WayIs
  <2>3. Way(w)' = (o \o Parsed(Stream(w)')) \o Texts(back) BY <1>1, <1>3, WayIsNext
  <2>4. Stream(w)' = buffer_out[w] \o (pipe[w] \o b) BY <1>1, <1>3 DEF Stream
  <2>5. s = buffer_out[w] \o pipe[w] BY DEF Stream
  <2>6. n \in Nat /\ n <= Len(q) /\ Len(q) \in Nat
    <3>1. n \in 0 .. Len(q) /\ Len(q) \in Nat BY <2>1, TakenIs, LenProperties
    <3>. QED BY <3>1
  <2>. HIDE DEF n, q, s, o
  <2>7. /\ front \in Seq(Name) /\ Len(front) = n /\ \A k \in 1 .. n : front[k] = q[k]
        /\ back \in Seq(Name) /\ Len(back) = Len(q) - n
        /\ \A k \in 1 .. (Len(q) - n) : back[k] = q[n + k]
    <3>1. \A x \in Seq(Name) : \A k \in Nat : k <= Len(x) =>
            /\ SubSeq(x, 1, k) \in Seq(Name) /\ Len(SubSeq(x, 1, k)) = k
            /\ \A j \in 1 .. k : SubSeq(x, 1, k)[j] = x[j]
            /\ SubSeq(x, k + 1, Len(x)) \in Seq(Name)
            /\ Len(SubSeq(x, k + 1, Len(x))) = Len(x) - k
            /\ \A j \in 1 .. (Len(x) - k) : SubSeq(x, k + 1, Len(x))[j] = x[k + j]
      OBVIOUS
    <3>. QED BY <2>1, <2>6, <3>1, Zenon
  <2>. HIDE DEF front, back
  <2>8. Texts(q) = Texts(front) \o Texts(back)
    <3>. DEFINE x == Texts(q)
                y == Texts(front)
                z == Texts(back)
    <3>1. /\ x \in Seq(Seq(Piece)) /\ Len(x) = Len(q)
          /\ \A k \in 1 .. Len(q) : x[k] = Text(q[k])
      BY <2>1, TextsAre
    <3>2. /\ y \in Seq(Seq(Piece)) /\ Len(y) = n
          /\ \A k \in 1 .. n : y[k] = Text(front[k])
      BY <2>7, TextsAre
    <3>3. /\ z \in Seq(Seq(Piece)) /\ Len(z) = Len(q) - n
          /\ \A k \in 1 .. (Len(q) - n) : z[k] = Text(back[k])
      BY <2>7, TextsAre
    <3>. HIDE DEF x, y, z
    <3>4. Len(x) = Len(y) + Len(z) BY <2>6, <3>1, <3>2, <3>3
    <3>5. \A k \in 1 .. Len(y) : x[k] = y[k]
      <4>1. \A k \in 1 .. n : k \in 1 .. Len(q) BY <2>6
      <4>. QED BY <2>7, <3>1, <3>2, <4>1
    <3>6. \A k \in 1 .. Len(z) : x[Len(y) + k] = z[k]
      <4>1. \A k \in 1 .. (Len(q) - n) : n + k \in 1 .. Len(q) BY <2>6
      <4>. QED BY <2>7, <3>1, <3>2, <3>3, <4>1
    <3>7. x = y \o z BY <3>1, <3>2, <3>3, <3>4, <3>5, <3>6, SameTexts
    <3>. QED BY <3>7 DEF x, y, z
  <2>9. b \in Seq(Piece) BY <2>7, BytesComplete DEF Complete, Framed
  <2>10. Parsed(s \o b) = Parsed(s) \o Texts(front) BY <2>1, <2>7, WrittenInOrder
  <2>. HIDE DEF b
  <2>11. Stream(w)' = s \o b
    <3>1. \A x, y, z \in Seq(Piece) : x \o (y \o z) = (x \o y) \o z BY ConcatAssociative
    <3>. QED BY <2>1, <2>4, <2>5, <2>9, <3>1
  <2>12. Texts(front) \in Seq(Seq(Piece)) /\ Texts(back) \in Seq(Seq(Piece)) BY <2>7, TextsAre
  <2>. DEFINE c == Parsed(s)
              f == Texts(front)
              g == Texts(back)
  <2>13. Way(w)' = (o \o (c \o f)) \o g BY <2>3, <2>10, <2>11
  <2>14. /\ o \in Seq(Seq(Piece)) /\ c \in Seq(Seq(Piece))
         /\ f \in Seq(Seq(Piece)) /\ g \in Seq(Seq(Piece))
    BY <2>2, <2>12
  <2>15. Way(w) = (o \o c) \o (f \o g) BY <2>2, <2>8
  <2>. HIDE DEF c, f, g
  <2>16. (o \o (c \o f)) \o g = (o \o c) \o (f \o g)
    <3>1. \A x, y, z \in Seq(Seq(Piece)) : (x \o y) \o z = x \o (y \o z) BY TextLaws
    <3>2. \A x, y \in Seq(Seq(Piece)) : x \o y \in Seq(Seq(Piece)) BY TextLaws
    <3>3. o \in Seq(Seq(Piece)) /\ c \in Seq(Seq(Piece)) BY <2>14
    <3>4. f \in Seq(Seq(Piece)) BY <2>14
    <3>5. g \in Seq(Seq(Piece)) BY <2>14
    <3>6. o \o (c \o f) = (o \o c) \o f BY <3>1, <3>3, <3>4, Zenon
    <3>7. o \o c \in Seq(Seq(Piece)) BY <3>2, <3>3, Zenon
    <3>8. ((o \o c) \o f) \o g = (o \o c) \o (f \o g) BY <3>1, <3>4, <3>5, <3>7, Zenon
    <3>. QED BY <3>6, <3>8, Zenon
  <2>. QED BY <2>13, <2>15, <2>16, Zenon
<1>. QED BY <1>1, <1>2, <1>3

\* Reading moves names from the stream to the messages.
LEMMA ReceiveOrder ==
  ASSUME PipeInv, NEW w \in Workers, SelectWorker(w), NEW v \in Workers
  PROVE  Way(v)' = Way(v)
<1>. PICK p, b, m : Reads(w, p, b, m) BY Received
<1>1. /\ p \in Seq(Piece) /\ b \in Seq(Piece) /\ m \in Seq(Seq(Piece))
      /\ Complete(b \o p) /\ Len(b) < Pieces
      /\ Parsed(Stream(w)) = m \o Parsed(b \o p)
      /\ pipe' = [pipe EXCEPT ![w] = p]
      /\ buffer_out' = [buffer_out EXCEPT ![w] = b]
      /\ messages_out' = [messages_out EXCEPT ![w] = @ \o m]
      /\ \A j \in DOMAIN m : \E f \in Flowing(w) \intersect Name : m[j] = Text(f)
      /\ \A i \in DOMAIN (b \o p) : (b \o p)[i].name \in Flowing(w)
  BY DEF Reads
<1>2. messages_in' = messages_in BY DEF SelectWorker, masterVars
<1>3. /\ pipe \in [Workers -> Seq(Piece)] /\ buffer_out \in [Workers -> Seq(Piece)]
      /\ messages_out \in [Workers -> Seq(Seq(Piece))]
  BY DEF PipeInv, WorkerTypes
<1>4. CASE v # w
  <2>1. /\ pipe'[v] = pipe[v] /\ buffer_out'[v] = buffer_out[v]
        /\ messages_out'[v] = messages_out[v]
    BY <1>1, <1>3, <1>4
  <2>. QED BY <1>2, <2>1, WaySame
<1>5. CASE v = w
  <2>. DEFINE o == messages_out[w]
              c == Parsed(b \o p)
              t == Texts(messages_in[w])
  <2>1. Stream(w)' = b \o p /\ messages_out'[w] = o \o m BY <1>1, <1>3 DEF Stream
  <2>2. Way(w)' = ((o \o m) \o c) \o t BY <1>2, <2>1, WayIsNext
  <2>3. Way(w) = (o \o (m \o c)) \o t /\ o \in Seq(Seq(Piece)) BY <1>1, WayIs
  <2>4. Framed(b \o p) BY <1>1 DEF Complete
  <2>5. c \in Seq(Seq(Piece)) BY <2>4, ParsedNames
  <2>. HIDE DEF o, c, t
  <2>6. (o \o m) \o c = o \o (m \o c) 
    <3>1. \A x, y, z \in Seq(Seq(Piece)) : (x \o y) \o z = x \o (y \o z) BY TextLaws
    <3>2. m \in Seq(Seq(Piece)) /\ o \in Seq(Seq(Piece)) BY <1>1, <2>3
    <3>. QED BY <2>5, <3>1, <3>2, Zenon
  <2>. QED BY <1>5, <2>2, <2>3, <2>6
<1>. QED BY <1>4, <1>5

\* The first name leaves when its file is removed.
LEMMA RemoveOrder ==
  ASSUME PipeInv, NEW w \in Workers, remove_file(w), NEW v \in Workers
  PROVE  Way(v)' = Way(v) \/ (wpc[v] = "remove" /\ Way(v)' = Tail(Way(v)))
<1>1. /\ UNCHANGED << messages_in, pipe, buffer_out >> /\ wpc[w] = "remove"
      /\ messages_out' = [messages_out EXCEPT ![w] = Tail(@)]
  BY DEF remove_file, masterVars
<1>2. messages_out \in [Workers -> Seq(Seq(Piece))] /\ messages_out[w] # << >>
  BY <1>1 DEF PipeInv, WorkerTypes
<1>3. CASE v # w
  <2>1. messages_out'[v] = messages_out[v] BY <1>1, <1>2, <1>3
  <2>. QED BY <1>1, <2>1, WaySame
<1>4. CASE v = w
  <2>. DEFINE o == messages_out[w]
              c == Parsed(Stream(w))
              t == Texts(messages_in[w])
  <2>1. messages_out'[w] = Tail(o) /\ Stream(w)' = Stream(w) BY <1>1, <1>2 DEF Stream
  <2>2. Way(w)' = (Tail(o) \o c) \o t BY <1>1, <2>1, WayIsNext
  <2>3. /\ Way(w) = (o \o c) \o t /\ o \in Seq(Seq(Piece)) /\ c \in Seq(Seq(Piece))
        /\ t \in Seq(Seq(Piece)) /\ o # << >>
    BY <1>2, WayIs
  <2>. HIDE DEF o, c, t
  <2>4. Tail(o \o c) = Tail(o) \o c /\ o \o c \in Seq(Seq(Piece)) BY <2>3, TextLaws
  <2>5. o \o c # << >>
    <3>1. \A S : \A x, y \in Seq(S) : x # << >> => x \o y # << >> OBVIOUS
    <3>. QED BY <2>3, <3>1
  <2>6. Tail((o \o c) \o t) = Tail(o \o c) \o t BY <2>3, <2>4, <2>5, TextLaws
  <2>. QED BY <1>1, <1>4, <2>2, <2>3, <2>4, <2>6
<1>. QED BY <1>3, <1>4

\* From the master's queue to the worker that loads the file, whatever the length of a
\* name, the sizes of the buffers and the places where reads cut: what was queued
\* first is loaded and removed first, and nothing is lost or made up on the way.
THEOREM NamesStayInOrder == Spec => NamesInOrder
<1>. DEFINE Kept(w) ==
              \/ Way(w)' = Way(w)
              \/ \E f \in todo : Way(w)' = Append(Way(w), Text(f))
              \/ wpc[w] = "remove" /\ Way(w)' = Tail(Way(w))
              \/ fd_open[w] /\ ~ fd_open'[w]
              \/ mpc \in {"ended", "dead"} /\ mpc' = "scan"
            Order == \A w \in Workers : Kept(w)
<1>1. PipeInv /\ [Next]_vars => [Order]_vars
  <2>. SUFFICES ASSUME PipeInv, [Next]_vars, NEW w \in Workers PROVE Kept(w) OBVIOUS
  <2>1. CASE get_filenames
    <3>1. UNCHANGED << messages_in, pipe, buffer_out, messages_out >>
      BY <2>1 DEF get_filenames, workerVars
    <3>. QED BY <3>1, WaySame
  <2>2. CASE Restart BY <2>2 DEF Restart
  <2>3. CASE \E f \in todo : Assign(f) BY <2>3, AssignOrder
  <2>4. CASE \E killed \in SUBSET Workers : SelectMaster(killed) BY <2>4, SendOrder
  <2>5. CASE \E v \in Workers : SelectWorker(v) BY <2>5, ReceiveOrder
  <2>6. CASE \E v \in Workers : remove_file(v) BY <2>6, RemoveOrder
  <2>7. CASE Still BY <2>7, WaySame DEF Still
  <2>8. WorkerTypes BY DEF PipeInv
  <2>. QED BY <2>1, <2>2, <2>3, <2>4, <2>5, <2>6, <2>7, <2>8, StillOrMoving DEF Moving
<1>2. Spec => [][Order]_vars BY <1>1, PipeInvariance, PTL DEF Spec
<1>. QED BY <1>2 DEF NamesInOrder, Order, Kept
=============================================================================
