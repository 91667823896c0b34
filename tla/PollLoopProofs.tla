-------------------------- MODULE PollLoopProofs --------------------------
(***************************************************************************)
(* Theorems about PollLoop, for any number of connections, any capacity of  *)
(* the arrays and of the queue.                                             *)
(***************************************************************************)
EXTENDS PollLoop, SequenceTheorems, WellFoundedInduction, TLAPS

----------------------------------------------------------------------------
\* Sequences and least elements.

\* A set of natural numbers has a least element.
LEMMA LeastOf ==
  ASSUME NEW T \in SUBSET Nat, T # {}
  PROVE  \E n \in T : \A m \in T : n <= m
<1>. DEFINE R == {ss \in Nat \X Nat : ss[1] < ss[2]}
<1>1. IsWellFoundedOn(R, Nat) BY NatLessThanWellFounded DEF OpToRel
<1>. HIDE DEF R
<1>2. PICK n \in T : \A m \in T : ~ (<<m, n>> \in R) BY <1>1, WFMin
<1>3. ASSUME NEW m \in T PROVE n <= m
  <2>1. m < n => <<m, n>> \in R BY DEF R
  <2>. QED BY <1>2, <2>1
<1>. QED BY <1>3

\* The two pieces server_info_compress keeps of an array, as one array.
Kept(s, i, j) == SubSeq(s, 1, i - 1) \o SubSeq(s, j, Len(s))

\* Closing the gap from i to j - 1 moves the entries from j on and no others.
LEMMA KeptProperties ==
  ASSUME NEW S, NEW s \in Seq(S), NEW i \in 1 .. Len(s), NEW j \in (i + 1) .. (Len(s) + 1)
  PROVE  /\ Kept(s, i, j) \in Seq(S)
         /\ Len(Kept(s, i, j)) = Len(s) - (j - i)
         /\ \A x \in 1 .. (i - 1) : Kept(s, i, j)[x] = s[x]
         /\ \A x \in i .. (Len(s) - (j - i)) : Kept(s, i, j)[x] = s[x + (j - i)]
<1>0. Len(s) \in Nat /\ i \in Nat /\ j \in Nat BY LenProperties
<1>. DEFINE a == SubSeq(s, 1, i - 1)
            b == SubSeq(s, j, Len(s))
<1>1. /\ a \in Seq(S) /\ Len(a) = i - 1
      /\ \A x \in 1 .. (i - 1) : a[x] = s[x]
  BY <1>0, SubSeqProperties
<1>2. /\ b \in Seq(S) /\ Len(b) = Len(s) - j + 1
      /\ \A x \in 1 .. (Len(s) - j + 1) : b[x] = s[j + x - 1]
  BY <1>0, SubSeqProperties
<1>. HIDE DEF a, b
<1>3. /\ a \o b \in Seq(S)
      /\ Len(a \o b) = Len(a) + Len(b)
      /\ \A x \in 1 .. Len(a) + Len(b) :
           (a \o b)[x] = IF x <= Len(a) THEN a[x] ELSE b[x - Len(a)]
  BY <1>1, <1>2, ConcatProperties
<1>4. ASSUME NEW x \in 1 .. (i - 1) PROVE (a \o b)[x] = s[x]
  BY <1>0, <1>1, <1>2, <1>3
<1>5. ASSUME NEW x \in i .. (Len(s) - (j - i)) PROVE (a \o b)[x] = s[x + (j - i)]
  <2>1. x - (i - 1) \in 1 .. (Len(s) - j + 1) /\ x \in 1 .. Len(a) + Len(b) /\ ~ (x <= Len(a))
    BY <1>0, <1>1, <1>2
  <2>2. (a \o b)[x] = b[x - (i - 1)] BY <1>1, <1>3, <2>1
  <2>3. b[x - (i - 1)] = s[j + (x - (i - 1)) - 1] BY <1>2, <2>1
  <2>4. j + (x - (i - 1)) - 1 = x + (j - i) BY <1>0
  <2>. QED BY <2>2, <2>3, <2>4
<1>6. Len(a \o b) = Len(s) - (j - i) BY <1>0, <1>1, <1>2, <1>3
<1>. QED BY <1>3, <1>4, <1>5, <1>6 DEF Kept, a, b

----------------------------------------------------------------------------
\* The inductive invariant.

\* Where closed entries may be: nowhere outside a pass and its compression, and in a
\* pass only behind the entry at hand.  The reports of poll belong to the entries.
Walk ==
  /\ pc \in {"top", "poll"} => Closed = {}
  /\ pc = "pass" => Len(revents) = Len(fds) /\ \A i \in Closed : i < at

IInv == TypeOK /\ Paired /\ PolledForReply /\ NoneTwice /\ Walk

SockType == [Conns -> [input : BOOLEAN, fin : BOOLEAN]]

\* The arrays as functions on their indices.
LEMMA Arrays ==
  ASSUME TypeOK, Paired
  PROVE  /\ Len(fds) \in Nat /\ Len(clients) = Len(fds)
         /\ DOMAIN fds = 1 .. Len(fds) /\ DOMAIN clients = 1 .. Len(fds)
         /\ \A i \in 1 .. Len(fds) : fds[i] \in PollFd /\ clients[i] \in ClientObj
BY DEF TypeOK, Paired

\* The entry at hand has a descriptor and the client of that descriptor.
LEMMA AtHand ==
  ASSUME IInv, InPass
  PROVE  /\ at \in 1 .. Len(fds)
         /\ fds[at] \in PollFd /\ clients[at] \in ClientObj
         /\ fds[at].fd \in Conns /\ clients[at].owner = fds[at].fd
         /\ fate[fds[at].fd] = "served"
<1>1. at \in 1 .. Len(fds) BY Arrays DEF IInv, InPass, TypeOK
<1>2. at \notin Closed BY <1>1 DEF IInv, InPass, Walk, TypeOK
<1>3. fds[at] \in PollFd /\ clients[at] \in ClientObj BY <1>1, Arrays DEF IInv
<1>4. fds[at].fd # NoFd BY <1>1, <1>2, Arrays DEF IInv, Closed
<1>5. fds[at].fd \in Conns BY <1>3, <1>4 DEF PollFd
<1>6. clients[at].owner = fds[at].fd BY <1>1, <1>4, Arrays DEF IInv, Paired
<1>7. fate[fds[at].fd] = "served" BY <1>1, <1>5, Arrays DEF IInv, NoneTwice, InPass
<1>. QED BY <1>1, <1>3, <1>5, <1>6, <1>7

\* The watched connection has been sent a reply, if it is the one at hand.
Answered == sent' = IF fds[at].fd = Watched THEN ~ sent ELSE sent

\* What a step of the pass does to the entry at hand, which becomes e and its client
\* o: a reply becomes due, the one that is due is sent, or the entry is closed.
EntryChange(e, o) ==
  /\ fds' = [fds EXCEPT ![at] = e] /\ clients' = [clients EXCEPT ![at] = o]
  /\ o.owner = clients[at].owner
  /\ \/ /\ e.fd = fds[at].fd /\ e.out = o.need_send /\ fate' = fate
        /\ \/ sent' = sent /\ (clients[at].need_send => o.need_send)
           \/ Answered /\ clients[at].need_send /\ ~ o.need_send
     \/ /\ e.fd = NoFd /\ fate' = [fate EXCEPT ![fds[at].fd] = "closed"]
        /\ \/ sent' = sent /\ sock[fds[at].fd].fin
           \/ Answered /\ clients[at].need_send

\* No peer closes its end.
FinsKept == \A k \in Conns : sock'[k].fin = sock[k].fin

\* A step of the pass handles the entry at hand, or crashes.
Moves ==
  /\ at' = at + 1 /\ pc' = "pass"
  /\ UNCHANGED << queue, lost, revents, end_flag >>
  /\ msg' \in SUBSET Conns /\ sock' \in SockType /\ FinsKept
  /\ \E e \in PollFd, o \in ClientObj : EntryChange(e, o)

Crashes ==
  /\ at' = at /\ pc' = "crashed"
  /\ UNCHANGED << queue, fds, clients, lost, revents, fate, end_flag, sent >>
  /\ msg' \in SUBSET Conns /\ sock' \in SockType /\ FinsKept

\* A step that handles an entry keeps the invariant.
LEMMA EntryStep ==
  ASSUME IInv, InPass, Moves
  PROVE  IInv'
<1>. PICK e \in PollFd, o \in ClientObj : EntryChange(e, o) BY DEF Moves
<1>. USE DEF Moves, EntryChange
<1>0. /\ at \in 1 .. Len(fds)
      /\ fds[at] \in PollFd /\ clients[at] \in ClientObj
      /\ fds[at].fd \in Conns /\ clients[at].owner = fds[at].fd
      /\ fate[fds[at].fd] = "served"
  BY AtHand
<1>1. /\ Len(fds) \in Nat /\ Len(clients) = Len(fds)
      /\ DOMAIN fds = 1 .. Len(fds) /\ DOMAIN clients = 1 .. Len(fds)
      /\ \A i \in 1 .. Len(fds) : fds[i] \in PollFd /\ clients[i] \in ClientObj
  BY Arrays DEF IInv
<1>2. /\ fds' \in Seq(PollFd) /\ Len(fds') = Len(fds) /\ DOMAIN fds' = 1 .. Len(fds)
      /\ \A i \in 1 .. Len(fds) : fds'[i] = IF i = at THEN e ELSE fds[i]
  BY <1>0, <1>1, ExceptSeq DEF IInv, TypeOK
<1>3. /\ clients' \in Seq(ClientObj) /\ Len(clients') = Len(fds)
      /\ DOMAIN clients' = 1 .. Len(fds)
      /\ \A i \in 1 .. Len(fds) : clients'[i] = IF i = at THEN o ELSE clients[i]
  BY <1>0, <1>1, ExceptSeq DEF IInv, TypeOK
<1>4. fate' \in [Conns -> {"new", "queued", "served", "closed", "leaked"}]
  BY <1>0 DEF IInv, TypeOK
<1>5. TypeOK'
  <2>1. sent' \in BOOLEAN BY DEF Answered, IInv, TypeOK
  <2>2. /\ lost' \in BOOLEAN /\ end_flag' \in BOOLEAN
        /\ at' \in Nat \ {0} /\ pc' = "pass" /\ revents' \in Seq(Revents)
        /\ queue' \in Seq(Conns) /\ msg' \in SUBSET Conns /\ sock' \in SockType
    BY <1>0 DEF IInv, TypeOK
  <2>. QED BY <1>2, <1>3, <1>4, <2>1, <2>2 DEF TypeOK, SockType
<1>6. Paired'
  BY <1>0, <1>1, <1>2, <1>3 DEF IInv, Paired
<1>7. PolledForReply'
  BY <1>0, <1>1, <1>2, <1>3 DEF IInv, PolledForReply
<1>8. NoneTwice'
  <2>. USE <1>0, <1>1, <1>2 DEF IInv, NoneTwice, InPass
  <2>0. NoFd \notin Conns BY LoopAssumption
  <2>1. \A i, j \in DOMAIN queue' : queue'[i] = queue'[j] => i = j OBVIOUS
  <2>2. \A i, j \in DOMAIN fds' : fds'[i].fd = fds'[j].fd /\ fds'[i].fd # NoFd => i = j
    OBVIOUS
  <2>3. ASSUME NEW k \in Conns
        PROVE  /\ fate'[k] = "queued" <=> \E i \in DOMAIN queue' : queue'[i] = k
               /\ fate'[k] = "served" <=> \E i \in DOMAIN fds' : fds'[i].fd = k
    <3>1. fate \in [Conns -> {"new", "queued", "served", "closed", "leaked"}]
      BY DEF TypeOK
    <3>2. CASE k = fds[at].fd BY <2>0, <3>1, <3>2
    <3>3. CASE k # fds[at].fd BY <2>0, <3>1, <3>3
    <3>. QED BY <3>2, <3>3
  <2>. QED BY <2>1, <2>2, <2>3
<1>9. Walk'
  <2>1. \A i \in Closed' : i \in Closed \/ i = at BY <1>1, <1>2 DEF Closed
  <2>2. \A i \in Closed : i < at BY DEF IInv, Walk, InPass
  <2>3. \A i \in Closed' : i < at' BY <1>0, <1>1, <2>1, <2>2 DEF Closed
  <2>4. Len(revents') = Len(fds') BY <1>2 DEF IInv, Walk, InPass
  <2>. QED BY <2>3, <2>4 DEF Walk
<1>. QED BY <1>5, <1>6, <1>7, <1>8, <1>9 DEF IInv

\* Receiving into the message buffer keeps the types.
LEMMA BufferType ==
  ASSUME IInv, InPass
  PROVE  /\ Buffered \in SUBSET Conns /\ Drained \in SockType
         /\ \A k \in Conns : Drained[k].fin = sock[k].fin
<1>1. fds[at].fd \in Conns BY AtHand
<1>. QED BY <1>1 DEF Buffered, Drained, IInv, TypeOK, SockType

PassAction == Skip \/ HandleEof \/ RecvFails \/ HandleIn \/ SendPart \/ SendAll \/ HandleTimeout

\* The branches of process_poll.
LEMMA PassShape ==
  ASSUME IInv, PassAction
  PROVE  InPass /\ (Moves \/ Crashes)
<1>. USE DEF PassAction
<1>0. InPass BY DEF Skip, HandleEof, RecvFails, HandleIn, SendPart, SendAll, HandleTimeout, AtReply
<1>1. /\ at \in 1 .. Len(fds)
      /\ fds[at] \in PollFd /\ clients[at] \in ClientObj
      /\ fds[at].fd \in Conns /\ clients[at].owner = fds[at].fd
  BY <1>0, AtHand
<1>2. /\ Len(fds) \in Nat /\ Len(clients) = Len(fds)
      /\ DOMAIN fds = 1 .. Len(fds) /\ DOMAIN clients = 1 .. Len(fds)
  BY Arrays DEF IInv
<1>3. fds[at].out = clients[at].need_send
  BY <1>1, <1>2, LoopAssumption DEF IInv, PolledForReply
<1>4. fds = [fds EXCEPT ![at] = fds[at]] /\ clients = [clients EXCEPT ![at] = clients[at]]
  BY <1>1, <1>2 DEF IInv, TypeOK
<1>5. msg \in SUBSET Conns /\ sock \in SockType /\ sent \in BOOLEAN
  BY DEF IInv, TypeOK, SockType
<1>6. /\ Buffered \in SUBSET Conns /\ Drained \in SockType
      /\ sock' = sock \/ sock' = Drained => FinsKept
  BY <1>0, BufferType DEF FinsKept
<1>7. ASSUME fds' = fds, clients' = clients, fate' = fate, at' = at + 1, pc' = "pass",
             UNCHANGED << queue, lost, revents, end_flag, msg, sock, sent >>
      PROVE  Moves
  <2>1. EntryChange(fds[at], clients[at]) BY <1>3, <1>4, <1>7 DEF EntryChange
  <2>. QED BY <1>1, <1>5, <1>6, <1>7, <2>1 DEF Moves
<1>9. CASE Skip BY <1>0, <1>7, <1>9 DEF Skip, Step
<1>10. CASE HandleEof
  <2>. DEFINE e == [fds[at] EXCEPT !.fd = NoFd]
  <2>1. e \in PollFd /\ e.fd = NoFd BY <1>1 DEF PollFd
  <2>2. fds' = [fds EXCEPT ![at] = e] BY <1>10 DEF HandleEof
  <2>3. fate' = [fate EXCEPT ![fds[at].fd] = "closed"] BY <1>10 DEF HandleEof, Dropped
  <2>. HIDE DEF e
  <2>4. EntryChange(e, clients[at])
    BY <1>4, <1>10, <2>1, <2>2, <2>3 DEF EntryChange, HandleEof
  <2>. QED BY <1>0, <1>1, <1>6, <1>10, <2>1, <2>4 DEF HandleEof, Step, Moves
<1>8. CASE RecvFails
  <2>1. EntryChange(fds[at], clients[at]) BY <1>3, <1>4, <1>8 DEF EntryChange, RecvFails
  <2>. QED BY <1>0, <1>1, <1>6, <1>8, <2>1 DEF RecvFails, Step, Moves
<1>11. CASE HandleIn
  <2>1. CASE lost BY <1>0, <1>6, <1>11, <2>1 DEF HandleIn, Crashes
  <2>2. CASE ~ lost
    <3>1. PICK reply \in BOOLEAN :
            LET due == clients[at].need_send \/ reply IN
            /\ clients' = [clients EXCEPT ![at].need_send = due]
            /\ fds' = [fds EXCEPT ![at].out = due]
      BY <1>11, <2>2 DEF HandleIn
    <3>. DEFINE due == clients[at].need_send \/ reply
                e == [fds[at] EXCEPT !.out = due]
                o == [clients[at] EXCEPT !.need_send = due]
    <3>2. due \in BOOLEAN /\ (clients[at].need_send => due) OBVIOUS
    <3>. HIDE DEF due
    <3>3. e \in PollFd /\ e.fd = fds[at].fd /\ e.out = due BY <1>1, <3>2 DEF PollFd
    <3>4. o \in ClientObj /\ o.owner = clients[at].owner /\ o.need_send = due
      BY <1>1, <3>2 DEF ClientObj
    <3>5. fds' = [fds EXCEPT ![at] = e] BY <3>1 DEF due
    <3>6. clients' = [clients EXCEPT ![at] = o] BY <1>1, <1>2, <3>1 DEF due, IInv, TypeOK
    <3>. HIDE DEF e, o
    <3>7. EntryChange(e, o)
      BY <1>11, <3>2, <3>3, <3>4, <3>5, <3>6 DEF EntryChange, HandleIn
    <3>. QED BY <1>0, <1>6, <1>11, <2>2, <3>3, <3>4, <3>7 DEF HandleIn, Step, Moves
  <2>. QED BY <2>1, <2>2
<1>12. CASE SendPart BY <1>0, <1>7, <1>12 DEF SendPart, Step
<1>13. CASE SendAll
  <2>. DEFINE o == [clients[at] EXCEPT !.need_send = FALSE]
              e == [fds[at] EXCEPT !.out = FALSE]
              f == [fds[at] EXCEPT !.fd = NoFd]
  <2>1. clients' = [clients EXCEPT ![at] = o] BY <1>13 DEF SendAll
  <2>2. o \in ClientObj /\ o.owner = clients[at].owner /\ o.need_send = FALSE
    BY <1>1 DEF ClientObj
  <2>3. e \in PollFd /\ e.fd = fds[at].fd /\ e.out = FALSE BY <1>1 DEF PollFd
  <2>4. f \in PollFd /\ f.fd = NoFd BY <1>1 DEF PollFd
  <2>5. \/ fds' = [fds EXCEPT ![at] = e] /\ fate' = fate
        \/ fds' = [fds EXCEPT ![at] = f] /\ fate' = [fate EXCEPT ![fds[at].fd] = "closed"]
    BY <1>13 DEF SendAll, Dropped
  <2>6. clients[at].need_send /\ Answered BY <1>13 DEF SendAll, Answered
  <2>. HIDE DEF o, e, f
  <2>7. EntryChange(e, o) \/ EntryChange(f, o)
    BY <2>1, <2>2, <2>3, <2>4, <2>5, <2>6 DEF EntryChange
  <2>. QED BY <1>0, <1>5, <1>6, <1>13, <2>2, <2>3, <2>4, <2>7 DEF SendAll, Step, Moves
<1>14. CASE HandleTimeout
  <2>1. CASE lost BY <1>0, <1>5, <1>6, <1>14, <2>1 DEF HandleTimeout, Crashes
  <2>2. CASE ~ lost BY <1>0, <1>7, <1>14, <2>2 DEF HandleTimeout, Step
  <2>. QED BY <2>1, <2>2
<1>. QED BY <1>8, <1>9, <1>10, <1>11, <1>12, <1>13, <1>14

\* Every step of process_poll keeps the invariant.
LEMMA PassSteps ==
  ASSUME IInv, PassAction
  PROVE  IInv'
<1>1. CASE Crashes
  BY <1>1 DEF Crashes, IInv, TypeOK, Paired, PolledForReply, NoneTwice, Walk, SockType
<1>. QED BY <1>1, PassShape, EntryStep

\* The gap server_info_compress finds: closed entries from the first one on.
LEMMA Gap ==
  ASSUME TypeOK, Paired, Closed # {}
  PROVE  /\ FirstClosed \in 1 .. Len(fds) /\ FirstClosed \in Closed
         /\ \A y \in Closed : FirstClosed <= y
         /\ GapEnd \in (FirstClosed + 1) .. (Len(fds) + 1)
         /\ \A y \in FirstClosed .. (GapEnd - 1) : y \in Closed
<1>1. Len(fds) \in Nat /\ DOMAIN fds = 1 .. Len(fds) BY Arrays
<1>2. Closed \in SUBSET Nat /\ \A y \in Closed : y \in 1 .. Len(fds) BY <1>1 DEF Closed
<1>3. \E n \in Closed : \A m \in Closed : n <= m BY <1>2, LeastOf
<1>4. FirstClosed \in Closed /\ \A y \in Closed : FirstClosed <= y BY <1>3 DEF FirstClosed
<1>5. FirstClosed \in 1 .. Len(fds) BY <1>2, <1>4
<1>. DEFINE i == FirstClosed
            Open == { x \in (i + 1) .. (Len(fds) + 1) : x \notin Closed }
<1>. HIDE DEF i
<1>6. i \in 1 .. Len(fds) /\ i \in Closed BY <1>4, <1>5 DEF i
<1>7. Len(fds) + 1 \in Open BY <1>1, <1>2, <1>6
<1>8. Open \in SUBSET Nat BY <1>1, <1>6
<1>9. PICK x \in Open : \A m \in Open : x <= m BY <1>7, <1>8, LeastOf
<1>10. \A y \in i .. (x - 1) : y \in Closed BY <1>1, <1>6, <1>9
<1>11. \E z \in (i + 1) .. (Len(fds) + 1) :
         z \notin Closed /\ \A y \in i .. (z - 1) : y \in Closed
  BY <1>9, <1>10
<1>12. GapEnd = CHOOSE z \in (i + 1) .. (Len(fds) + 1) :
         z \notin Closed /\ \A y \in i .. (z - 1) : y \in Closed
  BY DEF GapEnd, i
<1>13. GapEnd \in (i + 1) .. (Len(fds) + 1) /\ \A y \in i .. (GapEnd - 1) : y \in Closed
  BY <1>11, <1>12
<1>. QED BY <1>4, <1>5, <1>13 DEF i

\* Where the entry that ends up at x was before the gap from i to j - 1 was closed.
OldPlace(i, j, x) == IF x < i THEN x ELSE x + (j - i)

\* The gap from i to j - 1 is closed entries only, and is removed from both arrays.
GapClosed(i, j) ==
  /\ \A y \in i .. (j - 1) : y \in Closed
  /\ fds' = Kept(fds, i, j) /\ clients' = Kept(clients, i, j)
  /\ pc' = "compress" \/ (pc' = "top" /\ Closed' = {})
  /\ lost' \in BOOLEAN

\* Removing a gap of closed entries from both arrays moves the others together.
LEMMA GapMap ==
  ASSUME TypeOK, Paired, NEW i \in 1 .. Len(fds), NEW j \in (i + 1) .. (Len(fds) + 1),
         \A y \in i .. (j - 1) : y \in Closed,
         fds' = Kept(fds, i, j), clients' = Kept(clients, i, j)
  PROVE  LET n == Len(fds) - (j - i) IN
         /\ n \in Nat /\ n < Len(fds)
         /\ fds' \in Seq(PollFd) /\ Len(fds') = n /\ DOMAIN fds' = 1 .. n
         /\ clients' \in Seq(ClientObj) /\ Len(clients') = n
         /\ \A x \in 1 .. n : /\ OldPlace(i, j, x) \in 1 .. Len(fds)
                              /\ fds'[x] = fds[OldPlace(i, j, x)]
                              /\ clients'[x] = clients[OldPlace(i, j, x)]
         /\ \A x, y \in 1 .. n : OldPlace(i, j, x) = OldPlace(i, j, y) => x = y
         /\ \A z \in 1 .. Len(fds) : fds[z].fd # NoFd => \E x \in 1 .. n : OldPlace(i, j, x) = z
<1>1. /\ Len(fds) \in Nat /\ Len(clients) = Len(fds)
      /\ DOMAIN fds = 1 .. Len(fds)
  BY Arrays
<1>. DEFINE n == Len(fds) - (j - i)
            Old(x) == OldPlace(i, j, x)
<1>. USE DEF OldPlace
<1>2. n \in Nat /\ i \in Nat /\ j \in Nat /\ n < Len(fds) BY <1>1
<1>3. /\ fds' \in Seq(PollFd) /\ Len(fds') = n
      /\ \A x \in 1 .. n : fds'[x] = fds[Old(x)]
  <2>1. /\ fds' \in Seq(PollFd) /\ Len(fds') = n
        /\ \A x \in 1 .. (i - 1) : fds'[x] = fds[x]
        /\ \A x \in i .. n : fds'[x] = fds[x + (j - i)]
    <3>1. fds \in Seq(PollFd) BY DEF TypeOK
    <3>. QED BY <3>1, KeptProperties
  <2>2. ASSUME NEW x \in 1 .. n PROVE fds'[x] = fds[Old(x)]
    <3>1. CASE x < i
      <4>1. x \in 1 .. (i - 1) /\ OldPlace(i, j, x) = x BY <1>2, <3>1
      <4>. HIDE DEF OldPlace, n
      <4>. QED BY <2>1, <4>1
    <3>2. CASE ~ (x < i)
      <4>1. x \in i .. n /\ OldPlace(i, j, x) = x + (j - i) BY <1>2, <3>2
      <4>. HIDE DEF OldPlace, n
      <4>. QED BY <2>1, <4>1
    <3>. QED BY <3>1, <3>2
  <2>. QED BY <2>1, <2>2
<1>4. /\ clients' \in Seq(ClientObj) /\ Len(clients') = n
      /\ \A x \in 1 .. n : clients'[x] = clients[Old(x)]
  <2>1. /\ clients' \in Seq(ClientObj) /\ Len(clients') = n
        /\ \A x \in 1 .. (i - 1) : clients'[x] = clients[x]
        /\ \A x \in i .. n : clients'[x] = clients[x + (j - i)]
    <3>1. clients \in Seq(ClientObj) BY DEF TypeOK
    <3>2. i \in 1 .. Len(clients) /\ j \in (i + 1) .. (Len(clients) + 1) BY <1>1
    <3>3. n = Len(clients) - (j - i) BY <1>1
    <3>. HIDE DEF n
    <3>. QED BY <3>1, <3>2, <3>3, KeptProperties
  <2>2. ASSUME NEW x \in 1 .. n PROVE clients'[x] = clients[Old(x)]
    <3>1. CASE x < i
      <4>1. x \in 1 .. (i - 1) /\ OldPlace(i, j, x) = x BY <1>2, <3>1
      <4>. HIDE DEF OldPlace, n
      <4>. QED BY <2>1, <4>1
    <3>2. CASE ~ (x < i)
      <4>1. x \in i .. n /\ OldPlace(i, j, x) = x + (j - i) BY <1>2, <3>2
      <4>. HIDE DEF OldPlace, n
      <4>. QED BY <2>1, <4>1
    <3>. QED BY <3>1, <3>2
  <2>. QED BY <2>1, <2>2
<1>5. \A x \in 1 .. n : Old(x) \in 1 .. Len(fds) BY <1>1, <1>2
<1>6. \A x, y \in 1 .. n : Old(x) = Old(y) => x = y BY <1>1, <1>2
<1>7. \A z \in 1 .. Len(fds) : fds[z].fd # NoFd => \E x \in 1 .. n : Old(x) = z
  <2>. SUFFICES ASSUME NEW z \in 1 .. Len(fds), fds[z].fd # NoFd
                PROVE  \E x \in 1 .. n : Old(x) = z
    OBVIOUS
  <2>1. z \notin Closed BY DEF Closed
  <2>2. z < i \/ z >= j BY <1>2, <2>1
  <2>3. CASE z < i BY <1>1, <1>2, <2>3, SMTT(20)
  <2>4. CASE z >= j
    <3>1. z - (j - i) \in 1 .. n /\ Old(z - (j - i)) = z BY <1>1, <1>2, <2>4
    <3>. QED BY <3>1
  <2>. QED BY <2>2, <2>3, <2>4
<1>8. DOMAIN fds' = 1 .. n BY <1>3
<1>. HIDE DEF OldPlace
<1>. QED BY <1>2, <1>3, <1>4, <1>5, <1>6, <1>7, <1>8

\* Closing a gap keeps the invariant.
LEMMA GapRemoved ==
  ASSUME IInv, NEW i \in 1 .. Len(fds), NEW j \in (i + 1) .. (Len(fds) + 1),
         GapClosed(i, j),
         UNCHANGED << queue, at, revents, msg, sock, fate, end_flag, sent >>,
         pc = "compress"
  PROVE  IInv'
<1>. USE DEF GapClosed
<1>. DEFINE n == Len(fds) - (j - i)
            Old(x) == OldPlace(i, j, x)
<1>0. /\ n \in Nat /\ n < Len(fds)
      /\ fds' \in Seq(PollFd) /\ Len(fds') = n /\ DOMAIN fds' = 1 .. n
      /\ clients' \in Seq(ClientObj) /\ Len(clients') = n
      /\ \A x \in 1 .. n : /\ Old(x) \in 1 .. Len(fds)
                           /\ fds'[x] = fds[Old(x)] /\ clients'[x] = clients[Old(x)]
      /\ \A x, y \in 1 .. n : Old(x) = Old(y) => x = y
      /\ \A z \in 1 .. Len(fds) : fds[z].fd # NoFd => \E x \in 1 .. n : Old(x) = z
  <2>1. TypeOK /\ Paired BY DEF IInv
  <2>. QED BY <2>1, GapMap
<1>1. /\ Len(fds) \in Nat /\ Len(clients) = Len(fds)
      /\ DOMAIN fds = 1 .. Len(fds)
      /\ \A x \in 1 .. Len(fds) : fds[x] \in PollFd /\ clients[x] \in ClientObj
  BY Arrays DEF IInv
<1>. HIDE DEF Old, n
<1>9. TypeOK' BY <1>0 DEF IInv, TypeOK
<1>10. Paired'
  <2>1. Len(fds') = Len(clients') /\ Len(fds') <= MaxSize
    BY <1>0, <1>1, LoopAssumption DEF IInv, Paired
  <2>2. \A x \in 1 .. n : fds'[x].fd # NoFd => clients'[x].owner = fds'[x].fd
    BY <1>0, <1>1 DEF IInv, Paired
  <2>. QED BY <1>0, <2>1, <2>2 DEF Paired
<1>11. PolledForReply'
  BY <1>0, <1>1 DEF IInv, PolledForReply
<1>12. NoneTwice'
  <2>1. \A x, y \in 1 .. n : fds'[x].fd = fds'[y].fd /\ fds'[x].fd # NoFd => x = y
    BY <1>0, <1>1, SMTT(20) DEF IInv, NoneTwice
  <2>2. ASSUME NEW k \in Conns
        PROVE  (\E z \in 1 .. Len(fds) : fds[z].fd = k) <=> (\E x \in 1 .. n : fds'[x].fd = k)
    <3>1. k # NoFd BY LoopAssumption
    <3>2. ASSUME NEW z \in 1 .. Len(fds), fds[z].fd = k PROVE \E x \in 1 .. n : fds'[x].fd = k
      <4>1. PICK x \in 1 .. n : Old(x) = z BY <1>0, <3>1, <3>2
      <4>2. fds'[x] = fds[z] BY <1>0, <4>1
      <4>. QED BY <3>2, <4>2
    <3>3. ASSUME NEW x \in 1 .. n, fds'[x].fd = k PROVE \E z \in 1 .. Len(fds) : fds[z].fd = k
      BY <1>0, <3>3
    <3>. QED BY <3>2, <3>3
  <2>3. \A k \in Conns : fate[k] = "served" <=> \E z \in 1 .. Len(fds) : fds[z].fd = k
    BY <1>1 DEF IInv, NoneTwice
  <2>4. \A k \in Conns : fate'[k] = "served" <=> \E x \in DOMAIN fds' : fds'[x].fd = k
    <3>1. fate' = fate /\ DOMAIN fds' = 1 .. n BY <1>0
    <3>. QED BY <2>2, <2>3, <3>1
  <2>. QED BY <1>0, <2>1, <2>4 DEF IInv, NoneTwice
<1>13. Walk' BY DEF Walk
<1>. QED BY <1>9, <1>10, <1>11, <1>12, <1>13 DEF IInv

\* An iteration of server_info_compress.
LEMMA CompressShape ==
  ASSUME IInv, server_info_compress
  PROVE  /\ pc = "compress"
         /\ UNCHANGED << queue, at, revents, msg, sock, fate, end_flag, sent >>
         /\ \/ UNCHANGED << fds, clients, lost >> /\ pc' = "top" /\ Closed = {}
            \/ UNCHANGED << fds, clients, lost >> /\ pc' = "crashed"
            \/ \E i \in 1 .. Len(fds) : \E j \in (i + 1) .. (Len(fds) + 1) : GapClosed(i, j)
<1>. DEFINE i == FirstClosed
            j == GapEnd
            n == j - i
<1>. USE DEF server_info_compress
<1>1. CASE Closed = {} BY <1>1
<1>2. CASE Closed # {}
  <2>0. /\ i \in 1 .. Len(fds) /\ i \in Closed
        /\ \A y \in Closed : i <= y
        /\ j \in (i + 1) .. (Len(fds) + 1)
        /\ \A y \in i .. (j - 1) : y \in Closed
    BY <1>2, Gap DEF IInv
  <2>1. /\ Len(fds) \in Nat /\ Len(clients) = Len(fds) /\ DOMAIN fds = 1 .. Len(fds)
    BY Arrays DEF IInv
  <2>2. CASE lost \/ n > 2 \/ (n = 2 /\ j <= Len(fds))
    <3>1. pc' = "crashed" /\ UNCHANGED << fds, clients, lost >> BY <1>2, <2>0, <2>1, <2>2
    <3>. QED BY <3>1
  <2>3. CASE ~ lost /\ n = 2 /\ j > Len(fds)
    <3>1. /\ lost' = TRUE /\ pc' = "top"
          /\ fds' = SubSeq(fds, 1, i - 1) /\ clients' = SubSeq(clients, 1, i - 1)
      BY <1>2, <2>3
    <3>. HIDE DEF i, j, n
    <3>2. j = Len(fds) + 1 BY <2>0, <2>1, <2>3
    <3>3. /\ SubSeq(fds, 1, i - 1) \o << >> = SubSeq(fds, 1, i - 1)
          /\ SubSeq(clients, 1, i - 1) \o << >> = SubSeq(clients, 1, i - 1)
      <4>0. i \in Nat /\ i - 1 \in 0 .. Len(fds) BY <2>0, <2>1
      <4>1. SubSeq(fds, 1, i - 1) \in Seq(PollFd)
        <5>1. fds \in Seq(PollFd) BY DEF IInv, TypeOK
        <5>. QED BY <2>1, <4>0, <5>1, SubSeqProperties
      <4>2. SubSeq(clients, 1, i - 1) \in Seq(ClientObj)
        <5>1. clients \in Seq(ClientObj) BY DEF IInv, TypeOK
        <5>. QED BY <2>1, <4>0, <5>1, SubSeqProperties
      <4>. QED BY <4>1, <4>2, ConcatEmptySeq
    <3>4. SubSeq(fds, j, Len(fds)) = << >> /\ SubSeq(clients, j, Len(clients)) = << >>
      BY <2>1, <3>2, SubSeqEmpty
    <3>5. fds' = Kept(fds, i, j) /\ clients' = Kept(clients, i, j)
      BY <3>1, <3>3, <3>4 DEF Kept
    <3>6. Closed' = {}
      <4>1. Len(fds') = i - 1 /\ \A x \in 1 .. (i - 1) : fds'[x] = fds[x]
        BY <2>0, <2>1, <3>1, SubSeqProperties, SMTT(20) DEF IInv, TypeOK
      <4>2. fds' \in Seq(PollFd) BY <2>0, <2>1, <3>1 DEF IInv, TypeOK
      <4>3. DOMAIN fds' = 1 .. (i - 1) BY <4>1, <4>2
      <4>4. \A x \in 1 .. (i - 1) : x \notin Closed BY <2>0, <2>1
      <4>5. \A x \in 1 .. (i - 1) : fds[x].fd # NoFd BY <2>0, <2>1, <4>4 DEF Closed
      <4>. QED BY <4>1, <4>3, <4>5 DEF Closed
    <3>7. GapClosed(i, j) BY <2>0, <3>1, <3>5, <3>6 DEF GapClosed
    <3>. QED BY <2>0, <3>7
  <2>4. CASE ~ lost /\ ~ (n > 2) /\ ~ (n = 2)
    <3>1. /\ fds' = MovedFds(i, j) /\ clients' = MovedClients(i, j)
          /\ UNCHANGED << pc, lost >>
      BY <1>2, <2>4
    <3>. HIDE DEF i, j, n
    <3>2. fds' = Kept(fds, i, j) /\ clients' = Kept(clients, i, j)
      BY <3>1 DEF MovedFds, MovedClients, Kept
    <3>3. lost \in BOOLEAN BY DEF IInv, TypeOK
    <3>4. GapClosed(i, j) BY <2>0, <3>1, <3>2, <3>3 DEF GapClosed
    <3>. QED BY <2>0, <3>4
  <2>. QED BY <2>0, <2>1, <2>2, <2>3, <2>4
<1>. QED BY <1>1, <1>2

\* Every iteration of server_info_compress keeps the invariant.
LEMMA CompressStep ==
  ASSUME IInv, server_info_compress
  PROVE  IInv'
<1>0. /\ pc = "compress"
      /\ UNCHANGED << queue, at, revents, msg, sock, fate, end_flag, sent >>
  BY CompressShape
<1>1. CASE UNCHANGED << fds, clients, lost >> /\ pc' = "top" /\ Closed = {}
  BY <1>0, <1>1 DEF IInv, TypeOK, Paired, PolledForReply, NoneTwice, Walk, Closed
<1>2. CASE UNCHANGED << fds, clients, lost >> /\ pc' = "crashed"
  BY <1>0, <1>2 DEF IInv, TypeOK, Paired, PolledForReply, NoneTwice, Walk
<1>3. ASSUME NEW i \in 1 .. Len(fds), NEW j \in (i + 1) .. (Len(fds) + 1), GapClosed(i, j)
      PROVE  IInv'
  BY <1>0, <1>3, GapRemoved
<1>. QED BY <1>1, <1>2, <1>3, CompressShape

----------------------------------------------------------------------------
\* The other actions.

\* The queue as a function on its indices.
LEMMA Queue ==
  ASSUME TypeOK
  PROVE  /\ Len(queue) \in Nat /\ DOMAIN queue = 1 .. Len(queue)
         /\ \A x \in 1 .. Len(queue) : queue[x] \in Conns
BY DEF TypeOK

\* A connection accepted joins the queue, or is lost with its descriptor.
LEMMA AcceptStep ==
  ASSUME IInv, NEW k \in Conns, Accept(k)
  PROVE  IInv'
<1>. USE DEF Accept
<1>1. /\ Len(queue) \in Nat /\ DOMAIN queue = 1 .. Len(queue)
      /\ \A x \in 1 .. Len(queue) : queue[x] \in Conns
      /\ queue \in Seq(Conns)
  BY Queue DEF IInv, TypeOK
<1>2. fate \in [Conns -> {"new", "queued", "served", "closed", "leaked"}] BY DEF IInv, TypeOK
<1>3. PolledForReply' /\ Paired' /\ Walk'
  BY DEF IInv, PolledForReply, Paired, Walk, Closed
<1>4. CASE Len(queue) < MaxQueue
  <2>1. /\ queue' \in Seq(Conns) /\ Len(queue') = Len(queue) + 1
        /\ \A x \in 1 .. Len(queue) : queue'[x] = queue[x]
        /\ queue'[Len(queue) + 1] = k
    BY <1>1, <1>4, AppendProperties
  <2>2. fate' = [fate EXCEPT ![k] = "queued"] BY <1>4
  <2>3. TypeOK' BY <1>2, <2>1, <2>2 DEF IInv, TypeOK
  <2>4. DOMAIN queue' = 1 .. (Len(queue) + 1) BY <2>1
  <2>5. NoneTwice'
    <3>. SUFFICES ASSUME pc # "crashed" PROVE NoneTwice' BY DEF NoneTwice
    <3>1. \A x \in 1 .. Len(queue) : queue[x] # k BY <1>1 DEF IInv, NoneTwice
    <3>2. \A x, y \in DOMAIN queue' : queue'[x] = queue'[y] => x = y
      BY <1>1, <2>1, <2>4, <3>1 DEF IInv, NoneTwice
    <3>3. ASSUME NEW m \in Conns
          PROVE  fate'[m] = "queued" <=> \E x \in DOMAIN queue' : queue'[x] = m
      <4>1. CASE m = k BY <1>1, <1>2, <2>1, <2>2, <2>4, <4>1
      <4>2. CASE m # k
        <5>1. fate'[m] = fate[m] BY <1>2, <2>2, <4>2
        <5>2. (\E x \in 1 .. Len(queue) : queue[x] = m) <=> \E x \in DOMAIN queue' : queue'[x] = m
          BY <1>1, <2>1, <2>4, <4>2
        <5>. QED BY <1>1, <5>1, <5>2 DEF IInv, NoneTwice
      <4>. QED BY <4>1, <4>2
    <3>4. \A m \in Conns : fate'[m] = "served" <=> fate[m] = "served" BY <1>2, <2>2
    <3>. QED BY <3>2, <3>3, <3>4 DEF IInv, NoneTwice
  <2>. QED BY <1>3, <2>3, <2>5 DEF IInv
<1>5. CASE ~ (Len(queue) < MaxQueue)
  <2>1. queue' = queue /\ fate' = [fate EXCEPT ![k] = "leaked"] BY <1>5
  <2>2. TypeOK' BY <1>2, <2>1 DEF IInv, TypeOK
  <2>3. \A m \in Conns : /\ fate'[m] = "served" <=> fate[m] = "served"
                         /\ fate'[m] = "queued" <=> fate[m] = "queued"
    BY <1>2, <2>1
  <2>4. NoneTwice' BY <2>1, <2>3 DEF IInv, NoneTwice
  <2>. QED BY <1>3, <2>2, <2>4 DEF IInv
<1>. QED BY <1>4, <1>5

\* Peers and the shutdown touch neither the queue nor the arrays.
LEMMA OutsideSteps ==
  ASSUME IInv, (\E k \in Conns : PeerSends(k) \/ PeerCloses(k)) \/ Shutdown
  PROVE  IInv'
<1>1. UNCHANGED << queue, fds, clients, lost, pc, at, revents, msg, fate, sent >>
  BY DEF PeerSends, PeerCloses, Shutdown
<1>2. end_flag' \in BOOLEAN BY DEF PeerSends, PeerCloses, Shutdown, IInv, TypeOK
<1>3. sock' \in SockType
  <2>0. sock \in SockType BY DEF IInv, TypeOK, SockType
  <2>1. ASSUME NEW k \in Conns, PeerSends(k) PROVE sock' \in SockType
    BY <2>0, <2>1 DEF PeerSends, SockType
  <2>2. ASSUME NEW k \in Conns, PeerCloses(k) PROVE sock' \in SockType
    BY <2>0, <2>2 DEF PeerCloses, SockType
  <2>. QED BY <2>0, <2>1, <2>2 DEF Shutdown
<1>. QED BY <1>1, <1>2, <1>3
         DEF IInv, TypeOK, Paired, PolledForReply, NoneTwice, Walk, Closed, SockType

\* The head of the queue leaves it, for the arrays or to be leaked.
LEMMA QueuePopped ==
  ASSUME IInv, queue # << >>, pc # "crashed"
  PROVE  /\ Head(queue) \in Conns /\ fate[Head(queue)] = "queued"
         /\ Tail(queue) \in Seq(Conns)
         /\ \A x, y \in DOMAIN Tail(queue) : Tail(queue)[x] = Tail(queue)[y] => x = y
         /\ \A m \in Conns : (\E x \in DOMAIN Tail(queue) : Tail(queue)[x] = m)
                              <=> fate[m] = "queued" /\ m # Head(queue)
<1>1. /\ Len(queue) \in Nat /\ DOMAIN queue = 1 .. Len(queue)
      /\ queue \in Seq(Conns)
  BY Queue DEF IInv, TypeOK
<1>2. Len(queue) \in Nat \ {0} BY <1>1, EmptySeq
<1>3. Head(queue) = queue[1] BY <1>1, <1>2
<1>. DEFINE t == Tail(queue)
<1>4. /\ Head(queue) \in Conns /\ t \in Seq(Conns) /\ Len(t) = Len(queue) - 1
      /\ \A x \in 1 .. Len(t) : t[x] = queue[x + 1]
  BY <1>1, HeadTailProperties
<1>. HIDE DEF t
<1>5. DOMAIN t = 1 .. (Len(queue) - 1) BY <1>4
<1>6. \A x \in DOMAIN t : t[x] = queue[x + 1] /\ x + 1 \in DOMAIN queue /\ x + 1 # 1
  BY <1>1, <1>2, <1>4, <1>5
<1>7. \A x, y \in DOMAIN queue : queue[x] = queue[y] => x = y BY DEF IInv, NoneTwice
<1>8. \A x, y \in DOMAIN t : t[x] = t[y] => x = y BY <1>1, <1>2, <1>5, <1>6, <1>7
<1>9. fate[Head(queue)] = "queued"
  BY <1>1, <1>2, <1>3, <1>4 DEF IInv, NoneTwice
<1>10. ASSUME NEW m \in Conns
       PROVE  (\E x \in DOMAIN t : t[x] = m) <=> fate[m] = "queued" /\ m # Head(queue)
  <2>0. fate[m] = "queued" <=> \E x \in DOMAIN queue : queue[x] = m BY DEF IInv, NoneTwice
  <2>1. ASSUME NEW x \in DOMAIN t, t[x] = m PROVE fate[m] = "queued" /\ m # Head(queue)
    BY <1>1, <1>2, <1>3, <1>6, <1>7, <2>0, <2>1
  <2>2. ASSUME NEW y \in DOMAIN queue, queue[y] = m, m # Head(queue)
        PROVE  \E x \in DOMAIN t : t[x] = m
    <3>1. y # 1 BY <1>3, <2>2
    <3>2. y - 1 \in DOMAIN t BY <1>1, <1>2, <1>5, <3>1
    <3>3. t[y - 1] = queue[(y - 1) + 1] BY <1>6, <3>2
    <3>. QED BY <1>1, <2>2, <3>2, <3>3
  <2>. QED BY <2>0, <2>1, <2>2
<1>. QED BY <1>4, <1>8, <1>9, <1>10 DEF t

\* queue_try_pop and server_info_add_client.
LEMMA PopStep ==
  ASSUME IInv, Pop
  PROVE  IInv'
<1>. USE DEF Pop
<1>1. CASE queue = << >>
  <2>1. UNCHANGED << queue, fds, clients, fate >> /\ pc' = "poll" BY <1>1
  <2>. QED BY <2>1 DEF IInv, TypeOK, Paired, PolledForReply, NoneTwice, Walk, Closed
<1>2. CASE queue # << >>
  <2>. DEFINE k == Head(queue)
  <2>0. queue' = Tail(queue) /\ server_info_add_client(k) BY <1>2
  <2>1. /\ k \in Conns /\ fate[k] = "queued" /\ queue' \in Seq(Conns)
        /\ \A x, y \in DOMAIN queue' : queue'[x] = queue'[y] => x = y
        /\ \A m \in Conns : (\E x \in DOMAIN queue' : queue'[x] = m)
                             <=> fate[m] = "queued" /\ m # k
    BY <1>2, <2>0, QueuePopped
  <2>2. fate \in [Conns -> {"new", "queued", "served", "closed", "leaked"}] BY DEF IInv, TypeOK
  <2>3. /\ Len(fds) \in Nat /\ Len(clients) = Len(fds) /\ DOMAIN fds = 1 .. Len(fds)
        /\ fds \in Seq(PollFd) /\ clients \in Seq(ClientObj)
    BY Arrays DEF IInv, TypeOK
  <2>4. Closed = {} BY DEF IInv, Walk
  <2>. HIDE DEF k
  <2>5. CASE Len(fds) = MaxSize
    <3>1. /\ fate' = [fate EXCEPT ![k] = "leaked"] /\ pc' = "poll"
          /\ UNCHANGED << fds, clients >>
      BY <2>0, <2>5 DEF server_info_add_client
    <3>2. TypeOK' BY <2>1, <2>2, <3>1 DEF IInv, TypeOK
    <3>3. Paired' /\ PolledForReply' /\ Walk'
      BY <2>4, <3>1 DEF IInv, Paired, PolledForReply, Walk, Closed
    <3>4. \A m \in Conns : /\ fate'[m] = "queued" <=> fate[m] = "queued" /\ m # k
                           /\ fate'[m] = "served" <=> fate[m] = "served"
      BY <2>1, <2>2, <3>1
    <3>5. NoneTwice' BY <2>1, <3>1, <3>4 DEF IInv, NoneTwice
    <3>. QED BY <3>2, <3>3, <3>5 DEF IInv
  <2>6. CASE Len(fds) # MaxSize /\ lost
    <3>1. pc' = "crashed" /\ UNCHANGED << fate, fds, clients >>
      BY <2>0, <2>6 DEF server_info_add_client
    <3>. QED BY <2>1, <3>1 DEF IInv, TypeOK, Paired, PolledForReply, NoneTwice, Walk
  <2>7. CASE Len(fds) # MaxSize /\ ~ lost
    <3>1. /\ fate' = [fate EXCEPT ![k] = "served"] /\ pc' = "poll"
          /\ fds' = Append(fds, NewFd(k)) /\ clients' = Append(clients, NewClient(k))
      BY <2>0, <2>7 DEF server_info_add_client
    <3>2. /\ NewFd(k) \in PollFd /\ NewFd(k).fd = k /\ NewFd(k).out = TRUE
          /\ NewClient(k) \in ClientObj /\ NewClient(k).owner = k
          /\ NewClient(k).need_send = TRUE
      BY <2>1 DEF NewFd, NewClient, PollFd, ClientObj
    <3>3. /\ fds' \in Seq(PollFd) /\ Len(fds') = Len(fds) + 1
          /\ \A x \in 1 .. Len(fds) : fds'[x] = fds[x]
          /\ fds'[Len(fds) + 1] = NewFd(k)
      BY <2>3, <3>1, <3>2, AppendProperties
    <3>4. /\ clients' \in Seq(ClientObj) /\ Len(clients') = Len(fds) + 1
          /\ \A x \in 1 .. Len(fds) : clients'[x] = clients[x]
          /\ clients'[Len(fds) + 1] = NewClient(k)
      BY <2>3, <3>1, <3>2, AppendProperties
    <3>5. DOMAIN fds' = 1 .. (Len(fds) + 1) BY <3>3
    <3>6. TypeOK' BY <2>1, <2>2, <3>1, <3>3, <3>4 DEF IInv, TypeOK
    <3>. HIDE DEF Pop
    <3>11. \A x \in DOMAIN fds' : x \in 1 .. Len(fds) \/ x = Len(fds) + 1 BY <2>3, <3>5
    <3>7. Paired'
      <4>1. Len(fds') = Len(clients') /\ Len(fds') <= MaxSize
        <5>1. Len(fds) <= MaxSize BY DEF IInv, Paired
        <5>2. MaxSize \in Nat BY LoopAssumption
        <5>. QED BY <2>3, <2>7, <3>3, <3>4, <5>1, <5>2
      <4>2. \A x \in DOMAIN fds : fds[x].fd # NoFd => clients[x].owner = fds[x].fd
        BY DEF IInv, Paired
      <4>3. ASSUME NEW x \in 1 .. Len(fds), fds'[x].fd # NoFd
            PROVE  clients'[x].owner = fds'[x].fd
        BY <2>3, <3>3, <3>4, <4>2, <4>3
      <4>4. clients'[Len(fds) + 1].owner = fds'[Len(fds) + 1].fd BY <3>2, <3>3, <3>4
      <4>. QED BY <3>11, <4>1, <4>3, <4>4 DEF Paired
    <3>8. PolledForReply'
      <4>1. \A x \in DOMAIN fds : fds[x].fd # NoFd => fds[x].out = clients[x].need_send
        BY DEF IInv, PolledForReply
      <4>2. ASSUME NEW x \in 1 .. Len(fds), fds'[x].fd # NoFd
            PROVE  fds'[x].out = clients'[x].need_send
        BY <2>3, <3>3, <3>4, <4>1, <4>2
      <4>3. fds'[Len(fds) + 1].out = clients'[Len(fds) + 1].need_send BY <3>2, <3>3, <3>4
      <4>. QED BY <3>11, <4>2, <4>3 DEF PolledForReply
    <3>9. Walk'
      <4>1. NoFd # k BY <2>1, LoopAssumption
      <4>2. \A x \in 1 .. Len(fds) : fds[x].fd # NoFd BY <2>3, <2>4 DEF Closed
      <4>3. Closed' = {} BY <2>3, <3>2, <3>3, <3>5, <4>1, <4>2 DEF Closed
      <4>. QED BY <3>1, <4>3 DEF Walk
    <3>10. NoneTwice'
      <4>0. pc # "crashed" BY DEF Pop
      <4>1. \A x \in 1 .. Len(fds) : fds[x].fd # k
        BY <2>1, <2>3, <4>0 DEF IInv, NoneTwice
      <4>2. \A x, y \in DOMAIN fds' : fds'[x].fd = fds'[y].fd /\ fds'[x].fd # NoFd => x = y
        BY <2>3, <3>2, <3>3, <3>5, <4>0, <4>1 DEF IInv, NoneTwice
      <4>3. \A m \in Conns : fate'[m] = "queued" <=> fate[m] = "queued" /\ m # k
        BY <2>1, <2>2, <3>1
      <4>4. \A m \in Conns : fate'[m] = "served" <=> fate[m] = "served" \/ m = k
        BY <2>1, <2>2, <3>1
      <4>5. ASSUME NEW m \in Conns
            PROVE  (\E x \in DOMAIN fds' : fds'[x].fd = m)
                     <=> (\E x \in DOMAIN fds : fds[x].fd = m) \/ m = k
        <5>1. 1 .. Len(fds) \subseteq DOMAIN fds' /\ Len(fds) + 1 \in DOMAIN fds' BY <2>3, <3>5
        <5>2. ASSUME NEW x \in 1 .. Len(fds) PROVE fds'[x].fd = fds[x].fd BY <3>3
        <5>3. fds'[Len(fds) + 1].fd = k BY <3>2, <3>3
        <5>. QED BY <2>3, <3>11, <5>1, <5>2, <5>3
      <4>6. \A m \in Conns : fate[m] = "served" <=> \E x \in DOMAIN fds : fds[x].fd = m
        BY <4>0 DEF IInv, NoneTwice
      <4>. QED BY <2>1, <4>2, <4>3, <4>4, <4>5, <4>6 DEF NoneTwice
    <3>. QED BY <3>6, <3>7, <3>8, <3>9, <3>10 DEF IInv
  <2>. QED BY <2>5, <2>6, <2>7
<1>. QED BY <1>1, <1>2

\* poll, the end of a pass and the end of the worker.
LEMMA LoopSteps ==
  ASSUME IInv, \/ \E blocked \in SUBSET Conns, failing \in SUBSET Faulty : Poll(blocked, failing)
               \/ EndPass \/ End \/ Done
  PROVE  IInv'
<1>1. ASSUME NEW blocked, NEW failing, Poll(blocked, failing) PROVE IInv'
  <2>. DEFINE r == [x \in DOMAIN fds |-> Reported(fds[x], blocked, failing)]
  <2>1. /\ pc = "poll" /\ UNCHANGED << queue, fds, clients, lost, sock, fate, end_flag, sent >>
        /\ UNCHANGED << at, msg >>
        /\ \/ pc' = "top" /\ revents' = revents
           \/ pc' = "pass" /\ revents' = r
    BY <1>1 DEF Poll
  <2>2. Len(fds) \in Nat /\ DOMAIN fds = 1 .. Len(fds) BY Arrays DEF IInv
  <2>3. \A x \in DOMAIN fds : Reported(fds[x], blocked, failing) \in Revents
    BY DEF Reported, Revents
  <2>4. r \in Seq(Revents) /\ Len(r) = Len(fds)
    <3>1. r \in [1 .. Len(fds) -> Revents] BY <2>2, <2>3
    <3>. HIDE DEF r
    <3>. QED BY <2>2, <3>1
  <2>5. Closed = {} BY <2>1 DEF IInv, Walk
  <2>. HIDE DEF r
  <2>6. TypeOK' BY <2>1, <2>4 DEF IInv, TypeOK
  <2>7. Walk' BY <2>1, <2>4, <2>5 DEF Walk, Closed
  <2>. QED BY <2>1, <2>6, <2>7 DEF IInv, Paired, PolledForReply, NoneTwice
<1>2. CASE EndPass
  <2>1. revents' \in Seq(Revents) BY <1>2 DEF EndPass
  <2>2. Walk' BY <1>2 DEF EndPass, Walk, Closed
  <2>. QED BY <1>2, <2>1, <2>2
           DEF EndPass, IInv, TypeOK, Paired, PolledForReply, NoneTwice
<1>3. CASE End
  BY <1>3 DEF End, IInv, TypeOK, Paired, PolledForReply, NoneTwice, Walk
<1>4. CASE Done
  BY <1>4 DEF Done, vars, IInv, TypeOK, Paired, PolledForReply, NoneTwice, Walk, Closed
<1>. QED BY <1>1, <1>2, <1>3, <1>4

----------------------------------------------------------------------------
\* The theorems.

\* IInv holds initially and every step keeps it.
LEMMA Inductive == /\ Init => IInv
                   /\ IInv /\ [Next]_vars => IInv'
<1>1. Init => IInv
  <2>. SUFFICES ASSUME Init PROVE IInv OBVIOUS
  <2>1. fds = << >> /\ clients = << >> /\ queue = << >> /\ DOMAIN << >> = {}
    BY DEF Init
  <2>2. TypeOK
    <3>1. sock \in SockType BY LoopAssumption DEF Init, SockType
    <3>2. fate \in [Conns -> {"new", "queued", "served", "closed", "leaked"}] BY DEF Init
    <3>3. queue \in Seq(Conns) /\ fds \in Seq(PollFd) /\ clients \in Seq(ClientObj)
      BY <2>1, EmptySeq
    <3>4. revents \in Seq(Revents) BY EmptySeq DEF Init
    <3>5. /\ lost \in BOOLEAN /\ end_flag \in BOOLEAN /\ sent \in BOOLEAN
          /\ pc \in {"top", "poll", "pass", "compress", "ended", "crashed"}
          /\ msg \in SUBSET Conns
      BY DEF Init
    <3>6. at \in Nat \ {0} BY DEF Init
    <3>. QED BY <3>1, <3>2, <3>3, <3>4, <3>5, <3>6 DEF TypeOK, SockType
  <2>. QED BY <2>1, <2>2, LoopAssumption
           DEF Init, IInv, Paired, PolledForReply, NoneTwice, Walk, Closed
<1>2. IInv /\ [Next]_vars => IInv'
  <2>. SUFFICES ASSUME IInv, [Next]_vars PROVE IInv' OBVIOUS
  <2>1. CASE UNCHANGED vars
    BY <2>1 DEF vars, IInv, TypeOK, Paired, PolledForReply, NoneTwice, Walk, Closed
  <2>. QED BY <2>1, AcceptStep, OutsideSteps, PopStep, LoopSteps, PassSteps, CompressStep
           DEF Next, PassAction
<1>. QED BY <1>1, <1>2

\* Every variable of the worker keeps its type, whatever the connections do.
THEOREM TypeCorrect == Spec => []TypeOK
BY Inductive, PTL DEF Spec, IInv

\* The two arrays of the worker stay in step and within their capacity, for any
\* number of connections and any capacity.
THEOREM ArraysPaired == Spec => []Paired
BY Inductive, PTL DEF Spec, IInv

\* A worker polls for POLLOUT exactly the connections that have a reply due.
THEOREM AllRepliesPolledFor == Spec => []PolledForReply
BY Inductive, PTL DEF Spec, IInv

\* Queue and arrays hold the connections queued and served, each once, and nothing
\* else; a connection is leaked only when MaxQueue others wait or when MaxSize living
\* ones are served, however many were closed before.
THEOREM EachHeldOnce == Spec => HeldOnce
<1>. DEFINE NoRoom == \/ Len(queue) >= MaxQueue
                      \/ /\ Len(fds) = MaxSize
                         /\ \A i \in DOMAIN fds : fate[fds[i].fd] = "served"
<1>1. IInv /\ [Next]_vars => [LeaksWhenFull]_vars
  <2>. SUFFICES ASSUME IInv, [Next]_vars, NEW k \in Conns,
                       fate[k] # "leaked", fate'[k] = "leaked"
                PROVE  NoRoom
    BY DEF LeaksWhenFull
  <2>0. fate \in [Conns -> {"new", "queued", "served", "closed", "leaked"}]
    BY DEF IInv, TypeOK
  <2>1. ASSUME NEW m \in Conns, Accept(m) PROVE NoRoom
    <3>1. Len(queue) \in Nat /\ MaxQueue \in Nat BY Queue, LoopAssumption DEF IInv
    <3>2. ~ (Len(queue) < MaxQueue) BY <2>0, <2>1 DEF Accept
    <3>. QED BY <3>1, <3>2
  <2>2. CASE Pop
    <3>1. pc = "top" /\ Len(fds) = MaxSize
      BY <2>0, <2>2, QueuePopped DEF Pop, server_info_add_client
    <3>2. ASSUME NEW i \in DOMAIN fds PROVE fate[fds[i].fd] = "served"
      <4>1. fds[i] \in PollFd BY Arrays DEF IInv
      <4>2. fds[i].fd # NoFd BY <3>1 DEF IInv, Walk, Closed
      <4>3. fds[i].fd \in Conns BY <4>1, <4>2 DEF PollFd
      <4>. QED BY <3>1, <4>3 DEF IInv, NoneTwice
    <3>. QED BY <3>1, <3>2
  <2>3. CASE PassAction
    <3>1. fate' = fate \/ fate' = [fate EXCEPT ![fds[at].fd] = "closed"]
      BY <2>3, PassShape DEF Moves, Crashes, EntryChange
    <3>. QED BY <2>0, <3>1
  <2>4. CASE fate' = fate BY <2>4
  <2>. QED BY <2>1, <2>2, <2>3, <2>4
           DEF Next, PassAction, PeerSends, PeerCloses, Shutdown, Poll, EndPass, End, Done,
               server_info_compress, vars
<1>2. IInv /\ IInv' /\ [Next]_vars => [NoneTwice' /\ LeaksWhenFull]_vars
  <2>1. IInv' => NoneTwice' BY DEF IInv
  <2>. QED BY <1>1, <2>1
<1>. QED BY <1>2, Inductive, PTL DEF Spec, HeldOnce

----------------------------------------------------------------------------
\* PollLoop implements Connection.

Alive == pc \notin {"ended", "crashed"}

\* The client of the watched connection has a reply to send.
Pending == \E x \in DOMAIN fds : fds[x].fd = Watched /\ clients[x].need_send

Early == {"new", "queued", "leaked"}

\* The watched connection as the abstract specification sees it.
LinkView ==
  /\ fate[Watched] \in Early => StatusOf(Watched) = "new" /\ DueOf(Watched) = FALSE
  /\ fate[Watched] = "served" /\ Alive =>
       StatusOf(Watched) = "open" /\ DueOf(Watched) = Pending
  /\ fate[Watched] = "served" /\ ~ Alive =>
       StatusOf(Watched) = "down" /\ DueOf(Watched) = FALSE
  /\ fate[Watched] = "closed" => StatusOf(Watched) = "closed" /\ DueOf(Watched) = FALSE
  /\ fate[Watched] \in Early \union {"served", "closed"}

\* That view is right in every well-typed state.
LEMMA View == TypeOK => LinkView
BY LoopAssumption DEF TypeOK, LinkView, StatusOf, DueOf, Alive, Pending, Early

\* The peer of the watched connection has closed its end.
Gone == sock[Watched].fin

\* A step that leaves alone what concerns the watched connection.
LEMMA LinkStutters ==
  ASSUME TypeOK, TypeOK', fate'[Watched] = fate[Watched], Alive' = Alive, sent' = sent,
         Gone' = Gone, fate[Watched] = "served" /\ Alive => Pending' = Pending
  PROVE  UNCHANGED Watching!connVars
<1>1. LinkView /\ LinkView' BY View, PTL
<1>. QED BY <1>1 DEF LinkView, Watching!connVars, Early, Gone

\* A step with which the worker ends, the connections being what they were.
LEMMA LinkEnds ==
  ASSUME TypeOK, TypeOK', fate' = fate, Alive, ~ Alive', sent' = sent,
         Gone' = Gone
  PROVE  [Watching!Next]_(Watching!connVars)
<1>1. LinkView /\ LinkView' BY View, PTL
<1>2. CASE fate[Watched] = "served"
  BY <1>1, <1>2 DEF LinkView, Watching!Next, Watching!Down, Gone
<1>3. CASE fate[Watched] # "served"
  BY <1>1, <1>3 DEF LinkView, Watching!connVars, Early, Gone
<1>. QED BY <1>2, <1>3

\* A step of the pass that leaves the entry at hand with e and o.
LEMMA EntryPending ==
  ASSUME IInv, InPass, NEW e \in PollFd, NEW o \in ClientObj,
         fds' = [fds EXCEPT ![at] = e], clients' = [clients EXCEPT ![at] = o],
         e.fd \in {fds[at].fd, NoFd}
  PROVE  /\ fds[at].fd # Watched => Pending' = Pending
         /\ fds[at].fd = Watched => /\ Pending = clients[at].need_send
                                    /\ Pending' = (e.fd = Watched /\ o.need_send)
<1>0. /\ at \in 1 .. Len(fds)
      /\ fds[at] \in PollFd /\ clients[at] \in ClientObj
  BY AtHand
<1>1. /\ Len(fds) \in Nat /\ Len(clients) = Len(fds)
      /\ DOMAIN fds = 1 .. Len(fds) /\ DOMAIN clients = 1 .. Len(fds)
  BY Arrays DEF IInv
<1>2. /\ DOMAIN fds' = DOMAIN fds
      /\ \A x \in DOMAIN fds : /\ fds'[x] = IF x = at THEN e ELSE fds[x]
                               /\ clients'[x] = IF x = at THEN o ELSE clients[x]
  BY <1>0, <1>1 DEF IInv, TypeOK
<1>3. Watched \in Conns /\ Watched # NoFd BY LoopAssumption
<1>4. \A x, y \in DOMAIN fds : fds[x].fd = fds[y].fd /\ fds[x].fd # NoFd => x = y
  BY DEF IInv, NoneTwice, InPass
<1>5. clients[at].need_send \in BOOLEAN /\ o.need_send \in BOOLEAN BY <1>0 DEF ClientObj
<1>6. CASE fds[at].fd # Watched BY <1>0, <1>1, <1>2, <1>3, <1>6 DEF Pending
<1>7. CASE fds[at].fd = Watched
  <2>1. \A x \in DOMAIN fds : x # at => fds[x].fd # Watched BY <1>0, <1>1, <1>3, <1>4, <1>7
  <2>2. Pending = clients[at].need_send BY <1>0, <1>1, <1>5, <1>7, <2>1 DEF Pending
  <2>3. Pending' = (e.fd = Watched /\ o.need_send)
    BY <1>0, <1>1, <1>2, <1>5, <2>1 DEF Pending
  <2>. QED BY <1>7, <2>2, <2>3
<1>. QED BY <1>6, <1>7

\* A step of the pass makes a reply due, sends the one that is due, or closes.
LEMMA LinkEntry ==
  ASSUME IInv, IInv', InPass, Moves
  PROVE  [Watching!Next]_(Watching!connVars)
<1>. PICK e \in PollFd, o \in ClientObj : EntryChange(e, o) BY DEF Moves
<1>. USE DEF EntryChange, Answered
<1>0. TypeOK /\ TypeOK' BY DEF IInv
<1>1. /\ fds[at].fd # Watched => Pending' = Pending
      /\ fds[at].fd = Watched => /\ Pending = clients[at].need_send
                                 /\ Pending' = (e.fd = Watched /\ o.need_send)
  BY EntryPending
<1>2. /\ fds[at].fd \in Conns /\ fate[fds[at].fd] = "served"
      /\ clients[at] \in ClientObj
  BY AtHand
<1>3. Alive /\ Alive' BY DEF Alive, InPass, Moves
<1>4. LinkView /\ LinkView' BY <1>0, View, PTL
<1>5. Watched \in Conns /\ Watched # NoFd BY LoopAssumption
<1>6. fate \in [Conns -> {"new", "queued", "served", "closed", "leaked"}] BY <1>0 DEF TypeOK
<1>7. clients[at].need_send \in BOOLEAN /\ o.need_send \in BOOLEAN BY <1>2 DEF ClientObj
<1>10. Gone' = Gone BY <1>5 DEF Moves, FinsKept, Gone
<1>8. CASE fds[at].fd # Watched
  <2>1. fate'[Watched] = fate[Watched] BY <1>2, <1>5, <1>6, <1>8
  <2>2. sent' = sent BY <1>8
  <2>. QED BY <1>0, <1>1, <1>3, <1>8, <1>10, <2>1, <2>2, LinkStutters
<1>9. CASE fds[at].fd = Watched
  <2>0. StatusOf(Watched) = "open" /\ DueOf(Watched) = clients[at].need_send
    BY <1>1, <1>2, <1>3, <1>4, <1>9 DEF LinkView
  <2>. USE DEF Watching!Next, Watching!connVars
  <2>1. CASE e.fd = fds[at].fd /\ fate' = fate
    <3>1. StatusOf(Watched)' = "open" /\ DueOf(Watched)' = o.need_send
      BY <1>1, <1>2, <1>3, <1>4, <1>7, <1>9, <2>1 DEF LinkView
    <3>2. CASE sent' = sent /\ (clients[at].need_send => o.need_send)
      BY <1>7, <1>10, <2>0, <3>1, <3>2 DEF Watching!Receive, Gone
    <3>3. CASE clients[at].need_send /\ ~ o.need_send /\ sent' = ~ sent
      BY <1>7, <1>10, <2>0, <3>1, <3>3 DEF Watching!Reply, Gone
    <3>. QED BY <1>5, <1>9, <2>1, <3>2, <3>3
  <2>2. CASE e.fd = NoFd /\ fate' = [fate EXCEPT ![fds[at].fd] = "closed"]
    <3>1. fate'[Watched] = "closed" BY <1>5, <1>6, <1>9, <2>2
    <3>2. StatusOf(Watched)' = "closed" /\ DueOf(Watched)' = FALSE
      BY <1>4, <3>1 DEF LinkView
    <3>3. CASE sent' = sent /\ Gone
      BY <1>10, <2>0, <3>2, <3>3 DEF Watching!Hangup, Gone
    <3>4. CASE clients[at].need_send /\ sent' = ~ sent
      BY <1>10, <2>0, <3>2, <3>4 DEF Watching!Reply, Gone
    <3>. QED BY <1>5, <1>9, <2>2, <3>3, <3>4 DEF Gone
  <2>. QED BY <2>1, <2>2
<1>. QED BY <1>8, <1>9

\* The worker takes up a connection: it opens with its greeting due.
LEMMA LinkPop ==
  ASSUME IInv, IInv', Pop
  PROVE  [Watching!Next]_(Watching!connVars)
<1>0. TypeOK /\ TypeOK' /\ Alive /\ sent' = sent /\ sock' = sock BY DEF IInv, Pop, Alive
<1>3. Gone' = Gone BY <1>0 DEF Gone
<1>1. CASE queue = << >>
  <2>1. UNCHANGED << fds, clients, fate >> /\ pc' = "poll" BY <1>1 DEF Pop
  <2>2. Pending' = Pending /\ Alive' = Alive BY <1>0, <2>1 DEF Pending, Alive
  <2>. QED BY <1>0, <1>3, <2>1, <2>2, LinkStutters
<1>2. CASE queue # << >>
  <2>. DEFINE k == Head(queue)
  <2>0. server_info_add_client(k) BY <1>2 DEF Pop
  <2>1. k \in Conns /\ fate[k] = "queued" BY <1>2, QueuePopped DEF Pop
  <2>2. fate \in [Conns -> {"new", "queued", "served", "closed", "leaked"}] /\ Watched \in Conns
    BY <1>0, LoopAssumption DEF TypeOK
  <2>3. /\ Len(fds) \in Nat /\ Len(clients) = Len(fds) /\ DOMAIN fds = 1 .. Len(fds)
        /\ fds \in Seq(PollFd) /\ clients \in Seq(ClientObj)
    BY Arrays DEF IInv, TypeOK
  <2>4. LinkView /\ LinkView' BY <1>0, View, PTL
  <2>. HIDE DEF k
  <2>5. CASE Len(fds) = MaxSize
    <3>1. /\ fate' = [fate EXCEPT ![k] = "leaked"] /\ pc' = "poll"
          /\ UNCHANGED << fds, clients >>
      BY <2>0, <2>5 DEF server_info_add_client
    <3>2. CASE k = Watched
      <4>1. fate[Watched] \in Early /\ fate'[Watched] \in Early
        BY <2>1, <2>2, <3>1, <3>2 DEF Early
      <4>. QED BY <1>0, <2>4, <4>1 DEF LinkView, Watching!connVars
    <3>3. CASE k # Watched
      <4>1. fate'[Watched] = fate[Watched] BY <2>1, <2>2, <3>1, <3>3
      <4>2. Pending' = Pending /\ Alive' = Alive BY <1>0, <3>1 DEF Pending, Alive
      <4>. QED BY <1>0, <1>3, <4>1, <4>2, LinkStutters
    <3>. QED BY <3>2, <3>3
  <2>6. CASE Len(fds) # MaxSize /\ lost
    <3>1. pc' = "crashed" /\ fate' = fate BY <2>0, <2>6 DEF server_info_add_client
    <3>2. ~ Alive' BY <3>1 DEF Alive
    <3>. QED BY <1>0, <1>3, <3>1, <3>2, LinkEnds
  <2>7. CASE Len(fds) # MaxSize /\ ~ lost
    <3>1. /\ fate' = [fate EXCEPT ![k] = "served"] /\ pc' = "poll"
          /\ fds' = Append(fds, NewFd(k)) /\ clients' = Append(clients, NewClient(k))
      BY <2>0, <2>7 DEF server_info_add_client
    <3>2. /\ NewFd(k) \in PollFd /\ NewFd(k).fd = k
          /\ NewClient(k) \in ClientObj /\ NewClient(k).need_send = TRUE
      BY <2>1 DEF NewFd, NewClient, PollFd, ClientObj
    <3>3. /\ fds' \in Seq(PollFd) /\ Len(fds') = Len(fds) + 1
          /\ \A x \in 1 .. Len(fds) : fds'[x] = fds[x]
          /\ fds'[Len(fds) + 1] = NewFd(k)
      BY <2>3, <3>1, <3>2, AppendProperties
    <3>4. /\ \A x \in 1 .. Len(fds) : clients'[x] = clients[x]
          /\ clients'[Len(fds) + 1] = NewClient(k)
      BY <2>3, <3>1, <3>2, AppendProperties
    <3>5. DOMAIN fds' = 1 .. (Len(fds) + 1) BY <3>3
    <3>6. 1 .. Len(fds) \subseteq DOMAIN fds' /\ Len(fds) + 1 \in DOMAIN fds' BY <2>3, <3>5
    <3>7. Alive' = Alive /\ Alive' BY <1>0, <3>1 DEF Alive
    <3>8. CASE k = Watched
      <4>1. fate[Watched] \in Early /\ fate'[Watched] = "served"
        BY <2>1, <2>2, <3>1, <3>8 DEF Early
      <4>2. Pending' = TRUE BY <3>2, <3>3, <3>4, <3>6, <3>8 DEF Pending
      <4>. QED BY <1>0, <2>4, <3>7, <4>1, <4>2 DEF LinkView, Watching!Next, Watching!Open
    <3>9. CASE k # Watched
      <4>1. fate'[Watched] = fate[Watched] BY <2>1, <2>2, <3>1, <3>9
      <4>2. \A x \in DOMAIN fds' : x \in 1 .. Len(fds) \/ x = Len(fds) + 1 BY <2>3, <3>5
      <4>3. Pending' = Pending
        BY <2>3, <3>2, <3>3, <3>4, <3>6, <3>9, <4>2 DEF Pending
      <4>. QED BY <1>0, <1>3, <3>7, <4>1, <4>3, LinkStutters
    <3>. QED BY <3>8, <3>9
  <2>. QED BY <2>5, <2>6, <2>7
<1>. QED BY <1>1, <1>2

\* Closing a gap moves the watched connection and its client together.
LEMMA GapPending ==
  ASSUME TypeOK, Paired, NEW i \in 1 .. Len(fds), NEW j \in (i + 1) .. (Len(fds) + 1),
         \A y \in i .. (j - 1) : y \in Closed,
         fds' = Kept(fds, i, j), clients' = Kept(clients, i, j)
  PROVE  Pending' = Pending
<1>. DEFINE n == Len(fds) - (j - i)
            Old(x) == OldPlace(i, j, x)
<1>0. /\ DOMAIN fds' = 1 .. n
      /\ \A x \in 1 .. n : /\ Old(x) \in 1 .. Len(fds)
                           /\ fds'[x] = fds[Old(x)] /\ clients'[x] = clients[Old(x)]
      /\ \A z \in 1 .. Len(fds) : fds[z].fd # NoFd => \E x \in 1 .. n : Old(x) = z
  BY GapMap
<1>1. DOMAIN fds = 1 .. Len(fds) BY Arrays
<1>2. Watched # NoFd BY LoopAssumption
<1>. HIDE DEF n, Old
<1>3. ASSUME NEW z \in DOMAIN fds, fds[z].fd = Watched, clients[z].need_send
      PROVE  Pending'
  <2>1. PICK x \in 1 .. n : Old(x) = z BY <1>0, <1>1, <1>2, <1>3
  <2>2. fds'[x] = fds[z] /\ clients'[x] = clients[z] /\ x \in DOMAIN fds' BY <1>0, <2>1
  <2>. QED BY <1>3, <2>2 DEF Pending
<1>4. ASSUME NEW x \in DOMAIN fds', fds'[x].fd = Watched, clients'[x].need_send
      PROVE  Pending
  <2>1. Old(x) \in DOMAIN fds /\ fds'[x] = fds[Old(x)] /\ clients'[x] = clients[Old(x)]
    BY <1>0, <1>1
  <2>. QED BY <1>4, <2>1 DEF Pending
<1>. QED BY <1>3, <1>4 DEF Pending

\* server_info_compress moves the watched connection or takes the worker down.
LEMMA LinkCompress ==
  ASSUME IInv, IInv', server_info_compress
  PROVE  [Watching!Next]_(Watching!connVars)
<1>0. /\ pc = "compress" /\ fate' = fate /\ sent' = sent /\ Alive /\ Gone' = Gone
      /\ TypeOK /\ TypeOK' /\ Paired
  BY CompressShape DEF Alive, IInv, Gone, server_info_compress
<1>1. CASE UNCHANGED << fds, clients, lost >> /\ pc' = "top"
  <2>1. Pending' = Pending /\ Alive' = Alive BY <1>0, <1>1 DEF Pending, Alive
  <2>. QED BY <1>0, <2>1, LinkStutters
<1>2. CASE pc' = "crashed"
  <2>1. ~ Alive' BY <1>2 DEF Alive
  <2>. QED BY <1>0, <2>1, LinkEnds
<1>3. ASSUME NEW i \in 1 .. Len(fds), NEW j \in (i + 1) .. (Len(fds) + 1), GapClosed(i, j)
      PROVE  [Watching!Next]_(Watching!connVars)
  <2>1. Pending' = Pending BY <1>0, <1>3, GapPending DEF GapClosed
  <2>2. Alive' = Alive BY <1>0, <1>3 DEF GapClosed, Alive
  <2>. QED BY <1>0, <2>1, <2>2, LinkStutters
<1>. QED BY <1>1, <1>2, <1>3, CompressShape

\* The worker implements Connection for every connection it is handed: whatever it
\* does with its arrays and with the other connections, a connection opens once with
\* its greeting due, loses a reply that is due only by sending it, and is closed only
\* with a reply or after its peer closed its end.
THEOREM Implements == Spec => ServesConnection
<1>1. Init => Watching!Init
  <2>. SUFFICES ASSUME Init PROVE Watching!Init OBVIOUS
  <2>1. fate[Watched] = "new" /\ sock[Watched].fin = FALSE /\ sent = FALSE
    BY LoopAssumption DEF Init
  <2>2. StatusOf(Watched) = "new" BY <2>1 DEF StatusOf
  <2>. QED BY <2>1, <2>2 DEF Watching!Init, DueOf
<1>2. IInv /\ IInv' /\ [Next]_vars => [Watching!Next]_(Watching!connVars)
  <2>. SUFFICES ASSUME IInv, IInv', [Next]_vars
                PROVE  [Watching!Next]_(Watching!connVars)
    OBVIOUS
  <2>0. TypeOK /\ TypeOK' BY DEF IInv
  <2>1. ASSUME NEW k \in Conns, Accept(k) PROVE UNCHANGED Watching!connVars
    <3>1. /\ UNCHANGED << fds, clients, pc, sent, sock >>
          /\ fate[k] = "new"
          /\ fate' \in {[fate EXCEPT ![k] = "queued"], [fate EXCEPT ![k] = "leaked"]}
      BY <2>1 DEF Accept
    <3>2. Pending' = Pending /\ Alive' = Alive /\ Gone' = Gone
      BY <3>1 DEF Pending, Alive, Gone
    <3>3. CASE k # Watched
      <4>1. fate'[Watched] = fate[Watched]
        BY <2>0, <3>1, <3>3, LoopAssumption DEF TypeOK
      <4>. QED BY <2>0, <3>1, <3>2, <4>1, LinkStutters
    <3>4. CASE k = Watched
      <4>1. fate[Watched] \in Early /\ fate'[Watched] \in Early
        BY <2>0, <3>1, <3>4, LoopAssumption DEF TypeOK, Early
      <4>2. LinkView /\ LinkView' BY <2>0, View, PTL
      <4>. QED BY <3>1, <4>1, <4>2 DEF LinkView, Watching!connVars
    <3>. QED BY <3>3, <3>4
  <2>2. ASSUME UNCHANGED << fds, clients, fate, sent >>, Alive' = Alive, Gone' = Gone
        PROVE  UNCHANGED Watching!connVars
    <3>1. Pending' = Pending BY <2>2 DEF Pending
    <3>. QED BY <2>0, <2>2, <3>1, LinkStutters
  <2>3. CASE Shutdown \/ Done \/ UNCHANGED vars
    BY <2>2, <2>3 DEF Shutdown, Done, vars, Alive, Gone
  <2>8. ASSUME NEW k \in Conns, PeerSends(k) PROVE UNCHANGED Watching!connVars
    <3>1. Gone' = Gone
      BY <2>0, <2>8, LoopAssumption DEF PeerSends, Gone, TypeOK
    <3>. QED BY <2>2, <2>8, <3>1 DEF PeerSends, Alive
  <2>9. ASSUME NEW k \in Conns, PeerCloses(k) PROVE [Watching!Next]_(Watching!connVars)
    <3>1. UNCHANGED << fds, clients, fate, sent, pc >> /\ Alive' = Alive
      BY <2>9 DEF PeerCloses, Alive
    <3>2. CASE k # Watched
      <4>1. Gone' = Gone BY <2>0, <2>9, <3>2, LoopAssumption DEF PeerCloses, Gone, TypeOK
      <4>. QED BY <2>2, <3>1, <4>1
    <3>3. CASE k = Watched
      <4>1. Gone' = TRUE BY <2>0, <2>9, <3>3 DEF PeerCloses, Gone, TypeOK
      <4>2. LinkView /\ LinkView' BY <2>0, View, PTL
      <4>3. Pending' = Pending BY <3>1 DEF Pending
      <4>4. StatusOf(Watched)' = StatusOf(Watched) /\ DueOf(Watched)' = DueOf(Watched)
        BY <3>1, <4>2, <4>3 DEF LinkView, Early
      <4>. QED BY <3>1, <4>1, <4>4 DEF Watching!Next, Watching!Leave, Gone
    <3>. QED BY <3>2, <3>3
  <2>4. CASE \E blocked \in SUBSET Conns, failing \in SUBSET Faulty : Poll(blocked, failing)
    BY <2>2, <2>4 DEF Poll, Alive, Gone
  <2>5. CASE EndPass BY <2>2, <2>5 DEF EndPass, Alive, Gone
  <2>6. CASE End
    <3>1. fate' = fate /\ sent' = sent /\ Alive /\ ~ Alive' /\ Gone' = Gone
      BY <2>6 DEF End, Alive, Gone
    <3>. QED BY <2>0, <3>1, LinkEnds
  <2>7. CASE PassAction
    <3>1. InPass /\ (Moves \/ Crashes) BY <2>7, PassShape
    <3>2. CASE Crashes
      <4>1. fate' = fate /\ sent' = sent /\ Alive /\ ~ Alive' /\ Gone' = Gone
        BY <3>1, <3>2, LoopAssumption DEF Crashes, InPass, Alive, FinsKept, Gone
      <4>. QED BY <2>0, <4>1, LinkEnds
    <3>. QED BY <3>1, <3>2, LinkEntry
  <2>. QED BY <2>1, <2>3, <2>4, <2>5, <2>6, <2>7, <2>8, <2>9, LinkPop, LinkCompress
           DEF Next, PassAction
<1>. QED BY <1>1, <1>2, Inductive, PTL DEF Spec, ServesConnection, Watching!Spec
=============================================================================
