------------------------ MODULE ServerSessionProofs ------------------------
(***************************************************************************)
(* Theorems about ServerSession, for any number of receivers, senders and   *)
(* lines, and for peers that keep to the dialogue as well as for peers that *)
(* do not.                                                                  *)
(***************************************************************************)
EXTENDS ServerSession, SequenceTheorems, WellFoundedInduction, TLAPS

USE DEF PlainCmds, Address, Receiver

----------------------------------------------------------------------------
\* Types of the operators on the client record.

\* client_set_response keeps the record well typed.
LEMMA SetResponseType ==
  ASSUME NEW r \in Client, NEW code \in Replies
  PROVE  client_set_response(r, code) \in Client
BY DEF client_set_response, Client

\* A change of state keeps the record well typed.
LEMMA GotoType ==
  ASSUME NEW r \in Client, NEW st \in ClientStates
  PROVE  Goto(r, st) \in Client
BY DEF Goto, Client

\* So does a new sender.
LEMMA AddMailFromType ==
  ASSUME NEW r \in Client, NEW s \in Senders
  PROVE  client_add_mail_from(r, s) \in Client
<1>1. << >> \in Seq(Lines) OBVIOUS
<1>2. s \in Senders \union {NoSender} OBVIOUS
<1>. QED BY <1>1, <1>2 DEF client_add_mail_from, Client

\* So does a new receiver.
LEMMA AddRcptType ==
  ASSUME NEW r \in Client, NEW a \in Address
  PROVE  client_add_rcpt_to(r, a) \in Client
<1>1. r.to \in Seq(Receiver) BY DEF Client
<1>2. a \in Receiver OBVIOUS
<1>3. Append(r.to, a) \in Seq(Receiver) BY <1>1, <1>2
<1>. QED BY <1>3 DEF client_add_rcpt_to, Client

\* So does more text.
LEMMA AddTextType ==
  ASSUME NEW r \in Client, NEW t \in Seq(Lines)
  PROVE  client_add_msg_txt(r, t) \in Client
<1>1. r.msg_text \o t \in Seq(Lines) BY ConcatProperties DEF Client
<1>. QED BY <1>1 DEF client_add_msg_txt, Client

\* Cleaning domains keeps the array's length and type.
LEMMA CleanedType ==
  ASSUME NEW to \in Seq(Receiver)
  PROVE  Cleaned(to) \in Seq(Receiver) /\ Len(Cleaned(to)) = Len(to)
<1>1. Len(to) \in Nat /\ DOMAIN to = 1 .. Len(to) BY LenProperties
<1>2. \A i \in DOMAIN to : to[i] \in Receiver BY <1>1, ElementOfSeq
<1>3. \A i \in DOMAIN to : Cleaned(to)[i] \in Receiver BY <1>2 DEF Cleaned
<1>4. Cleaned(to) \in [1 .. Len(to) -> Receiver] BY <1>1, <1>3 DEF Cleaned
<1>. QED BY <1>1, <1>4, SeqDef, LenProperties

\* So does handing the mail over.
LEMMA DataEndType ==
  ASSUME NEW r \in Client, NEW opened \in BOOLEAN
  PROVE  client_data_end_process(r, opened) \in Client
<1>1. Cleaned(r.to) \in Seq(Receiver) BY CleanedType DEF Client
<1>. QED BY <1>1 DEF client_data_end_process, Client

\* What the argument of an event is, when the event has one.
ArgOK(ev, arg) ==
  /\ ev = "MAIL" => arg \in Senders
  /\ ev = "RCPT" => arg \in Address
  /\ ev \in {"MSG_TEXT", "END_DATA"} => arg \in Seq(Lines)

\* The callbacks of the transition table keep the record well typed.
LEMMA DoType ==
  ASSUME NEW r \in Client, NEW ev, NEW arg, NEW opened \in BOOLEAN,
         ArgOK(ev, arg), HasRow(r.current_state, ev)
  PROVE  client_do(r, ev, arg, opened) \in Client
<1>. USE SetResponseType, GotoType DEF ClientStates, Replies
<1>1. CASE ev = "EHLO" BY <1>1 DEF client_do, do_ehlo
<1>2. CASE ev = "HELO" BY <1>2 DEF client_do, do_helo
<1>3. CASE ev = "MAIL" BY <1>3, AddMailFromType DEF client_do, do_mail, ArgOK
<1>4. CASE ev = "RSET" BY <1>4 DEF client_do, do_rset
<1>5. CASE ev = "VRFY" BY <1>5 DEF client_do, do_vrfy
<1>6. CASE ev = "RCPT" BY <1>6, AddRcptType DEF client_do, do_rcpt, ArgOK
<1>7. CASE ev = "DATA" BY <1>7 DEF client_do, do_data
<1>8. CASE ev = "MSG_TEXT" BY <1>8, AddTextType DEF client_do, do_msg_text, ArgOK
<1>9. CASE ev = "END_DATA"
  BY <1>9, AddTextType, DataEndType DEF client_do, do_end_data, ArgOK
<1>. QED BY <1>1, <1>2, <1>3, <1>4, <1>5, <1>6, <1>7, <1>8, <1>9 DEF HasRow

\* A step of the state machine keeps the record well typed.
LEMMA StepType ==
  ASSUME NEW r \in Client, NEW ev, NEW arg, NEW opened \in BOOLEAN, ArgOK(ev, arg)
  PROVE  client_step(r, ev, arg, opened) \in Client
<1>. DEFINE st == r.current_state
<1>0. st \in ClientStates BY DEF Client
<1>1. CASE st \in {"INVALID", "DONE"}
  BY <1>1, GotoType DEF client_step, ClientStates
<1>2. CASE st \notin {"INVALID", "DONE"} /\ HasRow(st, ev)
  BY <1>2, DoType DEF client_step
<1>3. CASE st \notin {"INVALID", "DONE"} /\ ~ HasRow(st, ev)
  <2>1. AfterResponse(st) \in ClientStates BY <1>0 DEF AfterResponse, ClientStates
  <2>2. Goto(r, AfterResponse(st)) \in Client BY <2>1, GotoType
  <2>3. do_quit(r) \in Client
    BY GotoType, SetResponseType DEF do_quit, ClientStates, Replies
  <2>4. Goto(r, "TIMEOUT") \in Client /\ Goto(r, "INVALID") \in Client
    BY GotoType DEF ClientStates
  <2>5. client_do_invalid(r, ev) \in Client
    BY SetResponseType DEF client_do_invalid, Replies
  <2>. QED BY <1>3, <2>2, <2>3, <2>4, <2>5 DEF client_step
<1>. QED BY <1>1, <1>2, <1>3

----------------------------------------------------------------------------
\* Types of what the poll loop calls.

\* A set of numbers that is not empty has a least element.
LEMMA LeastNat ==
  ASSUME NEW T \in SUBSET Nat, T # {}
  PROVE  \E n \in T : \A m \in T : n <= m
<1>. DEFINE R == {ss \in Nat \X Nat : ss[1] < ss[2]}
<1>1. IsWellFoundedOn(R, Nat) BY NatLessThanWellFounded DEF OpToRel
<1>. HIDE DEF R
<1>2. \E n \in T : \A m \in T : ~ (<<m, n>> \in R) BY <1>1, WFMin
<1>3. PICK n \in T : \A m \in T : ~ (<<m, n>> \in R) BY <1>2
<1>4. ASSUME NEW m \in T PROVE n <= m
  <2>1. m < n => <<m, n>> \in R BY DEF R
  <2>. QED BY <1>3, <2>1
<1>. QED BY <1>4

\* The first line of kind k has an argument of the kind.
LEMMA ArgumentType ==
  ASSUME NEW chunk \in Seq(Lines), NEW k, Occurs(chunk, k)
  PROVE  /\ k = "MAIL" => ArgumentOf(chunk, k) \in Senders
         /\ k = "RCPT" => ArgumentOf(chunk, k) \in Address
<1>1. Len(chunk) \in Nat /\ DOMAIN chunk = 1 .. Len(chunk) BY LenProperties
<1>2. \A i \in DOMAIN chunk : chunk[i] \in Lines BY <1>1, ElementOfSeq
<1>. DEFINE First(i) == /\ chunk[i].cmd = k
                       /\ \A j \in 1 .. (i - 1) : chunk[j].cmd # k
            Hits == { i \in DOMAIN chunk : chunk[i].cmd = k }
<1>3. Hits \in SUBSET Nat /\ Hits # {} BY <1>1 DEF Occurs
<1>. HIDE DEF Hits
<1>4. PICK n \in Hits : \A m \in Hits : n <= m BY <1>3, LeastNat
<1>5. n \in DOMAIN chunk /\ First(n) BY <1>1, <1>4 DEF Hits
<1>6. \E i \in DOMAIN chunk : First(i) BY <1>5
<1>. DEFINE f == CHOOSE i \in DOMAIN chunk : First(i)
<1>7. f \in DOMAIN chunk /\ chunk[f].cmd = k BY <1>6
<1>8. ArgumentOf(chunk, k) = chunk[f].arg BY DEF ArgumentOf
<1>. HIDE DEF f
<1>9. chunk[f] \in Lines BY <1>2, <1>7
<1>. QED BY <1>7, <1>8, <1>9 DEF Lines

\* What Recognised returns occurs in the chunk.
LEMMA RecognisedOccurs ==
  ASSUME NEW chunk, Recognised(chunk) # "NONE"
  PROVE  /\ Occurs(chunk, Recognised(chunk))
         /\ Recognised(chunk) \in {"EHLO", "HELO", "MAIL", "RCPT", "QUIT", "RSET",
                                   "VRFY", "DATA"}
<1>. DEFINE found == { n \in DOMAIN CheckOrder : Occurs(chunk, CheckOrder[n]) }
            least == CHOOSE n \in found : \A m \in found : n <= m
<1>1. DOMAIN CheckOrder = 1 .. 8 BY DEF CheckOrder
<1>2. found # {} /\ found \in SUBSET Nat BY <1>1 DEF Recognised
<1>3. least \in found BY <1>2, LeastNat
<1>4. Recognised(chunk) = CheckOrder[least] BY <1>2 DEF Recognised
<1>. HIDE DEF least
<1>5. least \in 1 .. 8 /\ Occurs(chunk, CheckOrder[least]) BY <1>1, <1>3
<1>6. CheckOrder[least] \in {"EHLO", "HELO", "MAIL", "RCPT", "QUIT", "RSET", "VRFY", "DATA"}
  BY <1>5 DEF CheckOrder
<1>. QED BY <1>4, <1>5, <1>6

\* client_process_recv keeps the record well typed.
LEMMA RecvType ==
  ASSUME NEW r \in Client, NEW chunk \in Seq(Lines), chunk # << >>, NEW opened \in BOOLEAN
  PROVE  client_process_recv(r, chunk, opened) \in Client
<1>1. CASE InText(r)
  <2>1. BeforeEnd(chunk) \in Seq(Lines)
    BY LenProperties, EmptySeq, SubSeqProperties DEF BeforeEnd
  <2>2. ArgOK("END_DATA", BeforeEnd(chunk)) /\ ArgOK("MSG_TEXT", chunk) BY <2>1 DEF ArgOK
  <2>. QED BY <1>1, <2>2, StepType DEF client_process_recv
<1>2. CASE ~ InText(r)
  <2>. DEFINE k == Recognised(chunk)
  <2>1. CASE k \in {"VRFY", "NONE"}
    BY <1>2, <2>1, SetResponseType DEF client_process_recv, Replies
  <2>2. CASE k \notin {"VRFY", "NONE"}
    <3>1. ArgOK(k, ArgumentOf(chunk, k))
      BY <2>2, RecognisedOccurs, ArgumentType DEF ArgOK
    <3>2. client_step(r, k, ArgumentOf(chunk, k), opened) \in Client BY <3>1, StepType
    <3>. QED BY <1>2, <2>2, <3>2 DEF client_process_recv
  <2>. QED BY <2>1, <2>2
<1>. QED BY <1>1, <1>2

\* client_process_send keeps the record well typed.
LEMMA SendType ==
  ASSUME NEW r \in Client
  PROVE  client_process_send(r) \in Client
<1>. DEFINE done == [r EXCEPT !.need_send = FALSE, !.msg_for_sending = "none", !.cut = FALSE]
            nxt  == client_step(done, "RESPONSE", NoArg, TRUE)
<1>1. done \in Client BY DEF Client
<1>2. nxt \in Client BY <1>1, StepType DEF ArgOK
<1>3. client_process_send(r)
        = [nxt EXCEPT !.closed = (nxt.current_state = "DONE") \/ r.closed]
  BY DEF client_process_send
<1>. HIDE DEF nxt
<1>. QED BY <1>2, <1>3 DEF Client

\* client_process_check_timeout keeps the record well typed.
LEMMA TimeoutType ==
  ASSUME NEW r \in Client, NEW expired \in BOOLEAN
  PROVE  client_process_check_timeout(r, expired) \in Client
BY StepType DEF client_process_check_timeout, ArgOK

\* What the peer concludes keeps its account well typed.
LEMMA PeerReadsType ==
  ASSUME NEW p \in Peer, NEW code
  PROVE  PeerReads(p, code) \in Peer
<1>. DEFINE l == p.awaits
            q == [p EXCEPT !.awaits = NoLine]
<1>1. q \in Peer BY DEF Peer
<1>2. l # NoLine => l \in Lines BY DEF Peer
<1>3. l # NoLine => /\ l.cmd = "MAIL" => l.arg \in Senders
                    /\ l.cmd = "RCPT" => l.arg \in Address
  BY <1>2 DEF Lines
<1>4. << >> \in Seq(Lines) OBVIOUS
<1>5. /\ [q EXCEPT !.phase = "hello"] \in Peer
      /\ [q EXCEPT !.phase = "data", !.lines = << >>] \in Peer
      /\ [q EXCEPT !.phase = "over"] \in Peer
      /\ [q EXCEPT !.phase = "idle"] \in Peer
  BY <1>1, <1>4 DEF Peer
<1>6. [q EXCEPT !.phase = "idle", !.from = NoSender, !.rcpts = {},
                !.lines = << >>, !.accepted = @ + 1] \in Peer
  <2>1. q.accepted + 1 \in Nat BY <1>1 DEF Peer
  <2>. HIDE DEF q
  <2>. QED BY <1>1, <1>4, <2>1 DEF Peer
<1>7. l # NoLine /\ l.cmd = "MAIL" =>
        [q EXCEPT !.phase = "mail", !.from = l.arg, !.rcpts = {}] \in Peer
  BY <1>1, <1>3 DEF Peer
<1>8. l # NoLine /\ l.cmd = "RCPT" => [q EXCEPT !.rcpts = @ \union {l.arg}] \in Peer
  BY <1>1, <1>3 DEF Peer
<1>. HIDE DEF q
<1>. QED BY <1>1, <1>5, <1>6, <1>7, <1>8 DEF PeerReads, q

----------------------------------------------------------------------------
\* Type correctness: whatever the peer sends, and in whatever portions it arrives,
\* the session's fields hold values of their types; in particular a MAIL or RCPT
\* picked from the middle of a chunk is executed with an argument of its own kind.
THEOREM TypeCorrect == Spec => []TypeOK
<1>1. Init => TypeOK
  <2>1. << >> \in Seq(Lines) /\ << >> \in Seq(Receiver) OBVIOUS
  <2>2. client_init \in Client
    BY <2>1 DEF client_init, Client, ClientStates, Replies
  <2>3. ASSUME Init PROVE peer \in Peer BY <2>1, <2>3 DEF Init, Peer
  <2>4. ASSUME Init PROVE TypeOK BY <2>1, <2>2, <2>3, <2>4 DEF Init, TypeOK
  <2>. QED BY <2>4
<1>2. TypeOK /\ [Next]_vars => TypeOK'
  <2>. SUFFICES ASSUME TypeOK, [Next]_vars PROVE TypeOK'
    OBVIOUS
  <2>. USE DEF TypeOK
  <2>1. ASSUME NEW l \in Lines, PeerSend(l) PROVE TypeOK'
    <3>1. Append(inbox, l) \in Seq(Lines) /\ Append(peer.lines, l) \in Seq(Lines)
      BY DEF Peer
    <3>2. peer' \in Peer
      BY <2>1, <3>1 DEF PeerSend, Noted, Peer
    <3>. QED BY <2>1, <3>1, <3>2 DEF PeerSend
  <2>2. CASE PeerClose BY <2>2 DEF PeerClose
  <2>3. CASE Recv
    <3>1. c' \in Client BY <2>3, RecvType DEF Recv
    <3>2. calls' \in Nat /\ stored' \in Nat /\ conn' \in {"open", "closed", "crashed"}
      BY <2>3 DEF Recv
    <3>. QED BY <2>3, <3>1, <3>2 DEF Recv
  <2>4. CASE RecvEof BY <2>4 DEF RecvEof
  <2>5. CASE Send
    <3>1. c' \in Client BY <2>5, SendType DEF Send
    <3>2. peer' \in Peer BY <2>5, PeerReadsType DEF Send, Noted
    <3>. QED BY <2>5, <3>1, <3>2 DEF Send
  <2>6. CASE SendPart
    <3>1. c' \in Client BY <2>6 DEF SendPart, Client
    <3>. QED BY <2>6, <3>1 DEF SendPart
  <2>7. CASE CheckTimeout
    <3>1. c' \in Client BY <2>7, TimeoutType DEF CheckTimeout
    <3>2. late' \in BOOLEAN BY <2>7 DEF CheckTimeout
    <3>. QED BY <2>7, <3>1, <3>2 DEF CheckTimeout
  <2>8. CASE Finished BY <2>8 DEF Finished, vars
  <2>9. CASE UNCHANGED vars BY <2>9 DEF vars
  <2>. QED BY <2>1, <2>2, <2>3, <2>4, <2>5, <2>6, <2>7, <2>8, <2>9 DEF Next
<1>. QED BY <1>1, <1>2, PTL DEF Spec

----------------------------------------------------------------------------
\* The receiver array.

\* No step of the state machine makes the receiver array longer than MaxRcpt.
LEMMA StepFits ==
  ASSUME NEW r \in Client, NEW ev, NEW arg, NEW opened \in BOOLEAN, ArgOK(ev, arg),
         Len(r.to) <= MaxRcpt
  PROVE  Len(client_step(r, ev, arg, opened).to) <= MaxRcpt
<1>0. r.to \in Seq(Receiver) /\ Len(r.to) \in Nat BY LenProperties DEF Client
<1>1. ASSUME NEW a \in Address
      PROVE  Len(client_add_rcpt_to(r, a).to) <= MaxRcpt
  <2>1. a \in Receiver OBVIOUS
  <2>2. Len(Append(r.to, a)) = Len(r.to) + 1 BY <1>0, <2>1
  <2>. QED BY <1>0, <2>2, RcptAssumption DEF client_add_rcpt_to, Client
<1>. DEFINE result == client_step(r, ev, arg, opened)
<1>2. CASE ev = "RCPT" /\ HasRow(r.current_state, ev)
  <2>1. arg \in Address BY <1>2 DEF ArgOK
  <2>2. result = do_rcpt(r, arg) BY <1>2 DEF client_step, client_do, HasRow
  <2>3. client_add_rcpt_to(r, arg) \in Client BY <2>1, AddRcptType
  <2>4. do_rcpt(r, arg).to = client_add_rcpt_to(r, arg).to
    BY <2>3 DEF do_rcpt, client_set_response, Goto, Client
  <2>. QED BY <1>1, <2>1, <2>2, <2>4
<1>3. CASE ev = "END_DATA" /\ HasRow(r.current_state, ev)
  <2>1. result = do_end_data(r, arg, opened) BY <1>3 DEF client_step, client_do, HasRow
  <2>2. arg \in Seq(Lines) BY <1>3 DEF ArgOK
  <2>3. client_add_msg_txt(r, arg) \in Client /\ client_add_msg_txt(r, arg).to = r.to
    BY <2>2, AddTextType DEF client_add_msg_txt, Client
  <2>. DEFINE x == client_add_msg_txt(r, arg)
  <2>. HIDE DEF x
  <2>4. client_data_end_process(x, opened) \in Client
        /\ client_data_end_process(x, opened).to \in {x.to, Cleaned(x.to)}
    BY <2>3, DataEndType DEF client_data_end_process, Client, x
  <2>5. do_end_data(r, arg, opened).to = client_data_end_process(x, opened).to
    BY <2>4 DEF do_end_data, client_set_response, Goto, Client, x
  <2>6. Len(Cleaned(r.to)) = Len(r.to) BY <1>0, CleanedType
  <2>. QED BY <1>0, <2>1, <2>3, <2>4, <2>5, <2>6 DEF x
<1>4. CASE ~ (ev \in {"RCPT", "END_DATA"} /\ HasRow(r.current_state, ev))
  <2>1. result.to = r.to
    BY <1>4 DEF client_step, client_do, HasRow, do_ehlo, do_helo, do_mail, do_rset, do_vrfy,
                do_data, do_msg_text, do_quit, client_do_invalid, client_set_response, Goto,
                client_add_mail_from, client_add_msg_txt, Client
  <2>. QED BY <2>1
<1>. QED BY <1>2, <1>3, <1>4

\* The receiver array never outgrows SMTP_RCPT_MAX_SIZE, for any limit, any number of
\* mails in the session and any peer, although nothing ever empties it.
THEOREM ArrayBounded == Spec => []ReceiversFit
<1>1. Init => ReceiversFit
  BY RcptAssumption DEF Init, ReceiversFit, client_init
<1>2. TypeOK /\ ReceiversFit /\ [Next]_vars => ReceiversFit'
  <2>. SUFFICES ASSUME TypeOK, ReceiversFit, [Next]_vars PROVE ReceiversFit'
    OBVIOUS
  <2>0. c \in Client /\ inbox \in Seq(Lines) /\ Len(c.to) <= MaxRcpt
    BY DEF TypeOK, ReceiversFit
  <2>1. CASE Recv
    <3>. SUFFICES ASSUME NEW opened \in BOOLEAN, inbox # << >>,
                         c' = client_process_recv(c, inbox, opened)
                  PROVE  ReceiversFit'
      BY <2>1 DEF Recv
    <3>1. CASE InText(c)
      <4>1. BeforeEnd(inbox) \in Seq(Lines)
        BY <2>0, LenProperties, EmptySeq, SubSeqProperties DEF BeforeEnd
      <4>2. ArgOK("END_DATA", BeforeEnd(inbox)) /\ ArgOK("MSG_TEXT", inbox)
        BY <2>0, <4>1 DEF ArgOK
      <4>3. /\ Len(client_step(c, "END_DATA", BeforeEnd(inbox), opened).to) <= MaxRcpt
            /\ Len(client_step(c, "MSG_TEXT", inbox, opened).to) <= MaxRcpt
        BY <2>0, <4>2, StepFits
      <4>. QED BY <3>1, <4>3 DEF client_process_recv, ReceiversFit
    <3>2. CASE ~ InText(c)
      <4>. DEFINE k == Recognised(inbox)
      <4>1. CASE k \in {"VRFY", "NONE"}
        BY <2>0, <3>2, <4>1 DEF client_process_recv, client_set_response, ReceiversFit, Client
      <4>2. CASE k \notin {"VRFY", "NONE"}
        <5>1. ArgOK(k, ArgumentOf(inbox, k))
          BY <2>0, <4>2, RecognisedOccurs, ArgumentType DEF ArgOK
        <5>2. Len(client_step(c, k, ArgumentOf(inbox, k), opened).to) <= MaxRcpt
          BY <2>0, <5>1, StepFits
        <5>. QED BY <3>2, <4>2, <5>2 DEF client_process_recv, ReceiversFit
      <4>. QED BY <4>1, <4>2
    <3>. QED BY <3>1, <3>2
  <2>2. CASE Send
    <3>. DEFINE done == [c EXCEPT !.need_send = FALSE, !.msg_for_sending = "none", !.cut = FALSE]
                nxt  == client_step(done, "RESPONSE", NoArg, TRUE)
    <3>1. done \in Client /\ Len(done.to) <= MaxRcpt BY <2>0 DEF Client
    <3>2. nxt \in Client /\ Len(nxt.to) <= MaxRcpt BY <3>1, StepType, StepFits DEF ArgOK
    <3>3. c'.to = nxt.to
      <4>1. c' = [nxt EXCEPT !.closed = (nxt.current_state = "DONE") \/ c.closed]
        BY <2>2 DEF Send, client_process_send
      <4>. HIDE DEF nxt
      <4>. QED BY <3>2, <4>1 DEF Client
    <3>. QED BY <3>2, <3>3 DEF ReceiversFit
  <2>3. CASE SendPart BY <2>0, <2>3 DEF SendPart, ReceiversFit, Client
  <2>4. CASE CheckTimeout
    BY <2>0, <2>4, StepFits DEF CheckTimeout, client_process_check_timeout, ArgOK, ReceiversFit
  <2>5. CASE UNCHANGED c BY <2>5 DEF ReceiversFit
  <2>. QED BY <2>1, <2>2, <2>3, <2>4, <2>5
         DEF Next, PeerSend, PeerClose, RecvEof, Finished, vars
<1>. QED BY <1>1, <1>2, TypeCorrect, PTL DEF Spec

----------------------------------------------------------------------------
\* Replies.

\* While the connection is open the state machine is in a state it can leave:
\* client_step resets a session in DONE or INVALID to INIT.
Alive == conn = "open" => c.current_state \notin {"INVALID", "DONE"}

\* A step on a command or on text enters an awaiting state only with a reply set,
\* and keeps need_send and msg_for_sending together.
LEMMA StepPends ==
  ASSUME NEW r \in Client, NEW ev, NEW arg, NEW opened \in BOOLEAN, ArgOK(ev, arg),
         r.current_state \notin {"INVALID", "DONE"},
         ev \notin {"RESPONSE", "UNKNOWN"},
         r.current_state \in AwaitingSend => r.need_send,
         r.need_send <=> r.msg_for_sending # "none"
  PROVE  LET x == client_step(r, ev, arg, opened) IN
         /\ x.current_state \notin {"INVALID", "DONE"}
         /\ x.current_state \in AwaitingSend => x.need_send
         /\ x.need_send <=> x.msg_for_sending # "none"
<1>. DEFINE st == r.current_state
            x  == client_step(r, ev, arg, opened)
            Good(y) == /\ y.current_state \notin {"INVALID", "DONE"}
                       /\ y.current_state \in AwaitingSend => y.need_send
                       /\ y.need_send <=> y.msg_for_sending # "none"
<1>1. CASE HasRow(st, ev)
  <2>0. x = client_do(r, ev, arg, opened) BY <1>1 DEF client_step
  <2>1. \A y \in Client, s \in ClientStates \ {"INVALID", "DONE"}, code \in Replies :
          Good(client_set_response(Goto(y, s), code))
    BY DEF client_set_response, Goto, Client, Replies
  <2>. USE <2>0, <2>1 DEF ClientStates, Replies
  <2>2. CASE ev \in {"EHLO", "HELO", "VRFY", "DATA"}
    BY <2>2 DEF client_do, do_ehlo, do_helo, do_vrfy, do_data
  <2>3. CASE ev = "MAIL" BY <2>3, AddMailFromType DEF client_do, do_mail, ArgOK
  <2>4. CASE ev = "RCPT" BY <2>4, AddRcptType DEF client_do, do_rcpt, ArgOK
  <2>5. CASE ev = "END_DATA"
    BY <2>5, AddTextType, DataEndType DEF client_do, do_end_data, ArgOK
  <2>6. CASE ev = "RSET"
    BY <2>6 DEF client_do, do_rset, Goto, AwaitingSend, Client
  <2>7. CASE ev = "MSG_TEXT"
    BY <2>7 DEF client_do, do_msg_text, client_add_msg_txt, Client
  <2>. QED BY <1>1, <2>2, <2>3, <2>4, <2>5, <2>6, <2>7 DEF HasRow
<1>2. CASE ~ HasRow(st, ev)
  <2>0. x \in {do_quit(r), Goto(r, "TIMEOUT"), client_do_invalid(r, ev)}
    BY <1>2 DEF client_step
  <2>1. Good(do_quit(r))
    BY DEF do_quit, Goto, client_set_response, AwaitingSend, Client, Replies
  <2>2. Good(Goto(r, "TIMEOUT")) BY DEF Goto, AwaitingSend, Client
  <2>3. Good(client_do_invalid(r, ev))
    BY DEF client_do_invalid, client_set_response, Client, Replies
  <2>. QED BY <2>0, <2>1, <2>2, <2>3
<1>. QED BY <1>1, <1>2

\* What StepPends is about, for a record.
Pending(r) ==
  /\ r.current_state \notin {"INVALID", "DONE"}
  /\ r.current_state \in AwaitingSend => r.need_send
  /\ r.need_send <=> r.msg_for_sending # "none"

\* A chunk received keeps a pending session pending.
LEMMA RecvPends ==
  ASSUME NEW r \in Client, NEW chunk \in Seq(Lines), chunk # << >>,
         NEW opened \in BOOLEAN, Pending(r)
  PROVE  Pending(client_process_recv(r, chunk, opened))
<1>0. ASSUME NEW ev, ev \notin {"RESPONSE", "UNKNOWN"}, NEW arg, ArgOK(ev, arg)
      PROVE  Pending(client_step(r, ev, arg, opened))
  BY <1>0, StepPends DEF Pending
<1>1. CASE InText(r)
  <2>1. BeforeEnd(chunk) \in Seq(Lines)
    BY LenProperties, EmptySeq, SubSeqProperties DEF BeforeEnd
  <2>2. ArgOK("END_DATA", BeforeEnd(chunk)) /\ ArgOK("MSG_TEXT", chunk) BY <2>1 DEF ArgOK
  <2>. QED BY <1>0, <1>1, <2>2 DEF client_process_recv
<1>2. CASE ~ InText(r)
  <2>. DEFINE k == Recognised(chunk)
  <2>1. CASE k \in {"VRFY", "NONE"}
    BY <1>2, <2>1 DEF client_process_recv, client_set_response, Pending, Client
  <2>2. CASE k \notin {"VRFY", "NONE"}
    <3>1. ArgOK(k, ArgumentOf(chunk, k)) /\ k \notin {"RESPONSE", "UNKNOWN"}
      BY <2>2, RecognisedOccurs, ArgumentType DEF ArgOK
    <3>2. Pending(client_step(r, k, ArgumentOf(chunk, k), opened)) BY <1>0, <3>1
    <3>. QED BY <1>2, <2>2, <3>2 DEF client_process_recv
  <2>. QED BY <2>1, <2>2
<1>. QED BY <1>1, <1>2

\* No session is left waiting for ever for a reply of its own: in every state only
\* EV_RESPONSE leaves there is a reply to send.  The proof needs Alive: a session in
\* DONE that was stepped again would be back in INIT, with nothing to send.
THEOREM NoLostReply == Spec => []WaitingIsPending
<1>. DEFINE IInv == Alive /\ WaitingIsPending
<1>1. Init => IInv
  BY DEF Init, Alive, WaitingIsPending, client_init, AwaitingSend
<1>2. TypeOK /\ IInv /\ [Next]_vars => IInv'
  <2>. SUFFICES ASSUME TypeOK, Alive, WaitingIsPending, [Next]_vars PROVE IInv'
    OBVIOUS
  <2>0. c \in Client /\ inbox \in Seq(Lines) BY DEF TypeOK
  <2>1. conn = "open" => Pending(c) BY DEF Alive, WaitingIsPending, Pending
  <2>2. ASSUME Pending(c') PROVE IInv' BY <2>2 DEF Alive, WaitingIsPending, Pending
  <2>3. CASE Recv
    <3>. SUFFICES ASSUME NEW opened \in BOOLEAN, inbox # << >>, conn = "open",
                         c' = client_process_recv(c, inbox, opened)
                  PROVE  IInv'
      BY <2>3 DEF Recv
    <3>. QED BY <2>0, <2>1, <2>2, RecvPends
  <2>4. CASE Send
    <3>. DEFINE done == [c EXCEPT !.need_send = FALSE, !.msg_for_sending = "none", !.cut = FALSE]
                st   == c.current_state
    <3>1. Pending(c) BY <2>1, <2>4 DEF Send, CanSend
    <3>2. client_step(done, "RESPONSE", NoArg, TRUE) = Goto(done, AfterResponse(st))
      BY <2>0, <3>1 DEF client_step, HasRow, Pending, Client
    <3>3. c' = [ Goto(done, AfterResponse(st)) EXCEPT
                   !.closed = (Goto(done, AfterResponse(st)).current_state = "DONE") \/ c.closed ]
      BY <2>4, <3>2 DEF Send, client_process_send
    <3>4. /\ c'.need_send = FALSE /\ c'.msg_for_sending = "none"
          /\ c'.current_state = AfterResponse(st)
          /\ AfterResponse(st) = "DONE" => c'.closed
      BY <2>0, <3>3 DEF Goto, Client
    <3>5. AfterResponse(st) \notin AwaitingSend \union {"INVALID"}
      BY <3>1 DEF AfterResponse, AwaitingSend, Pending
    <3>6. c'.closed => conn' # "open" BY <2>4 DEF Send
    <3>. QED BY <3>4, <3>5, <3>6 DEF Alive, WaitingIsPending
  <2>5. CASE SendPart
    BY <2>0, <2>5 DEF SendPart, CanSend, Alive, WaitingIsPending, Client
  <2>6. CASE CheckTimeout
    <3>1. Pending(c) BY <2>1, <2>6 DEF CheckTimeout
    <3>2. Pending(client_step(c, "TIMEOUT", NoArg, TRUE))
      BY <2>0, <3>1, StepPends DEF Pending, ArgOK
    <3>3. Pending(c')
      BY <2>6, <3>1, <3>2 DEF CheckTimeout, client_process_check_timeout
    <3>. QED BY <2>2, <3>3
  <2>7. CASE c' = c /\ (conn' = conn \/ conn' = "closed")
    BY <2>7 DEF Alive, WaitingIsPending
  <2>. QED BY <2>3, <2>4, <2>5, <2>6, <2>7
         DEF Next, PeerSend, PeerClose, RecvEof, Finished, vars
<1>. QED BY <1>1, <1>2, TypeCorrect, PTL DEF Spec

\* However lines arrive, a reply that is still to be sent shields the session: until
\* it is sent no command takes effect, QUIT and the timeout excepted.
THEOREM Shielded == Spec => NothingRunsBehindAReply
<1>. DEFINE st == c.current_state
            Kept(y) == y.from = c.from /\ y.to = c.to /\ y.msg_text = c.msg_text
            Next3 == {st, "QUIT_RECEIVED", "TIMEOUT", AfterResponse(st)}
            Quiet(y) == Kept(y) /\ y.current_state \in Next3
<1>1. ASSUME TypeOK, [Next]_vars, st \in AwaitingSend
      PROVE  Quiet(c')
  <2>0. c \in Client /\ inbox \in Seq(Lines) BY <1>1 DEF TypeOK
  <2>1. ~ InText(c) /\ \A ev : ~ HasRow(st, ev) BY <1>1 DEF InText, HasRow, AwaitingSend
  <2>2. \A code : Quiet(client_set_response(c, code))
    BY <2>0 DEF client_set_response, Client
  <2>3. Quiet(do_quit(c)) BY <2>0 DEF do_quit, Goto, client_set_response, Client
  <2>4. \A ev : Quiet(client_do_invalid(c, ev)) BY <2>0, <2>2 DEF client_do_invalid
  <2>5. Quiet(Goto(c, "TIMEOUT")) BY <2>0 DEF Goto, Client
  <2>6. CASE Recv
    <3>. DEFINE k == Recognised(inbox)
    <3>1. k \notin {"NONE"} => k \notin {"RESPONSE", "TIMEOUT", "SHUTDOWN", "UNKNOWN"}
      BY RecognisedOccurs
    <3>2. \A arg, opened : k # "NONE" =>
            client_step(c, k, arg, opened) \in {do_quit(c), client_do_invalid(c, k)}
      BY <1>1, <2>1, <3>1 DEF client_step, AwaitingSend
    <3>3. \A opened : Quiet(client_process_recv(c, inbox, opened))
      BY <2>1, <2>2, <2>3, <2>4, <3>2 DEF client_process_recv
    <3>. QED BY <2>6, <3>3 DEF Recv
  <2>7. CASE Send
    <3>. DEFINE done == [c EXCEPT !.need_send = FALSE, !.msg_for_sending = "none", !.cut = FALSE]
    <3>1. client_step(done, "RESPONSE", NoArg, TRUE) = Goto(done, AfterResponse(st))
      BY <1>1, <2>0, <2>1 DEF client_step, AwaitingSend, Client
    <3>2. c' = [ Goto(done, AfterResponse(st)) EXCEPT
                   !.closed = (Goto(done, AfterResponse(st)).current_state = "DONE") \/ c.closed ]
      BY <2>7, <3>1 DEF Send, client_process_send
    <3>. QED BY <2>0, <3>2 DEF Goto, Client
  <2>8. CASE SendPart BY <2>0, <2>8 DEF SendPart, Client
  <2>9. CASE CheckTimeout
    <3>1. client_step(c, "TIMEOUT", NoArg, TRUE) = Goto(c, "TIMEOUT")
      BY <1>1, <2>1 DEF client_step, AwaitingSend
    <3>. QED BY <2>5, <2>9, <3>1 DEF CheckTimeout, client_process_check_timeout
  <2>10. CASE c' = c BY <2>10
  <2>. QED BY <1>1, <2>6, <2>7, <2>8, <2>9, <2>10
         DEF Next, PeerSend, PeerClose, RecvEof, Finished, vars
<1>2. TypeOK /\ [Next]_vars => [ c.current_state \in AwaitingSend =>
        /\ c'.from = c.from /\ c'.to = c.to /\ c'.msg_text = c.msg_text
        /\ c'.current_state \in {c.current_state, AfterResponse(c.current_state),
                                 "QUIT_RECEIVED", "TIMEOUT"} ]_vars
  BY <1>1
<1>. QED BY <1>2, TypeCorrect, PTL DEF Spec, NothingRunsBehindAReply

----------------------------------------------------------------------------
\* The session implements Connection.

\* Input never takes back a reply that is due.
LEMMA StepKeepsDue ==
  ASSUME NEW r \in Client, NEW ev, NEW arg, NEW opened \in BOOLEAN, ArgOK(ev, arg),
         r.need_send
  PROVE  client_step(r, ev, arg, opened).need_send
<1>. DEFINE st == r.current_state
<1>0. \A x \in Client, code \in Replies : client_set_response(x, code).need_send
  BY DEF client_set_response, Client
<1>1. CASE st \in {"INVALID", "DONE"} BY <1>1 DEF client_step, Goto, Client
<1>2. /\ do_rset(r).need_send = r.need_send
      /\ do_msg_text(r, arg).need_send = r.need_send
  BY DEF do_rset, Goto, do_msg_text, client_add_msg_txt, Client
<1>3. CASE st \notin {"INVALID", "DONE"} /\ HasRow(st, ev)
  <2>0. client_step(r, ev, arg, opened) = client_do(r, ev, arg, opened)
    BY <1>3 DEF client_step
  <2>. USE <1>0, <2>0, GotoType DEF ClientStates, Replies
  <2>1. CASE ev \in {"EHLO", "HELO", "VRFY", "DATA"}
    BY <2>1 DEF client_do, do_ehlo, do_helo, do_vrfy, do_data
  <2>2. CASE ev = "MAIL" BY <2>2, AddMailFromType DEF client_do, do_mail, ArgOK
  <2>3. CASE ev = "RCPT" BY <2>3, AddRcptType DEF client_do, do_rcpt, ArgOK
  <2>4. CASE ev = "END_DATA"
    BY <2>4, AddTextType, DataEndType DEF client_do, do_end_data, ArgOK
  <2>5. CASE ev \in {"RSET", "MSG_TEXT"} BY <1>2, <2>5 DEF client_do
  <2>. QED BY <1>3, <2>1, <2>2, <2>3, <2>4, <2>5 DEF HasRow
<1>4. CASE st \notin {"INVALID", "DONE"} /\ ~ HasRow(st, ev)
  BY <1>4 DEF client_step, do_quit, client_do_invalid, client_set_response, Goto, Client
<1>. QED BY <1>1, <1>3, <1>4

\* client_process_recv never takes back a reply that is due.
LEMMA RecvKeepsDue ==
  ASSUME NEW r \in Client, NEW chunk \in Seq(Lines), chunk # << >>,
         NEW opened \in BOOLEAN, r.need_send
  PROVE  client_process_recv(r, chunk, opened).need_send
<1>1. CASE InText(r)
  <2>1. BeforeEnd(chunk) \in Seq(Lines)
    BY LenProperties, EmptySeq, SubSeqProperties DEF BeforeEnd
  <2>2. ArgOK("END_DATA", BeforeEnd(chunk)) /\ ArgOK("MSG_TEXT", chunk) BY <2>1 DEF ArgOK
  <2>. QED BY <1>1, <2>2, StepKeepsDue DEF client_process_recv
<1>2. CASE ~ InText(r)
  <2>. DEFINE k == Recognised(chunk)
  <2>1. CASE k \in {"VRFY", "NONE"}
    BY <1>2, <2>1 DEF client_process_recv, client_set_response, Client
  <2>2. CASE k \notin {"VRFY", "NONE"}
    <3>1. ArgOK(k, ArgumentOf(chunk, k))
      BY <2>2, RecognisedOccurs, ArgumentType DEF ArgOK
    <3>2. client_step(r, k, ArgumentOf(chunk, k), opened).need_send BY <3>1, StepKeepsDue
    <3>. QED BY <1>2, <2>2, <3>2 DEF client_process_recv
  <2>. QED BY <2>1, <2>2
<1>. QED BY <1>1, <1>2

\* The session implements Connection, for every peer: a reply that is due is withdrawn
\* by no input, partial send or timeout, and the server closes only with a reply or after
\* the peer closed its end.
THEOREM Implements == Spec => KeepsPromise
<1>1. Init => Link!Init
  BY DEF Init, Link!Init, client_init
<1>2. TypeOK /\ TypeOK' /\ [Next]_vars => [Link!Next]_(Link!connVars)
  <2>. SUFFICES ASSUME TypeOK, TypeOK', [Next]_vars
                PROVE  [Link!Next]_(Link!connVars)
    OBVIOUS
  <2>0. /\ c \in Client /\ c' \in Client /\ inbox \in Seq(Lines)
        /\ sent \in BOOLEAN
        /\ c.need_send \in BOOLEAN /\ c'.need_send \in BOOLEAN
    BY DEF TypeOK, Client
  <2>. USE DEF Link!Next, Link!connVars
  <2>1. CASE Recv
    <3>1. conn = "open" /\ conn' \in {"open", "crashed"} /\ sent' = sent /\ fin' = fin
      BY <2>1 DEF Recv
    <3>2. c.need_send => c'.need_send
      <4>1. PICK opened \in BOOLEAN : c' = client_process_recv(c, inbox, opened)
        BY <2>1 DEF Recv
      <4>2. inbox # << >> BY <2>1 DEF Recv
      <4>. QED BY <2>0, <4>1, <4>2, RecvKeepsDue
    <3>. QED BY <2>0, <3>1, <3>2 DEF Link!Receive, Link!Down
  <2>2. CASE RecvEof BY <2>2 DEF RecvEof, Link!Hangup
  <2>3. CASE Send
    <3>1. /\ c.need_send /\ conn = "open" /\ conn' \in {"open", "closed"}
          /\ sent' = ~ sent /\ fin' = fin
      BY <2>3 DEF Send, CanSend
    <3>2. c'.need_send = FALSE
      <4>. DEFINE done == [c EXCEPT !.need_send = FALSE, !.msg_for_sending = "none", !.cut = FALSE]
                  nxt  == client_step(done, "RESPONSE", NoArg, TRUE)
      <4>1. nxt \in {Goto(done, "INIT"), Goto(done, AfterResponse(done.current_state))}
        BY DEF client_step, HasRow
      <4>2. nxt.need_send = FALSE BY <2>0, <4>1 DEF Goto, Client
      <4>3. done \in Client BY <2>0 DEF Client
      <4>4. nxt \in Client BY <4>3, StepType DEF ArgOK
      <4>5. c' = [nxt EXCEPT !.closed = (nxt.current_state = "DONE") \/ c.closed]
        BY <2>3 DEF Send, client_process_send
      <4>. HIDE DEF nxt
      <4>. QED BY <4>2, <4>4, <4>5 DEF Client
    <3>. QED BY <3>1, <3>2 DEF Link!Reply
  <2>4. CASE SendPart BY <2>0, <2>4 DEF SendPart, CanSend, Client
  <2>5. CASE CheckTimeout
    <3>1. c'.need_send = c.need_send
      BY <2>0, <2>5 DEF CheckTimeout, client_process_check_timeout, client_step, HasRow,
                        Goto, Client
    <3>. QED BY <2>5, <3>1 DEF CheckTimeout
  <2>6. CASE PeerClose BY <2>6 DEF PeerClose, Link!Leave
  <2>7. CASE c' = c /\ conn' = conn /\ sent' = sent /\ fin' = fin BY <2>7
  <2>. QED BY <2>1, <2>2, <2>3, <2>4, <2>5, <2>6, <2>7
         DEF Next, PeerSend, Finished, vars
<1>. QED BY <1>1, <1>2, TypeCorrect, PTL DEF Spec, KeepsPromise, Link!Spec

----------------------------------------------------------------------------
\* The dialogue with a peer that waits for replies.

Members(s) == {s[i] : i \in DOMAIN s}

\* The receivers are in the array, or it was full.
Entered(rcpts) == Len(c.to) = MaxRcpt \/ rcpts \subseteq Members(c.to)

\* The state the server is in when it has answered a peer that is at this point of the
\* dialogue and sends commands.
Waits(phase) == IF phase = "hello" THEN "WAIT_HELLO_OR_EHLO"
                ELSE IF phase = "idle" THEN "CLIENT_INITED" ELSE "EXPECTED_RCPT_OR_DATA"

Commanding == peer.phase \in {"hello", "idle", "mail"}

\* The greeting is due.
Greets ==
  /\ peer.phase = "greeting" /\ peer.awaits = NoLine /\ inbox = << >>
  /\ c.current_state = "INIT" /\ c.need_send /\ c.msg_for_sending = "220"

\* Nothing is under way, or a command that the server has not read.
Asks ==
  /\ Commanding /\ ~ c.need_send /\ c.current_state = Waits(peer.phase)
  /\ inbox = IF peer.awaits = NoLine THEN << >> ELSE << peer.awaits >>

\* The command has been read, and what has become of it.
Accepts(phases, cmds, states, code) ==
  /\ peer.phase \in phases /\ peer.awaits.cmd \in cmds /\ c.current_state \in states
  /\ c.need_send /\ c.msg_for_sending = code

Answers ==
  /\ Commanding /\ peer.awaits # NoLine /\ inbox = << >>
  /\ \/ /\ c.current_state = Waits(peer.phase) /\ c.need_send
        /\ c.msg_for_sending \in {"500", "502", "503"}
     \/ Accepts({"hello"}, {"EHLO", "HELO"}, {"EHLO_RECEIVED", "HELLO_RECEIVED"}, "250")
     \/ /\ Accepts({"idle"}, {"MAIL"}, {"MAIL_RECEIVED"}, "250")
        /\ c.from = peer.awaits.arg /\ c.msg_text = << >>
     \/ /\ Accepts({"mail"}, {"RCPT"}, {"RCPT_RECEIVED"}, "250")
        /\ Entered({peer.awaits.arg})
     \/ Accepts({"mail"}, {"DATA"}, {"DATA_RECEIVED"}, "354")
     \/ c.current_state = "RSET_RECEIVED" /\ peer.phase = "idle" /\ ~ c.need_send
     \/ c.current_state = "QUIT_RECEIVED" /\ (c.need_send => c.msg_for_sending = "221")

\* Text is sent, and has been read up to somewhere.
Texts ==
  /\ peer.phase = "data" /\ InText(c) /\ ~ c.need_send
  /\ IF peer.awaits = NoLine
       THEN /\ \A i \in DOMAIN inbox : inbox[i].cmd \notin {"DOT", "ONE"}
            /\ c.msg_text \o inbox = peer.lines
       ELSE /\ peer.awaits.cmd = "DOT"
            /\ inbox # << >> /\ EndsMessage(inbox) /\ c.msg_text \o BeforeEnd(inbox) = peer.lines

\* The end of the text has been read.
Ends ==
  /\ peer.phase = "data" /\ peer.awaits # NoLine /\ peer.awaits.cmd = "DOT" /\ inbox = << >>
  /\ c.current_state = "END_DATA_RECEIVED" /\ c.need_send /\ c.msg_for_sending = "250"

\* The transaction as the two sides see it.
Agree ==
  /\ calls = IF Ends THEN peer.accepted + 1 ELSE peer.accepted
  /\ peer.phase = "mail" => c.msg_text = << >>
  /\ peer.phase \in {"mail", "data"} /\ ~ Ends => c.from = peer.from /\ Entered(peer.rcpts)

Level == (Greets \/ Asks \/ Answers \/ Texts \/ Ends) /\ Agree

\* The two sides are level until the server times the peer out; then it only ends the
\* session.
Dialogue ==
  /\ conn = "open" /\ ~ late => Level
  /\ conn = "open" /\ late => c.current_state \in {"TIMEOUT", "QUIT_RECEIVED"}
  /\ conn = "crashed" => peer.rcpts = {}

----------------------------------------------------------------------------
\* A chunk of one line is the command of that line.
Checked == {"EHLO", "HELO", "MAIL", "RCPT", "QUIT", "RSET", "VRFY", "DATA"}

LEMMA OneLine ==
  ASSUME NEW l \in Lines
  PROVE  /\ l.cmd \in Checked => Recognised(<< l >>) = l.cmd /\ ArgumentOf(<< l >>, l.cmd) = l.arg
         /\ l.cmd \notin Checked => Recognised(<< l >>) = "NONE"
<1>. DEFINE s == << l >>
            found == { n \in DOMAIN CheckOrder : Occurs(s, CheckOrder[n]) }
<1>1. DOMAIN s = {1} /\ s[1] = l OBVIOUS
<1>2. \A k : Occurs(s, k) <=> l.cmd = k BY <1>1 DEF Occurs
<1>3. Recognised(s) # "NONE" => Recognised(s) = l.cmd /\ l.cmd \in Checked
  BY <1>2, RecognisedOccurs DEF Checked
<1>4. l.cmd \in Checked => Recognised(s) # "NONE"
  <2>1. DOMAIN CheckOrder = 1 .. 8 BY DEF CheckOrder
  <2>2. l.cmd \in Checked => \E n \in 1 .. 8 : CheckOrder[n] = l.cmd
    BY DEF CheckOrder, Checked
  <2>3. l.cmd \in Checked => found # {} BY <1>2, <2>1, <2>2
  <2>4. \A n \in 1 .. 8 : CheckOrder[n] # "NONE" BY DEF CheckOrder
  <2>5. found # {} => Recognised(s) = CheckOrder[CHOOSE n \in found : \A m \in found : n <= m]
    BY DEF Recognised
  <2>6. found # {} => (CHOOSE n \in found : \A m \in found : n <= m) \in 1 .. 8
    <3>1. found \in SUBSET Nat BY <2>1
    <3>2. found # {} => \E n \in found : \A m \in found : n <= m BY <3>1, LeastNat
    <3>3. found # {} => (CHOOSE n \in found : \A m \in found : n <= m) \in found
      BY <3>2, Zenon
    <3>. QED BY <2>1, <3>3
  <2>. QED BY <2>3, <2>4, <2>5, <2>6
<1>5. \A k : l.cmd = k => ArgumentOf(s, k) = l.arg
  <2>. SUFFICES ASSUME NEW k, l.cmd = k PROVE ArgumentOf(s, k) = l.arg OBVIOUS
  <2>. DEFINE First(i) == s[i].cmd = k /\ \A j \in 1 .. (i - 1) : s[j].cmd # k
              f == CHOOSE i \in DOMAIN s : First(i)
  <2>1. 1 \in DOMAIN s /\ First(1) BY <1>1
  <2>2. f \in DOMAIN s BY <2>1, Zenon
  <2>3. ArgumentOf(s, k) = s[f].arg BY DEF ArgumentOf
  <2>. QED BY <1>1, <2>2, <2>3
<1>. QED BY <1>3, <1>4, <1>5

\* What a mail is made of.
Same(r, x) == x.from = r.from /\ x.to = r.to /\ x.msg_text = r.msg_text

\* What becomes of a command, of any kind, in a session that has nothing to send.
LEMMA CommandRead ==
  ASSUME NEW r \in Client, NEW l \in Lines, NEW opened \in BOOLEAN, ~ r.need_send,
         r.current_state \in {"WAIT_HELLO_OR_EHLO", "CLIENT_INITED", "EXPECTED_RCPT_OR_DATA"},
         NEW x, x = client_process_recv(r, << l >>, opened)
  PROVE  \/ /\ Same(r, x) /\ x.current_state = r.current_state
            /\ x.need_send /\ x.msg_for_sending \in {"500", "502", "503"}
         \/ /\ Same(r, x) /\ r.current_state = "WAIT_HELLO_OR_EHLO" /\ l.cmd \in {"EHLO", "HELO"}
            /\ x.current_state \in {"EHLO_RECEIVED", "HELLO_RECEIVED"}
            /\ x.need_send /\ x.msg_for_sending = "250"
         \/ /\ r.current_state = "CLIENT_INITED" /\ l.cmd = "MAIL"
            /\ x.current_state = "MAIL_RECEIVED" /\ x.need_send /\ x.msg_for_sending = "250"
            /\ x.from = l.arg /\ x.msg_text = << >>
         \/ /\ r.current_state = "EXPECTED_RCPT_OR_DATA" /\ l.cmd = "RCPT" /\ l.arg \in Address
            /\ x.current_state = "RCPT_RECEIVED" /\ x.need_send /\ x.msg_for_sending = "250"
            /\ x.from = r.from /\ x.msg_text = r.msg_text
            /\ x.to = client_add_rcpt_to(r, l.arg).to
         \/ /\ Same(r, x) /\ r.current_state = "EXPECTED_RCPT_OR_DATA" /\ l.cmd = "DATA"
            /\ x.current_state = "DATA_RECEIVED" /\ x.need_send /\ x.msg_for_sending = "354"
         \/ /\ Same(r, x) /\ r.current_state = "CLIENT_INITED"
            /\ x.current_state = "RSET_RECEIVED" /\ ~ x.need_send
         \/ /\ Same(r, x) /\ x.current_state = "QUIT_RECEIVED"
            /\ x.need_send => x.msg_for_sending = "221"
<1>. DEFINE st == r.current_state
            Refused == /\ Same(r, x) /\ x.current_state = r.current_state
                       /\ x.need_send /\ x.msg_for_sending \in {"500", "502", "503"}
<1>0. ~ InText(r) /\ st \notin {"INVALID", "DONE"} BY DEF InText
<1>1. \A code : LET y == client_set_response(r, code) IN
        /\ Same(r, y) /\ y.current_state = st /\ y.need_send /\ y.msg_for_sending = code
  BY DEF client_set_response, Same, Client
<1>2. CASE l.cmd \notin Checked
  <2>1. x = client_set_response(r, "500") BY <1>0, <1>2, OneLine DEF client_process_recv
  <2>. QED BY <1>1, <2>1
<1>3. CASE l.cmd = "VRFY"
  <2>1. x = client_set_response(r, "502")
    BY <1>0, <1>3, OneLine DEF client_process_recv, Checked
  <2>. QED BY <1>1, <2>1
<1>4. ASSUME l.cmd \in Checked \ {"VRFY"}
      PROVE  /\ x = client_step(r, l.cmd, l.arg, opened)
             /\ HasRow(st, l.cmd) => x = client_do(r, l.cmd, l.arg, opened)
             /\ ~ HasRow(st, l.cmd) /\ l.cmd = "QUIT" => x = do_quit(r)
             /\ ~ HasRow(st, l.cmd) /\ l.cmd # "QUIT" => x = client_set_response(r, "503")
  <2>1. x = client_step(r, l.cmd, l.arg, opened)
    BY <1>0, <1>4, OneLine DEF client_process_recv, Checked
  <2>2. l.cmd \notin {"RESPONSE", "TIMEOUT", "SHUTDOWN", "UNKNOWN"} BY <1>4 DEF Checked
  <2>. QED BY <1>0, <2>1, <2>2 DEF client_step, client_do_invalid
<1>5. CASE l.cmd = "QUIT"
  <2>1. x = do_quit(r) BY <1>4, <1>5 DEF Checked, HasRow
  <2>. QED BY <2>1, ZenonT(40) DEF do_quit, Goto, client_set_response, Same, Client
<1>6. CASE l.cmd \in Checked \ {"VRFY", "QUIT"} /\ ~ HasRow(st, l.cmd)
  BY <1>1, <1>4, <1>6
<1>7. CASE l.cmd \in {"EHLO", "HELO"} /\ HasRow(st, l.cmd)
  <2>1. x \in {do_ehlo(r), do_helo(r)} /\ st = "WAIT_HELLO_OR_EHLO"
    BY <1>4, <1>7 DEF Checked, HasRow, client_do
  <2>. QED BY <1>7, <2>1 DEF do_ehlo, do_helo, Goto, client_set_response, Same, Client
<1>8. CASE l.cmd = "MAIL" /\ HasRow(st, l.cmd)
  <2>1. x = do_mail(r, l.arg) /\ st = "CLIENT_INITED"
    BY <1>4, <1>8 DEF Checked, HasRow, client_do
  <2>. QED BY <1>8, <2>1 DEF do_mail, client_add_mail_from, Goto, client_set_response, Client
<1>9. CASE l.cmd = "RSET" /\ HasRow(st, l.cmd)
  <2>1. x = do_rset(r) /\ st = "CLIENT_INITED"
    BY <1>4, <1>9 DEF Checked, HasRow, client_do
  <2>. QED BY <2>1 DEF do_rset, Goto, Same, Client
<1>10. CASE l.cmd = "RCPT" /\ HasRow(st, l.cmd)
  <2>1. x = do_rcpt(r, l.arg) /\ st = "EXPECTED_RCPT_OR_DATA" /\ l.arg \in Address
    BY <1>4, <1>10 DEF Checked, HasRow, client_do, Lines
  <2>2. client_add_rcpt_to(r, l.arg) \in Client BY <2>1, AddRcptType
  <2>3. /\ client_add_rcpt_to(r, l.arg).from = r.from
        /\ client_add_rcpt_to(r, l.arg).msg_text = r.msg_text
    BY DEF client_add_rcpt_to, Client
  <2>. DEFINE y == client_add_rcpt_to(r, l.arg)
  <2>4. x = client_set_response(Goto(y, "RCPT_RECEIVED"), "250") BY <2>1 DEF do_rcpt
  <2>. HIDE DEF y
  <2>5. /\ x.current_state = "RCPT_RECEIVED" /\ x.need_send /\ x.msg_for_sending = "250"
        /\ x.from = y.from /\ x.msg_text = y.msg_text /\ x.to = y.to
    BY <2>2, <2>4 DEF Goto, client_set_response, Client, y
  <2>. QED BY <1>10, <2>1, <2>3, <2>5 DEF y
<1>11. CASE l.cmd = "DATA" /\ HasRow(st, l.cmd)
  <2>1. x = do_data(r) /\ st = "EXPECTED_RCPT_OR_DATA"
    BY <1>4, <1>11 DEF Checked, HasRow, client_do
  <2>. QED BY <1>11, <2>1 DEF do_data, Goto, client_set_response, Same, Client
<1>. QED BY <1>2, <1>3, <1>5, <1>6, <1>7, <1>8, <1>9, <1>10, <1>11 DEF Checked

----------------------------------------------------------------------------
\* Steps of a peer that waits for replies, and of the server with it.

LEMMA SendLevel ==
  ASSUME TypeOK, ~ Pipelining, "ONE" \notin TextKinds, Level, NEW l \in Lines, PeerSend(l)
  PROVE  Level'
<1>0. /\ c' = c /\ calls' = calls /\ inbox' = Append(inbox, l)
      /\ InDialogue /\ peer \in Peer /\ inbox \in Seq(Lines) /\ c.msg_text \in Seq(Lines)
      /\ peer.lines \in Seq(Lines) /\ l # NoLine
  BY SessionAssumption DEF PeerSend, TypeOK, Client, Peer
<1>1. peer.awaits = NoLine /\ peer.phase \notin {"greeting", "over"} /\ ~ Ends
  BY <1>0 DEF InDialogue, Ends
<1>2. Asks \/ Texts BY <1>1 DEF Level, Greets, Answers, Ends
<1>3. CASE Asks
  <2>1. peer' = [peer EXCEPT !.awaits = l] BY <1>3 DEF PeerSend, Noted, Asks, Commanding
  <2>2. /\ peer'.phase = peer.phase /\ peer'.awaits = l /\ peer'.accepted = peer.accepted
        /\ peer'.from = peer.from /\ peer'.rcpts = peer.rcpts
    BY <1>0, <2>1 DEF Peer
  <2>3. inbox' = << l >> BY <1>0, <1>1, <1>3 DEF Asks
  <2>4. Asks' BY <1>0, <1>3, <2>2, <2>3 DEF Asks, Commanding, Waits
  <2>5. ~ Ends' BY <1>0, <1>3, <2>2 DEF Ends, Asks, Commanding
  <2>6. Agree' BY <1>0, <1>1, <2>2, <2>5 DEF Level, Agree, Entered
  <2>. QED BY <2>4, <2>6 DEF Level
<1>4. CASE Texts
  <2>0. /\ peer.phase = "data" /\ InText(c) /\ ~ c.need_send /\ c.msg_text \o inbox = peer.lines
        /\ \A i \in DOMAIN inbox : inbox[i].cmd \notin {"DOT", "ONE"}
    BY <1>1, <1>4 DEF Texts
  <2>1. \A s, t \in Seq(Lines) : \A x \in Lines : s \o Append(t, x) = Append(s \o t, x)
    OBVIOUS
  <2>2. /\ Append(inbox, l) # << >> /\ Append(inbox, l)[Len(Append(inbox, l))] = l
        /\ BeforeEnd(Append(inbox, l)) = inbox
        /\ \A i \in DOMAIN Append(inbox, l) : i \in DOMAIN inbox \/ Append(inbox, l)[i] = l
        /\ \A i \in DOMAIN inbox : Append(inbox, l)[i] = inbox[i]
    <3>1. \A t \in Seq(Lines) : \A x \in Lines :
            /\ Append(t, x) # << >> /\ Append(t, x)[Len(Append(t, x))] = x
            /\ \A i \in DOMAIN Append(t, x) : i \in DOMAIN t \/ Append(t, x)[i] = x
            /\ \A i \in DOMAIN t : Append(t, x)[i] = t[i]
      <4>1. TAKE t \in Seq(Lines)
      <4>2. TAKE x \in Lines
      <4>. DEFINE u == Append(t, x)
      <4>3. /\ Len(t) \in Nat /\ DOMAIN t = 1 .. Len(t) /\ u \in Seq(Lines)
            /\ Len(u) = Len(t) + 1 /\ DOMAIN u = 1 .. (Len(t) + 1) /\ u[Len(t) + 1] = x
            /\ \A i \in 1 .. Len(t) : u[i] = t[i]
        BY LenProperties
      <4>. HIDE DEF u
      <4>4. u # << >> BY <4>3
      <4>5. \A i \in 1 .. (Len(t) + 1) : i \in 1 .. Len(t) \/ i = Len(t) + 1 BY <4>3
      <4>. QED BY <4>3, <4>4, <4>5 DEF u
    <3>2. \A t \in Seq(Lines) : \A x \in Lines :
            SubSeq(Append(t, x), 1, Len(Append(t, x)) - 1) = t
      <4>. SUFFICES ASSUME NEW t \in Seq(Lines), NEW x \in Lines
                    PROVE  SubSeq(Append(t, x), 1, Len(Append(t, x)) - 1) = t
        OBVIOUS
      <4>. DEFINE u == SubSeq(Append(t, x), 1, Len(t))
      <4>1. Len(t) \in Nat /\ Len(Append(t, x)) - 1 = Len(t) BY LenProperties
      <4>2. u \in Seq(Lines) /\ Len(u) = Len(t) /\ \A i \in 1 .. Len(t) : u[i] = t[i] BY <4>1
      <4>. HIDE DEF u
      <4>3. u = t BY <4>2, SeqEqual
      <4>. QED BY <4>1, <4>3 DEF u
    <3>. QED BY <1>0, <3>1, <3>2, Zenon DEF BeforeEnd
  <2>3. CASE l.cmd = "DOT"
    <3>1. peer' = [peer EXCEPT !.awaits = l] BY <2>3 DEF PeerSend, Noted
    <3>2. /\ peer'.phase = "data" /\ peer'.awaits = l /\ peer'.accepted = peer.accepted
          /\ peer'.from = peer.from /\ peer'.rcpts = peer.rcpts /\ peer'.lines = peer.lines
      BY <1>0, <2>0, <3>1 DEF Peer
    <3>3. Texts' BY <1>0, <2>0, <2>2, <2>3, <3>2 DEF Texts, EndsMessage
    <3>4. ~ Ends' BY <1>0, <2>2 DEF Ends
    <3>5. Agree' BY <1>0, <1>1, <2>0, <3>2, <3>4 DEF Level, Agree, Entered
    <3>. QED BY <3>3, <3>5 DEF Level
  <2>4. CASE l.cmd # "DOT"
    <3>1. peer' = [peer EXCEPT !.lines = Append(@, l)] /\ l.cmd # "ONE"
      BY <2>0, <2>4 DEF PeerSend, Noted
    <3>2. /\ peer'.phase = "data" /\ peer'.awaits = NoLine /\ peer'.accepted = peer.accepted
          /\ peer'.from = peer.from /\ peer'.rcpts = peer.rcpts
          /\ peer'.lines = Append(peer.lines, l)
      BY <1>0, <1>1, <2>0, <3>1 DEF Peer
    <3>3. c.msg_text \o Append(inbox, l) = Append(peer.lines, l)
      <4>1. c.msg_text \o Append(inbox, l) = Append(c.msg_text \o inbox, l)
        BY <1>0, <2>1, Zenon
      <4>. QED BY <2>0, <4>1
    <3>4. \A i \in DOMAIN inbox' : inbox'[i].cmd \notin {"DOT", "ONE"}
      BY <1>0, <2>0, <2>2, <2>4, <3>1
    <3>5. Texts' BY <1>0, <2>0, <3>2, <3>3, <3>4 DEF Texts
    <3>6. ~ Ends' BY <3>2 DEF Ends
    <3>7. Agree' BY <1>0, <1>1, <2>0, <3>2, <3>6 DEF Level, Agree, Entered
    <3>. QED BY <3>5, <3>7 DEF Level
  <2>. QED BY <2>3, <2>4
<1>. QED BY <1>2, <1>3, <1>4

\* A receiver accepted is in the array, if it was not full.
LEMMA AddedIsEntered ==
  ASSUME NEW r \in Client, NEW a \in Address, NEW to, to = client_add_rcpt_to(r, a).to
  PROVE  /\ Len(to) = MaxRcpt \/ a \in Members(to)
         /\ Len(r.to) = MaxRcpt => Len(to) = MaxRcpt
         /\ Members(r.to) \subseteq Members(to)
<1>1. r.to \in Seq(Receiver) /\ a \in Receiver BY DEF Client
<1>2. CASE Len(r.to) = MaxRcpt
  <2>1. to = r.to BY <1>2 DEF client_add_rcpt_to
  <2>. QED BY <1>2, <2>1
<1>3. CASE Len(r.to) # MaxRcpt
  <2>1. to = Append(r.to, a) BY <1>3 DEF client_add_rcpt_to, Client
  <2>. DEFINE q == r.to
  <2>2. /\ Len(q) \in Nat /\ DOMAIN q = 1 .. Len(q) /\ DOMAIN to = 1 .. (Len(q) + 1)
        /\ to[Len(q) + 1] = a /\ \A i \in 1 .. Len(q) : to[i] = q[i]
    BY <1>1, <2>1, LenProperties
  <2>. HIDE DEF q
  <2>3. Len(q) + 1 \in 1 .. (Len(q) + 1) /\ 1 .. Len(q) \subseteq 1 .. (Len(q) + 1) BY <2>2
  <2>4. a \in Members(to) BY <2>2, <2>3 DEF Members
  <2>5. Members(q) \subseteq Members(to) BY <2>2, <2>3 DEF Members
  <2>. QED BY <1>3, <2>4, <2>5 DEF q
<1>. QED BY <1>2, <1>3

\* A command is read.
LEMMA CommandLevel ==
  ASSUME TypeOK, Level, Asks, Recv
  PROVE  Level' /\ conn' = conn /\ calls' = calls /\ stored' = stored
<1>0. /\ c \in Client /\ peer \in Peer /\ inbox # << >> /\ inbox' = << >> /\ peer' = peer
      /\ c.current_state \in {"WAIT_HELLO_OR_EHLO", "CLIENT_INITED", "EXPECTED_RCPT_OR_DATA"}
      /\ ~ c.need_send
  BY DEF TypeOK, Recv, Asks, Waits
<1>. DEFINE l == peer.awaits
<1>1. l # NoLine /\ inbox = << l >> /\ l \in Lines BY <1>0 DEF Asks, Peer
<1>2. ~ InText(c) /\ ~ Completes BY <1>0 DEF InText, Completes
<1>3. PICK opened \in BOOLEAN : c' = client_process_recv(c, << l >>, opened)
  BY <1>1 DEF Recv
<1>4. conn' = conn /\ calls' = calls /\ stored' = stored BY <1>2 DEF Recv
<1>5. Commanding /\ c.current_state = Waits(peer.phase) BY DEF Asks
<1>6. /\ ~ Ends /\ ~ Ends' /\ calls = peer.accepted
      /\ peer.phase = "mail" => c.msg_text = << >> /\ c.from = peer.from /\ Entered(peer.rcpts)
  BY <1>0, <1>5 DEF Ends, Level, Agree, Commanding
<1>7. /\ c.current_state = "WAIT_HELLO_OR_EHLO" <=> peer.phase = "hello"
      /\ c.current_state = "CLIENT_INITED" <=> peer.phase = "idle"
      /\ c.current_state = "EXPECTED_RCPT_OR_DATA" <=> peer.phase = "mail"
  BY <1>5 DEF Commanding, Waits
<1>8. ASSUME Same(c, c') PROVE Agree'
  BY <1>0, <1>4, <1>6, <1>8, <1>5 DEF Agree, Entered, Same, Commanding
<1>. DEFINE Case(n) ==
       \/ n = 1 /\ /\ Same(c, c') /\ c'.current_state = c.current_state
                   /\ c'.need_send /\ c'.msg_for_sending \in {"500", "502", "503"}
       \/ n = 2 /\ /\ Same(c, c') /\ c.current_state = "WAIT_HELLO_OR_EHLO"
                   /\ l.cmd \in {"EHLO", "HELO"}
                   /\ c'.current_state \in {"EHLO_RECEIVED", "HELLO_RECEIVED"}
                   /\ c'.need_send /\ c'.msg_for_sending = "250"
       \/ n = 3 /\ /\ c.current_state = "CLIENT_INITED" /\ l.cmd = "MAIL"
                   /\ c'.current_state = "MAIL_RECEIVED" /\ c'.need_send
                   /\ c'.msg_for_sending = "250" /\ c'.from = l.arg /\ c'.msg_text = << >>
       \/ n = 4 /\ /\ c.current_state = "EXPECTED_RCPT_OR_DATA" /\ l.cmd = "RCPT"
                   /\ l.arg \in Address /\ c'.current_state = "RCPT_RECEIVED" /\ c'.need_send
                   /\ c'.msg_for_sending = "250" /\ c'.from = c.from
                   /\ c'.msg_text = c.msg_text /\ c'.to = client_add_rcpt_to(c, l.arg).to
       \/ n = 5 /\ /\ Same(c, c') /\ c.current_state = "EXPECTED_RCPT_OR_DATA" /\ l.cmd = "DATA"
                   /\ c'.current_state = "DATA_RECEIVED" /\ c'.need_send
                   /\ c'.msg_for_sending = "354"
       \/ n = 6 /\ /\ Same(c, c') /\ c.current_state = "CLIENT_INITED"
                   /\ c'.current_state = "RSET_RECEIVED" /\ ~ c'.need_send
       \/ n = 7 /\ /\ Same(c, c') /\ c'.current_state = "QUIT_RECEIVED"
                   /\ c'.need_send => c'.msg_for_sending = "221"
<1>9. \E n \in 1 .. 7 : Case(n)
  <2>1. Case(1) \/ Case(2) \/ Case(3) \/ Case(4) \/ Case(5) \/ Case(6) \/ Case(7)
    BY <1>0, <1>1, <1>3, CommandRead
  <2>. QED BY <2>1
<1>10. PICK n \in 1 .. 7 : Case(n) BY <1>9
<1>. USE <1>0, <1>1, <1>5, <1>7
<1>11. CASE n = 1
  <2>1. Answers' BY <1>10, <1>11 DEF Answers, Commanding
  <2>2. Agree' BY <1>8, <1>10, <1>11
  <2>. QED BY <1>4, <2>1, <2>2 DEF Level
<1>12. CASE n \in {2, 5}
  <2>1. Answers' BY <1>10, <1>12 DEF Answers, Accepts, Commanding
  <2>2. Agree' BY <1>8, <1>10, <1>12
  <2>. QED BY <1>4, <2>1, <2>2 DEF Level
<1>13. CASE n = 3
  <2>1. Answers' BY <1>10, <1>13 DEF Answers, Accepts, Commanding
  <2>2. Agree' BY <1>4, <1>6, <1>10, <1>13 DEF Agree
  <2>. QED BY <1>4, <2>1, <2>2 DEF Level
<1>14. CASE n = 4
  <2>1. /\ Len(c'.to) = MaxRcpt \/ l.arg \in Members(c'.to)
        /\ Len(c.to) = MaxRcpt => Len(c'.to) = MaxRcpt
        /\ Members(c.to) \subseteq Members(c'.to)
    <3>1. c \in Client /\ l.arg \in Address /\ c'.to = client_add_rcpt_to(c, l.arg).to
      BY <1>10, <1>14
    <3>. QED BY <3>1, AddedIsEntered
  <2>2. Entered({l.arg})' BY <2>1 DEF Entered
  <2>3. Answers' BY <1>10, <1>14, <2>2 DEF Answers, Accepts, Commanding
  <2>4. Entered(peer.rcpts)' BY <1>6, <1>10, <1>14, <2>1 DEF Entered
  <2>5. Agree' BY <1>4, <1>6, <1>10, <1>14, <2>4 DEF Agree
  <2>. QED BY <1>4, <2>3, <2>5 DEF Level
<1>15. CASE n = 6
  <2>1. Answers' BY <1>10, <1>15 DEF Answers, Commanding
  <2>2. Agree' BY <1>8, <1>10, <1>15
  <2>. QED BY <1>4, <2>1, <2>2 DEF Level
<1>16. CASE n = 7
  <2>1. Answers' BY <1>10, <1>16 DEF Answers, Commanding
  <2>2. Agree' BY <1>8, <1>10, <1>16
  <2>. QED BY <1>4, <2>1, <2>2 DEF Level
<1>. QED BY <1>11, <1>12, <1>13, <1>14, <1>15, <1>16

\* Text is read; the line that ends it hands the mail to write_mail.
LEMMA TextLevel ==
  ASSUME TypeOK, Level, Texts, Recv
  PROVE  /\ conn' = "open" => Level'
         /\ conn' = "crashed" => peer'.rcpts = {}
         /\ Completes => c.from = peer.from /\ Entered(peer.rcpts)
                         /\ c.msg_text \o BeforeEnd(inbox) = peer.lines
<1>0. /\ c \in Client /\ peer \in Peer /\ inbox # << >> /\ inbox' = << >> /\ peer' = peer
      /\ inbox \in Seq(Lines) /\ peer.phase = "data" /\ InText(c) /\ ~ c.need_send
      /\ conn = "open" /\ c.msg_text \in Seq(Lines) /\ c.to \in Seq(Receiver)
  BY DEF TypeOK, Recv, Texts, Client
<1>1. PICK opened \in BOOLEAN :
        /\ opened \/ Completes
        /\ c' = client_process_recv(c, inbox, opened)
        /\ calls' = IF Completes THEN calls + 1 ELSE calls
        /\ conn' = IF Completes /\ opened /\ c.to = << >> THEN "crashed" ELSE conn
  BY DEF Recv
<1>2. ~ Ends /\ calls = peer.accepted /\ c.from = peer.from /\ Entered(peer.rcpts)
  BY <1>0 DEF Ends, Level, Agree
<1>3. Completes <=> peer.awaits # NoLine
  <2>1. CASE peer.awaits = NoLine
    <3>1. \A i \in DOMAIN inbox : inbox[i].cmd \notin {"DOT", "ONE"} BY <2>1 DEF Texts
    <3>2. Len(inbox) \in DOMAIN inbox BY <1>0, LenProperties, EmptySeq
    <3>. QED BY <2>1, <3>1, <3>2 DEF Completes, EndsMessage
  <2>2. CASE peer.awaits # NoLine BY <1>0, <2>2 DEF Completes, Texts
  <2>. QED BY <2>1, <2>2
<1>4. CASE peer.awaits = NoLine
  <2>1. ~ Completes /\ ~ EndsMessage(inbox) BY <1>0, <1>3, <1>4 DEF Completes
  <2>2. c' = client_add_msg_txt(c, inbox)
    BY <1>0, <1>1, <2>1 DEF client_process_recv, client_step, client_do, do_msg_text, HasRow, InText
  <2>3. /\ c'.msg_text = c.msg_text \o inbox /\ c'.from = c.from /\ c'.to = c.to
        /\ c'.current_state = c.current_state /\ c'.need_send = c.need_send
    BY <1>0, <2>2 DEF client_add_msg_txt, Client
  <2>4. c.msg_text \o inbox = peer.lines /\ peer.lines \in Seq(Lines)
    BY <1>0, <1>4 DEF Texts, Peer
  <2>5. c'.msg_text \o << >> = peer.lines
    <3>1. \A s \in Seq(Lines) : s \o << >> = s OBVIOUS
    <3>. QED BY <2>3, <2>4, <3>1
  <2>6. Texts' BY <1>0, <1>4, <2>3, <2>5 DEF Texts, InText
  <2>7. ~ Ends' BY <1>0, <1>4 DEF Ends
  <2>8. Agree' BY <1>0, <1>1, <1>2, <2>1, <2>3, <2>7 DEF Agree, Entered
  <2>. QED BY <1>0, <1>1, <2>1, <2>6, <2>8 DEF Level
<1>5. CASE peer.awaits # NoLine
  <2>1. Completes /\ EndsMessage(inbox) BY <1>3, <1>5 DEF Completes
  <2>2. peer.awaits.cmd = "DOT" /\ c.msg_text \o BeforeEnd(inbox) = peer.lines
    BY <1>5 DEF Texts
  <2>3. c' = do_end_data(c, BeforeEnd(inbox), opened)
    BY <1>0, <1>1, <2>1 DEF client_process_recv, client_step, client_do, HasRow, InText
  <2>. DEFINE y == client_data_end_process(client_add_msg_txt(c, BeforeEnd(inbox)), opened)
  <2>4. y \in Client
    <3>1. BeforeEnd(inbox) \in Seq(Lines)
      BY <1>0, LenProperties, EmptySeq, SubSeqProperties DEF BeforeEnd
    <3>. QED BY <1>0, <3>1, AddTextType, DataEndType
  <2>5. c' = client_set_response(Goto(y, "END_DATA_RECEIVED"), "250") BY <2>3 DEF do_end_data
  <2>. HIDE DEF y
  <2>6. c'.current_state = "END_DATA_RECEIVED" /\ c'.need_send /\ c'.msg_for_sending = "250"
    BY <2>4, <2>5 DEF client_set_response, Goto, Client
  <2>7. Ends' BY <1>0, <1>5, <2>2, <2>6 DEF Ends
  <2>8. calls' = peer'.accepted + 1 BY <1>0, <1>1, <1>2, <2>1
  <2>9. Agree' BY <1>0, <2>7, <2>8 DEF Agree
  <2>10. ASSUME conn' = "crashed" PROVE peer'.rcpts = {}
    <3>1. c.to = << >> BY <1>0, <1>1, <2>10
    <3>2. Members(<< >>) = {} /\ Len(<< >>) = 0 BY DEF Members
    <3>. QED BY <1>0, <1>2, <3>1, <3>2, RcptAssumption DEF Entered
  <2>. QED BY <1>2, <2>2, <2>7, <2>9, <2>10 DEF Level
<1>. QED BY <1>4, <1>5

\* A reply has been sent: the record, and what the peer makes of it.
LEMMA Replied ==
  ASSUME TypeOK, Send, c.current_state \notin {"INVALID", "DONE"}
  PROVE  /\ c'.current_state = AfterResponse(c.current_state) /\ Same(c, c')
         /\ ~ c'.need_send
         /\ AfterResponse(c.current_state) = "DONE" => conn' = "closed"
<1>. DEFINE done == [c EXCEPT !.need_send = FALSE, !.msg_for_sending = "none", !.cut = FALSE]
            st   == c.current_state
<1>0. c \in Client BY DEF TypeOK
<1>1. client_step(done, "RESPONSE", NoArg, TRUE) = Goto(done, AfterResponse(st))
  BY <1>0 DEF client_step, HasRow, Client
<1>2. c' = [ Goto(done, AfterResponse(st)) EXCEPT
               !.closed = (Goto(done, AfterResponse(st)).current_state = "DONE") \/ c.closed ]
  BY <1>1 DEF Send, client_process_send
<1>3. /\ c'.need_send = FALSE /\ c'.current_state = AfterResponse(st) /\ Same(c, c')
      /\ AfterResponse(st) = "DONE" => c'.closed
  BY <1>0, <1>2 DEF Goto, Client, Same
<1>. QED BY <1>3 DEF Send

LEMMA ReplyLevel ==
  ASSUME TypeOK, ~ Pipelining, Level, Send
  PROVE  conn' = "open" => Level'
<1>. SUFFICES ASSUME conn' = "open" PROVE Level' OBVIOUS
<1>. DEFINE code == c.msg_for_sending
            l == peer.awaits
            q == [peer EXCEPT !.awaits = NoLine]
<1>0. /\ c \in Client /\ peer \in Peer /\ c.need_send /\ inbox = << >> /\ inbox' = << >>
      /\ calls' = calls /\ peer' = PeerReads(peer, code)
      /\ peer.rcpts \in SUBSET Address /\ peer.accepted \in Nat
  BY DEF TypeOK, Send, CanSend, Noted, Peer
<1>1. /\ q.phase = peer.phase /\ q.awaits = NoLine /\ q.from = peer.from /\ q.rcpts = peer.rcpts
      /\ q.lines = peer.lines /\ q.accepted = peer.accepted /\ q \in Peer
  BY <1>0 DEF Peer
<1>2. ~ Asks /\ ~ Texts BY <1>0 DEF Asks, Texts
<1>3. c.current_state \notin {"INVALID", "DONE"}
  BY <1>2 DEF Level, Greets, Answers, Ends, Accepts, Waits
<1>4. /\ c'.current_state = AfterResponse(c.current_state) /\ Same(c, c') /\ ~ c'.need_send
      /\ AfterResponse(c.current_state) # "DONE"
  BY <1>3, Replied
<1>5. c'.from = c.from /\ c'.to = c.to /\ c'.msg_text = c.msg_text BY <1>4 DEF Same
<1>6. \A R : Entered(R)' <=> Entered(R) BY <1>5 DEF Entered
<1>7. ~ Ends' BY <1>4 DEF Ends
\* The peer has concluded q, and the session has gone back to what it was.
<1>8. ASSUME peer' = q, Commanding, calls = peer.accepted, ~ Ends,
             AfterResponse(c.current_state) = Waits(peer.phase)
      PROVE  Level'
  <2>1. Asks' BY <1>0, <1>1, <1>4, <1>8 DEF Asks, Commanding, Waits
  <2>2. Agree'
    BY <1>0, <1>1, <1>5, <1>6, <1>7, <1>8 DEF Level, Agree
  <2>. QED BY <2>1, <2>2 DEF Level
<1>9. CASE Greets
  <2>0. peer.phase = "greeting" /\ c.current_state = "INIT" /\ code = "220" /\ ~ Ends
    BY <1>9 DEF Greets, Ends
  <2>1. peer' = [q EXCEPT !.phase = "hello"] BY <1>0, <2>0 DEF PeerReads
  <2>2. peer'.phase = "hello" /\ peer'.awaits = NoLine /\ peer'.accepted = peer.accepted
    BY <1>1, <2>1 DEF Peer
  <2>3. c'.current_state = "WAIT_HELLO_OR_EHLO" BY <1>4, <2>0 DEF AfterResponse
  <2>4. Asks' BY <1>0, <1>4, <2>2, <2>3 DEF Asks, Commanding, Waits
  <2>5. Agree' BY <1>0, <1>7, <2>0, <2>2 DEF Level, Agree
  <2>. QED BY <2>4, <2>5 DEF Level
<1>10. CASE Ends
  <2>0. /\ peer.phase = "data" /\ l # NoLine /\ l.cmd = "DOT" /\ code = "250"
        /\ c.current_state = "END_DATA_RECEIVED" /\ calls = peer.accepted + 1
    BY <1>10 DEF Ends, Level, Agree
  <2>1. peer' = [q EXCEPT !.phase = "idle", !.from = NoSender, !.rcpts = {},
                          !.lines = << >>, !.accepted = @ + 1]
    BY <1>0, <2>0 DEF PeerReads
  <2>2. peer'.phase = "idle" /\ peer'.awaits = NoLine /\ peer'.accepted = peer.accepted + 1
    BY <1>1, <2>1 DEF Peer
  <2>3. c'.current_state = "CLIENT_INITED" BY <1>4, <2>0 DEF AfterResponse
  <2>4. Asks' BY <1>0, <1>4, <2>2, <2>3 DEF Asks, Commanding, Waits
  <2>5. Agree' BY <1>0, <1>7, <2>0, <2>2 DEF Agree
  <2>. QED BY <2>4, <2>5 DEF Level
<1>11. CASE Answers
  <2>0. /\ Commanding /\ l # NoLine /\ ~ Ends /\ calls = peer.accepted
        /\ peer.phase = "mail" => c.msg_text = << >> /\ c.from = peer.from /\ Entered(peer.rcpts)
    BY <1>11 DEF Answers, Commanding, Ends, Level, Agree
  <2>1. CASE c.current_state = Waits(peer.phase) /\ code \in {"500", "502", "503"}
    <3>1. peer' = q BY <1>0, <2>1 DEF PeerReads
    <3>2. AfterResponse(c.current_state) = Waits(peer.phase) BY <2>1 DEF AfterResponse, Waits
    <3>. QED BY <1>8, <2>0, <3>1, <3>2
  <2>2. CASE Accepts({"hello"}, {"EHLO", "HELO"}, {"EHLO_RECEIVED", "HELLO_RECEIVED"}, "250")
    <3>0. /\ peer.phase = "hello" /\ l.cmd \in {"EHLO", "HELO"} /\ code = "250"
          /\ c.current_state \in {"EHLO_RECEIVED", "HELLO_RECEIVED"}
      BY <2>2 DEF Accepts
    <3>1. peer' = [q EXCEPT !.phase = "idle"] BY <1>0, <2>0, <3>0 DEF PeerReads
    <3>2. peer'.phase = "idle" /\ peer'.awaits = NoLine /\ peer'.accepted = peer.accepted
      BY <1>1, <3>1 DEF Peer
    <3>3. c'.current_state = "CLIENT_INITED" BY <1>4, <3>0 DEF AfterResponse
    <3>4. Asks' BY <1>0, <1>4, <3>2, <3>3 DEF Asks, Commanding, Waits
    <3>5. Agree' BY <1>0, <1>7, <2>0, <3>2 DEF Agree
    <3>. QED BY <3>4, <3>5 DEF Level
  <2>3. CASE /\ Accepts({"idle"}, {"MAIL"}, {"MAIL_RECEIVED"}, "250")
             /\ c.from = peer.awaits.arg /\ c.msg_text = << >>
    <3>0. /\ peer.phase = "idle" /\ l.cmd = "MAIL" /\ code = "250"
          /\ c.current_state = "MAIL_RECEIVED" /\ c.from = l.arg /\ c.msg_text = << >>
      BY <2>3 DEF Accepts
    <3>1. peer' = [q EXCEPT !.phase = "mail", !.from = l.arg, !.rcpts = {}]
      BY <1>0, <2>0, <3>0 DEF PeerReads
    <3>2. /\ peer'.phase = "mail" /\ peer'.awaits = NoLine /\ peer'.accepted = peer.accepted
          /\ peer'.from = l.arg /\ peer'.rcpts = {}
      BY <1>1, <3>1 DEF Peer
    <3>3. c'.current_state = "EXPECTED_RCPT_OR_DATA" BY <1>4, <3>0 DEF AfterResponse
    <3>4. Asks' BY <1>0, <1>4, <3>2, <3>3 DEF Asks, Commanding, Waits
    <3>5. Agree' BY <1>0, <1>5, <1>7, <2>0, <3>0, <3>2 DEF Agree, Entered
    <3>. QED BY <3>4, <3>5 DEF Level
  <2>4. CASE /\ Accepts({"mail"}, {"RCPT"}, {"RCPT_RECEIVED"}, "250")
             /\ Entered({peer.awaits.arg})
    <3>0. /\ peer.phase = "mail" /\ l.cmd = "RCPT" /\ code = "250"
          /\ c.current_state = "RCPT_RECEIVED"
      BY <2>4 DEF Accepts
    <3>1. peer' = [q EXCEPT !.rcpts = @ \union {l.arg}] BY <1>0, <2>0, <3>0 DEF PeerReads
    <3>2. /\ peer'.phase = "mail" /\ peer'.awaits = NoLine /\ peer'.accepted = peer.accepted
          /\ peer'.from = peer.from /\ peer'.rcpts = peer.rcpts \union {l.arg}
      BY <1>1, <3>0, <3>1 DEF Peer
    <3>3. c'.current_state = "EXPECTED_RCPT_OR_DATA" BY <1>4, <3>0 DEF AfterResponse
    <3>4. Asks' BY <1>0, <1>4, <3>2, <3>3 DEF Asks, Commanding, Waits
    <3>5. Entered(peer.rcpts)' BY <1>5, <2>0, <2>4, <3>0, <3>2 DEF Entered
    <3>6. Agree' BY <1>0, <1>5, <1>7, <2>0, <3>0, <3>2, <3>5 DEF Agree
    <3>. QED BY <3>4, <3>6 DEF Level
  <2>5. CASE Accepts({"mail"}, {"DATA"}, {"DATA_RECEIVED"}, "354")
    <3>0. peer.phase = "mail" /\ code = "354" /\ c.current_state = "DATA_RECEIVED"
      BY <2>5 DEF Accepts
    <3>1. peer' = [q EXCEPT !.phase = "data", !.lines = << >>] BY <1>0, <3>0 DEF PeerReads
    <3>2. /\ peer'.phase = "data" /\ peer'.awaits = NoLine /\ peer'.accepted = peer.accepted
          /\ peer'.from = peer.from /\ peer'.rcpts = peer.rcpts /\ peer'.lines = << >>
      BY <1>1, <3>1 DEF Peer
    <3>3. c'.current_state = "EXPECTED_MSG_TEXT_OR_END_MSG" BY <1>4, <3>0 DEF AfterResponse
    <3>4. Texts'
      <4>1. c'.msg_text \o inbox' = << >> /\ DOMAIN inbox' = {} BY <1>0, <1>5, <2>0, <3>0
      <4>. QED BY <1>4, <3>2, <3>3, <4>1 DEF Texts, InText
    <3>5. Agree' BY <1>0, <1>5, <1>6, <1>7, <2>0, <3>0, <3>2 DEF Agree
    <3>. QED BY <3>4, <3>5 DEF Level
  <2>6. CASE c.current_state = "QUIT_RECEIVED" BY <1>4, <2>6 DEF AfterResponse
  <2>. QED BY <1>0, <1>11, <2>1, <2>2, <2>3, <2>4, <2>5, <2>6 DEF Answers
<1>. QED BY <1>2, <1>9, <1>10, <1>11 DEF Level

LEMMA QuietLevel ==
  ASSUME Level, UNCHANGED << inbox, calls, peer >>, Same(c, c'),
         c'.current_state = c.current_state, c'.need_send = c.need_send,
         c'.msg_for_sending = c.msg_for_sending
  PROVE  Level'
<1>0. c'.from = c.from /\ c'.to = c.to /\ c'.msg_text = c.msg_text BY DEF Same
<1>1. Ends' <=> Ends BY DEF Ends
<1>2. \A R : Entered(R)' <=> Entered(R) BY <1>0 DEF Entered
<1>3. Agree' BY <1>0, <1>1, <1>2 DEF Level, Agree
<1>4. Greets' <=> Greets BY DEF Greets
<1>5. Asks' <=> Asks BY DEF Asks, Commanding
<1>6. Texts' <=> Texts BY <1>0 DEF Texts, InText
<1>7. Answers => Answers' BY <1>0, <1>2 DEF Answers, Accepts, Commanding
<1>. QED BY <1>1, <1>3, <1>4, <1>5, <1>6, <1>7 DEF Level

\* Input changes nothing about a session that has been ended.
LEMMA LateRecv ==
  ASSUME TypeOK, Recv, c.current_state \in {"TIMEOUT", "QUIT_RECEIVED"}
  PROVE  /\ c'.current_state \in {"TIMEOUT", "QUIT_RECEIVED"}
         /\ conn' = conn /\ stored' = stored
<1>0. c \in Client /\ ~ InText(c) /\ ~ Completes /\ \A ev : ~ HasRow(c.current_state, ev)
  BY DEF TypeOK, InText, Completes, HasRow
<1>. DEFINE k == Recognised(inbox)
            Over(y) == y.current_state \in {"TIMEOUT", "QUIT_RECEIVED"}
<1>1. PICK opened \in BOOLEAN : c' = client_process_recv(c, inbox, opened) BY DEF Recv
<1>2. \A code : Over(client_set_response(c, code)) BY <1>0 DEF client_set_response, Client
<1>3. Over(do_quit(c)) BY <1>0 DEF do_quit, Goto, client_set_response, QuitAnswered, Client
<1>4. \A ev : Over(client_do_invalid(c, ev)) BY <1>2 DEF client_do_invalid
<1>5. k # "NONE" => k \notin {"RESPONSE", "TIMEOUT", "SHUTDOWN", "UNKNOWN"} BY RecognisedOccurs
<1>6. \A arg : k # "NONE" =>
        client_step(c, k, arg, opened) \in {do_quit(c), client_do_invalid(c, k)}
  BY <1>0, <1>5 DEF client_step
<1>7. Over(c') BY <1>0, <1>1, <1>2, <1>3, <1>4, <1>6 DEF client_process_recv
<1>. QED BY <1>0, <1>7 DEF Recv

LEMMA NextDialogue ==
  ASSUME TypeOK, ~ Pipelining, "ONE" \notin TextKinds, Dialogue, [Next]_vars
  PROVE  Dialogue'
<1>0. c \in Client BY DEF TypeOK
<1>. USE DEF Dialogue
<1>1. ASSUME NEW l \in Lines, PeerSend(l) PROVE Dialogue'
  <2>1. conn = "open" /\ UNCHANGED << c, conn, late >> BY <1>1 DEF PeerSend
  <2>2. ASSUME ~ late PROVE Level' BY <1>1, <2>1, <2>2, SendLevel
  <2>. QED BY <2>1, <2>2
<1>2. CASE Recv
  <2>0. conn = "open" /\ late' = late /\ inbox # << >> BY <1>2 DEF Recv
  <2>1. CASE late BY <1>2, <2>0, <2>1, LateRecv
  <2>2. CASE ~ late
    <3>1. Level BY <2>0, <2>2
    <3>2. Asks \/ Texts BY <2>0, <3>1 DEF Level, Greets, Answers, Ends
    <3>3. CASE Asks BY <1>2, <2>0, <2>2, <3>1, <3>3, CommandLevel
    <3>4. CASE Texts BY <1>2, <2>0, <2>2, <3>1, <3>4, TextLevel
    <3>. QED BY <3>2, <3>3, <3>4
  <2>. QED BY <2>1, <2>2
<1>3. CASE Send
  <2>0. conn = "open" /\ late' = late /\ conn' \in {"open", "closed"} BY <1>3 DEF Send, CanSend
  <2>1. CASE late
    <3>1. c.current_state \in {"TIMEOUT", "QUIT_RECEIVED"} BY <2>0, <2>1
    <3>2. AfterResponse(c.current_state) = "DONE" BY <3>1 DEF AfterResponse
    <3>3. conn' = "closed" BY <1>3, <3>1, <3>2, Replied
    <3>. QED BY <3>3
  <2>2. CASE ~ late BY <1>3, <2>0, <2>2, ReplyLevel
  <2>. QED BY <2>1, <2>2
<1>4. CASE SendPart
  <2>1. /\ UNCHANGED << inbox, calls, peer, conn, late >> /\ conn = "open"
        /\ c' = [c EXCEPT !.cut = TRUE]
    BY <1>4 DEF SendPart, CanSend
  <2>2. /\ Same(c, c') /\ c'.current_state = c.current_state /\ c'.need_send = c.need_send
        /\ c'.msg_for_sending = c.msg_for_sending
    BY <1>0, <2>1 DEF Same, Client
  <2>3. Level => Level' BY <2>1, <2>2, QuietLevel
  <2>. QED BY <2>1, <2>2, <2>3
<1>5. CASE CheckTimeout
  <2>1. PICK expired \in BOOLEAN :
          c' = client_process_check_timeout(c, expired) /\ late' = (late \/ expired)
    BY <1>5 DEF CheckTimeout
  <2>2. conn = "open" /\ UNCHANGED << inbox, calls, peer, conn >> BY <1>5 DEF CheckTimeout
  <2>3. CASE expired
    <3>1. c.current_state \notin {"INVALID", "DONE"}
      BY <2>2 DEF Level, Greets, Asks, Answers, Texts, Ends, Accepts, Waits, InText
    <3>2. c' = Goto(c, "TIMEOUT")
      BY <2>1, <2>3, <3>1 DEF client_process_check_timeout, client_step, HasRow
    <3>3. c'.current_state = "TIMEOUT" BY <1>0, <3>2 DEF Goto, Client
    <3>. QED BY <2>1, <2>2, <2>3, <3>3
  <2>4. CASE ~ expired
    <3>1. c' = c /\ late' = late BY <2>1, <2>4 DEF client_process_check_timeout, TypeOK
    <3>2. Level => Level' BY <2>2, <3>1, QuietLevel DEF Same
    <3>. QED BY <2>2, <3>1, <3>2
  <2>. QED BY <2>3, <2>4
<1>6. CASE RecvEof BY <1>6 DEF RecvEof
<1>7. CASE PeerClose \/ Finished \/ UNCHANGED vars
  <2>1. UNCHANGED << c, inbox, calls, peer, conn, late >>
    BY <1>7 DEF PeerClose, Finished, vars
  <2>2. Level => Level' BY <2>1, QuietLevel DEF Same
  <2>. QED BY <2>1, <2>2
<1>. QED BY <1>1, <1>2, <1>3, <1>4, <1>5, <1>6, <1>7 DEF Next

----------------------------------------------------------------------------
\* What follows.

LEMMA InitDialogue == Init => Dialogue
<1>. SUFFICES ASSUME Init PROVE Dialogue OBVIOUS
<1>1. Greets BY DEF Init, Greets, client_init
<1>2. Agree BY <1>1 DEF Init, Agree, Greets, Ends
<1>. QED BY <1>1, <1>2 DEF Init, Dialogue, Level

\* The two sides of the dialogue agree on where they are, unless the text has a line of
\* one character: EndsMessage takes it for the end of the message, since the dot of
\* RE_END_DATA is not escaped.
LEMMA DialogueKept ==
  ASSUME "ONE" \notin TextKinds
  PROVE  Spec => [](~ Pipelining => Dialogue)
<1>1. Init => (~ Pipelining => Dialogue) BY InitDialogue
<1>2. TypeOK /\ (~ Pipelining => Dialogue) /\ [Next]_vars => (~ Pipelining => Dialogue')
  BY NextDialogue
<1>3. Spec => []TypeOK BY TypeCorrect
<1>4. Spec => [](~ Pipelining => Dialogue)
  <2>1. TypeOK /\ (~ Pipelining => Dialogue) /\ [Next]_vars => (~ Pipelining => Dialogue)'
    BY <1>2
  <2>. QED BY <1>1, <2>1, <1>3, PTL DEF Spec
<1>. QED BY <1>4

\* A peer that waits for replies and one session never disagree on where they are and on
\* how many mails were handed to write_mail, and the server dies of write_mail only
\* for a message no receiver was accepted for: any number of mails, receivers and lines,
\* with any cuts and timeouts.
THEOREM StaysInSync ==
  ASSUME "ONE" \notin TextKinds
  PROVE  Spec => []InSync
<1>1. ASSUME ~ Pipelining => Dialogue PROVE InSync
  <2>. SUFFICES ASSUME ~ Pipelining PROVE
         /\ conn = "open" /\ peer.awaits = NoLine /\ ~ late
              => /\ peer.phase # "over"
                 /\ c.current_state = ExpectedState[peer.phase]
                 /\ c.need_send <=> peer.phase = "greeting"
                 /\ calls = peer.accepted
         /\ conn = "crashed" => peer.rcpts = {}
    BY DEF InSync
  <2>1. Dialogue BY <1>1
  <2>2. ASSUME conn = "open", peer.awaits = NoLine, ~ late
        PROVE  /\ peer.phase # "over"
               /\ c.current_state = ExpectedState[peer.phase]
               /\ c.need_send <=> peer.phase = "greeting"
               /\ calls = peer.accepted
    <3>1. Level BY <2>1, <2>2 DEF Dialogue
    <3>2. ~ Answers /\ ~ Ends /\ calls = peer.accepted
      BY <2>2, <3>1 DEF Answers, Ends, Level, Agree
    <3>3. CASE Greets BY <3>2, <3>3 DEF Greets, ExpectedState
    <3>4. CASE Asks BY <3>2, <3>4 DEF Asks, Commanding, Waits, ExpectedState
    <3>5. CASE Texts BY <3>2, <3>5 DEF Texts, InText, ExpectedState
    <3>. QED BY <3>1, <3>2, <3>3, <3>4, <3>5 DEF Level
  <2>. QED BY <2>1, <2>2 DEF Dialogue
<1>2. (~ Pipelining => Dialogue) => InSync BY <1>1
<1>. QED BY <1>2, DialogueKept, PTL

\* Every receiver in the array that has a domain is reached.
LEMMA MembersReached ==
  ASSUME NEW to \in Seq(Receiver), NEW a \in Members(to), a.dom # Blank
  PROVE  a \in Reached(to, Links(to))
<1>0. Len(to) \in Nat /\ DOMAIN to = 1 .. Len(to) BY LenProperties
<1>1. PICK i \in DOMAIN to : a = to[i] BY DEF Members
<1>. DEFINE link(j) == IF is_to_local(to[j].dom)
                         THEN [kind |-> "local",  name |-> to[j].box]
                         ELSE [kind |-> "remote", name |-> to[j].dom]
<1>2. \A j \in Linked(to) : link(j) \in Links(to) BY DEF Links
<1>3. a \in {to[j] : j \in DOMAIN to} BY <1>1
<1>4. CASE is_to_local(a.dom)
  <2>1. i \in Linked(to) BY <1>1, <1>4 DEF Linked, Served
  <2>2. [kind |-> "local", name |-> a.box] \in Links(to) BY <1>1, <1>2, <1>4, <2>1
  <2>. QED BY <1>3, <1>4, <2>2 DEF Reached
<1>5. CASE ~ is_to_local(a.dom)
  <2>. DEFINE Hits == {j \in DOMAIN to : to[j].dom = a.dom}
  <2>1. Hits \in SUBSET Nat /\ Hits # {} BY <1>0, <1>1
  <2>2. PICK j \in Hits : \A m \in Hits : j <= m BY <2>1, LeastNat
  <2>3. j \in DOMAIN to /\ to[j].dom = a.dom /\ j \in Nat BY <1>0, <2>2
  <2>4. ~ Served(to, j)
    <3>1. ASSUME NEW m \in 1 .. (j - 1), to[m].dom = to[j].dom PROVE FALSE
      <4>1. m \in DOMAIN to /\ ~ (j <= m) BY <1>0, <2>3, <3>1
      <4>2. m \in Hits BY <2>3, <3>1, <4>1
      <4>. QED BY <2>2, <4>1, <4>2
    <3>. QED BY <3>1 DEF Served
  <2>5. j \in Linked(to) BY <2>3, <2>4 DEF Linked
  <2>6. [kind |-> "remote", name |-> a.dom] \in Links(to) BY <1>2, <1>5, <2>3, <2>5
  <2>. QED BY <1>3, <1>5, <2>6 DEF Reached
<1>. QED BY <1>4, <1>5

\* What MailMatchesDialogue says of a step.
Matches ==
  ~ Pipelining /\ stored' # stored =>
    /\ WrittenMail.from = peer.from
    /\ WrittenMail.text = peer.lines
    /\ \/ peer.rcpts \subseteq Reached(WrittenMail.to, WrittenMail.links)
       \/ Len(WrittenMail.to) = MaxRcpt

\* A mail is written from the sender, with the text and to all the receivers the replies
\* have confirmed, for any number of mails in one session, although the receivers
\* of the mails before stay in the array and lose their domains.
THEOREM MailsMatch ==
  ASSUME "ONE" \notin TextKinds
  PROVE  Spec => MailMatchesDialogue
<1>1. ASSUME TypeOK, ~ Pipelining => Dialogue, [Next]_vars PROVE Matches
  <2>. SUFFICES ASSUME ~ Pipelining, stored' # stored
                PROVE  /\ WrittenMail.from = peer.from
                       /\ WrittenMail.text = peer.lines
                       /\ \/ peer.rcpts \subseteq Reached(WrittenMail.to, WrittenMail.links)
                          \/ Len(WrittenMail.to) = MaxRcpt
    BY DEF Matches
  <2>1. Recv
    BY <1>1 DEF Next, PeerSend, PeerClose, RecvEof, Send, SendPart, CheckTimeout, Finished, vars
  <2>2. Completes /\ conn = "open" BY <2>1 DEF Recv
  <2>3. InText(c) BY <2>2 DEF Completes
  <2>4. ~ late BY <1>1, <2>2, <2>3 DEF Dialogue, InText
  <2>5. Level BY <1>1, <2>2, <2>4 DEF Dialogue
  <2>6. Texts BY <2>3, <2>5 DEF Level, Greets, Asks, Answers, Ends, Accepts, Waits, InText
  <2>7. c.from = peer.from /\ Entered(peer.rcpts) /\ c.msg_text \o BeforeEnd(inbox) = peer.lines
    BY <1>1, <2>1, <2>2, <2>5, <2>6, TextLevel
  <2>8. /\ WrittenMail.from = c.from /\ WrittenMail.to = c.to
        /\ WrittenMail.text = c.msg_text \o BeforeEnd(inbox) /\ WrittenMail.links = Links(c.to)
    BY DEF WrittenMail
  <2>9. peer.rcpts \subseteq Members(c.to) => peer.rcpts \subseteq Reached(c.to, Links(c.to))
    <3>1. c.to \in Seq(Receiver) /\ peer.rcpts \in SUBSET Address BY <1>1 DEF TypeOK, Client, Peer
    <3>2. ASSUME NEW a \in peer.rcpts, a \in Members(c.to) PROVE a \in Reached(c.to, Links(c.to))
      <4>1. a.dom # Blank BY <3>1, DomainAssumption
      <4>. QED BY <3>1, <3>2, <4>1, MembersReached
    <3>. QED BY <3>2
  <2>. QED BY <2>7, <2>8, <2>9 DEF Entered
<1>2. TypeOK /\ (~ Pipelining => Dialogue) /\ [Next]_vars => [Matches]_vars BY <1>1
<1>3. Spec => [][Matches]_vars BY <1>2, TypeCorrect, DialogueKept, PTL DEF Spec
<1>. QED BY <1>3 DEF MailMatchesDialogue, Matches

----------------------------------------------------------------------------
\* Replies are not torn.

\* No event makes a reply half sent.
LEMMA StepCut ==
  ASSUME NEW r \in Client, NEW ev, NEW arg, NEW opened \in BOOLEAN, ArgOK(ev, arg), ~ r.cut
  PROVE  ~ client_step(r, ev, arg, opened).cut
<1>. DEFINE st == r.current_state
<1>0. \A x \in Client, code \in Replies : ~ client_set_response(x, code).cut
  BY DEF client_set_response, Client
<1>1. CASE st \in {"INVALID", "DONE"} BY <1>1 DEF client_step, Goto, Client
<1>2. ~ do_rset(r).cut /\ ~ do_msg_text(r, arg).cut
  BY DEF do_rset, Goto, do_msg_text, client_add_msg_txt, Client
<1>3. CASE st \notin {"INVALID", "DONE"} /\ HasRow(st, ev)
  <2>0. client_step(r, ev, arg, opened) = client_do(r, ev, arg, opened)
    BY <1>3 DEF client_step
  <2>. USE <1>0, <2>0, GotoType DEF ClientStates, Replies
  <2>1. CASE ev \in {"EHLO", "HELO", "VRFY", "DATA"}
    BY <2>1 DEF client_do, do_ehlo, do_helo, do_vrfy, do_data
  <2>2. CASE ev = "MAIL" BY <2>2, AddMailFromType DEF client_do, do_mail, ArgOK
  <2>3. CASE ev = "RCPT" BY <2>3, AddRcptType DEF client_do, do_rcpt, ArgOK
  <2>4. CASE ev = "END_DATA"
    BY <2>4, AddTextType, DataEndType DEF client_do, do_end_data, ArgOK
  <2>5. CASE ev \in {"RSET", "MSG_TEXT"} BY <1>2, <2>5 DEF client_do
  <2>. QED BY <1>3, <2>1, <2>2, <2>3, <2>4, <2>5 DEF HasRow
<1>4. CASE st \notin {"INVALID", "DONE"} /\ ~ HasRow(st, ev)
  BY <1>4 DEF client_step, do_quit, client_do_invalid, client_set_response, Goto, Client
<1>. QED BY <1>1, <1>3, <1>4

LEMMA RecvCut ==
  ASSUME NEW r \in Client, NEW chunk \in Seq(Lines), chunk # << >>,
         NEW opened \in BOOLEAN, ~ r.cut
  PROVE  ~ client_process_recv(r, chunk, opened).cut
<1>1. CASE InText(r)
  <2>1. BeforeEnd(chunk) \in Seq(Lines)
    BY LenProperties, EmptySeq, SubSeqProperties DEF BeforeEnd
  <2>2. ArgOK("END_DATA", BeforeEnd(chunk)) /\ ArgOK("MSG_TEXT", chunk) BY <2>1 DEF ArgOK
  <2>. QED BY <1>1, <2>2, StepCut DEF client_process_recv
<1>2. CASE ~ InText(r)
  <2>. DEFINE k == Recognised(chunk)
  <2>1. CASE k \in {"VRFY", "NONE"}
    BY <1>2, <2>1 DEF client_process_recv, client_set_response, Client
  <2>2. CASE k \notin {"VRFY", "NONE"}
    <3>1. ArgOK(k, ArgumentOf(chunk, k))
      BY <2>2, RecognisedOccurs, ArgumentType DEF ArgOK
    <3>2. ~ client_step(r, k, ArgumentOf(chunk, k), opened).cut BY <3>1, StepCut
    <3>. QED BY <1>2, <2>2, <3>2 DEF client_process_recv
  <2>. QED BY <2>1, <2>2
<1>. QED BY <1>1, <1>2

\* A reply that is half sent is still due.
CutIsDue == c.cut => c.need_send

LEMMA NextCut ==
  ASSUME TypeOK, CutIsDue, [Next]_vars
  PROVE  CutIsDue'
<1>0. c \in Client /\ inbox \in Seq(Lines) BY DEF TypeOK
<1>1. CASE Recv
  <2>1. PICK opened \in BOOLEAN : c' = client_process_recv(c, inbox, opened) BY <1>1 DEF Recv
  <2>2. inbox # << >> BY <1>1 DEF Recv
  <2>3. CASE c.cut BY <1>0, <2>1, <2>2, <2>3, RecvKeepsDue DEF CutIsDue
  <2>4. CASE ~ c.cut BY <1>0, <2>1, <2>2, <2>4, RecvCut DEF CutIsDue
  <2>. QED BY <2>3, <2>4
<1>2. CASE Send
  <2>. DEFINE done == [c EXCEPT !.need_send = FALSE, !.msg_for_sending = "none", !.cut = FALSE]
              nxt  == client_step(done, "RESPONSE", NoArg, TRUE)
  <2>1. done \in Client /\ ~ done.cut BY <1>0 DEF Client
  <2>2. nxt \in Client /\ ~ nxt.cut BY <2>1, StepType, StepCut DEF ArgOK
  <2>3. c' = [nxt EXCEPT !.closed = (nxt.current_state = "DONE") \/ c.closed]
    BY <1>2 DEF Send, client_process_send
  <2>. HIDE DEF nxt
  <2>. QED BY <2>2, <2>3 DEF Client, CutIsDue
<1>3. CASE SendPart BY <1>0, <1>3 DEF SendPart, CanSend, Client, CutIsDue
<1>4. CASE CheckTimeout
  BY <1>0, <1>4 DEF CheckTimeout, client_process_check_timeout, client_step, HasRow, Goto, Client,
     CutIsDue
<1>5. CASE c' = c BY <1>5 DEF CutIsDue
<1>. QED BY <1>1, <1>2, <1>3, <1>4, <1>5 DEF Next, PeerSend, PeerClose, RecvEof, Finished, vars

\* What NeverTorn says of a step.
Whole == ~ Pipelining /\ ~ late /\ c.cut /\ c'.need_send =>
           c'.msg_for_sending = c.msg_for_sending /\ c'.cut

\* However often the socket takes a part of a reply only, a peer that waits for replies
\* gets the rest of the same one: no line of it is read before.
THEOREM RepliesStayWhole ==
  ASSUME "ONE" \notin TextKinds
  PROVE  Spec => NeverTorn
<1>1. ASSUME TypeOK, CutIsDue, ~ Pipelining => Dialogue, [Next]_vars PROVE Whole
  <2>. SUFFICES ASSUME ~ Pipelining, ~ late, c.cut, c'.need_send
                PROVE  c'.msg_for_sending = c.msg_for_sending /\ c'.cut
    BY DEF Whole
  <2>0. c \in Client /\ c.need_send /\ Dialogue BY <1>1 DEF TypeOK, CutIsDue
  <2>1. CASE Recv
    <3>1. conn = "open" /\ inbox # << >> BY <2>1 DEF Recv
    <3>2. Level BY <2>0, <3>1 DEF Dialogue
    <3>. QED BY <2>0, <3>1, <3>2 DEF Level, Greets, Asks, Answers, Texts, Ends
  <2>2. CASE Send
    <3>1. conn = "open" BY <2>2 DEF Send, CanSend
    <3>2. Level BY <2>0, <3>1 DEF Dialogue
    <3>3. c.current_state \notin {"INVALID", "DONE"}
      BY <3>2 DEF Level, Greets, Asks, Answers, Texts, Ends, Accepts, Waits, InText
    <3>. QED BY <1>1, <2>2, <3>3, Replied
  <2>3. CASE SendPart BY <2>0, <2>3 DEF SendPart, Client
  <2>4. CASE CheckTimeout
    BY <2>0, <2>4 DEF CheckTimeout, client_process_check_timeout, client_step, HasRow, Goto, Client
  <2>5. CASE c' = c BY <2>5
  <2>. QED BY <1>1, <2>1, <2>2, <2>3, <2>4, <2>5
         DEF Next, PeerSend, PeerClose, RecvEof, Finished, vars
<1>2. TypeOK /\ CutIsDue /\ (~ Pipelining => Dialogue) /\ [Next]_vars => [Whole]_vars BY <1>1
<1>3. Init => CutIsDue BY DEF Init, client_init, CutIsDue
<1>4. TypeOK /\ CutIsDue /\ [Next]_vars => CutIsDue' BY NextCut
<1>5. Spec => []CutIsDue BY <1>3, <1>4, TypeCorrect, PTL DEF Spec
<1>6. Spec => [][Whole]_vars BY <1>2, <1>5, TypeCorrect, DialogueKept, PTL DEF Spec
<1>. QED BY <1>6 DEF NeverTorn, Whole
=============================================================================
