----------------------- MODULE ClientConnectionProofs -----------------------
(***************************************************************************)
(* Theorems about ClientConnection: the dialogue of the sending side with a  *)
(* mail host, for any mails, recipients and lines, any number of attempts    *)
(* and troubles.                                                             *)
(***************************************************************************)
EXTENDS ClientConnection, SequenceTheorems, TLAPS

----------------------------------------------------------------------------
\* What holds whatever the network and the host do.

\* The states in which a transaction is under way, and those in which its text is.
InText == {"SENDING_MSG_TEXT_OR_END_MSG", "MSG_TEXT_SENDED"}

InTransaction == {"MAIL_SENDED", "SENDING_RCPT_OR_DATA", "RCPT_SENDED", "DATA_SENDED",
                  "END_DATA_SENDED"} \union InText

\* The states the table leads to.
Reached == States \ {"SENDING_HELLO", "HELLO_SENDED", "SENDING_QUIT", "CLOSED_CONNECTION"}

\* What a connection's state says of its queue, its last event and its counters.
SteadyAs(state, messages, last_event, rcpt, line) ==
  /\ state \in Reached
  /\ state \in InTransaction => messages # << >>
  /\ state = "GET_NEXT_MESSAGE" => last_event # "4XX"
  /\ state = "MAIL_SENDED" => rcpt = 0
  /\ state \in {"SENDING_RCPT_OR_DATA", "RCPT_SENDED"} => rcpt <= RcptCount
  /\ state = "RCPT_SENDED" => rcpt # 0
  /\ state \in {"DATA_SENDED", "END_DATA_SENDED"} \union InText => rcpt = RcptCount
  /\ state \in {"MAIL_SENDED", "SENDING_RCPT_OR_DATA", "RCPT_SENDED", "DATA_SENDED"} => line = 0
  /\ state \in InText => line <= LineCount
  /\ state = "END_DATA_SENDED" => line = LineCount

Steady(c) ==
  SteadyAs(c.state, c.messages, c.last_event, c.current_rcpt, c.current_msg_line)

\* A mail is in one place: in the directory or once in the queue.
OnePlace(c) ==
  /\ \A i, j \in DOMAIN c.messages : c.messages[i] = c.messages[j] => i = j
  /\ \A i \in DOMAIN c.messages : c.messages[i] \notin files

\* There is a TCP connection only where the worker has a descriptor for it, and
\* nothing travels on one that was closed.  A worker that crashed had no connection
\* and a file to take up.
Wired ==
  /\ net.status # "none" => HasSocket /\ worker = "runs"
  /\ net.status # "up" => net.cmds = << >>
  /\ net.status \in {"none", "reset"} => net.replies = << >>
  /\ worker = "crashed" => conn = NoConn /\ files # {}

Always ==
  /\ TypeOK /\ Wired
  /\ conn # NoConn => /\ Steady(conn) /\ OnePlace(conn)
                      /\ conn.state = "RSET_SENDED" => skipping

----------------------------------------------------------------------------
\* The dialogue, as long as nothing rough has happened.

Got(class) == Received # << >> /\ Received[1].class = class

\* Nothing has come back and it still can.
Pending == Received = << >> /\ net.status = "up"

\* At most one reply is there, to the command the state waits for.
RepliesInStep ==
  /\ Len(Received) <= 1
  /\ Received # << >> => /\ Underway = << >>
                         /\ conn.state = WaitsIn(Received[1].to)
                         /\ Foreseen(Received[1].to, Received[1].class)

\* The commands on their way: lines of text, and behind them at most the one the
\* state waits for.
CommandsAs(cmds, state, mail) ==
  \A i \in DOMAIN cmds :
    /\ cmds[i].cmd = "MSG_TEXT" <=> state \in InText \/ i < Len(cmds)
    /\ cmds[i].cmd = "MSG_TEXT" => state \in InText \union {"END_DATA_SENDED", "RSET_SENDED"}
    /\ cmds[i].cmd # "MSG_TEXT" => state = WaitsIn(cmds[i].cmd)
    /\ state \in InTransaction => cmds[i].mail = mail

CommandsInStep == CommandsAs(Underway, conn.state, Head(conn.messages))

\* No reply and none under way: before the greeting, after a 4xx to EHLO, or after
\* an RSET taken for text.
AnswerDue ==
  Pending /\ conn.state \in WaitStates /\ Underway = << >> =>
    \/ conn.state = "INIT" /\ ~host.greeted
    \/ conn.state = "EHLO_SENDED"
    \/ conn.state = "RSET_SENDED" /\ host.text

Greeted ==
  /\ ~host.rest
  /\ conn.state # "INIT" \/ Received # << >> => host.greeted
  /\ conn.state = "INIT" => Underway = << >>

\* The host waits for text exactly when the client thinks so.
TextAgreed ==
  net.status = "up" =>
    /\ conn.state \in InText => host.text
    /\ conn.state = "END_DATA_SENDED" => (host.text <=> Received = << >>)
    /\ conn.state = "DATA_SENDED" => (host.text <=> Got("3XX"))
    /\ conn.state = "RSET_SENDED" /\ host.text => Received = << >>
    /\ host.text => conn.state \in InText \union {"END_DATA_SENDED", "DATA_SENDED", "RSET_SENDED"}

\* The host has the transaction of the mail at the head open.
Open ==
  \/ conn.state \in {"SENDING_RCPT_OR_DATA"} \union InText
  \/ conn.state = "MAIL_SENDED" /\ Got("2XX")
  \/ conn.state = "RCPT_SENDED" /\ (Got("2XX") \/ Pending)
  \/ conn.state = "DATA_SENDED" /\ (Got("3XX") \/ Pending)
  \/ conn.state = "END_DATA_SENDED" /\ Pending

\* How many lines of text, and how many recipients, are not there yet.
LinesUnderway ==
  IF conn.state \in InText THEN Len(Underway)
  ELSE IF conn.state = "END_DATA_SENDED" THEN Len(Underway) - 1 ELSE 0

RcptUnderway == IF conn.state = "RCPT_SENDED" /\ Pending THEN 1 ELSE 0

TransactionAgreed ==
  /\ Open => /\ host.mail = Head(conn.messages)
             /\ host.rcpts + RcptUnderway = conn.current_rcpt
  /\ Open /\ net.status = "up" => /\ host.lines + LinesUnderway = conn.current_msg_line
                                  /\ ~host.foreign

\* A mail to be left behind has the host's final word, or is behind an expired one.
WordGiven ==
  /\ conn.state = "GET_NEXT_MESSAGE" =>
       skipping \/ (conn.messages # << >> /\ verdict[Head(conn.messages)] # "none")
  /\ conn.state \in InTransaction /\ (Got("5XX") \/ (conn.state = "END_DATA_SENDED" /\ Got("2XX")))
       => verdict[Head(conn.messages)] # "none"

Dialogue ==
  /\ conn.buffer_in = << >>
  /\ RepliesInStep /\ CommandsInStep /\ AnswerDue /\ Greeted
  /\ TextAgreed /\ TransactionAgreed /\ WordGiven

\* The socket could not be made: nothing was said yet.
Dialing ==
  /\ conn.state = "INIT"
  /\ conn.messages_in = << >> /\ conn.buffer_in = << >> /\ conn.messages_out = << >>

\* A mail the host has taken is not offered again.
TakenMails ==
  \A m \in Mails : delivered[m] # 0 =>
    /\ delivered[m] = 1 /\ m \notin files
    /\ conn # NoConn => \A i \in DOMAIN conn.messages : conn.messages[i] = m =>
         /\ i = 1
         /\ \/ conn.state = "GET_NEXT_MESSAGE"
            \/ /\ conn.state = "END_DATA_SENDED"
               /\ Got("2XX") \/ (net.status = "reset" /\ Received = << >>)

Smooth ==
  ~rough =>
    /\ worker # "exited" /\ TakenMails
    /\ HasSocket => Dialogue
    /\ conn # NoConn /\ conn.fd = "none" => Dialing

CInv == Always /\ Smooth

----------------------------------------------------------------------------
\* The table, state by state.

LEMMA Rows ==
  ASSUME NEW e \in Events \ {"CLOSE_CONNECTION"}
  PROVE  /\ client_fsm_step("INIT", e) = InitRows(e)
         /\ client_fsm_step("SENDING_EHLO", e) = SendingEhloRows(e)
         /\ client_fsm_step("EHLO_SENDED", e) = EhloSendedRows(e)
         /\ client_fsm_step("GET_NEXT_MESSAGE", e) = GetNextMessageRows(e)
         /\ client_fsm_step("SENDING_MAIL_OR_QUIT", e) = SendingMailOrQuitRows(e)
         /\ client_fsm_step("MAIL_SENDED", e) = MailSendedRows(e)
         /\ client_fsm_step("SENDING_RCPT_OR_DATA", e) = SendingRcptOrDataRows(e)
         /\ client_fsm_step("RCPT_SENDED", e) = RcptSendedRows(e)
         /\ client_fsm_step("DATA_SENDED", e) = DataSendedRows(e)
         /\ client_fsm_step("RSET_SENDED", e) = RsetSendedRows(e)
         /\ client_fsm_step("SENDING_MSG_TEXT_OR_END_MSG", e) = SendingMsgTextRows(e)
         /\ client_fsm_step("MSG_TEXT_SENDED", e) = MsgTextSendedRows(e)
         /\ client_fsm_step("END_DATA_SENDED", e) = EndDataSendedRows(e)
         /\ client_fsm_step("QUIT_SENDED", e) = QuitSendedRows(e)
BY DEF client_fsm_step, client_fsm_trans_table

----------------------------------------------------------------------------
\* One step of the state machine, alone.

Elapsed == [ Limits -> BOOLEAN ]

\* What generate_event may leave: the queue as it was, or without its head.
LEMMA SendsTypes ==
  ASSUME NEW c \in SMTP_connection, NEW e \in Events, NEW m \in Mails \union {NoMail}
  PROVE  LET g == Sends(c, e, m) IN
         /\ g.event = e /\ g.conn \in SMTP_connection
         /\ g.conn.last_event = e
         /\ g.conn.state = c.state /\ g.conn.messages = c.messages
         /\ g.conn.current_rcpt = c.current_rcpt /\ g.conn.current_msg_line = c.current_msg_line
         /\ g.conn.current_connection_num = c.current_connection_num
         /\ g.conn.fd = c.fd /\ g.conn.buffer_in = c.buffer_in
         /\ g.conn.messages_out = c.messages_out
<1>1. [cmd |-> e, mail |-> m] \in Command BY DEF Command
<1>2. Append(c.messages_in, [cmd |-> e, mail |-> m]) \in Seq(Command)
  BY <1>1, AppendProperties DEF SMTP_connection
<1>. QED BY <1>2 DEF Sends, Quiet, SMTP_connection

LEMMA SendsAppends ==
  ASSUME NEW c \in SMTP_connection, NEW e \in Events, NEW m \in Mails \union {NoMail}
  PROVE  /\ [cmd |-> e, mail |-> m] \in Command
         /\ Sends(c, e, m).conn.messages_in = Append(c.messages_in, [cmd |-> e, mail |-> m])
BY DEF Sends, Quiet, SMTP_connection, Command

\* The queue without its head.
Popped(c) == [c EXCEPT !.messages = IF @ = << >> THEN @ ELSE Tail(@)]

\* A new attempt at the mail at the head.
Restarted(c) == [c EXCEPT !.current_rcpt = 0, !.current_msg_line = 0]

LEMMA PoppedTypes ==
  ASSUME NEW c \in SMTP_connection
  PROVE  /\ Popped(c) \in SMTP_connection /\ Restarted(c) \in SMTP_connection
         /\ c.messages = << >> => Popped(c) = c
         /\ c.messages # << >> => Popped(c).messages = Tail(c.messages) 
BY HeadTailProperties DEF Popped, Restarted, SMTP_connection

\* The connection in its next state.
Goto(c, n) == [c EXCEPT !.state = n]

LEMMA GotoTypes ==
  ASSUME NEW c \in SMTP_connection, NEW n \in States
  PROVE  LET d == Goto(c, n) IN
         /\ d \in SMTP_connection /\ d.state = n /\ d.messages = c.messages
         /\ d.last_event = c.last_event /\ d.current_rcpt = c.current_rcpt
         /\ d.current_msg_line = c.current_msg_line /\ d.fd = c.fd
         /\ d.messages_in = c.messages_in /\ d.buffer_in = c.buffer_in
         /\ d.messages_out = c.messages_out
BY DEF Goto, SMTP_connection

\* Sending and going on.
LEMMA SentSteady ==
  ASSUME NEW c \in SMTP_connection, NEW e \in Events, NEW m \in Mails \union {NoMail},
         NEW n \in States, SteadyAs(n, c.messages, e, c.current_rcpt, c.current_msg_line)
  PROVE  LET d == Goto(Sends(c, e, m).conn, n) IN d \in SMTP_connection /\ Steady(d)
<1>. DEFINE x == Sends(c, e, m).conn
<1>1. /\ x \in SMTP_connection /\ x.last_event = e /\ x.messages = c.messages
      /\ x.current_rcpt = c.current_rcpt /\ x.current_msg_line = c.current_msg_line
  BY SendsTypes
<1>. HIDE DEF x
<1>2. Goto(x, n) \in SMTP_connection /\ Steady(Goto(x, n)) BY <1>1, GotoTypes DEF Steady
<1>. QED BY <1>2 DEF x

\* What a step of the state machine does in the states that send.
LEMMA Outcomes ==
  ASSUME NEW c \in SMTP_connection, Steady(c), NEW el \in Elapsed,
         NEW g, NEW n, g = generate_event(c, el), n = client_fsm_step(c.state, g.event)
  PROVE  /\ c.state = "SENDING_EHLO" => g = Sends(c, "EHLO", NoMail) /\ n = "EHLO_SENDED"
         /\ c.state = "GET_NEXT_MESSAGE" =>
              LET d == Popped(c) IN
              \/ /\ d.messages = << >> /\ n = "QUIT_SENDED"
                 /\ g = Sends(d, "QUIT", NoMail)
              \/ /\ d.messages # << >> /\ n = "MAIL_SENDED"
                 /\ g = Sends(Restarted(d), "MAIL", Head(d.messages))
         /\ c.state = "SENDING_MAIL_OR_QUIT" =>
              \/ /\ c.messages = << >> /\ n = "QUIT_SENDED"
                 /\ g = Sends(c, "QUIT", NoMail)
              \/ /\ c.messages # << >> /\ n = "SENDING_MAIL_OR_QUIT"
                 /\ g = [event |-> "NONE", conn |-> c]
              \/ /\ c.messages # << >> /\ n = "MAIL_SENDED"
                 /\ g = Sends(Restarted(c), "MAIL", Head(c.messages))
         /\ c.state = "SENDING_RCPT_OR_DATA" =>
              \/ /\ el.late /\ n = "RSET_SENDED"
                 /\ g = Sends(Popped(c), "RSET", Head(c.messages))
              \/ /\ c.current_rcpt < RcptCount /\ n = "RCPT_SENDED"
                 /\ g = Sends([c EXCEPT !.current_rcpt = @ + 1], "RCPT", Head(c.messages))
              \/ /\ c.current_rcpt = RcptCount /\ n = "DATA_SENDED"
                 /\ g = Sends(c, "DATA", Head(c.messages))
         /\ c.state = "SENDING_MSG_TEXT_OR_END_MSG" =>
              \/ /\ el.late /\ n = "RSET_SENDED"
                 /\ g = Sends(Popped(c), "RSET", Head(c.messages))
              \/ /\ c.current_msg_line < LineCount /\ n = "MSG_TEXT_SENDED"
                 /\ g = Sends([c EXCEPT !.current_msg_line = @ + 1], "MSG_TEXT", Head(c.messages))
              \/ /\ c.current_msg_line = LineCount /\ n = "END_DATA_SENDED"
                 /\ g = Sends(c, "END_DATA", Head(c.messages))
         /\ c.state \in WaitStates \union {"MSG_TEXT_SENDED"} => g = TakeResponse(c)
<1>. USE DEF Events, Replies, InTransaction, InText
<1>0. \A d, e, m : Sends(d, e, m).event = e BY DEF Sends, Quiet
<1>1. CASE c.state = "SENDING_EHLO"
  <2>1. g = Sends(c, "EHLO", NoMail) BY <1>1 DEF generate_event
  <2>. QED BY <1>0, <1>1, <2>1, Rows DEF SendingEhloRows, WaitStates
<1>2. CASE c.state = "GET_NEXT_MESSAGE"
  <2>1. g = SendMailOrQuit(Popped(c), el) BY <1>2 DEF generate_event, GetNextMessage, Popped
  <2>2. Popped(c).last_event # "4XX" BY <1>2 DEF Steady, SteadyAs, Popped, SMTP_connection
  <2>. QED BY <1>0, <1>2, <2>1, <2>2, Rows
           DEF SendMailOrQuit, Restarted, GetNextMessageRows, WaitStates
<1>3. CASE c.state = "SENDING_MAIL_OR_QUIT"
  <2>1. g = SendMailOrQuit(c, el) BY <1>3 DEF generate_event
  <2>. QED BY <1>0, <1>3, <2>1, Rows
           DEF SendMailOrQuit, Restarted, SendingMailOrQuitRows, WaitStates
<1>4. CASE c.state = "SENDING_RCPT_OR_DATA"
  <2>1. g = SendRcptOrData(c, el) BY <1>4 DEF generate_event
  <2>2. c.messages # << >> /\ c.current_rcpt <= RcptCount /\ c.current_rcpt \in Nat
    BY <1>4 DEF Steady, SteadyAs, SMTP_connection
  <2>3. Expire(c) = Sends(Popped(c), "RSET", Head(c.messages)) BY <2>2 DEF Expire, Popped
  <2>4. ~(c.current_rcpt < RcptCount) => c.current_rcpt = RcptCount BY <2>2, ClientAssumption
  <2>. QED BY <1>0, <1>4, <2>1, <2>3, <2>4, Rows DEF SendRcptOrData, SendingRcptOrDataRows, WaitStates
<1>5. CASE c.state = "SENDING_MSG_TEXT_OR_END_MSG"
  <2>1. g = SendMsgTextOrEndMsg(c, el) BY <1>5 DEF generate_event
  <2>2. c.messages # << >> /\ c.current_msg_line <= LineCount /\ c.current_msg_line \in Nat
    BY <1>5 DEF Steady, SteadyAs, SMTP_connection
  <2>3. Expire(c) = Sends(Popped(c), "RSET", Head(c.messages)) BY <2>2 DEF Expire, Popped
  <2>4. ~(c.current_msg_line < LineCount) => c.current_msg_line = LineCount BY <2>2, ClientAssumption
  <2>. QED BY <1>0, <1>5, <2>1, <2>3, <2>4, Rows DEF SendMsgTextOrEndMsg, SendingMsgTextRows, WaitStates
<1>6. CASE c.state \in WaitStates \union {"MSG_TEXT_SENDED"}
  BY <1>6 DEF generate_event, WaitStates
<1>. QED BY <1>1, <1>2, <1>3, <1>4, <1>5, <1>6 DEF WaitStates

\* The reply that counts, if there is one.
LEMMA TakeTypes ==
  ASSUME NEW c \in SMTP_connection
  PROVE  LET g == TakeResponse(c) IN
         /\ g.event \in Replies \union {"NONE"}
         /\ c.messages_out = << >> => g.event = "NONE"
         /\ c.messages_out # << >> => g.event = EventOf(Head(c.messages_out).class)
         /\ g.conn \in SMTP_connection /\ g.conn.last_event = g.event
         /\ g.conn.messages_out = << >> /\ g.conn.messages_in = c.messages_in
         /\ g.conn.state = c.state /\ g.conn.messages = c.messages
         /\ g.conn.current_rcpt = c.current_rcpt /\ g.conn.current_msg_line = c.current_msg_line
         /\ g.conn.fd = c.fd /\ g.conn.buffer_in = c.buffer_in
<1>1. << >> \in Seq(Reply) /\ c.messages_out \in Seq(Reply) BY DEF SMTP_connection
<1>2. c.messages_out # << >> => Head(c.messages_out) \in Reply BY <1>1, HeadTailProperties
<1>3. c.messages_out # << >> => Head(c.messages_out).class \in Classes BY <1>2 DEF Reply
<1>4. \A class \in Classes : EventOf(class) \in Replies \union {"NONE"} BY DEF EventOf, Classes
<1>5. c.messages_out # << >> => EventOf(Head(c.messages_out).class) \in Replies \union {"NONE"}
  BY <1>3, <1>4
<1>. QED BY <1>1, <1>5 DEF TakeResponse, Quiet, SMTP_connection, Events

\* What a step keeps, also one that ends the process.
Kept(c, g, n) ==
  /\ g.event \in Events /\ g.conn \in SMTP_connection
  /\ g.conn.state = c.state /\ g.conn.fd = c.fd /\ g.conn.buffer_in = c.buffer_in
  /\ g.conn.messages = c.messages \/ g.conn.messages = Popped(c).messages
  /\ n \in Reached \union {"INVALID", "CLOSED_CONNECTION"}
  /\ n = "INVALID" => Steady(g.conn)
  /\ n \in Reached => Goto(g.conn, n) \in SMTP_connection /\ Steady(Goto(g.conn, n))
  /\ n = "RSET_SENDED" => g.event = "RSET" \/ c.state = "RSET_SENDED"

LEMMA Names ==
  /\ "EHLO" \in Events /\ "QUIT" \in Events /\ "MAIL" \in Events /\ "RSET" \in Events
  /\ "RCPT" \in Events /\ "DATA" \in Events /\ "MSG_TEXT" \in Events /\ "END_DATA" \in Events
  /\ "NONE" \in Events /\ Replies \subseteq Events
  /\ "EHLO_SENDED" \in Reached /\ "MAIL_SENDED" \in Reached /\ "RCPT_SENDED" \in Reached
  /\ "DATA_SENDED" \in Reached /\ "RSET_SENDED" \in Reached /\ "QUIT_SENDED" \in Reached
  /\ "MSG_TEXT_SENDED" \in Reached /\ "END_DATA_SENDED" \in Reached
  /\ "SENDING_MAIL_OR_QUIT" \in Reached /\ "INIT" \in Reached
  /\ "INVALID" \notin Reached /\ "CLOSED_CONNECTION" \notin Reached
  /\ \A n \in Reached : n \in States
BY DEF Events, Replies, Reached, States

\* A step that sends: d is the connection before the command is queued.
LEMMA SentKept ==
  ASSUME NEW c \in SMTP_connection, NEW d \in SMTP_connection,
         d.state = c.state, d.fd = c.fd, d.buffer_in = c.buffer_in,
         d.messages = c.messages \/ d.messages = Popped(c).messages,
         NEW e \in Events, NEW m \in Mails \union {NoMail}, NEW n \in Reached,
         n = "RSET_SENDED" => e = "RSET",
         SteadyAs(n, d.messages, e, d.current_rcpt, d.current_msg_line)
  PROVE  Kept(c, Sends(d, e, m), n)
<1>. DEFINE g == Sends(d, e, m)
<1>1. /\ g.event = e /\ g.conn \in SMTP_connection /\ g.conn.state = c.state
      /\ g.conn.fd = c.fd /\ g.conn.buffer_in = c.buffer_in /\ g.conn.messages = d.messages
  BY SendsTypes
<1>2. Goto(g.conn, n) \in SMTP_connection /\ Steady(Goto(g.conn, n)) BY SentSteady, Names
<1>. HIDE DEF g
<1>3. Kept(c, g, n) BY <1>1, <1>2, Names DEF Kept
<1>. QED BY <1>3 DEF g

LEMMA StepKept ==
  ASSUME NEW c \in SMTP_connection, Steady(c), NEW el \in Elapsed,
         NEW g, NEW n, g = generate_event(c, el), n = client_fsm_step(c.state, g.event)
  PROVE  Kept(c, g, n)
<1>. USE DEF InTransaction, InText
<1>c. c.messages \in Seq(Mails) /\ c.current_rcpt \in Nat /\ c.current_msg_line \in Nat
  BY DEF SMTP_connection
<1>d. c.messages # << >> => Head(c.messages) \in Mails BY <1>c, HeadTailProperties
<1>e. /\ Popped(c) \in SMTP_connection /\ Popped(c).state = c.state
      /\ Popped(c).fd = c.fd /\ Popped(c).buffer_in = c.buffer_in
  BY PoppedTypes DEF Popped, SMTP_connection
<1>1. CASE c.state = "SENDING_EHLO"
  <2>1. g = Sends(c, "EHLO", NoMail) /\ n = "EHLO_SENDED" BY <1>1, Outcomes
  <2>2. SteadyAs("EHLO_SENDED", c.messages, "EHLO", c.current_rcpt, c.current_msg_line)
    BY Names DEF SteadyAs
  <2>. QED BY <2>1, <2>2, SentKept, Names
<1>2. CASE c.state = "GET_NEXT_MESSAGE"
  <2>. DEFINE q == Popped(c)
              r == Restarted(q)
  <2>1. CASE q.messages = << >> /\ g = Sends(q, "QUIT", NoMail) /\ n = "QUIT_SENDED"
    <3>1. SteadyAs("QUIT_SENDED", q.messages, "QUIT", q.current_rcpt, q.current_msg_line)
      BY Names DEF SteadyAs
    <3>. QED BY <1>e, <2>1, <3>1, SentKept, Names
  <2>2. CASE /\ q.messages # << >> /\ n = "MAIL_SENDED"
             /\ g = Sends(r, "MAIL", Head(q.messages))
    <3>1. /\ r \in SMTP_connection /\ r.state = c.state /\ r.fd = c.fd
          /\ r.buffer_in = c.buffer_in /\ r.messages = q.messages
          /\ r.current_rcpt = 0 /\ r.current_msg_line = 0
      BY <1>e, PoppedTypes DEF Restarted, SMTP_connection
    <3>2. Head(q.messages) \in Mails BY <1>e, <2>2, HeadTailProperties DEF SMTP_connection
    <3>3. SteadyAs("MAIL_SENDED", r.messages, "MAIL", r.current_rcpt, r.current_msg_line)
      BY <2>2, <3>1, Names DEF SteadyAs
    <3>. HIDE DEF r, q
    <3>. QED BY <2>2, <3>1, <3>2, <3>3, SentKept, Names DEF q
  <2>. QED BY <1>2, <2>1, <2>2, Outcomes
<1>3. CASE c.state = "SENDING_MAIL_OR_QUIT"
  <2>. DEFINE r == Restarted(c)
  <2>1. CASE g = Sends(c, "QUIT", NoMail) /\ n = "QUIT_SENDED"
    <3>1. SteadyAs("QUIT_SENDED", c.messages, "QUIT", c.current_rcpt, c.current_msg_line)
      BY Names DEF SteadyAs
    <3>. QED BY <2>1, <3>1, SentKept, Names
  <2>2. CASE g = [event |-> "NONE", conn |-> c] /\ n = "SENDING_MAIL_OR_QUIT"
    <3>1. g.event = "NONE" /\ g.conn = c BY <2>2
    <3>2. Goto(c, n) \in SMTP_connection /\ Goto(c, n).state = n
      <4>1. n \in States BY <2>2, Names
      <4>. QED BY <4>1, GotoTypes
    <3>3. Steady(Goto(c, n)) BY <2>2, <3>2, Names DEF Steady, SteadyAs
    <3>. QED BY <2>2, <3>1, <3>2, <3>3, Names DEF Kept
  <2>3. CASE /\ c.messages # << >> /\ n = "MAIL_SENDED"
             /\ g = Sends(r, "MAIL", Head(c.messages))
    <3>1. /\ r \in SMTP_connection /\ r.state = c.state /\ r.fd = c.fd
          /\ r.buffer_in = c.buffer_in /\ r.messages = c.messages
          /\ r.current_rcpt = 0 /\ r.current_msg_line = 0
      BY PoppedTypes DEF Restarted, SMTP_connection
    <3>3. SteadyAs("MAIL_SENDED", r.messages, "MAIL", r.current_rcpt, r.current_msg_line)
      BY <2>3, <3>1, Names DEF SteadyAs
    <3>. HIDE DEF r
    <3>. QED BY <1>d, <2>3, <3>1, <3>3, SentKept, Names
  <2>. QED BY <1>3, <2>1, <2>2, <2>3, Outcomes
<1>4. CASE c.state = "SENDING_RCPT_OR_DATA"
  <2>1. c.messages # << >> /\ c.current_rcpt <= RcptCount /\ c.current_msg_line = 0
    BY <1>4 DEF Steady, SteadyAs
  <2>2. CASE n = "RSET_SENDED" /\ g = Sends(Popped(c), "RSET", Head(c.messages))
    <3>1. \A q, x, y : SteadyAs("RSET_SENDED", q, "RSET", x, y) BY Names DEF SteadyAs
    <3>. QED BY <1>d, <1>e, <2>1, <2>2, <3>1, SentKept, Names
  <2>3. CASE /\ c.current_rcpt < RcptCount /\ n = "RCPT_SENDED"
             /\ g = Sends([c EXCEPT !.current_rcpt = @ + 1], "RCPT", Head(c.messages))
    <3>. DEFINE d == [c EXCEPT !.current_rcpt = @ + 1]
    <3>0. c.current_rcpt + 1 \in Nat BY <1>c
    <3>1. /\ d \in SMTP_connection /\ d.state = c.state /\ d.fd = c.fd
          /\ d.buffer_in = c.buffer_in /\ d.messages = c.messages
          /\ d.current_rcpt = c.current_rcpt + 1 /\ d.current_msg_line = c.current_msg_line
      BY <3>0 DEF SMTP_connection
    <3>2. g = Sends(d, "RCPT", Head(c.messages)) BY <2>3
    <3>. HIDE DEF d
    <3>3. d.current_rcpt <= RcptCount /\ d.current_rcpt # 0 /\ d.current_msg_line = 0
      BY <1>c, <2>1, <2>3, <3>1, ClientAssumption
    <3>4. SteadyAs("RCPT_SENDED", d.messages, "RCPT", d.current_rcpt, d.current_msg_line)
      BY <2>1, <3>1, <3>3, Names DEF SteadyAs
    <3>. QED BY <1>d, <2>1, <2>3, <3>1, <3>2, <3>4, SentKept, Names
  <2>4. CASE /\ c.current_rcpt = RcptCount /\ n = "DATA_SENDED"
             /\ g = Sends(c, "DATA", Head(c.messages))
    <3>1. SteadyAs("DATA_SENDED", c.messages, "DATA", c.current_rcpt, c.current_msg_line)
      BY <2>1, <2>4, Names DEF SteadyAs
    <3>. QED BY <1>d, <2>1, <2>4, <3>1, SentKept, Names
  <2>. QED BY <1>4, <2>2, <2>3, <2>4, Outcomes
<1>5. CASE c.state = "SENDING_MSG_TEXT_OR_END_MSG"
  <2>1. c.messages # << >> /\ c.current_rcpt = RcptCount /\ c.current_msg_line <= LineCount
    BY <1>5 DEF Steady, SteadyAs
  <2>2. CASE n = "RSET_SENDED" /\ g = Sends(Popped(c), "RSET", Head(c.messages))
    <3>1. \A q, x, y : SteadyAs("RSET_SENDED", q, "RSET", x, y) BY Names DEF SteadyAs
    <3>. QED BY <1>d, <1>e, <2>1, <2>2, <3>1, SentKept, Names
  <2>3. CASE /\ c.current_msg_line < LineCount /\ n = "MSG_TEXT_SENDED"
             /\ g = Sends([c EXCEPT !.current_msg_line = @ + 1], "MSG_TEXT", Head(c.messages))
    <3>. DEFINE d == [c EXCEPT !.current_msg_line = @ + 1]
    <3>0. c.current_msg_line + 1 \in Nat BY <1>c
    <3>1. /\ d \in SMTP_connection /\ d.state = c.state /\ d.fd = c.fd
          /\ d.buffer_in = c.buffer_in /\ d.messages = c.messages
          /\ d.current_rcpt = c.current_rcpt /\ d.current_msg_line = c.current_msg_line + 1
      BY <3>0 DEF SMTP_connection
    <3>2. g = Sends(d, "MSG_TEXT", Head(c.messages)) BY <2>3
    <3>. HIDE DEF d
    <3>3. SteadyAs("MSG_TEXT_SENDED", d.messages, "MSG_TEXT", d.current_rcpt, d.current_msg_line)
      BY <1>c, <2>1, <2>3, <3>1, ClientAssumption, Names DEF SteadyAs
    <3>. QED BY <1>d, <2>1, <2>3, <3>1, <3>2, <3>3, SentKept, Names
  <2>4. CASE /\ c.current_msg_line = LineCount /\ n = "END_DATA_SENDED"
             /\ g = Sends(c, "END_DATA", Head(c.messages))
    <3>1. SteadyAs("END_DATA_SENDED", c.messages, "END_DATA", c.current_rcpt, c.current_msg_line)
      BY <2>1, <2>4, Names DEF SteadyAs
    <3>. QED BY <1>d, <2>1, <2>4, <3>1, SentKept, Names
  <2>. QED BY <1>5, <2>2, <2>3, <2>4, Outcomes, ZenonT(40)
<1>6. CASE c.state \in WaitStates \union {"MSG_TEXT_SENDED"}
  <2>0. g = TakeResponse(c) BY <1>6, Outcomes
  <2>a. /\ g.event \in Replies \union {"NONE"} /\ g.event \in Events \ {"CLOSE_CONNECTION"}
        /\ g.conn \in SMTP_connection /\ g.conn.state = c.state
        /\ g.conn.fd = c.fd /\ g.conn.buffer_in = c.buffer_in /\ g.conn.messages = c.messages
        /\ g.conn.last_event = g.event
        /\ g.conn.current_rcpt = c.current_rcpt /\ g.conn.current_msg_line = c.current_msg_line
    BY <2>0, TakeTypes DEF Events, Replies
  <2>b. /\ n \in Reached \union {"INVALID", "CLOSED_CONNECTION"}
        /\ n = "RSET_SENDED" => c.state = "RSET_SENDED"
        /\ n \in Reached =>
             SteadyAs(n, c.messages, g.event, c.current_rcpt, c.current_msg_line)
        /\ n = "INVALID" /\ c.state # "GET_NEXT_MESSAGE" =>
             SteadyAs(c.state, c.messages, g.event, c.current_rcpt, c.current_msg_line)
    <3>. USE <2>a, ClientAssumption DEF Steady, SteadyAs, Reached, States
    <3>1. CASE c.state = "INIT" BY <3>1, Rows DEF InitRows
    <3>2. CASE c.state = "EHLO_SENDED" BY <3>2, Rows DEF EhloSendedRows
    <3>3. CASE c.state = "MAIL_SENDED" BY <3>3, Rows DEF MailSendedRows
    <3>4. CASE c.state = "RCPT_SENDED" BY <3>4, Rows DEF RcptSendedRows
    <3>5. CASE c.state = "DATA_SENDED" BY <3>5, Rows DEF DataSendedRows
    <3>6. CASE c.state = "RSET_SENDED" BY <3>6, Rows DEF RsetSendedRows
    <3>7. CASE c.state = "END_DATA_SENDED" BY <3>7, Rows DEF EndDataSendedRows
    <3>8. CASE c.state = "QUIT_SENDED" BY <3>8, Rows DEF QuitSendedRows
    <3>9. CASE c.state = "MSG_TEXT_SENDED" BY <3>9, Rows DEF MsgTextSendedRows
    <3>. QED BY <1>6, <3>1, <3>2, <3>3, <3>4, <3>5, <3>6, <3>7, <3>8, <3>9 DEF WaitStates
  <2>c. n = "INVALID" => Steady(g.conn) BY <1>6, <2>a, <2>b DEF Steady, WaitStates
  <2>d. n \in Reached => Goto(g.conn, n) \in SMTP_connection /\ Steady(Goto(g.conn, n))
    <3>1. SUFFICES ASSUME n \in Reached
                   PROVE  Goto(g.conn, n) \in SMTP_connection /\ Steady(Goto(g.conn, n))
      OBVIOUS
    <3>2. n \in States BY <3>1, Names
    <3>3. /\ Goto(g.conn, n) \in SMTP_connection /\ Goto(g.conn, n).state = n
          /\ Goto(g.conn, n).messages = c.messages /\ Goto(g.conn, n).last_event = g.event
          /\ Goto(g.conn, n).current_rcpt = c.current_rcpt
          /\ Goto(g.conn, n).current_msg_line = c.current_msg_line
      BY <2>a, <3>2, GotoTypes
    <3>. QED BY <2>b, <3>1, <3>3 DEF Steady
  <2>. QED BY <2>a, <2>b, <2>c, <2>d DEF Kept
<1>. QED BY <1>1, <1>2, <1>3, <1>4, <1>5, <1>6 DEF Steady, SteadyAs, Reached, States, WaitStates

----------------------------------------------------------------------------
\* What holds whatever happens.

\* The queue without its head has no more in it.
LEMMA PoppedInPlace ==
  ASSUME NEW c \in SMTP_connection, OnePlace(c), NEW d \in SMTP_connection,
         d.messages = c.messages \/ d.messages = Popped(c).messages
  PROVE  OnePlace(d)
<1>0. c.messages \in Seq(Mails) BY DEF SMTP_connection
<1>1. CASE d.messages = c.messages BY <1>1 DEF OnePlace
<1>2. CASE c.messages # << >> /\ d.messages = Tail(c.messages)
  <2>1. /\ Len(c.messages) \in Nat /\ DOMAIN c.messages = 1 .. Len(c.messages)
        /\ DOMAIN d.messages = 1 .. (Len(c.messages) - 1)
        /\ \A i \in 1 .. (Len(c.messages) - 1) : d.messages[i] = c.messages[i + 1]
    BY <1>0, <1>2, HeadTailProperties, LenProperties
  <2>2. \A i \in DOMAIN d.messages : i \in Int /\ i + 1 \in DOMAIN c.messages BY <2>1
  <2>3. \A i \in DOMAIN d.messages : d.messages[i] \notin files BY <2>1, <2>2 DEF OnePlace
  <2>4. ASSUME NEW i \in DOMAIN d.messages, NEW j \in DOMAIN d.messages,
               d.messages[i] = d.messages[j]
        PROVE  i = j
    <3>1. c.messages[i + 1] = c.messages[j + 1] BY <2>1, <2>4
    <3>2. i + 1 = j + 1 BY <2>2, <3>1 DEF OnePlace
    <3>. QED BY <2>2, <3>2
  <2>. QED BY <2>3, <2>4 DEF OnePlace
<1>. QED BY <1>1, <1>2, PoppedTypes

LEMMA ClockedTypes ==
  ASSUME NEW el \in Elapsed, NEW c, NEW e
  PROVE  Clocked(c, e, el) \in Elapsed /\ [el EXCEPT !.connect = FALSE] \in Elapsed
BY DEF Clocked, Elapsed, Limits

\* Advance, from any connection that is steady.
LEMMA AdvanceAlways ==
  ASSUME NEW c \in SMTP_connection, Steady(c), OnePlace(c), NEW el \in Elapsed,
         NEW tcp \in Net, worker = "runs", skipping \in BOOLEAN,
         c.state = "RSET_SENDED" => skipping,
         tcp.status # "none" => c.fd = "open",
         tcp.status # "up" => tcp.cmds = << >>,
         tcp.status \in {"none", "reset"} => tcp.replies = << >>,
         Advance(c, el, tcp), files' = files
  PROVE  /\ worker' \in {"runs", "exited"} /\ conn' \in SMTP_connection \union {NoConn}
         /\ elapsed' \in Elapsed /\ net' \in Net /\ skipping' \in BOOLEAN
         /\ Wired'
         /\ conn' # NoConn => /\ Steady(conn') /\ OnePlace(conn)'
                              /\ conn'.state = "RSET_SENDED" => skipping'
<1>. DEFINE g == generate_event(c, el)
            n == client_fsm_step(c.state, g.event)
<1>1. Kept(c, g, n) BY StepKept
<1>2. OnePlace(g.conn) BY <1>1, PoppedInPlace DEF Kept
<1>3. NoNet \in Net /\ NoNet.status = "none" /\ NoNet.cmds = << >> /\ NoNet.replies = << >>
  BY DEF NoNet, Net
<1>4. elapsed' = Clocked(c, g.event, el) BY DEF Advance
<1>5. elapsed' \in Elapsed BY <1>4, ClockedTypes
<1>6. CASE n = "INVALID" /\ worker' = "exited" /\ conn' = g.conn /\ net' = NoNet /\ skipping' = skipping
  <2>1. conn' \in SMTP_connection /\ Steady(conn') BY <1>1, <1>6 DEF Kept
  <2>2. OnePlace(conn)' BY <1>2, <1>6 DEF OnePlace
  <2>3. Wired' BY <1>3, <1>6 DEF Wired
  <2>4. conn'.state = "RSET_SENDED" => skipping' BY <1>1, <1>6 DEF Kept
  <2>. QED BY <1>3, <1>5, <1>6, <2>1, <2>2, <2>3, <2>4
<1>7. CASE n = "CLOSED_CONNECTION" /\ Delete /\ worker' = worker
  BY <1>3, <1>5, <1>7 DEF Delete, Wired
<1>8. CASE /\ n \notin {"INVALID", "CLOSED_CONNECTION"}
           /\ conn' = Goto(g.conn, n) /\ net' = tcp /\ worker' = worker
           /\ skipping' = IF g.event = "RSET" THEN TRUE ELSE skipping /\ c.state # "GET_NEXT_MESSAGE"
  <2>1. n \in Reached /\ n \in States BY <1>1, <1>8, Names DEF Kept
  <2>2. conn' \in SMTP_connection /\ Steady(conn') BY <1>1, <1>8, <2>1 DEF Kept
  <2>3. /\ conn'.messages = g.conn.messages /\ conn'.state = n /\ conn'.fd = c.fd
    BY <1>1, <1>8, <2>1, GotoTypes DEF Kept
  <2>4. OnePlace(conn)' BY <1>2, <2>3 DEF OnePlace
  <2>5. Wired' BY <1>8, <2>2, <2>3, NoConnAssumption DEF Wired, HasSocket
  <2>6. conn'.state = "RSET_SENDED" => skipping' BY <1>1, <1>8, <2>3 DEF Kept
  <2>7. skipping' \in BOOLEAN BY <1>8
  <2>. QED BY <1>5, <1>8, <2>2, <2>4, <2>5, <2>6, <2>7
<1>. QED BY <1>6, <1>7, <1>8 DEF Advance, Goto

LEMMA ConnFields ==
  ASSUME NEW c \in SMTP_connection
  PROVE  /\ c.state \in States /\ c.last_event \in Events /\ c.messages \in Seq(Mails)
         /\ c.current_rcpt \in Nat /\ c.current_msg_line \in Nat
         /\ c.current_connection_num \in Nat /\ c.fd \in {"open", "none"}
         /\ c.messages_in \in Seq(Command) /\ c.buffer_in \in Seq(Command)
         /\ c.messages_out \in Seq(Reply) /\ c # NoConn
BY NoConnAssumption DEF SMTP_connection

LEMMA NetFields ==
  ASSUME NEW t \in Net
  PROVE  /\ t.status \in {"none", "up", "fin", "reset"}
         /\ t.cmds \in Seq(Command) /\ t.replies \in Seq(Reply)
BY DEF Net

LEMMA NetTypes ==
  /\ NoNet \in Net /\ NoNet.status = "none" /\ NoNet.cmds = << >> /\ NoNet.replies = << >>
  /\ \A up \in BOOLEAN :
       /\ Connected(up) \in Net
       /\ Connected(up).status = IF up THEN "up" ELSE "none"
       /\ Connected(up).cmds = << >> /\ Connected(up).replies = << >>
<1>0. << >> \in Seq(Command) /\ << >> \in Seq(Reply) OBVIOUS
<1>1. NoNet \in Net /\ NoNet.status = "none" /\ NoNet.cmds = << >> /\ NoNet.replies = << >>
  BY <1>0 DEF NoNet, Net
<1>2. LET t == [NoNet EXCEPT !.status = "up"] IN
      t \in Net /\ t.status = "up" /\ t.cmds = << >> /\ t.replies = << >>
  BY <1>0 DEF NoNet, Net
<1>. QED BY <1>1, <1>2 DEF Connected

LEMMA ReinitTypes ==
  ASSUME NEW c \in SMTP_connection, NEW up \in BOOLEAN
  PROVE  LET d == SMTP_connection_reinit(c, up) IN
         /\ d \in SMTP_connection /\ d.state = "INIT" /\ d.messages = c.messages
         /\ d.fd = IF up THEN "open" ELSE "none"
         /\ d.messages_in = c.messages_in /\ d.buffer_in = c.buffer_in
         /\ d.messages_out = c.messages_out
<1>1. c.current_connection_num + 1 \in Nat /\ "INIT" \in States /\ 0 \in Nat
  BY ConnFields, Names
<1>2. Fd(up) \in {"open", "none"} /\ Fd(up) = IF up THEN "open" ELSE "none" BY DEF Fd
<1>. QED BY <1>1, <1>2 DEF SMTP_connection_reinit, SMTP_connection

LEMMA NewHostType == NewHost \in Host BY DEF NewHost, Host

\* What is queued to be sent and what has arrived.
LEMMA FlowTypes ==
  ASSUME TypeOK, conn # NoConn
  PROVE  /\ conn \in SMTP_connection
         /\ Outgoing \in Seq(Command) /\ Received \in Seq(Reply) /\ Underway \in Seq(Command)
<1>1. conn \in SMTP_connection /\ net \in Net BY DEF TypeOK
<1>2. /\ conn.messages_in \in Seq(Command) /\ conn.buffer_in \in Seq(Command)
      /\ conn.messages_out \in Seq(Reply) /\ net.cmds \in Seq(Command) /\ net.replies \in Seq(Reply)
  BY <1>1, ConnFields, NetFields
<1>3. << >> \in Seq(Command) OBVIOUS
<1>4. Outgoing \in Seq(Command) BY <1>2, <1>3, ConcatProperties DEF Outgoing
<1>5. Received \in Seq(Reply) BY <1>2, ConcatProperties DEF Received
<1>6. Underway \in Seq(Command) BY <1>2, <1>4, ConcatProperties DEF Underway
<1>. QED BY <1>1, <1>4, <1>5, <1>6

\* Only the peer's queues and the descriptor change.
LEMMA PeerKeeps ==
  ASSUME NEW c \in SMTP_connection, NEW d \in SMTP_connection,
         d.state = c.state, d.messages = c.messages, d.last_event = c.last_event,
         d.current_rcpt = c.current_rcpt, d.current_msg_line = c.current_msg_line
  PROVE  /\ Steady(c) => Steady(d)
         /\ OnePlace(c) => OnePlace(d)
BY DEF Steady, OnePlace

LEMMA SelectAlways ==
  ASSUME Always, worker = "runs", ReceiveFails \/ SelectStep \/ SendFails
  PROVE  Always'
<1>. USE NetTypes
<1>0. TypeOK /\ Wired /\ HasSocket /\ conn # NoConn /\ net.status # "none"
      /\ UNCHANGED << worker, files, elapsed, host, delivered, verdict, skipping >>
  BY DEF Always, ReceiveFails, SelectStep, SendFails, HasSocket
<1>1. conn \in SMTP_connection /\ Outgoing \in Seq(Command) /\ Received \in Seq(Reply)
  BY <1>0, FlowTypes
<1>2. net \in Net BY <1>0 DEF TypeOK
<1>3. net.cmds \o Outgoing \in Seq(Command)
  BY <1>1, <1>2, NetFields, ConcatProperties
<1>4. /\ conn' \in SMTP_connection
      /\ conn'.state = conn.state /\ conn'.messages = conn.messages
      /\ conn'.last_event = conn.last_event
      /\ conn'.current_rcpt = conn.current_rcpt /\ conn'.current_msg_line = conn.current_msg_line
  <2>0. << >> \in Seq(Command) /\ "none" \in {"open", "none"} OBVIOUS
  <2>1. CASE ReceiveFails BY <1>1, <2>0, <2>1 DEF ReceiveFails, SMTP_connection
  <2>2. CASE conn' = [conn EXCEPT !.messages_out = Received]
    BY <1>1, <2>0, <2>2 DEF SMTP_connection
  <2>3. CASE conn' = [conn EXCEPT !.messages_out = Received, !.messages_in = << >>,
                                  !.buffer_in = << >>]
    BY <1>1, <2>0, <2>3 DEF SMTP_connection
  <2>4. CASE conn' = [conn EXCEPT !.messages_out = Received, !.messages_in = << >>,
                                  !.buffer_in = Outgoing, !.fd = "none"]
    BY <1>1, <2>0, <2>4 DEF SMTP_connection
  <2>. QED BY <2>1, <2>2, <2>3, <2>4 DEF SelectStep, SendFails
<1>5. net' \in Net /\ Wired'
  <2>1. CASE ReceiveFails BY <2>1 DEF ReceiveFails, Wired
  <2>2. CASE SelectStep
    <3>1. conn'.fd = "open" /\ net'.status \in {"up", "fin", "reset"} /\ worker' = "runs"
      BY <1>0, <1>1, <1>2, <2>2 DEF SelectStep, HasSocket, SMTP_connection, Net
    <3>2. net' \in Net BY <1>2, <1>3, <2>2 DEF SelectStep, Net
    <3>3. net'.replies = << >> /\ (net'.status # "up" => net'.cmds = << >>)
      BY <1>0, <1>2, <2>2 DEF SelectStep, Net, Wired
    <3>. QED BY <1>4, <3>1, <3>2, <3>3, NoConnAssumption DEF Wired, HasSocket
  <2>3. CASE SendFails BY <2>3 DEF SendFails, Wired
  <2>. QED BY <2>1, <2>2, <2>3
<1>6. troubles' \in 0 .. MaxTroubles /\ pc' \in {"select", "step"} /\ rough' \in BOOLEAN
  <2>1. troubles' = troubles \/ (troubles < MaxTroubles /\ troubles' = troubles + 1)
    BY DEF ReceiveFails, SelectStep, SendFails, Trouble
  <2>2. troubles' \in 0 .. MaxTroubles BY <1>0, <2>1, ClientAssumption DEF TypeOK
  <2>. QED BY <1>0, <2>2 DEF TypeOK, ReceiveFails, SelectStep, SendFails
<1>7. TypeOK' BY <1>0, <1>4, <1>5, <1>6 DEF TypeOK
<1>8. Steady(conn') BY <1>0, <1>1, <1>4, PeerKeeps DEF Always
<1>9. OnePlace(conn)' BY <1>0, <1>1, <1>4 DEF Always, OnePlace
<1>. QED BY <1>0, <1>4, <1>5, <1>7, <1>8, <1>9 DEF Always

LEMMA StepAlways ==
  ASSUME Always, worker = "runs",
         StepNothing \/ SelectNothing \/ StepGiveUp \/ Step \/ \E up \in BOOLEAN : StepReconnect(up)
  PROVE  Always'
<1>. USE NetTypes
<1>1. CASE StepNothing \/ SelectNothing
  BY <1>1 DEF StepNothing, SelectNothing, Always, TypeOK, Wired, HasSocket, Steady, OnePlace
<1>2. CASE StepGiveUp BY <1>2 DEF StepGiveUp, Delete, Always, TypeOK, Wired, HasSocket
<1>3. CASE Step
  <2>1. /\ conn \in SMTP_connection /\ net \in Net /\ elapsed \in Elapsed /\ skipping \in BOOLEAN
        /\ Steady(conn) /\ OnePlace(conn) /\ (conn.state = "RSET_SENDED" => skipping)
        /\ Advance(conn, elapsed, net) /\ files' = files /\ pc' = "select"
        /\ UNCHANGED << files, troubles, host, delivered, verdict, rough >>
    BY <1>3 DEF Step, Always, TypeOK, Elapsed
  <2>2. /\ net.status # "none" => conn.fd = "open"
        /\ net.status # "up" => net.cmds = << >>
        /\ net.status \in {"none", "reset"} => net.replies = << >>
    BY DEF Always, Wired, HasSocket
  <2>3. /\ worker' \in {"runs", "exited"} /\ conn' \in SMTP_connection \union {NoConn}
        /\ elapsed' \in Elapsed /\ net' \in Net /\ skipping' \in BOOLEAN
        /\ Wired'
        /\ conn' # NoConn => /\ Steady(conn') /\ OnePlace(conn)'
                             /\ conn'.state = "RSET_SENDED" => skipping'
    BY <2>1, <2>2, AdvanceAlways
  <2>4. TypeOK' BY <2>1, <2>3 DEF Always, TypeOK, Elapsed
  <2>. QED BY <2>3, <2>4 DEF Always
<1>4. ASSUME NEW up \in BOOLEAN, StepReconnect(up) PROVE Always'
  <2>. DEFINE c == SMTP_connection_reinit(conn, up)
              el == [elapsed EXCEPT !.connect = FALSE]
  <2>1. /\ conn \in SMTP_connection /\ elapsed \in Elapsed /\ skipping \in BOOLEAN
        /\ OnePlace(conn)
        /\ Advance(c, el, Connected(up)) /\ files' = files /\ pc' = "select" /\ host' = NewHost
        /\ UNCHANGED << files, troubles, delivered, verdict, rough >>
    BY <1>4 DEF StepReconnect, Always, TypeOK, Elapsed
  <2>2. /\ c \in SMTP_connection /\ c.state = "INIT" /\ c.messages = conn.messages
        /\ c.fd = IF up THEN "open" ELSE "none"
    BY <2>1, ReinitTypes
  <2>3. el \in Elapsed BY <2>1, ClockedTypes
  <2>4. Steady(c) BY <2>2, Names DEF Steady, SteadyAs, InTransaction, InText
  <2>5. OnePlace(c) BY <2>1, <2>2 DEF OnePlace
  <2>. HIDE DEF c, el
  <2>6. /\ worker' \in {"runs", "exited"} /\ conn' \in SMTP_connection \union {NoConn}
        /\ elapsed' \in Elapsed /\ net' \in Net /\ skipping' \in BOOLEAN
        /\ Wired'
        /\ conn' # NoConn => /\ Steady(conn') /\ OnePlace(conn)'
                             /\ conn'.state = "RSET_SENDED" => skipping'
    BY <2>1, <2>2, <2>3, <2>4, <2>5, AdvanceAlways
  <2>7. TypeOK' BY <2>1, <2>6, NewHostType DEF Always, TypeOK, Elapsed
  <2>. QED BY <2>6, <2>7 DEF Always
<1>. QED BY <1>1, <1>2, <1>3, <1>4

\* The mail that is loaded was in no queue.
LEMMA LoadAlways ==
  ASSUME Always, worker = "runs", NEW m \in Mails,
         \/ \E parsed \in BOOLEAN :
              LoadToOpen(m, parsed) \/ \E up \in BOOLEAN : LoadToNew(m, parsed, up)
         \/ LookupFails(m)
  PROVE  Always'
<1>1. CASE LoadToOpen(m, TRUE)
  <2>. DEFINE q == Append(conn.messages, m)
  <2>1. /\ conn \in SMTP_connection /\ conn # NoConn /\ m \in files /\ files' = files \ {m}
        /\ conn' = [conn EXCEPT !.messages = q]
        /\ UNCHANGED << worker, troubles, pc, elapsed, net, host, delivered, verdict, skipping, rough >>
        /\ Steady(conn) /\ OnePlace(conn) /\ TypeOK /\ Wired
    BY <1>1 DEF LoadToOpen, Always, TypeOK
  <2>2. /\ conn.messages \in Seq(Mails) /\ Len(conn.messages) \in Nat
        /\ DOMAIN conn.messages = 1 .. Len(conn.messages)
    BY <2>1, ConnFields, LenProperties
  <2>3. /\ q \in Seq(Mails) /\ q # << >> /\ DOMAIN q = 1 .. (Len(conn.messages) + 1)
        /\ \A i \in 1 .. Len(conn.messages) : q[i] = conn.messages[i]
        /\ q[Len(conn.messages) + 1] = m
    BY <2>2, AppendProperties, LenProperties
  <2>. HIDE DEF q
  <2>4. /\ conn' \in SMTP_connection /\ conn'.messages = q /\ conn'.state = conn.state
        /\ conn'.last_event = conn.last_event /\ conn'.current_rcpt = conn.current_rcpt
        /\ conn'.current_msg_line = conn.current_msg_line /\ conn'.fd = conn.fd
    BY <2>1, <2>3 DEF SMTP_connection
  <2>5. Steady(conn') BY <2>1, <2>3, <2>4 DEF Steady, SteadyAs
  <2>6. \A i \in DOMAIN conn.messages : conn.messages[i] # m /\ conn.messages[i] \notin files
    BY <2>1 DEF OnePlace
  <2>7. OnePlace(conn)'
    <3>1. \A i \in DOMAIN q : q[i] \notin files' BY <2>1, <2>2, <2>3, <2>6
    <3>2. ASSUME NEW i \in DOMAIN q, NEW j \in DOMAIN q, q[i] = q[j] PROVE i = j
      <4>1. CASE i \in DOMAIN conn.messages /\ j \in DOMAIN conn.messages
        BY <2>1, <2>2, <2>3, <3>2, <4>1 DEF OnePlace
      <4>2. CASE i \notin DOMAIN conn.messages \/ j \notin DOMAIN conn.messages
        <5>1. i = Len(conn.messages) + 1 \/ i \in DOMAIN conn.messages BY <2>2, <2>3
        <5>2. j = Len(conn.messages) + 1 \/ j \in DOMAIN conn.messages BY <2>2, <2>3
        <5>. QED BY <2>2, <2>3, <2>6, <3>2, <4>2, <5>1, <5>2
      <4>. QED BY <4>1, <4>2
    <3>. QED BY <2>4, <3>1, <3>2 DEF OnePlace
  <2>8. TypeOK' BY <2>1, <2>4 DEF TypeOK
  <2>9. Wired' BY <2>1, <2>4, NoConnAssumption DEF Wired, HasSocket
  <2>10. conn'.state = "RSET_SENDED" => skipping' BY <2>1, <2>4 DEF Always
  <2>. QED BY <2>5, <2>7, <2>8, <2>9, <2>10 DEF Always
<1>2. ASSUME NEW parsed \in BOOLEAN, NEW up \in BOOLEAN, LoadToNew(m, parsed, up) PROVE Always'
  <2>. DEFINE q == IF parsed THEN << m >> ELSE << >>
  <2>1. /\ files' = files \ {m} /\ elapsed' = NoneElapsed /\ net' = Connected(up) /\ host' = NewHost
        /\ conn' = [SMTP_connection_init(up) EXCEPT !.messages = q]
        /\ worker = "runs"
        /\ UNCHANGED << worker, pc, troubles, delivered, verdict, skipping, rough >>
    BY <1>2 DEF LoadToNew
  <2>2. /\ conn' \in SMTP_connection /\ conn'.messages = q /\ conn'.state = "INIT"
        /\ conn'.fd = IF up THEN "open" ELSE "none"
    <3>1. q \in Seq(Mails) /\ << >> \in Seq(Command) /\ << >> \in Seq(Reply) OBVIOUS
    <3>2. Fd(up) \in {"open", "none"} /\ Fd(up) = IF up THEN "open" ELSE "none" BY DEF Fd
    <3>3. "INIT" \in States /\ "NONE" \in Events BY Names
    <3>. QED BY <2>1, <3>1, <3>2, <3>3 DEF SMTP_connection_init, SMTP_connection
  <2>3. Steady(conn') BY <2>2, Names DEF Steady, SteadyAs, InTransaction, InText
  <2>4. OnePlace(conn)' BY <2>1, <2>2 DEF OnePlace
  <2>5. elapsed' \in Elapsed BY <2>1 DEF NoneElapsed, Elapsed
  <2>6. TypeOK' BY <2>1, <2>2, <2>5, NetTypes, NewHostType DEF Always, TypeOK, Elapsed
  <2>7. Wired' BY <2>1, <2>2, NetTypes, NoConnAssumption DEF Always, Wired, HasSocket
  <2>. QED BY <2>2, <2>3, <2>4, <2>6, <2>7 DEF Always
<1>3. CASE LoadToOpen(m, FALSE)
  <2>1. /\ files' = files \ {m}
        /\ UNCHANGED << conn, worker, troubles, pc, elapsed, net, host, delivered, verdict,
                        skipping, rough >>
    BY <1>3 DEF LoadToOpen
  <2>2. TypeOK' BY <2>1 DEF Always, TypeOK
  <2>3. Wired' BY <2>1 DEF Always, Wired, HasSocket
  <2>. QED BY <2>1, <2>2, <2>3 DEF Always, Steady, SteadyAs, OnePlace
<1>4. CASE LookupFails(m)
  <2>1. /\ conn = NoConn /\ m \in files /\ worker' = "crashed"
        /\ UNCHANGED << pc, files, conn, elapsed, net, host, troubles, delivered, verdict,
                        skipping, rough >>
    BY <1>4 DEF LookupFails
  <2>2. TypeOK' BY <2>1 DEF Always, TypeOK
  <2>3. Wired' BY <2>1 DEF Always, Wired, HasSocket
  <2>. QED BY <2>1, <2>2, <2>3 DEF Always
<1>. QED BY <1>1, <1>2, <1>3, <1>4

LEMMA HostFields ==
  ASSUME NEW h \in Host
  PROVE  /\ h.greeted \in BOOLEAN /\ h.hello \in BOOLEAN /\ h.rest \in BOOLEAN
         /\ h.mail \in Mails \union {NoMail} /\ h.rcpts \in Nat /\ h.text \in BOOLEAN
         /\ h.lines \in Nat /\ h.foreign \in BOOLEAN
BY DEF Host

\* Neither the host nor the network nor time touches the client's side.
LEMMA OutsideKeeps ==
  ASSUME Always, UNCHANGED << worker, files, conn, skipping >>, TypeOK', Wired'
  PROVE  Always'
BY DEF Always, Steady, SteadyAs, OnePlace

LEMMA EndedType ==
  ASSUME host \in Host
  PROVE  /\ Ended \in Host /\ Ended.mail = NoMail /\ Ended.rcpts = 0 /\ ~Ended.text
         /\ Ended.lines = 0 /\ ~Ended.foreign
         /\ Ended.greeted = host.greeted /\ Ended.hello = host.hello /\ Ended.rest = host.rest
BY DEF Ended, Host

LEMMA AnsweredType ==
  ASSUME host \in Host, NEW x \in Command, NEW class, NEW rest \in BOOLEAN
  PROVE  [Answered(x, class) EXCEPT !.rest = rest] \in Host
<1>1. x.mail \in Mails \union {NoMail} BY DEF Command
<1>2. host.rcpts + 1 \in Nat BY HostFields
<1>3. Answered(x, class) \in Host
  <2>1. [Ended EXCEPT !.hello = TRUE] \in Host BY EndedType DEF Host
  <2>2. [Ended EXCEPT !.mail = x.mail] \in Host BY <1>1, EndedType DEF Host
  <2>3. [host EXCEPT !.rcpts = @ + 1] \in Host BY <1>2 DEF Host
  <2>4. [host EXCEPT !.text = TRUE] \in Host BY DEF Host
  <2>. QED BY <2>1, <2>2, <2>3, <2>4, EndedType DEF Answered
<1>. QED BY <1>3 DEF Host

LEMMA HostAlways ==
  ASSUME Always, MailHost
  PROVE  Always'
<1>0. net \in Net /\ host \in Host /\ TypeOK /\ Wired BY DEF Always, TypeOK
<1>1. ASSUME NEW class \in Classes, Greet(class) PROVE Always'
  <2>1. [class |-> class, to |-> "GREETING"] \in Reply BY DEF Reply
  <2>2. Append(net.replies, [class |-> class, to |-> "GREETING"]) \in Seq(Reply)
    BY <1>0, <2>1, NetFields, AppendProperties
  <2>3. net' \in Net /\ net'.status = "up" BY <1>0, <1>1, <2>2 DEF Greet, Net
  <2>4. host' \in Host BY <1>0, <1>1 DEF Greet, Host
  <2>5. rough' \in BOOLEAN BY <1>0, <1>1 DEF Greet, TypeOK
  <2>6. /\ UNCHANGED << worker, pc, files, conn, elapsed, delivered, verdict, skipping >>
        /\ net.status = "up"
    BY <1>1 DEF Greet
  <2>a. troubles' \in 0 .. MaxTroubles
    <3>1. troubles' = troubles \/ (troubles < MaxTroubles /\ troubles' = troubles + 1)
      BY <1>1 DEF Greet, Trouble
    <3>. QED BY <1>0, <3>1, ClientAssumption DEF TypeOK
  <2>7. TypeOK' BY <1>0, <2>3, <2>4, <2>5, <2>6, <2>a DEF TypeOK
  <2>8. Wired' BY <1>0, <2>3, <2>6 DEF Wired, HasSocket
  <2>. QED BY <2>6, <2>7, <2>8, OutsideKeeps
<1>2. ASSUME NEW class \in Classes, NEW rest \in BOOLEAN, Serve(class, rest) PROVE Always'
  <2>. DEFINE x == Head(net.cmds)
  <2>1. /\ net.status = "up" /\ net.cmds # << >>
        /\ host' = [Answered(x, class) EXCEPT !.rest = rest]
        /\ net' = [net EXCEPT !.cmds = Tail(@),
                              !.replies = Append(@, [class |-> class, to |-> x.cmd])]
        /\ rough' = (rough \/ rest \/ ~Foreseen(x.cmd, class))
        /\ UNCHANGED << worker, pc, files, conn, elapsed, skipping >>
    BY <1>2 DEF Serve
  <2>2. x \in Command /\ Tail(net.cmds) \in Seq(Command)
    BY <1>0, <2>1, NetFields, HeadTailProperties
  <2>3. x.cmd \in Events /\ x.mail \in Mails \union {NoMail} BY <2>2 DEF Command
  <2>4. [class |-> class, to |-> x.cmd] \in Reply BY <2>3 DEF Reply
  <2>5. Append(net.replies, [class |-> class, to |-> x.cmd]) \in Seq(Reply)
    BY <1>0, <2>4, NetFields, AppendProperties
  <2>6. net' \in Net /\ net'.status = "up" BY <1>0, <2>1, <2>2, <2>5 DEF Net
  <2>7. host' \in Host BY <1>0, <2>1, <2>2, AnsweredType
  <2>8. troubles' \in 0 .. MaxTroubles
    <3>1. troubles' = troubles \/ (troubles < MaxTroubles /\ troubles' = troubles + 1)
      BY <1>2 DEF Serve, Trouble
    <3>. QED BY <1>0, <3>1, ClientAssumption DEF TypeOK
  <2>9. delivered' \in [Mails -> 0 .. 2]
    <3>1. \/ delivered' = delivered
          \/ delivered' = [delivered EXCEPT ![host.mail] = IF @ = 2 THEN 2 ELSE @ + 1]
      BY <1>2 DEF Serve
    <3>. QED BY <1>0, <3>1 DEF TypeOK
  <2>10. verdict' \in [Mails -> {"none", "accepted", "refused"}]
    <3>1. \/ verdict' = verdict
          \/ verdict' = [verdict EXCEPT ![host.mail] = "accepted"]
          \/ verdict' = [verdict EXCEPT ![x.mail] = "refused"]
      BY <1>2 DEF Serve
    <3>. QED BY <1>0, <3>1 DEF TypeOK
  <2>. HIDE DEF x
  <2>11. TypeOK' BY <1>0, <2>1, <2>6, <2>7, <2>8, <2>9, <2>10 DEF TypeOK
  <2>12. Wired' BY <1>0, <2>1, <2>6 DEF Wired, HasSocket
  <2>. QED BY <2>1, <2>11, <2>12, OutsideKeeps
<1>3. CASE TakeText
  <2>1. /\ net.status = "up" /\ net.cmds # << >> /\ net' = [net EXCEPT !.cmds = Tail(@)]
        /\ UNCHANGED << worker, troubles, pc, files, conn, elapsed, delivered, verdict, skipping, rough >>
    BY <1>3 DEF TakeText
  <2>2. Tail(net.cmds) \in Seq(Command) BY <1>0, <2>1, NetFields, HeadTailProperties
  <2>3. net' \in Net /\ net'.status = "up" BY <1>0, <2>1, <2>2 DEF Net
  <2>4. host' \in Host
    <3>1. host.lines + 1 \in Nat BY <1>0, HostFields
    <3>2. PICK z : host' = [host EXCEPT !.lines = @ + 1, !.foreign = @ \/ z # [cmd |-> "MSG_TEXT", mail |-> host.mail]]
      BY <1>3 DEF TakeText
    <3>. QED BY <1>0, <3>1, <3>2 DEF Host
  <2>5. TypeOK' BY <1>0, <2>1, <2>3, <2>4 DEF TypeOK
  <2>6. Wired' BY <1>0, <2>1, <2>3 DEF Wired, HasSocket
  <2>. QED BY <2>1, <2>5, <2>6, OutsideKeeps
<1>4. CASE SendRest
  <2>1. [class |-> "2XX", to |-> "EHLO"] \in Reply BY DEF Reply, Classes, Replies, Events
  <2>2. Append(net.replies, [class |-> "2XX", to |-> "EHLO"]) \in Seq(Reply)
    BY <1>0, <2>1, NetFields, AppendProperties
  <2>3. net' \in Net /\ net'.status = "up" /\ net.status = "up" BY <1>0, <1>4, <2>2 DEF SendRest, Net
  <2>4. host' \in Host BY <1>0, <1>4 DEF SendRest, Host
  <2>5. UNCHANGED << worker, troubles, pc, files, conn, elapsed, delivered, verdict, skipping, rough >>
    BY <1>4 DEF SendRest
  <2>6. TypeOK' BY <1>0, <2>3, <2>4, <2>5 DEF TypeOK
  <2>7. Wired' BY <1>0, <2>3, <2>5 DEF Wired, HasSocket
  <2>. QED BY <2>5, <2>6, <2>7, OutsideKeeps
<1>. QED BY <1>1, <1>2, <1>3, <1>4 DEF MailHost

LEMMA RestAlways ==
  ASSUME Always, Network \/ Time
  PROVE  Always'
<1>0. net \in Net /\ TypeOK /\ Wired BY DEF Always, TypeOK
<1>1. CASE Network
  <2>1. /\ troubles < MaxTroubles /\ troubles' = troubles + 1 /\ net.status \in {"up", "fin"}
        /\ UNCHANGED << worker, pc, files, conn, elapsed, host, delivered, verdict, skipping, rough >>
    BY <1>1 DEF Network, Fin, Reset, Trouble
  <2>2. troubles' \in 0 .. MaxTroubles BY <1>0, <2>1, ClientAssumption DEF TypeOK
  <2>3. /\ net' \in Net /\ net'.status \in {"fin", "reset"} /\ net'.cmds = << >>
        /\ net'.status = "reset" => net'.replies = << >>
    <3>0. << >> \in Seq(Command) /\ << >> \in Seq(Reply) OBVIOUS
    <3>1. CASE Fin BY <1>0, <3>0, <3>1 DEF Fin, Net
    <3>2. CASE Reset BY <3>0, <3>2 DEF Reset, NoNet, Net
    <3>. QED BY <1>1, <3>1, <3>2 DEF Network
  <2>4. TypeOK' BY <1>0, <2>1, <2>2, <2>3 DEF TypeOK
  <2>5. Wired' BY <1>0, <2>1, <2>3 DEF Wired, HasSocket
  <2>. QED BY <2>1, <2>4, <2>5, OutsideKeeps
<1>2. CASE Time
  <2>1. PICK limit \in Limits : Elapse(limit) BY <1>2 DEF Time
  <2>2. /\ elapsed' = [elapsed EXCEPT ![limit] = TRUE]
        /\ UNCHANGED << worker, pc, files, conn, net, host, troubles, delivered, verdict,
                        skipping, rough >>
    BY <2>1 DEF Elapse
  <2>3. TypeOK' BY <1>0, <2>2 DEF TypeOK
  <2>4. Wired' BY <1>0, <2>2 DEF Wired, HasSocket
  <2>. QED BY <2>2, <2>3, <2>4, OutsideKeeps
<1>. QED BY <1>1, <1>2

LEMMA InitAlways == Init => Always
<1>1. NoneElapsed \in [Limits -> BOOLEAN] BY DEF NoneElapsed
<1>2. [m \in Mails |-> 0] \in [Mails -> 0 .. 2] OBVIOUS
<1>3. 0 \in 0 .. MaxTroubles BY ClientAssumption
<1>. QED BY <1>1, <1>2, <1>3, NetTypes, NewHostType DEF Init, Always, TypeOK, Wired

LEMMA NextAlways ==
  ASSUME Always, [Next]_vars
  PROVE  Always'
<1>1. CASE Worker BY <1>1, SelectAlways, StepAlways DEF Worker
<1>2. CASE Load BY <1>2, LoadAlways DEF Load
<1>3. CASE MailHost BY <1>3, HostAlways
<1>4. CASE Network \/ Time BY <1>4, RestAlways
<1>5. CASE UNCHANGED vars
  BY <1>5 DEF vars, Always, TypeOK, Wired, HasSocket, Steady, SteadyAs, OnePlace
<1>. QED BY <1>1, <1>2, <1>3, <1>4, <1>5 DEF Next

\* The variables keep their types: no step reads the head of an empty queue, in
\* particular queue_peek in generate_event finds a mail wherever a command for one is
\* built, also after a lost connection and with stale replies in the peer.
THEOREM TypeCorrect == Spec => []TypeOK
<1>1. Spec => []Always BY InitAlways, NextAlways, PTL DEF Spec
<1>2. Always => TypeOK BY DEF Always
<1>. QED BY <1>1, <1>2, PTL

----------------------------------------------------------------------------
\* The dialogue: the worker's steps.

LEMMA FlowIs ==
  ASSUME TypeOK, conn # NoConn, conn.buffer_in = << >>
  PROVE  /\ conn \in SMTP_connection /\ Outgoing = conn.messages_in
         /\ Underway = net.cmds \o conn.messages_in
         /\ Underway \in Seq(Command) /\ Received \in Seq(Reply)
<1>1. conn \in SMTP_connection /\ net \in Net BY DEF TypeOK
<1>2. conn.messages_in \in Seq(Command) BY <1>1, ConnFields
<1>3. conn.buffer_in \o conn.messages_in = conn.messages_in BY <1>2, ConcatEmptySeq
<1>4. Outgoing = conn.messages_in BY <1>3 DEF Outgoing
<1>. QED BY <1>1, <1>4, FlowTypes DEF Underway

LEMMA ConcatHead ==
  ASSUME NEW S, NEW s \in Seq(S), NEW t \in Seq(S), s # << >>
  PROVE  /\ s \o t # << >> /\ (s \o t)[1] = s[1]
         /\ Head(s \o t) = Head(s) /\ Tail(s \o t) = Tail(s) \o t
OBVIOUS

\* What is in step stays so without the commands at the front.
LEMMA SuffixInStep ==
  ASSUME NEW s \in Seq(Command), NEW t \in Seq(Command), NEW state, NEW mail,
         CommandsAs(s \o t, state, mail)
  PROVE  CommandsAs(t, state, mail)
<1>1. Len(s) \in Nat /\ Len(t) \in Nat /\ DOMAIN t = 1 .. Len(t) OBVIOUS
<1>2. \A i \in 1 .. Len(t) : /\ (s \o t)[i + Len(s)] = t[i]
                            /\ i + Len(s) \in DOMAIN (s \o t)
                            /\ i < Len(t) <=> i + Len(s) < Len(s \o t)
  OBVIOUS
<1>. DEFINE u == s \o t
<1>3. CommandsAs(u, state, mail) OBVIOUS
<1>4. \A i \in DOMAIN t : /\ u[i + Len(s)] = t[i] /\ i + Len(s) \in DOMAIN u
                          /\ i < Len(t) <=> i + Len(s) < Len(u)
  BY <1>1, <1>2
<1>. HIDE DEF u
<1>5. ASSUME NEW i \in DOMAIN t
      PROVE  /\ t[i].cmd = "MSG_TEXT" <=> state \in InText \/ i < Len(t)
             /\ t[i].cmd = "MSG_TEXT" => state \in InText \union {"END_DATA_SENDED", "RSET_SENDED"}
             /\ t[i].cmd # "MSG_TEXT" => state = WaitsIn(t[i].cmd)
             /\ state \in InTransaction => t[i].mail = mail
  <2>. DEFINE k == i + Len(s)
  <2>1. u[k] = t[i] /\ k \in DOMAIN u /\ (i < Len(t) <=> k < Len(u)) BY <1>4
  <2>. HIDE DEF k
  <2>2. /\ u[k].cmd = "MSG_TEXT" <=> state \in InText \/ k < Len(u)
        /\ u[k].cmd = "MSG_TEXT" => state \in InText \union {"END_DATA_SENDED", "RSET_SENDED"}
        /\ u[k].cmd # "MSG_TEXT" => state = WaitsIn(u[k].cmd)
        /\ state \in InTransaction => u[k].mail = mail
    BY <1>3, <2>1 DEF CommandsAs
  <2>. QED BY <2>1, <2>2
<1>. QED BY <1>5, Zenon DEF CommandsAs

LEMMA NoneLeft ==
  ASSUME NEW a \in Nat, NEW b \in Nat, a # 0, a + b <= 1
  PROVE  b = 0
OBVIOUS

\* A command is queued.
LEMMA FlowSent ==
  ASSUME TypeOK, conn # NoConn, conn.buffer_in = << >>, NEW d \in SMTP_connection,
         d.messages_in = conn.messages_in, d.buffer_in = << >>,
         d.messages_out = conn.messages_out, d.fd = conn.fd,
         NEW e \in Events, NEW m \in Mails \union {NoMail}, NEW n \in Reached,
         conn' = Goto(Sends(d, e, m).conn, n), net' = net
  PROVE  /\ [cmd |-> e, mail |-> m] \in Command
         /\ Underway' = Append(Underway, [cmd |-> e, mail |-> m]) /\ Received' = Received
         /\ conn'.state = n /\ conn'.messages = d.messages /\ conn'.buffer_in = << >>
         /\ conn'.current_rcpt = d.current_rcpt /\ conn'.current_msg_line = d.current_msg_line
         /\ conn'.fd = conn.fd
<1>. DEFINE x == [cmd |-> e, mail |-> m]
            c == Sends(d, e, m).conn
<1>1. n \in States BY Names
<1>2. /\ c \in SMTP_connection /\ c.messages = d.messages /\ c.fd = d.fd
      /\ c.buffer_in = d.buffer_in /\ c.messages_out = d.messages_out
      /\ c.current_rcpt = d.current_rcpt /\ c.current_msg_line = d.current_msg_line
  BY SendsTypes
<1>3. x \in Command /\ c.messages_in = Append(d.messages_in, x) BY SendsAppends
<1>. HIDE DEF c, x
<1>4. /\ conn' \in SMTP_connection /\ conn'.state = n /\ conn'.messages = d.messages
      /\ conn'.messages_in = Append(conn.messages_in, x) /\ conn'.buffer_in = << >>
      /\ conn'.messages_out = conn.messages_out /\ conn'.fd = conn.fd
      /\ conn'.current_rcpt = d.current_rcpt /\ conn'.current_msg_line = d.current_msg_line
  <2>1. conn' = Goto(c, n) BY DEF c
  <2>. QED BY <1>1, <1>2, <1>3, <2>1, GotoTypes
<1>5. Received' = Received BY <1>4 DEF Received
<1>6. /\ net \in Net /\ net.cmds \in Seq(Command) /\ conn.messages_in \in Seq(Command)
      /\ conn'.messages_in \in Seq(Command)
  BY <1>4, FlowIs, NetFields, ConnFields DEF TypeOK
<1>7. Outgoing' = conn'.messages_in
  <2>1. << >> \o conn'.messages_in = conn'.messages_in BY <1>6, ConcatEmptySeq
  <2>. QED BY <1>4, <2>1 DEF Outgoing
<1>8. Underway' = net.cmds \o Append(conn.messages_in, x) BY <1>4, <1>7 DEF Underway
<1>9. Underway = net.cmds \o conn.messages_in BY FlowIs
<1>a. \A s, t \in Seq(Command) : \A y \in Command : s \o Append(t, y) = Append(s \o t, y)
  OBVIOUS
<1>b. /\ net.cmds \in Seq(Command) /\ conn.messages_in \in Seq(Command) /\ x \in Command
  BY <1>3, <1>6
<1>10. net.cmds \o Append(conn.messages_in, x) = Append(net.cmds \o conn.messages_in, x)
  BY <1>a, <1>b, Zenon
<1>11. Underway' = Append(Underway, x) BY <1>8, <1>9, <1>10, Zenon
<1>. QED BY <1>3, <1>4, <1>5, <1>11 DEF x

\* The first reply is taken and the others are thrown away.
LEMMA FlowTaken ==
  ASSUME TypeOK, conn # NoConn, conn.buffer_in = << >>, Len(Received) <= 1,
         NEW n \in Reached, conn' = Goto(TakeResponse(conn).conn, n), net' = net
  PROVE  /\ Underway' = Underway
         /\ conn.messages_out # << >> =>
              /\ TakeResponse(conn).event = EventOf(Received[1].class)
              /\ Received # << >> /\ Received' = << >>
         /\ conn.messages_out = << >> => Received' = Received /\ TakeResponse(conn).event = "NONE"
         /\ conn'.state = n /\ conn'.messages = conn.messages /\ conn'.buffer_in = << >>
         /\ conn'.current_rcpt = conn.current_rcpt
         /\ conn'.current_msg_line = conn.current_msg_line /\ conn'.fd = conn.fd
<1>0. conn \in SMTP_connection /\ net \in Net /\ n \in States BY Names DEF TypeOK
<1>1. /\ conn' \in SMTP_connection /\ conn'.state = n /\ conn'.messages = conn.messages
      /\ conn'.messages_in = conn.messages_in /\ conn'.buffer_in = << >>
      /\ conn'.messages_out = << >> /\ conn'.fd = conn.fd
      /\ conn'.current_rcpt = conn.current_rcpt /\ conn'.current_msg_line = conn.current_msg_line
  BY <1>0, TakeTypes, GotoTypes
<1>2. Underway' = Underway BY <1>1 DEF Underway, Outgoing
<1>3. net.replies \in Seq(Reply) /\ conn.messages_out \in Seq(Reply) BY <1>0, NetFields, ConnFields
<1>4. Received' = net.replies BY <1>1, <1>3, ConcatEmptySeq DEF Received
<1>5. conn.messages_out = << >> => Received = net.replies BY <1>3, ConcatEmptySeq DEF Received
<1>6. ASSUME conn.messages_out # << >>
      PROVE  /\ Received # << >> /\ net.replies = << >> /\ Received[1] = Head(conn.messages_out)
  <2>1. Len(conn.messages_out) \in Nat /\ Len(net.replies) \in Nat BY <1>3, LenProperties
  <2>2. Len(conn.messages_out) # 0 BY <1>3, <1>6, EmptySeq
  <2>3. Len(conn.messages_out \o net.replies) = Len(conn.messages_out) + Len(net.replies)
    BY <1>3, ConcatProperties
  <2>a. Len(conn.messages_out \o net.replies) <= 1 BY DEF Received
  <2>b. Len(conn.messages_out) + Len(net.replies) <= 1 BY <2>3, <2>a, Zenon
  <2>4. Len(net.replies) = 0 BY <2>1, <2>2, <2>b, NoneLeft, Zenon
  <2>5. net.replies = << >> BY <1>3, <2>4, EmptySeq
  <2>6. Received = conn.messages_out BY <1>3, <2>5, ConcatEmptySeq DEF Received
  <2>. QED BY <1>3, <1>6, <2>5, <2>6, HeadTailProperties
<1>. QED BY <1>0, <1>1, <1>2, <1>4, <1>5, <1>6, TakeTypes

LEMMA Waits ==
  /\ \A cmd : WaitsIn(cmd) \in WaitStates \union {"none"}
  /\ \A cmd : WaitsIn(cmd) = "END_DATA_SENDED" => cmd = "END_DATA"
  /\ WaitsIn("GREETING") = "INIT" /\ WaitsIn("EHLO") = "EHLO_SENDED"
  /\ WaitsIn("MAIL") = "MAIL_SENDED" /\ WaitsIn("RCPT") = "RCPT_SENDED"
  /\ WaitsIn("DATA") = "DATA_SENDED" /\ WaitsIn("RSET") = "RSET_SENDED"
  /\ WaitsIn("END_DATA") = "END_DATA_SENDED" /\ WaitsIn("QUIT") = "QUIT_SENDED"
  /\ WaitsIn("MSG_TEXT") = "none"
BY DEF WaitsIn, WaitStates

LEMMA WaitedFor ==
  ASSUME NEW cmd \in Events, NEW s \in WaitStates, s = WaitsIn(cmd)
  PROVE  \/ cmd = "EHLO" /\ s = "EHLO_SENDED"
         \/ cmd = "MAIL" /\ s = "MAIL_SENDED"
         \/ cmd = "RCPT" /\ s = "RCPT_SENDED"
         \/ cmd = "DATA" /\ s = "DATA_SENDED"
         \/ cmd = "RSET" /\ s = "RSET_SENDED"
         \/ cmd = "END_DATA" /\ s = "END_DATA_SENDED"
         \/ cmd = "QUIT" /\ s = "QUIT_SENDED"
<1>1. cmd # "GREETING" BY DEF Events, Replies
<1>2. s # "none" BY DEF WaitStates
<1>3. cmd \in {"EHLO", "MAIL", "RCPT", "DATA", "RSET", "END_DATA", "QUIT"}
  BY <1>1, <1>2 DEF WaitsIn
<1>. QED BY <1>3, Waits

\* A reply that has a row is one of those that make an event.
LEMMA ForeseenReply ==
  ASSUME NEW cmd, NEW class \in Classes, Foreseen(cmd, class)
  PROVE  class \in Replies /\ EventOf(class) = class
<1>1. \A s \in WaitStates : client_fsm_step(s, "ODD") = "INVALID"
  BY DEF WaitStates, client_fsm_step, client_fsm_trans_table, InitRows, EhloSendedRows,
         MailSendedRows, RcptSendedRows, DataSendedRows, RsetSendedRows, EndDataSendedRows,
         QuitSendedRows
<1>2. class # "ODD" BY <1>1 DEF Foreseen
<1>. QED BY <1>2 DEF Classes, EventOf

\* In the states that do not wait nothing has come back, and only text is under way.
LEMMA Idle ==
  ASSUME TypeOK, conn # NoConn, Dialogue, conn.state \notin WaitStates, conn.state # "none"
  PROVE  /\ Received = << >>
         /\ conn.state \notin InText => Underway = << >>
         /\ \A i \in DOMAIN Underway : Underway[i].cmd = "MSG_TEXT"
<1>0. Underway \in Seq(Command) /\ Received \in Seq(Reply) BY FlowTypes
<1>1. Received = << >> BY Waits DEF Dialogue, RepliesInStep, Foreseen
<1>2. \A i \in DOMAIN Underway : Underway[i].cmd = "MSG_TEXT"
  BY Waits DEF Dialogue, CommandsInStep, CommandsAs
<1>3. ASSUME conn.state \notin InText PROVE Underway = << >>
  <2>1. DOMAIN Underway = {}
    BY <1>2, <1>3 DEF Dialogue, CommandsInStep, CommandsAs, WaitStates
  <2>2. DOMAIN Underway = 1 .. Len(Underway) /\ Len(Underway) \in Nat BY <1>0, LenProperties
  <2>3. Len(Underway) = 0 BY <2>1, <2>2
  <2>. QED BY <1>0, <2>3, EmptySeq
<1>. QED BY <1>1, <1>2, <1>3

\* The client sends a command and waits for the answer to it.
LEMMA AskedInStep ==
  ASSUME TypeOK, conn # NoConn, Dialogue, conn.state \notin WaitStates, conn.state # "none",
         NEW x \in Command, NEW n, x.cmd # "MSG_TEXT", n = WaitsIn(x.cmd),
         n \in WaitStates \ {"INIT"},
         n \notin {"END_DATA_SENDED", "RSET_SENDED"} => Underway = << >>,
         n \in InTransaction => x.mail = Head(conn'.messages),
         n = "END_DATA_SENDED" => conn.state \in InText /\ conn'.messages = conn.messages,
         Underway' = Append(Underway, x), Received' = Received, conn'.state = n, host' = host,
         conn'.buffer_in = << >>
  PROVE  RepliesInStep' /\ CommandsInStep' /\ AnswerDue' /\ Greeted'
<1>0. Underway \in Seq(Command) BY FlowTypes
<1>1. Received = << >> /\ \A i \in DOMAIN Underway : Underway[i].cmd = "MSG_TEXT" BY Idle
<1>2. /\ Len(Underway) \in Nat /\ DOMAIN Underway = 1 .. Len(Underway)
      /\ DOMAIN Underway' = 1 .. (Len(Underway) + 1) /\ Len(Underway') = Len(Underway) + 1
      /\ \A i \in 1 .. Len(Underway) : Underway'[i] = Underway[i]
      /\ Underway'[Len(Underway) + 1] = x
  BY <1>0, AppendProperties, LenProperties
<1>3. Underway' # << >> BY <1>2
<1>4. n \notin InText /\ n \notin {"INIT", "none"} BY DEF WaitStates, InText
<1>5. RepliesInStep' BY <1>1 DEF RepliesInStep
<1>6. CommandsInStep'
  <2>1. SUFFICES ASSUME NEW i \in DOMAIN Underway'
                 PROVE  /\ Underway'[i].cmd = "MSG_TEXT" <=> i < Len(Underway')
                        /\ Underway'[i].cmd = "MSG_TEXT" => n \in {"END_DATA_SENDED", "RSET_SENDED"}
                        /\ Underway'[i].cmd # "MSG_TEXT" => n = WaitsIn(Underway'[i].cmd)
                        /\ n \in InTransaction => Underway'[i].mail = Head(conn'.messages)
    BY <1>4 DEF CommandsInStep, CommandsAs
  <2>2. CASE i = Len(Underway) + 1 BY <1>2, <2>2
  <2>3. CASE i \in DOMAIN Underway
    <3>1. Underway'[i] = Underway[i] /\ Underway[i].cmd = "MSG_TEXT" /\ i < Len(Underway')
      BY <1>1, <1>2, <2>3
    <3>2. Underway # << >> BY <1>2, <2>3
    <3>3. n \in {"END_DATA_SENDED", "RSET_SENDED"} BY <3>2
    <3>4. n \in InTransaction => Underway[i].mail = Head(conn'.messages)
      BY <2>3, <3>3 DEF Dialogue, CommandsInStep, CommandsAs, InTransaction, InText
    <3>. QED BY <3>1, <3>3, <3>4
  <2>. QED BY <1>2, <2>2, <2>3
<1>7. AnswerDue' BY <1>3 DEF AnswerDue
<1>8. Greeted'
  <2>1. conn.state # "INIT" BY DEF WaitStates
  <2>. QED BY <1>4, <2>1 DEF Greeted, Dialogue
<1>. QED BY <1>5, <1>6, <1>7, <1>8

LEMMA AskedDialogue ==
  ASSUME TypeOK, conn # NoConn, Dialogue, conn.state \notin WaitStates, conn.state # "none",
         NEW d \in SMTP_connection, d.messages_in = conn.messages_in, d.buffer_in = << >>,
         d.messages_out = conn.messages_out, d.fd = conn.fd,
         NEW e \in Events, NEW m \in Mails \union {NoMail}, NEW n \in Reached,
         conn' = Goto(Sends(d, e, m).conn, n), UNCHANGED << net, host, verdict, delivered, files >>,
         e # "MSG_TEXT", n = WaitsIn(e), n \in WaitStates \ {"INIT"},
         conn.state \in InText => n \in {"END_DATA_SENDED", "RSET_SENDED"},
         n = "END_DATA_SENDED" => conn.state \in InText,
         n \in {"RCPT_SENDED", "DATA_SENDED"} => conn.state = "SENDING_RCPT_OR_DATA",
         n \in {"RCPT_SENDED", "DATA_SENDED", "END_DATA_SENDED"} =>
           /\ d.messages = conn.messages /\ d.current_msg_line = conn.current_msg_line
           /\ d.current_rcpt = conn.current_rcpt + (IF n = "RCPT_SENDED" THEN 1 ELSE 0),
         n \in InTransaction => m = Head(d.messages),
         TakenMails, \A i \in DOMAIN d.messages : delivered[d.messages[i]] = 0
  PROVE  Dialogue' /\ TakenMails'
<1>. DEFINE x == [cmd |-> e, mail |-> m]
<1>0. conn.buffer_in = << >> BY DEF Dialogue
<1>1. /\ x \in Command /\ Underway' = Append(Underway, x) /\ Received' = Received
      /\ conn'.state = n /\ conn'.messages = d.messages /\ conn'.buffer_in = << >>
      /\ conn'.current_rcpt = d.current_rcpt /\ conn'.current_msg_line = d.current_msg_line
      /\ conn'.fd = conn.fd
  BY <1>0, FlowSent
<1>2. Received = << >> /\ (conn.state \notin InText => Underway = << >>) BY Idle
<1>3. RepliesInStep' /\ CommandsInStep' /\ AnswerDue' /\ Greeted'
  <2>1. x.cmd = e /\ x.mail = m OBVIOUS
  <2>. HIDE DEF x
  <2>. QED BY <1>1, <1>2, <2>1, AskedInStep
<1>. HIDE DEF x
<1>4. TextAgreed'
  <2>1. conn.state \notin {"END_DATA_SENDED", "DATA_SENDED", "RSET_SENDED"} BY DEF WaitStates
  <2>2. n \notin InText BY DEF InText, WaitStates
  <2>. QED BY <1>1, <1>2, <2>1, <2>2 DEF TextAgreed, Dialogue, Got
<1>5. TransactionAgreed'
  <2>1. n \notin {"SENDING_RCPT_OR_DATA"} \union InText BY DEF WaitStates, InText
  <2>2. ~Got("2XX")' /\ ~Got("3XX")' BY <1>1, <1>2 DEF Got
  <2>3. SUFFICES ASSUME Open' PROVE TransactionAgreed' BY DEF TransactionAgreed
  <2>4. n \in {"RCPT_SENDED", "DATA_SENDED", "END_DATA_SENDED"} /\ Pending'
    BY <1>1, <2>1, <2>2, <2>3 DEF Open
  <2>5. conn.state = "SENDING_RCPT_OR_DATA" \/ (conn.state \in InText /\ n = "END_DATA_SENDED")
    BY <2>4
  <2>6. Open /\ net.status = "up" BY <2>4, <2>5 DEF Open, Pending
  <2>7. /\ host.mail = Head(conn.messages)
        /\ host.rcpts + RcptUnderway = conn.current_rcpt
        /\ host.lines + LinesUnderway = conn.current_msg_line /\ ~host.foreign
    BY <2>6 DEF Dialogue, TransactionAgreed
  <2>8. RcptUnderway = 0 /\ RcptUnderway' = IF n = "RCPT_SENDED" THEN 1 ELSE 0
    BY <1>1, <2>4, <2>5 DEF RcptUnderway, InText
  <2>9. host.rcpts \in Nat /\ host.lines \in Nat BY HostFields DEF TypeOK
  <2>10. LinesUnderway' = LinesUnderway
    <3>1. Underway \in Seq(Command) BY FlowTypes
    <3>2. Len(Underway) \in Nat /\ Len(Underway') = Len(Underway) + 1
      BY <1>1, <3>1, LenProperties, AppendProperties
    <3>3. CASE n = "END_DATA_SENDED" BY <1>1, <2>1, <3>2, <3>3 DEF LinesUnderway
    <3>4. CASE n # "END_DATA_SENDED"
      <4>1. conn.state = "SENDING_RCPT_OR_DATA" BY <2>5, <3>4
      <4>. QED BY <1>1, <2>1, <3>4, <4>1 DEF LinesUnderway, InText
    <3>. QED BY <3>3, <3>4
  <2>11. host'.mail = Head(conn'.messages) BY <1>1, <2>4, <2>7
  <2>12. host'.rcpts + RcptUnderway' = conn'.current_rcpt BY <1>1, <2>4, <2>7, <2>8, <2>9
  <2>13. host'.lines + LinesUnderway' = conn'.current_msg_line /\ ~host'.foreign
    BY <1>1, <2>4, <2>7, <2>10
  <2>. QED BY <2>11, <2>12, <2>13 DEF TransactionAgreed
<1>6. WordGiven' BY <1>1, <1>2 DEF WordGiven, Got, WaitStates
<1>7. TakenMails' BY <1>1 DEF TakenMails
<1>. QED BY <1>1, <1>3, <1>4, <1>5, <1>6, <1>7 DEF Dialogue

\* Nothing that either side knows of the other changes.
LEMMA SameDialogue ==
  ASSUME Dialogue, TakenMails, conn # NoConn, UNCHANGED << host, verdict, delivered, files >>,
         net'.status = net.status, Received' = Received, Underway' = Underway,
         conn'.state = conn.state \/ (conn.state \in InText /\ conn'.state \in InText),
         conn'.messages = conn.messages, conn'.buffer_in = << >>,
         conn'.current_rcpt = conn.current_rcpt,
         conn'.current_msg_line = conn.current_msg_line, skipping => skipping'
  PROVE  Dialogue' /\ TakenMails'
<1>0. InText \intersect WaitStates = {} /\ InText \subseteq InTransaction
      /\ InText \intersect {"GET_NEXT_MESSAGE", "END_DATA_SENDED", "RSET_SENDED", "DATA_SENDED", "INIT",
                            "RCPT_SENDED", "MAIL_SENDED", "SENDING_RCPT_OR_DATA"} = {}
  BY DEF InText, WaitStates, InTransaction
<1>1. (Pending' <=> Pending) /\ \A class : Got(class)' <=> Got(class) BY DEF Pending, Got
<1>2. RepliesInStep' BY <1>0 DEF RepliesInStep, Dialogue, Foreseen
<1>3. CommandsInStep' BY <1>0, Waits DEF CommandsInStep, CommandsAs, Dialogue
<1>4. AnswerDue' BY <1>0, <1>1 DEF AnswerDue, Dialogue
<1>5. Greeted' BY <1>0 DEF Greeted, Dialogue
<1>6. TextAgreed' BY <1>0, <1>1 DEF TextAgreed, Dialogue
<1>7. TransactionAgreed'
  <2>1. (Open' <=> Open) BY <1>0, <1>1 DEF Open
  <2>2. RcptUnderway' = RcptUnderway BY <1>0, <1>1 DEF RcptUnderway
  <2>3. LinesUnderway' = LinesUnderway BY <1>0 DEF LinesUnderway
  <2>. QED BY <2>1, <2>2, <2>3 DEF TransactionAgreed, Dialogue
<1>8. WordGiven' BY <1>0, <1>1 DEF WordGiven, Dialogue
<1>9. TakenMails'
  <2>1. conn.state \in InText => conn.state # "GET_NEXT_MESSAGE" /\ conn.state # "END_DATA_SENDED"
    BY <1>0
  <2>2. SUFFICES ASSUME NEW m \in Mails, delivered'[m] # 0
                 PROVE  /\ delivered'[m] = 1 /\ m \notin files'
                        /\ conn' # NoConn => \A i \in DOMAIN conn'.messages : conn'.messages[i] = m =>
                             /\ i = 1
                             /\ \/ conn'.state = "GET_NEXT_MESSAGE"
                                \/ /\ conn'.state = "END_DATA_SENDED"
                                   /\ Got("2XX")' \/ (net'.status = "reset" /\ Received' = << >>)
    BY DEF TakenMails
  <2>3. delivered[m] = 1 /\ m \notin files BY <2>2 DEF TakenMails
  <2>4. ASSUME NEW i \in DOMAIN conn.messages, conn.messages[i] = m
        PROVE  i = 1 /\ \/ conn.state = "GET_NEXT_MESSAGE"
                        \/ /\ conn.state = "END_DATA_SENDED"
                           /\ Got("2XX") \/ (net.status = "reset" /\ Received = << >>)
    BY <2>2, <2>4 DEF TakenMails
  <2>. QED BY <1>1, <2>1, <2>3, <2>4
<1>. QED BY <1>2, <1>3, <1>4, <1>5, <1>6, <1>7, <1>8, <1>9 DEF Dialogue

\* A line of text is sent: the text is not answered.
LEMMA TextDialogue ==
  ASSUME TypeOK, conn # NoConn, Dialogue, TakenMails, conn.state \in InText,
         conn.messages # << >>,
         NEW d \in SMTP_connection, d.messages_in = conn.messages_in, d.buffer_in = << >>,
         d.messages_out = conn.messages_out, d.fd = conn.fd, d.messages = conn.messages,
         d.current_rcpt = conn.current_rcpt, d.current_msg_line = conn.current_msg_line + 1,
         conn' = Goto(Sends(d, "MSG_TEXT", Head(conn.messages)).conn, "MSG_TEXT_SENDED"),
         UNCHANGED << net, host, verdict, delivered, files >>
  PROVE  Dialogue' /\ TakenMails'
<1>. DEFINE m == Head(conn.messages)
            x == [cmd |-> "MSG_TEXT", mail |-> m]
<1>0. conn.buffer_in = << >> /\ conn.messages \in Seq(Mails) /\ conn \in SMTP_connection
  BY ConnFields DEF Dialogue, TypeOK
<1>a. m \in Mails \union {NoMail} BY <1>0, HeadTailProperties
<1>1. /\ x \in Command /\ Underway' = Append(Underway, x) /\ Received' = Received
      /\ conn'.state = "MSG_TEXT_SENDED" /\ conn'.messages = d.messages /\ conn'.buffer_in = << >>
      /\ conn'.current_rcpt = d.current_rcpt /\ conn'.current_msg_line = d.current_msg_line
      /\ conn'.fd = conn.fd
  BY <1>0, <1>a, FlowSent, Names
<1>2. conn.state \notin WaitStates \union {"none", "INIT"} BY DEF InText, WaitStates
<1>3. Received = << >> /\ \A i \in DOMAIN Underway : Underway[i].cmd = "MSG_TEXT" BY <1>2, Idle
<1>4. Underway \in Seq(Command) BY FlowTypes
<1>5. /\ Len(Underway) \in Nat /\ DOMAIN Underway = 1 .. Len(Underway)
      /\ DOMAIN Underway' = 1 .. (Len(Underway) + 1) /\ Len(Underway') = Len(Underway) + 1
      /\ \A i \in 1 .. Len(Underway) : Underway'[i] = Underway[i]
      /\ Underway'[Len(Underway) + 1] = x
  BY <1>1, <1>4, AppendProperties, LenProperties
<1>6. x.cmd = "MSG_TEXT" /\ x.mail = Head(conn.messages) OBVIOUS
<1>. HIDE DEF x, m
<1>7. conn'.state \in InText /\ conn'.state \notin WaitStates BY <1>1 DEF InText, WaitStates
<1>8. RepliesInStep' BY <1>1, <1>3 DEF RepliesInStep
<1>9. CommandsInStep'
  <2>1. \A i \in DOMAIN Underway' : Underway'[i].cmd = "MSG_TEXT" BY <1>3, <1>5, <1>6
  <2>2. \A i \in DOMAIN Underway' : Underway'[i].mail = Head(conn.messages)
    <3>1. \A i \in DOMAIN Underway : Underway[i].mail = Head(conn.messages)
      BY DEF Dialogue, CommandsInStep, CommandsAs, InTransaction
    <3>. QED BY <1>5, <1>6, <3>1
  <2>. QED BY <1>1, <1>7, <2>1, <2>2 DEF CommandsInStep, CommandsAs
<1>10. AnswerDue' BY <1>7 DEF AnswerDue
<1>11. Greeted' BY <1>1, <1>2 DEF Greeted, Dialogue
<1>12. TextAgreed' BY <1>1 DEF TextAgreed, Dialogue, InText
<1>13. TransactionAgreed'
  <2>1. Open /\ Open' BY <1>7 DEF Open
  <2>2. RcptUnderway = 0 /\ RcptUnderway' = 0 BY <1>1 DEF RcptUnderway, InText
  <2>3. LinesUnderway' = LinesUnderway + 1 /\ LinesUnderway \in Nat BY <1>5, <1>7 DEF LinesUnderway
  <2>4. host.rcpts \in Nat /\ host.lines \in Nat BY HostFields DEF TypeOK
  <2>. QED BY <1>1, <2>1, <2>2, <2>3, <2>4 DEF TransactionAgreed, Dialogue
<1>14. WordGiven' BY <1>1, <1>3 DEF WordGiven, Got
<1>15. TakenMails'
  <2>1. conn.state # "GET_NEXT_MESSAGE" /\ conn.state # "END_DATA_SENDED" BY DEF InText
  <2>. QED BY <1>1, <2>1 DEF TakenMails
<1>. QED BY <1>1, <1>8, <1>9, <1>10, <1>11, <1>12, <1>13, <1>14, <1>15 DEF Dialogue

\* Where a reply leads that has a row and does not end the connection.
LEMMA AnswerRows ==
  ASSUME NEW s \in WaitStates, NEW class \in Replies, NEW n \in Reached, n = client_fsm_step(s, class)
  PROVE  \/ s \in {"INIT", "EHLO_SENDED"} /\ n \in {"SENDING_EHLO", "EHLO_SENDED", "SENDING_MAIL_OR_QUIT"}
         \/ s \in {"MAIL_SENDED", "RCPT_SENDED"} /\ class = "2XX" /\ n = "SENDING_RCPT_OR_DATA"
         \/ /\ s \in {"MAIL_SENDED", "RCPT_SENDED", "END_DATA_SENDED"} /\ class = "4XX"
            /\ n = "SENDING_MAIL_OR_QUIT"
         \/ /\ s \in {"MAIL_SENDED", "RCPT_SENDED", "DATA_SENDED", "END_DATA_SENDED"}
            /\ class = "5XX" /\ n = "GET_NEXT_MESSAGE"
         \/ s = "END_DATA_SENDED" /\ class = "2XX" /\ n = "GET_NEXT_MESSAGE"
         \/ s = "DATA_SENDED" /\ class = "3XX" /\ n = "SENDING_MSG_TEXT_OR_END_MSG"
         \/ s = "RSET_SENDED" /\ n = "GET_NEXT_MESSAGE"
<1>0. class \in Events \ {"CLOSE_CONNECTION"} /\ n # "INVALID" /\ n # "CLOSED_CONNECTION"
  BY Names DEF Replies, Events
<1>1. CASE s = "INIT" BY <1>0, <1>1, Rows DEF InitRows, Replies
<1>2. CASE s = "EHLO_SENDED" BY <1>0, <1>2, Rows DEF EhloSendedRows, Replies
<1>3. CASE s = "MAIL_SENDED" BY <1>0, <1>3, Rows DEF MailSendedRows, Replies
<1>4. CASE s = "RCPT_SENDED" BY <1>0, <1>4, Rows DEF RcptSendedRows, Replies
<1>5. CASE s = "DATA_SENDED" BY <1>0, <1>5, Rows DEF DataSendedRows, Replies
<1>6. CASE s = "RSET_SENDED" BY <1>0, <1>6, Rows DEF RsetSendedRows, Replies
<1>7. CASE s = "END_DATA_SENDED" BY <1>0, <1>7, Rows DEF EndDataSendedRows, Replies
<1>8. CASE s = "QUIT_SENDED" BY <1>0, <1>8, Rows DEF QuitSendedRows, Replies
<1>. QED BY <1>1, <1>2, <1>3, <1>4, <1>5, <1>6, <1>7, <1>8 DEF WaitStates

\* The reply is there, and the client goes on.
LEMMA AnswerDialogue ==
  ASSUME TypeOK, conn # NoConn, Dialogue, TakenMails, Steady(conn),
         conn.state = "RSET_SENDED" => skipping,
         conn.state \in WaitStates, conn.messages_out # << >>,
         NEW n \in Reached, n = client_fsm_step(conn.state, TakeResponse(conn).event),
         conn' = Goto(TakeResponse(conn).conn, n),
         UNCHANGED << net, host, verdict, delivered, files, skipping >>
  PROVE  Dialogue' /\ TakenMails'
<1>. DEFINE class == Received[1].class
            s == conn.state
<1>0. conn.buffer_in = << >> /\ Len(Received) <= 1 BY DEF Dialogue, RepliesInStep
<1>1. /\ Underway' = Underway /\ TakeResponse(conn).event = EventOf(class)
      /\ Received # << >> /\ Received' = << >>
      /\ conn'.state = n /\ conn'.messages = conn.messages /\ conn'.buffer_in = << >>
      /\ conn'.current_rcpt = conn.current_rcpt
      /\ conn'.current_msg_line = conn.current_msg_line
  BY <1>0, FlowTaken
<1>2. Underway = << >> /\ host.greeted
  BY <1>1 DEF Dialogue, RepliesInStep, Greeted
<1>3. class \in Replies /\ TakeResponse(conn).event = class
  <2>1. Received \in Seq(Reply) BY FlowTypes
  <2>2. Received[1] \in Reply BY <1>1, <2>1, EmptySeq, ElementOfSeq
  <2>3. class \in Classes BY <2>2 DEF Reply
  <2>4. Foreseen(Received[1].to, class) BY <1>1 DEF Dialogue, RepliesInStep
  <2>. HIDE DEF class
  <2>. QED BY <1>1, <2>3, <2>4, ForeseenReply
<1>4. /\ Got(class) /\ ~Pending
      /\ \A k : Got(k) => k = class
      /\ \A k : ~Got(k)'
  BY <1>1 DEF Got, Pending
<1>. HIDE DEF class
<1>5. \/ s \in {"INIT", "EHLO_SENDED"} /\ n \in {"SENDING_EHLO", "EHLO_SENDED", "SENDING_MAIL_OR_QUIT"}
      \/ s \in {"MAIL_SENDED", "RCPT_SENDED"} /\ class = "2XX" /\ n = "SENDING_RCPT_OR_DATA"
      \/ /\ s \in {"MAIL_SENDED", "RCPT_SENDED", "END_DATA_SENDED"} /\ class = "4XX"
         /\ n = "SENDING_MAIL_OR_QUIT"
      \/ /\ s \in {"MAIL_SENDED", "RCPT_SENDED", "DATA_SENDED", "END_DATA_SENDED"}
         /\ class = "5XX" /\ n = "GET_NEXT_MESSAGE"
      \/ s = "END_DATA_SENDED" /\ class = "2XX" /\ n = "GET_NEXT_MESSAGE"
      \/ s = "DATA_SENDED" /\ class = "3XX" /\ n = "SENDING_MSG_TEXT_OR_END_MSG"
      \/ s = "RSET_SENDED" /\ n = "GET_NEXT_MESSAGE"
  BY <1>1, <1>3, AnswerRows
<1>6. RepliesInStep' BY <1>1 DEF RepliesInStep
<1>7. CommandsInStep'
  <2>1. DOMAIN Underway' = {} BY <1>1, <1>2
  <2>. QED BY <2>1 DEF CommandsInStep, CommandsAs
<1>8. AnswerDue' BY <1>1, <1>5 DEF AnswerDue, WaitStates
<1>9. Greeted' BY <1>1, <1>2 DEF Greeted, Dialogue
<1>10. TextAgreed' BY <1>1, <1>4, <1>5 DEF TextAgreed, Dialogue, InText
<1>11. TransactionAgreed'
  <2>1. SUFFICES ASSUME Open' PROVE TransactionAgreed' BY DEF TransactionAgreed
  <2>2. \/ s \in {"MAIL_SENDED", "RCPT_SENDED"} /\ class = "2XX" /\ n = "SENDING_RCPT_OR_DATA"
        \/ s = "DATA_SENDED" /\ class = "3XX" /\ n = "SENDING_MSG_TEXT_OR_END_MSG"
    BY <1>1, <1>4, <1>5, <2>1 DEF Open, InText
  <2>3. Open BY <1>4, <2>2 DEF Open
  <2>4. RcptUnderway = 0 /\ RcptUnderway' = 0 BY <1>1, <1>4, <2>2 DEF RcptUnderway
  <2>5. LinesUnderway = 0 /\ LinesUnderway' = 0
    <3>1. Len(Underway') = 0 BY <1>1, <1>2
    <3>. QED BY <1>1, <2>2, <3>1 DEF LinesUnderway, InText
  <2>. QED BY <1>1, <2>3, <2>4, <2>5 DEF TransactionAgreed, Dialogue
<1>12. WordGiven'
  <2>1. SUFFICES ASSUME n = "GET_NEXT_MESSAGE"
                 PROVE  skipping' \/ (conn'.messages # << >> /\ verdict'[Head(conn'.messages)] # "none")
    BY <1>1, <1>4 DEF WordGiven
  <2>2. CASE s = "RSET_SENDED" BY <2>2
  <2>3. CASE /\ s \in {"MAIL_SENDED", "RCPT_SENDED", "DATA_SENDED", "END_DATA_SENDED"}
             /\ class = "5XX" \/ (s = "END_DATA_SENDED" /\ class = "2XX")
    <3>1. s \in InTransaction /\ conn.messages # << >>
      BY <2>3 DEF InTransaction, Steady, SteadyAs
    <3>. QED BY <1>1, <1>4, <2>3, <3>1 DEF WordGiven, Dialogue
  <2>. QED BY <1>5, <2>1, <2>2, <2>3
<1>13. TakenMails'
  <2>1. SUFFICES ASSUME NEW m \in Mails, delivered[m] # 0,
                        NEW i \in DOMAIN conn.messages, conn.messages[i] = m
                 PROVE  i = 1 /\ n = "GET_NEXT_MESSAGE"
    BY <1>1 DEF TakenMails
  <2>2. i = 1 /\ \/ s = "GET_NEXT_MESSAGE"
                 \/ s = "END_DATA_SENDED" /\ Got("2XX")
    BY <1>1, <2>1 DEF TakenMails
  <2>. QED BY <1>4, <1>5, <2>2 DEF WaitStates
<1>. QED BY <1>1, <1>6, <1>7, <1>8, <1>9, <1>10, <1>11, <1>12, <1>13 DEF Dialogue

\* The peer's part of a connection.
SamePeer(c, d) ==
  /\ d.messages_in = c.messages_in /\ d.buffer_in = c.buffer_in
  /\ d.messages_out = c.messages_out /\ d.fd = c.fd

LEMMA PeerParts ==
  ASSUME NEW c \in SMTP_connection
  PROVE  /\ SamePeer(c, Popped(c)) /\ SamePeer(c, Restarted(c)) /\ SamePeer(c, Restarted(Popped(c)))
         /\ Restarted(Popped(c)).messages = Popped(c).messages /\ Restarted(c).messages = c.messages
<1>1. SamePeer(c, Popped(c)) BY DEF SamePeer, Popped, SMTP_connection
<1>2. SamePeer(c, Restarted(c)) /\ Restarted(c).messages = c.messages
  BY DEF SamePeer, Restarted, SMTP_connection
<1>3. \A d \in SMTP_connection : SamePeer(d, Restarted(d)) /\ Restarted(d).messages = d.messages
  BY DEF SamePeer, Restarted, SMTP_connection
<1>4. Popped(c) \in SMTP_connection BY PoppedTypes
<1>. QED BY <1>1, <1>2, <1>3, <1>4 DEF SamePeer

\* In the states that send no mail in the queue was taken, but the one that
\* GET_NEXT_MESSAGE is about to drop.
LEMMA Untaken ==
  ASSUME TypeOK, conn # NoConn, TakenMails
  PROVE  /\ conn.state \notin {"GET_NEXT_MESSAGE", "END_DATA_SENDED"} =>
              \A i \in DOMAIN conn.messages : delivered[conn.messages[i]] = 0
         /\ conn.state # "END_DATA_SENDED" =>
              \A i \in DOMAIN Popped(conn).messages : delivered[Popped(conn).messages[i]] = 0
<1>0. conn \in SMTP_connection /\ conn.messages \in Seq(Mails) BY ConnFields DEF TypeOK
<1>1. /\ Len(conn.messages) \in Nat /\ DOMAIN conn.messages = 1 .. Len(conn.messages)
      /\ \A i \in DOMAIN conn.messages : conn.messages[i] \in Mails
  BY <1>0, LenProperties, ElementOfSeq
<1>2. ASSUME conn.state \notin {"GET_NEXT_MESSAGE", "END_DATA_SENDED"},
             NEW i \in DOMAIN conn.messages
      PROVE  delivered[conn.messages[i]] = 0
  BY <1>1, <1>2 DEF TakenMails
<1>3. ASSUME conn.state # "END_DATA_SENDED", NEW i \in DOMAIN Popped(conn).messages
      PROVE  delivered[Popped(conn).messages[i]] = 0
  <2>1. CASE conn.messages = << >>
    <3>1. Popped(conn).messages = << >> BY <1>0, <2>1, PoppedTypes
    <3>. QED BY <1>3, <3>1
  <2>2. CASE conn.messages # << >>
    <3>1. Popped(conn).messages = Tail(conn.messages) BY <1>0, <2>2, PoppedTypes
    <3>2. /\ DOMAIN Tail(conn.messages) = 1 .. (Len(conn.messages) - 1)
          /\ \A j \in 1 .. (Len(conn.messages) - 1) : Tail(conn.messages)[j] = conn.messages[j + 1]
      BY <1>0, <2>2, HeadTailProperties, LenProperties
    <3>3. i \in Nat /\ i # 0 /\ i + 1 \in DOMAIN conn.messages BY <1>1, <1>3, <3>1, <3>2
    <3>4. Popped(conn).messages[i] = conn.messages[i + 1] BY <1>3, <3>1, <3>2
    <3>5. i + 1 # 1 BY <3>3
    <3>6. delivered[conn.messages[i + 1]] = 0 BY <1>1, <3>3, <3>5 DEF TakenMails
    <3>. QED BY <3>4, <3>6
  <2>. QED BY <2>1, <2>2
<1>. QED BY <1>2, <1>3

\* The states that send, one command each.
LEMMA SendingStep ==
  ASSUME Always, Dialogue, TakenMails, conn # NoConn,
         NEW g, NEW n, g = generate_event(conn, elapsed), n = client_fsm_step(conn.state, g.event),
         conn.state \notin WaitStates \union {"MSG_TEXT_SENDED"}
  PROVE  /\ n \in Reached
         /\ /\ conn' = Goto(g.conn, n) /\ UNCHANGED << net, host, verdict, delivered, files >>
            /\ skipping' = IF g.event = "RSET" THEN TRUE
                           ELSE skipping /\ conn.state # "GET_NEXT_MESSAGE"
            => Dialogue' /\ TakenMails' /\ conn'.fd = conn.fd
<1>. DEFINE c == conn
            after == /\ conn' = Goto(g.conn, n)
                     /\ UNCHANGED << net, host, verdict, delivered, files >>
                     /\ skipping' = IF g.event = "RSET" THEN TRUE
                                    ELSE skipping /\ conn.state # "GET_NEXT_MESSAGE"
<1>0. /\ TypeOK /\ conn \in SMTP_connection /\ Steady(conn) /\ elapsed \in Elapsed
      /\ conn.buffer_in = << >> /\ conn.messages \in Seq(Mails)
      /\ conn.current_rcpt \in Nat /\ conn.current_msg_line \in Nat
  BY ConnFields DEF Always, TypeOK, Elapsed, Dialogue
<1>1. Kept(conn, g, n) BY <1>0, StepKept
<1>2. n \in Reached /\ after => conn'.fd = conn.fd
  <2>1. \A k \in Reached : k \in States BY Names
  <2>. QED BY <1>1, <2>1, GotoTypes DEF Kept
<1>3. conn.state # "none" BY <1>0, ConnFields DEF States
<1>4. conn.messages # << >> => Head(conn.messages) \in Mails BY <1>0, HeadTailProperties
<1>5. /\ Popped(c) \in SMTP_connection /\ Restarted(c) \in SMTP_connection
      /\ Restarted(Popped(c)) \in SMTP_connection
  BY <1>0, PoppedTypes
<1>6. CASE conn.state = "SENDING_EHLO"
  <2>1. g = Sends(c, "EHLO", NoMail) /\ n = "EHLO_SENDED" BY <1>0, <1>6, Outcomes
  <2>2. n \in Reached /\ n = WaitsIn("EHLO") /\ n \in WaitStates \ {"INIT"} /\ "EHLO" \in Events
    BY <2>1, Names, Waits DEF WaitStates
  <2>3. \A i \in DOMAIN c.messages : delivered[c.messages[i]] = 0 BY <1>0, <1>6, Untaken
  <2>4. ASSUME after PROVE Dialogue' /\ TakenMails'
    BY <1>0, <1>3, <1>6, <2>1, <2>2, <2>3, <2>4, AskedDialogue DEF InText, InTransaction
  <2>. QED BY <1>2, <2>2, <2>4
<1>7. CASE conn.state = "GET_NEXT_MESSAGE"
  <2>. DEFINE d == Popped(c)
              r == Restarted(d)
  <2>0. /\ \A i \in DOMAIN d.messages : delivered[d.messages[i]] = 0
        /\ r.messages = d.messages /\ SamePeer(c, d) /\ SamePeer(c, r)
    BY <1>0, <1>7, Untaken, PeerParts
  <2>1. CASE n = "QUIT_SENDED" /\ g = Sends(d, "QUIT", NoMail)
    <3>1. n \in Reached /\ n = WaitsIn("QUIT") /\ n \in WaitStates \ {"INIT"} /\ "QUIT" \in Events
      BY <2>1, Names, Waits DEF WaitStates
    <3>2. ASSUME after PROVE Dialogue' /\ TakenMails'
      <4>. HIDE DEF d
      <4>. QED BY <1>0, <1>3, <1>5, <1>7, <2>0, <2>1, <3>1, <3>2, AskedDialogue DEF InText, InTransaction, SamePeer, d
    <3>. QED BY <1>2, <3>1, <3>2
  <2>2. CASE n = "MAIL_SENDED" /\ d.messages # << >> /\ g = Sends(r, "MAIL", Head(d.messages))
    <3>0. d \in SMTP_connection /\ r \in SMTP_connection BY <1>5
    <3>. HIDE DEF d, r
    <3>1. n \in Reached /\ n = WaitsIn("MAIL") /\ n \in WaitStates \ {"INIT"} /\ "MAIL" \in Events
      BY <2>2, Names, Waits DEF WaitStates
    <3>2. Head(d.messages) \in Mails BY <2>2, <3>0, ConnFields, HeadTailProperties
    <3>3. ASSUME after PROVE Dialogue' /\ TakenMails'
      BY <1>0, <1>3, <1>7, <2>0, <2>2, <3>0, <3>1, <3>2, <3>3, AskedDialogue DEF InText, InTransaction, SamePeer
    <3>. QED BY <1>2, <3>1, <3>3
  <2>. QED BY <1>0, <1>7, <2>1, <2>2, Outcomes
<1>8. CASE conn.state = "SENDING_MAIL_OR_QUIT"
  <2>. DEFINE r == Restarted(c)
  <2>0. /\ \A i \in DOMAIN c.messages : delivered[c.messages[i]] = 0
        /\ r.messages = c.messages /\ SamePeer(c, r)
    BY <1>0, <1>8, Untaken, PeerParts
  <2>1. CASE n = "QUIT_SENDED" /\ g = Sends(c, "QUIT", NoMail)
    <3>1. n \in Reached /\ n = WaitsIn("QUIT") /\ n \in WaitStates \ {"INIT"} /\ "QUIT" \in Events
      BY <2>1, Names, Waits DEF WaitStates
    <3>2. ASSUME after PROVE Dialogue' /\ TakenMails'
      BY <1>0, <1>3, <1>8, <2>0, <2>1, <3>1, <3>2, AskedDialogue DEF InText, InTransaction
    <3>. QED BY <1>2, <3>1, <3>2
  <2>2. CASE n = "SENDING_MAIL_OR_QUIT" /\ g = [event |-> "NONE", conn |-> c]
    <3>1. n \in Reached /\ n \in States BY <2>2, Names
    <3>2. ASSUME after PROVE Dialogue' /\ TakenMails'
      <4>1. conn' = Goto(conn, n) /\ n = conn.state BY <1>8, <2>2, <3>2
      <4>2. /\ conn'.state = conn.state /\ conn'.messages = conn.messages /\ conn'.buffer_in = << >>
            /\ conn'.messages_in = conn.messages_in /\ conn'.messages_out = conn.messages_out
            /\ conn'.current_rcpt = conn.current_rcpt /\ conn'.current_msg_line = conn.current_msg_line
        BY <1>0, <3>1, <4>1, GotoTypes
      <4>3. Received' = Received /\ Underway' = Underway
        BY <1>0, <3>2, <4>2 DEF Received, Underway, Outgoing
      <4>4. skipping => skipping' BY <1>8, <3>2
      <4>. QED BY <3>2, <4>2, <4>3, <4>4, SameDialogue
    <3>. QED BY <1>2, <3>1, <3>2
  <2>3. CASE n = "MAIL_SENDED" /\ c.messages # << >> /\ g = Sends(r, "MAIL", Head(c.messages))
    <3>0. r \in SMTP_connection BY <1>5
    <3>. HIDE DEF r
    <3>1. n \in Reached /\ n = WaitsIn("MAIL") /\ n \in WaitStates \ {"INIT"} /\ "MAIL" \in Events
      BY <2>3, Names, Waits DEF WaitStates
    <3>2. ASSUME after PROVE Dialogue' /\ TakenMails'
      BY <1>0, <1>3, <1>4, <1>8, <2>0, <2>3, <3>0, <3>1, <3>2, AskedDialogue DEF InText, InTransaction, SamePeer
    <3>. QED BY <1>2, <3>1, <3>2
  <2>. QED BY <1>0, <1>8, <2>1, <2>2, <2>3, Outcomes, ZenonT(40)
<1>9. CASE conn.state \in {"SENDING_RCPT_OR_DATA", "SENDING_MSG_TEXT_OR_END_MSG"}
           /\ n = "RSET_SENDED" /\ g = Sends(Popped(c), "RSET", Head(c.messages))
  <2>1. n \in Reached /\ n = WaitsIn("RSET") /\ n \in WaitStates \ {"INIT"} /\ "RSET" \in Events
    BY <1>9, Names, Waits DEF WaitStates
  <2>2. conn.messages # << >> BY <1>0, <1>9 DEF Steady, SteadyAs, InTransaction, InText
  <2>. DEFINE d == Popped(c)
  <2>3. /\ \A i \in DOMAIN d.messages : delivered[d.messages[i]] = 0
        /\ SamePeer(c, d) /\ d \in SMTP_connection
    BY <1>0, <1>5, <1>9, Untaken, PeerParts
  <2>. HIDE DEF d
  <2>4. ASSUME after PROVE Dialogue' /\ TakenMails'
    BY <1>0, <1>3, <1>4, <1>9, <2>1, <2>2, <2>3, <2>4, AskedDialogue DEF InText, InTransaction, SamePeer, d
  <2>. QED BY <1>2, <2>1, <2>4
<1>10. CASE conn.state = "SENDING_RCPT_OR_DATA"
  <2>0. /\ \A i \in DOMAIN c.messages : delivered[c.messages[i]] = 0
        /\ conn.messages # << >>
    BY <1>0, <1>10, Untaken DEF Steady, SteadyAs, InTransaction
  <2>1. CASE n = "RCPT_SENDED" /\ g = Sends([c EXCEPT !.current_rcpt = @ + 1], "RCPT", Head(c.messages))
    <3>. DEFINE d == [c EXCEPT !.current_rcpt = @ + 1]
    <3>0. c.current_rcpt + 1 \in Nat BY <1>0
    <3>1. /\ d \in SMTP_connection /\ SamePeer(c, d) /\ d.messages = c.messages
          /\ d.current_rcpt = c.current_rcpt + 1 /\ d.current_msg_line = c.current_msg_line
      BY <1>0, <3>0 DEF SMTP_connection, SamePeer
    <3>2. g = Sends(d, "RCPT", Head(c.messages)) BY <2>1
    <3>. HIDE DEF d
    <3>3. n \in Reached /\ n = WaitsIn("RCPT") /\ n \in WaitStates \ {"INIT"} /\ "RCPT" \in Events
      BY <2>1, Names, Waits DEF WaitStates
    <3>4. ASSUME after PROVE Dialogue' /\ TakenMails'
      BY <1>0, <1>3, <1>4, <1>10, <2>0, <2>1, <3>1, <3>2, <3>3, <3>4, AskedDialogue DEF InText, SamePeer
    <3>. QED BY <1>2, <3>3, <3>4
  <2>2. CASE n = "DATA_SENDED" /\ g = Sends(c, "DATA", Head(c.messages))
    <3>1. n \in Reached /\ n = WaitsIn("DATA") /\ n \in WaitStates \ {"INIT"} /\ "DATA" \in Events
      BY <2>2, Names, Waits DEF WaitStates
    <3>2. c.current_rcpt = c.current_rcpt + 0 BY <1>0
    <3>3. ASSUME after PROVE Dialogue' /\ TakenMails'
      BY <1>0, <1>3, <1>4, <1>10, <2>0, <2>2, <3>1, <3>2, <3>3, AskedDialogue DEF InText
    <3>. QED BY <1>2, <3>1, <3>3
  <2>. QED BY <1>0, <1>9, <1>10, <2>1, <2>2, Outcomes
<1>11. CASE conn.state = "SENDING_MSG_TEXT_OR_END_MSG"
  <2>0. /\ \A i \in DOMAIN c.messages : delivered[c.messages[i]] = 0
        /\ conn.messages # << >> /\ conn.state \in InText
    BY <1>0, <1>11, Untaken DEF Steady, SteadyAs, InTransaction, InText
  <2>1. CASE n = "MSG_TEXT_SENDED" /\ g = Sends([c EXCEPT !.current_msg_line = @ + 1], "MSG_TEXT", Head(c.messages))
    <3>. DEFINE d == [c EXCEPT !.current_msg_line = @ + 1]
    <3>0. c.current_msg_line + 1 \in Nat BY <1>0
    <3>1. /\ d \in SMTP_connection /\ SamePeer(c, d) /\ d.messages = c.messages
          /\ d.current_rcpt = c.current_rcpt /\ d.current_msg_line = c.current_msg_line + 1
      BY <1>0, <3>0 DEF SMTP_connection, SamePeer
    <3>2. g = Sends(d, "MSG_TEXT", Head(c.messages)) BY <2>1
    <3>. HIDE DEF d
    <3>3. n \in Reached BY <2>1, Names
    <3>4. ASSUME after PROVE Dialogue' /\ TakenMails'
      BY <1>0, <2>0, <2>1, <3>1, <3>2, <3>4, TextDialogue DEF SamePeer
    <3>. QED BY <1>2, <3>3, <3>4
  <2>2. CASE n = "END_DATA_SENDED" /\ g = Sends(c, "END_DATA", Head(c.messages))
    <3>1. n \in Reached /\ n = WaitsIn("END_DATA") /\ n \in WaitStates \ {"INIT"} /\ "END_DATA" \in Events
      BY <2>2, Names, Waits DEF WaitStates
    <3>2. c.current_rcpt = c.current_rcpt + 0 BY <1>0
    <3>3. ASSUME after PROVE Dialogue' /\ TakenMails'
      BY <1>0, <1>3, <1>4, <1>11, <2>0, <2>2, <3>1, <3>2, <3>3, AskedDialogue
    <3>. QED BY <1>2, <3>1, <3>3
  <2>. QED BY <1>0, <1>9, <1>11, <2>1, <2>2, Outcomes
<1>. QED BY <1>0, <1>6, <1>7, <1>8, <1>10, <1>11 DEF Steady, SteadyAs, Reached, States, WaitStates

\* The states that wait: no reply yet, or the one they wait for.
LEMMA WaitingStep ==
  ASSUME Always, Dialogue, TakenMails, conn # NoConn,
         NEW g, NEW n, g = generate_event(conn, elapsed), n = client_fsm_step(conn.state, g.event),
         conn.state \in WaitStates \union {"MSG_TEXT_SENDED"}
  PROVE  /\ n \in Reached \union {"CLOSED_CONNECTION"}
         /\ /\ n \in Reached
            /\ conn' = Goto(g.conn, n) /\ UNCHANGED << net, host, verdict, delivered, files >>
            /\ skipping' = IF g.event = "RSET" THEN TRUE
                           ELSE skipping /\ conn.state # "GET_NEXT_MESSAGE"
            => Dialogue' /\ TakenMails' /\ conn'.fd = conn.fd
<1>. DEFINE after == /\ conn' = Goto(g.conn, n)
                     /\ UNCHANGED << net, host, verdict, delivered, files >>
                     /\ skipping' = IF g.event = "RSET" THEN TRUE
                                    ELSE skipping /\ conn.state # "GET_NEXT_MESSAGE"
<1>0. /\ TypeOK /\ conn \in SMTP_connection /\ Steady(conn) /\ elapsed \in Elapsed
      /\ conn.buffer_in = << >> /\ Len(Received) <= 1 /\ skipping \in BOOLEAN
      /\ conn.state = "RSET_SENDED" => skipping
  BY ConnFields DEF Always, TypeOK, Elapsed, Dialogue, RepliesInStep
<1>k. Kept(conn, g, n) BY <1>0, StepKept
<1>1. g = TakeResponse(conn) BY <1>0, Outcomes
<1>2. /\ g.event \in Replies \union {"NONE"} /\ g.event # "RSET"
      /\ g.event \in Events \ {"CLOSE_CONNECTION"}
  BY <1>0, <1>1, TakeTypes DEF Replies, Events
<1>3. n \in Reached /\ after => conn'.fd = conn.fd
  <2>1. \A k \in Reached : k \in States BY Names
  <2>. QED BY <1>k, <2>1, GotoTypes DEF Kept
<1>4. after => skipping' = skipping BY <1>0, <1>2 DEF WaitStates
<1>5. CASE conn.messages_out = << >>
  <2>1. g.event = "NONE" BY <1>0, <1>1, <1>5, TakeTypes
  <2>2. n = conn.state \/ (conn.state \in InText /\ n \in InText)
    <3>. USE <1>2, <2>1, Rows
    <3>1. CASE conn.state = "INIT" BY <3>1 DEF InitRows
    <3>2. CASE conn.state = "EHLO_SENDED" BY <3>2 DEF EhloSendedRows
    <3>3. CASE conn.state = "MAIL_SENDED" BY <3>3 DEF MailSendedRows
    <3>4. CASE conn.state = "RCPT_SENDED" BY <3>4 DEF RcptSendedRows
    <3>5. CASE conn.state = "DATA_SENDED" BY <3>5 DEF DataSendedRows
    <3>6. CASE conn.state = "RSET_SENDED" BY <3>6 DEF RsetSendedRows
    <3>7. CASE conn.state = "END_DATA_SENDED" BY <3>7 DEF EndDataSendedRows
    <3>8. CASE conn.state = "QUIT_SENDED" BY <3>8 DEF QuitSendedRows
    <3>9. CASE conn.state = "MSG_TEXT_SENDED" BY <3>9 DEF MsgTextSendedRows, InText
    <3>. QED BY <3>1, <3>2, <3>3, <3>4, <3>5, <3>6, <3>7, <3>8, <3>9 DEF WaitStates
  <2>3. n \in Reached BY <1>0, <2>2 DEF Steady, SteadyAs, InText, Reached, States
  <2>4. ASSUME after PROVE Dialogue' /\ TakenMails'
    <3>1. /\ Underway' = Underway /\ Received' = Received
          /\ conn'.state = n /\ conn'.messages = conn.messages /\ conn'.buffer_in = << >>
          /\ conn'.current_rcpt = conn.current_rcpt
          /\ conn'.current_msg_line = conn.current_msg_line
      BY <1>0, <1>1, <1>5, <2>3, <2>4, FlowTaken
    <3>. QED BY <1>4, <2>2, <2>4, <3>1, SameDialogue
  <2>. QED BY <1>3, <2>3, <2>4
<1>6. CASE conn.messages_out # << >>
  <2>1. conn.messages_out \in Seq(Reply) /\ net.replies \in Seq(Reply) BY <1>0, ConnFields, NetFields DEF TypeOK
  <2>2. Received # << >> /\ Received[1] = Head(conn.messages_out)
    <3>1. /\ conn.messages_out \o net.replies # << >>
          /\ (conn.messages_out \o net.replies)[1] = conn.messages_out[1]
      BY <1>6, <2>1, ConcatHead
    <3>. QED BY <1>6, <2>1, <3>1 DEF Received
  <2>4. /\ conn.state = WaitsIn(Received[1].to)
        /\ Foreseen(Received[1].to, Received[1].class)
    BY <2>2 DEF Dialogue, RepliesInStep
  <2>3. g.event = Received[1].class
    <3>1. g.event = EventOf(Received[1].class) BY <1>0, <1>1, <1>6, <2>2, TakeTypes
    <3>2. Received[1] \in Reply BY <1>6, <2>1, <2>2, HeadTailProperties
    <3>3. Received[1].class \in Classes BY <3>2 DEF Reply
    <3>. QED BY <2>4, <3>1, <3>3, ForeseenReply
  <2>5. n # "INVALID" /\ conn.state \in WaitStates BY <2>3, <2>4 DEF Foreseen
  <2>6. n \in Reached \union {"CLOSED_CONNECTION"} BY <1>k, <2>5 DEF Kept
  <2>7. ASSUME n \in Reached, after PROVE Dialogue' /\ TakenMails'
    BY <1>0, <1>1, <1>4, <1>6, <2>5, <2>7, AnswerDialogue
  <2>. QED BY <1>3, <2>6, <2>7
<1>. QED BY <1>5, <1>6

\* A step on an open connection.
LEMMA SocketStep ==
  ASSUME Always, Smooth, ~rough, HasSocket, Step
  PROVE  Smooth'
<1>. DEFINE g == generate_event(conn, elapsed)
            n == client_fsm_step(conn.state, g.event)
<1>0. /\ Dialogue /\ TakenMails /\ worker = "runs" /\ conn # NoConn /\ conn.fd = "open"
      /\ UNCHANGED << host, verdict, delivered, files, rough >> /\ Advance(conn, elapsed, net)
  BY DEF Smooth, HasSocket, Step, Always, TypeOK, Wired
<1>1. n \in Reached \union {"CLOSED_CONNECTION"} BY <1>0, SendingStep, WaitingStep
<1>2. n # "INVALID" BY <1>1, Names
<1>3. CASE n = "CLOSED_CONNECTION"
  <2>1. conn' = NoConn /\ worker' = worker BY <1>0, <1>3 DEF Advance, Delete
  <2>2. TakenMails' BY <1>0, <2>1 DEF TakenMails
  <2>. QED BY <1>0, <2>1, <2>2 DEF Smooth, HasSocket
<1>4. CASE n \in Reached
  <2>1. n \notin {"INVALID", "CLOSED_CONNECTION"} BY <1>4, Names
  <2>2. /\ conn' = Goto(g.conn, n) /\ net' = net /\ worker' = worker
        /\ skipping' = IF g.event = "RSET" THEN TRUE ELSE skipping /\ conn.state # "GET_NEXT_MESSAGE"
    BY <1>0, <2>1 DEF Advance, Goto
  <2>3. Dialogue' /\ TakenMails' /\ conn'.fd = conn.fd
    BY <1>0, <1>4, <2>2, SendingStep, WaitingStep
  <2>. QED BY <1>0, <2>2, <2>3 DEF Smooth, HasSocket
<1>. QED BY <1>1, <1>3, <1>4

\* A new TCP connection, or none could be made.
LEMMA FreshDialogue ==
  ASSUME NEW up \in BOOLEAN, conn' \in SMTP_connection, conn'.state = "INIT",
         conn'.messages_in = << >>, conn'.buffer_in = << >>, conn'.messages_out = << >>,
         conn'.fd = IF up THEN "open" ELSE "none", net' = Connected(up), host' = NewHost,
         worker' = "runs", TakenMails'
  PROVE  Smooth'
<1>1. /\ net'.status = (IF up THEN "up" ELSE "none") /\ net'.cmds = << >> /\ net'.replies = << >>
  BY NetTypes
<1>2. << >> \o << >> = << >> BY ConcatEmptySeq, EmptySeq
<1>3. Received' = << >> /\ Underway' = << >>
  BY <1>1, <1>2 DEF Received, Underway, Outgoing
<1>4. ~host'.rest /\ ~host'.greeted /\ ~host'.text BY DEF NewHost
<1>5. DOMAIN Underway' = {} BY <1>3
<1>6. RepliesInStep' /\ CommandsInStep' BY <1>3, <1>5 DEF RepliesInStep, CommandsInStep, CommandsAs
<1>7. AnswerDue' /\ Greeted' BY <1>3, <1>4 DEF AnswerDue, Greeted
<1>8. TextAgreed' /\ TransactionAgreed' /\ WordGiven'
  BY <1>3, <1>4 DEF TextAgreed, TransactionAgreed, WordGiven, Open, InText, Got, InTransaction
<1>9. Dialogue' BY <1>6, <1>7, <1>8 DEF Dialogue
<1>10. Dialing' BY DEF Dialing
<1>. QED BY <1>9, <1>10 DEF Smooth

\* The steps without a descriptor.
LEMMA DialingStep ==
  ASSUME Always, Smooth, ~rough, conn # NoConn, conn.fd = "none",
         Step \/ StepGiveUp \/ \E up \in BOOLEAN : StepReconnect(up)
  PROVE  Smooth'
<1>0. /\ Dialing /\ TakenMails /\ worker = "runs" /\ conn \in SMTP_connection /\ TypeOK
      /\ elapsed \in Elapsed /\ UNCHANGED << files, delivered >>
  BY DEF Smooth, Always, TypeOK, Wired, Elapsed, Step, StepGiveUp, StepReconnect
\* The queue in a state in which nothing of it was offered.
<1>1. ASSUME conn' # NoConn => conn'.messages = conn.messages
      PROVE  TakenMails'
  BY <1>0, <1>1 DEF TakenMails, Dialing
\* A pass in the first state without a reply.
<1>2. ASSUME NEW c \in SMTP_connection, c.state = "INIT", c.messages_out = << >>,
             NEW el \in Elapsed, NEW tcp, Advance(c, el, tcp)
      PROVE  /\ conn' = Goto(TakeResponse(c).conn, "INIT") /\ net' = tcp /\ worker' = worker
             /\ conn' \in SMTP_connection /\ conn'.state = "INIT" /\ conn'.messages = c.messages
             /\ conn'.messages_in = c.messages_in /\ conn'.buffer_in = c.buffer_in
             /\ conn'.messages_out = << >> /\ conn'.fd = c.fd
  <2>0. Steady(c) BY <1>2, Names DEF Steady, SteadyAs, InTransaction, InText
  <2>1. generate_event(c, el) = TakeResponse(c) BY <1>2, <2>0, Outcomes DEF WaitStates
  <2>2. TakeResponse(c).event = "NONE" BY <1>2, TakeTypes
  <2>3. client_fsm_step("INIT", "NONE") = "INIT"
    <3>1. "NONE" \in Events \ {"CLOSE_CONNECTION"} BY DEF Events
    <3>. QED BY <3>1, Rows DEF InitRows
  <2>4. conn' = Goto(TakeResponse(c).conn, "INIT") /\ net' = tcp /\ worker' = worker
    BY <1>2, <2>1, <2>2, <2>3 DEF Advance, Goto
  <2>5. "INIT" \in States BY Names
  <2>6. /\ TakeResponse(c).conn \in SMTP_connection /\ TakeResponse(c).conn.messages = c.messages
        /\ TakeResponse(c).conn.messages_in = c.messages_in
        /\ TakeResponse(c).conn.buffer_in = c.buffer_in
        /\ TakeResponse(c).conn.messages_out = << >> /\ TakeResponse(c).conn.fd = c.fd
    BY TakeTypes
  <2>. QED BY <2>4, <2>5, <2>6, GotoTypes
<1>3. CASE Step
  <2>1. Advance(conn, elapsed, net) BY <1>3 DEF Step
  <2>2. /\ worker' = worker /\ conn'.state = "INIT" /\ conn'.messages = conn.messages
        /\ conn'.messages_in = << >> /\ conn'.buffer_in = << >> /\ conn'.messages_out = << >>
        /\ conn'.fd = "none"
    BY <1>0, <1>2, <2>1 DEF Dialing
  <2>3. TakenMails' BY <1>1, <2>2
  <2>. QED BY <1>0, <2>2, <2>3 DEF Smooth, HasSocket, Dialing
<1>4. CASE StepGiveUp
  <2>1. conn' = NoConn /\ worker' = worker BY <1>4 DEF StepGiveUp, Delete
  <2>2. TakenMails' BY <1>1, <2>1
  <2>. QED BY <1>0, <2>1, <2>2 DEF Smooth, HasSocket
<1>5. ASSUME NEW up \in BOOLEAN, StepReconnect(up) PROVE Smooth'
  <2>. DEFINE c == SMTP_connection_reinit(conn, up)
              el == [elapsed EXCEPT !.connect = FALSE]
  <2>1. Advance(c, el, Connected(up)) /\ host' = NewHost BY <1>5 DEF StepReconnect
  <2>2. /\ c \in SMTP_connection /\ c.state = "INIT" /\ c.messages = conn.messages
        /\ c.fd = IF up THEN "open" ELSE "none"
        /\ c.messages_in = << >> /\ c.buffer_in = << >> /\ c.messages_out = << >>
    BY <1>0, ReinitTypes DEF Dialing
  <2>3. el \in Elapsed BY <1>0, ClockedTypes
  <2>. HIDE DEF c, el
  <2>4. /\ net' = Connected(up) /\ worker' = worker
        /\ conn' \in SMTP_connection /\ conn'.state = "INIT" /\ conn'.messages = conn.messages
        /\ conn'.messages_in = << >> /\ conn'.buffer_in = << >>
        /\ conn'.messages_out = << >> /\ conn'.fd = IF up THEN "open" ELSE "none"
    BY <1>2, <2>1, <2>2, <2>3
  <2>5. TakenMails' BY <1>1, <2>4
  <2>. QED BY <1>0, <2>1, <2>4, <2>5, FreshDialogue
<1>. QED BY <1>3, <1>4, <1>5

\* A connection that ended: what was under way on it is lost, from the front.
LEMMA LostDialogue ==
  ASSUME TypeOK, TypeOK', HasSocket, HasSocket', Dialogue, TakenMails,
         UNCHANGED << host, verdict, delivered, files, skipping >>,
         conn'.state = conn.state, conn'.messages = conn.messages, conn'.buffer_in = << >>,
         conn'.current_rcpt = conn.current_rcpt, conn'.current_msg_line = conn.current_msg_line,
         net'.status # "up", Underway' = << >> \/ Underway' = conn.messages_in,
         Received' = Received \/ (Received' = << >> /\ net'.status = "reset"),
         net.status = "reset" => net'.status = "reset"
  PROVE  Dialogue' /\ TakenMails'
<1>0. conn # NoConn /\ conn' # NoConn BY DEF HasSocket
<1>1. \A class : Got(class)' => Got(class) BY DEF Got
<1>2. ~Pending' BY DEF Pending
<1>3. /\ conn \in SMTP_connection /\ net \in Net /\ Underway = net.cmds \o conn.messages_in
      /\ Underway \in Seq(Command) /\ net.cmds \in Seq(Command) /\ conn.messages_in \in Seq(Command)
  BY <1>0, FlowIs, NetFields, ConnFields DEF Dialogue, TypeOK
<1>4. Underway = << >> => Underway' = << >>
  <2>1. \A s, t \in Seq(Command) : s \o t = << >> => t = << >> OBVIOUS
  <2>. QED BY <1>3, <2>1, Zenon
<1>5. RepliesInStep' BY <1>4, EmptySeq DEF RepliesInStep, Dialogue
<1>6. CommandsInStep'
  <2>1. CASE Underway' = << >>
    <3>1. DOMAIN Underway' = {} BY <2>1
    <3>. QED BY <3>1 DEF CommandsInStep, CommandsAs
  <2>2. CASE Underway' = conn.messages_in
    <3>1. CommandsAs(net.cmds \o conn.messages_in, conn.state, Head(conn.messages))
      BY <1>3 DEF Dialogue, CommandsInStep
    <3>2. CommandsAs(conn.messages_in, conn.state, Head(conn.messages))
      BY <1>3, <3>1, SuffixInStep
    <3>. QED BY <2>2, <3>2 DEF CommandsInStep
  <2>. QED BY <2>1, <2>2
<1>7. AnswerDue' BY <1>2 DEF AnswerDue
<1>8. Greeted' BY <1>4 DEF Greeted, Dialogue
<1>9. TextAgreed' BY DEF TextAgreed
<1>10. TransactionAgreed'
  <2>1. SUFFICES ASSUME Open' PROVE host.mail = Head(conn.messages) /\ host.rcpts + RcptUnderway' = conn.current_rcpt
    BY DEF TransactionAgreed
  <2>2. Open BY <1>1, <1>2, <2>1 DEF Open
  <2>3. RcptUnderway' = 0 BY <1>2 DEF RcptUnderway
  <2>4. RcptUnderway = 0
    <3>1. conn.state = "RCPT_SENDED" => Got("2XX") BY <1>1, <1>2, <2>1 DEF Open, InText
    <3>. QED BY <3>1 DEF RcptUnderway, Got, Pending
  <2>. QED BY <2>2, <2>3, <2>4 DEF TransactionAgreed, Dialogue
<1>11. WordGiven' BY <1>1 DEF WordGiven, Dialogue
<1>12. TakenMails'
  <2>1. Got("2XX") => Got("2XX")' \/ (net'.status = "reset" /\ Received' = << >>) BY DEF Got
  <2>2. Received = << >> => Received' = << >> OBVIOUS
  <2>3. ASSUME NEW m \in Mails, delivered[m] # 0
        PROVE  /\ delivered[m] = 1 /\ m \notin files
               /\ \A i \in DOMAIN conn.messages : conn.messages[i] = m =>
                    /\ i = 1
                    /\ \/ conn.state = "GET_NEXT_MESSAGE"
                       \/ /\ conn.state = "END_DATA_SENDED"
                          /\ Got("2XX") \/ (net.status = "reset" /\ Received = << >>)
    BY <1>0, <2>3 DEF TakenMails
  <2>. QED BY <2>1, <2>2, <2>3 DEF TakenMails
<1>. QED BY <1>5, <1>6, <1>7, <1>8, <1>9, <1>10, <1>11, <1>12 DEF Dialogue

\* The descriptor and the history of a connection decide what has to be shown of it.
LEMMA SmoothSocket ==
  ASSUME Dialogue', TakenMails', worker' # "exited", conn'.fd = "open"
  PROVE  Smooth'
BY DEF Smooth

LEMMA SelectSmooth ==
  ASSUME Always, Always', Smooth, ~rough, SelectStep
  PROVE  Smooth'
<1>0. /\ HasSocket /\ conn # NoConn /\ conn.fd = "open" /\ Dialogue /\ TakenMails /\ worker = "runs"
      /\ UNCHANGED << worker, files, host, delivered, verdict, skipping, rough >>
      /\ TypeOK /\ TypeOK' /\ net.status \in {"up", "fin"}
      /\ net.status # "up" => net.cmds = << >>
  BY DEF SelectStep, Smooth, HasSocket, Always, Wired
<1>1. /\ conn \in SMTP_connection /\ net \in Net /\ Outgoing = conn.messages_in
      /\ Underway = net.cmds \o conn.messages_in /\ Received \in Seq(Reply)
      /\ conn.messages_in \in Seq(Command) /\ net.cmds \in Seq(Command)
      /\ conn.buffer_in = << >>
  BY <1>0, FlowIs, ConnFields, NetFields DEF Dialogue, TypeOK
<1>2. /\ conn'.state = conn.state /\ conn'.messages = conn.messages /\ conn'.buffer_in = << >>
      /\ conn'.current_rcpt = conn.current_rcpt /\ conn'.current_msg_line = conn.current_msg_line
      /\ conn'.fd = "open" /\ conn'.messages_out = Received /\ conn'.messages_in = << >>
  BY <1>0, <1>1 DEF SelectStep, SMTP_connection
<1>3. net'.replies = << >> BY <1>1 DEF SelectStep, Net
<1>4. Received' = Received
  <2>1. Received \o << >> = Received BY <1>1, ConcatEmptySeq
  <2>. QED BY <1>2, <1>3, <2>1 DEF Received
<1>5. Underway' = net'.cmds
  <2>1. net'.cmds \in Seq(Command) BY <1>0, NetFields DEF TypeOK
  <2>2. net'.cmds \o << >> = net'.cmds BY <2>1, ConcatEmptySeq
  <2>. QED BY <1>2, <2>2 DEF Underway, Outgoing
<1>6. /\ net.status = "up" => net'.status = "up" /\ net'.cmds = net.cmds \o conn.messages_in
      /\ net.status # "up" => /\ net'.status \in {"fin", "reset"} /\ net'.cmds = << >>
  <2>1. CASE conn.messages_in = << >>
    <3>1. net.cmds \o << >> = net.cmds BY <1>1, ConcatEmptySeq
    <3>. QED BY <1>0, <1>1, <2>1, <3>1 DEF SelectStep, Net
  <2>2. CASE conn.messages_in # << >> BY <1>0, <1>1, <2>2 DEF SelectStep, Net
  <2>. QED BY <2>1, <2>2
<1>7. Dialogue' /\ TakenMails'
  <2>1. CASE net.status = "up"
    <3>1. Underway' = Underway BY <1>1, <1>5, <1>6, <2>1
    <3>. QED BY <1>0, <1>2, <1>4, <1>6, <2>1, <3>1, SameDialogue
  <2>2. CASE net.status # "up"
    <3>1. HasSocket' BY <1>6, <2>2 DEF Always, Wired
    <3>. QED BY <1>0, <1>2, <1>4, <1>5, <1>6, <2>2, <3>1, LostDialogue
  <2>. QED BY <2>1, <2>2
<1>. QED BY <1>0, <1>2, <1>7, SmoothSocket

\* FIN and reset.
LEMMA NetworkSmooth ==
  ASSUME Always, Always', Smooth, ~rough, Network
  PROVE  Smooth'
<1>0. /\ HasSocket /\ conn # NoConn /\ conn.fd = "open" /\ Dialogue /\ TakenMails /\ worker = "runs"
      /\ UNCHANGED << worker, files, conn, host, delivered, verdict, skipping, rough >>
      /\ TypeOK /\ TypeOK' /\ net.status \in {"up", "fin"}
  <2>1. /\ net.status \in {"up", "fin"}
        /\ UNCHANGED << worker, files, conn, host, delivered, verdict, skipping, rough >>
    BY DEF Network, Fin, Reset
  <2>2. HasSocket /\ worker = "runs" BY <2>1 DEF Always, Wired
  <2>. QED BY <2>1, <2>2 DEF Smooth, HasSocket, Always
<1>1. /\ conn \in SMTP_connection /\ net \in Net
      /\ conn.messages_in \in Seq(Command) /\ conn.messages_out \in Seq(Reply)
      /\ conn.buffer_in = << >>
  BY <1>0, FlowIs, ConnFields DEF Dialogue, TypeOK
<1>2. net'.cmds = << >> /\ net'.status \in {"fin", "reset"} BY <1>1 DEF Network, Fin, Reset, Net, NoNet
<1>3. Underway' = conn.messages_in
  <2>1. Outgoing' = conn.messages_in
    <3>1. << >> \o conn.messages_in = conn.messages_in BY <1>1, ConcatEmptySeq
    <3>. QED BY <1>0, <1>1, <3>1 DEF Outgoing
  <2>2. << >> \o conn.messages_in = conn.messages_in BY <1>1, ConcatEmptySeq
  <2>. QED BY <1>2, <2>1, <2>2 DEF Underway
<1>4. Received' = Received \/ (Received' = << >> /\ net'.status = "reset")
  <2>1. CASE net'.replies = net.replies BY <1>0, <2>1 DEF Received
  <2>2. CASE net'.replies = << >> /\ net'.status = "reset"
    <3>1. Received' = conn.messages_out BY <1>0, <1>1, <2>2, ConcatEmptySeq DEF Received
    <3>2. CASE conn.messages_out = << >> BY <2>2, <3>1, <3>2
    <3>3. CASE conn.messages_out # << >>
      <4>1. net.replies \in Seq(Reply) BY <1>1, NetFields
      <4>2. Len(conn.messages_out) \in Nat \ {0} /\ Len(net.replies) \in Nat
        BY <1>1, <3>3, <4>1, EmptySeq, LenProperties
      <4>3. \A a, b \in Seq(Reply) : Len(a \o b) = Len(a) + Len(b) OBVIOUS
      <4>4. Len(Received) <= 1 BY <1>0 DEF Dialogue, RepliesInStep
      <4>5. Len(conn.messages_out) + Len(net.replies) <= 1
        BY <1>1, <4>1, <4>3, <4>4, Zenon DEF Received
      <4>6. Len(net.replies) = 0 BY <4>2, <4>5, NoneLeft
      <4>7. net.replies = << >> BY <4>1, <4>6, EmptySeq
      <4>. QED BY <1>1, <3>1, <4>7, ConcatEmptySeq DEF Received
    <3>. QED BY <3>2, <3>3
  <2>. QED BY <1>1, <2>1, <2>2 DEF Network, Fin, Reset, Net, NoNet
<1>5. Dialogue' /\ TakenMails'
  <2>1. HasSocket' BY <1>0 DEF HasSocket
  <2>. QED BY <1>0, <1>1, <1>2, <1>3, <1>4, <2>1, LostDialogue
<1>. QED BY <1>0, <1>5, SmoothSocket

\* A mail more in the queue is behind the one at the head.
LEMMA LoadSmooth ==
  ASSUME Always, Always', Smooth, ~rough, worker = "runs", NEW m \in Mails,
         \/ \E parsed \in BOOLEAN :
              LoadToOpen(m, parsed) \/ \E up \in BOOLEAN : LoadToNew(m, parsed, up)
         \/ LookupFails(m)
  PROVE  Smooth'
<1>3. CASE LookupFails(m)
  <2>1. /\ conn = NoConn /\ worker' = "crashed"
        /\ UNCHANGED << files, conn, delivered, rough >>
    BY <1>3 DEF LookupFails
  <2>2. TakenMails' BY <2>1 DEF Smooth, TakenMails
  <2>. QED BY <2>1, <2>2 DEF Smooth, HasSocket
<1>. SUFFICES ASSUME NEW parsed \in BOOLEAN,
                     LoadToOpen(m, parsed) \/ \E up \in BOOLEAN : LoadToNew(m, parsed, up)
              PROVE  Smooth'
  BY <1>3
<1>0. /\ TakenMails /\ m \in files /\ delivered[m] = 0 /\ TypeOK
      /\ UNCHANGED << worker, delivered, verdict, skipping, rough >> /\ files' = files \ {m}
  <2>1. /\ TakenMails /\ m \in files /\ TypeOK /\ files' = files \ {m}
        /\ UNCHANGED << worker, delivered, verdict, skipping, rough >>
    BY DEF Smooth, LoadToOpen, LoadToNew, Always
  <2>. QED BY <2>1 DEF TakenMails
<1>4. CASE LoadToOpen(m, FALSE)
  <2>1. UNCHANGED << conn, net, host >> BY <1>4 DEF LoadToOpen
  <2>2. Received' = Received /\ Underway' = Underway BY <2>1 DEF Received, Underway, Outgoing
  <2>3. TakenMails'
    <3>1. ASSUME NEW k \in Mails, delivered[k] # 0 PROVE k \notin files' /\ k \notin files
      BY <1>0, <3>1 DEF TakenMails
    <3>. QED BY <1>0, <2>1, <2>2, <3>1 DEF TakenMails, Got
  <2>4. CASE conn.fd = "open"
    <3>1. HasSocket BY <1>4, <2>4 DEF LoadToOpen, HasSocket
    <3>2. Dialogue /\ conn.buffer_in = << >> BY <3>1 DEF Smooth, Dialogue
    <3>3. Dialogue'
      BY <1>0, <2>1, <2>2, <3>2 DEF Dialogue, RepliesInStep, CommandsInStep, AnswerDue, Greeted,
         TextAgreed, TransactionAgreed, WordGiven, Open, Got, Pending, LinesUnderway, RcptUnderway
    <3>. QED BY <1>0, <2>1, <2>3, <2>4, <3>3, SmoothSocket
  <2>5. CASE conn.fd # "open"
    <3>1. conn.fd = "none" => Dialing' BY <1>4, <2>1 DEF Smooth, Dialing, LoadToOpen
    <3>. QED BY <1>0, <2>1, <2>3, <2>5, <3>1 DEF Smooth, HasSocket
  <2>. QED BY <2>4, <2>5
<1>1. CASE LoadToOpen(m, TRUE)
  <2>. DEFINE q == Append(conn.messages, m)
  <2>1. /\ conn \in SMTP_connection /\ conn # NoConn
        /\ conn' = [conn EXCEPT !.messages = q] /\ UNCHANGED << net, host >> /\ Steady(conn)
    BY <1>1 DEF LoadToOpen, Always, TypeOK
  <2>2. /\ conn.messages \in Seq(Mails) /\ Len(conn.messages) \in Nat
        /\ DOMAIN conn.messages = 1 .. Len(conn.messages)
    BY <2>1, ConnFields, LenProperties
  <2>3. /\ q \in Seq(Mails) /\ DOMAIN q = 1 .. (Len(conn.messages) + 1)
        /\ \A i \in 1 .. Len(conn.messages) : q[i] = conn.messages[i]
        /\ q[Len(conn.messages) + 1] = m
    BY <2>2, AppendProperties, LenProperties
  <2>4. conn.messages # << >> => q # << >> /\ Head(q) = Head(conn.messages)
    BY <2>2, HeadTailAppend, AppendProperties
  <2>. HIDE DEF q
  <2>5. /\ conn'.messages = q /\ conn'.state = conn.state /\ conn'.fd = conn.fd
        /\ conn'.current_rcpt = conn.current_rcpt /\ conn'.current_msg_line = conn.current_msg_line
        /\ conn'.messages_in = conn.messages_in /\ conn'.messages_out = conn.messages_out
        /\ conn'.buffer_in = conn.buffer_in
    BY <2>1, <2>3 DEF SMTP_connection
  <2>a. net' = net /\ host' = host BY <2>1
  <2>6. Received' = Received /\ Underway' = Underway BY <2>5, <2>a DEF Received, Underway, Outgoing
  <2>7. (Pending' <=> Pending) /\ \A class : Got(class)' <=> Got(class) BY <2>1, <2>6 DEF Pending, Got
  <2>8. TakenMails'
    <3>1. ASSUME NEW k \in Mails, delivered[k] # 0
          PROVE  /\ delivered[k] = 1 /\ k \notin files'
                 /\ \A i \in DOMAIN q : q[i] = k =>
                      /\ i = 1
                      /\ \/ conn.state = "GET_NEXT_MESSAGE"
                         \/ /\ conn.state = "END_DATA_SENDED"
                            /\ Got("2XX") \/ (net.status = "reset" /\ Received = << >>)
      <4>0. delivered[k] = 1 /\ k \notin files BY <1>0, <3>1 DEF TakenMails
      <4>1. delivered[k] = 1 /\ k \notin files' BY <1>0, <4>0
      <4>2. ASSUME NEW i \in DOMAIN q, q[i] = k PROVE i \in DOMAIN conn.messages /\ conn.messages[i] = k
        BY <1>0, <2>2, <2>3, <3>1, <4>2
      <4>. QED BY <1>0, <2>1, <3>1, <4>1, <4>2 DEF TakenMails
    <3>. QED BY <1>0, <2>1, <2>5, <2>6, <2>7, <3>1 DEF TakenMails
  <2>9. CASE conn.fd = "none"
    <3>1. Dialing' BY <2>1, <2>5, <2>9 DEF Smooth, Dialing
    <3>. QED BY <1>0, <2>5, <2>8, <2>9, <3>1 DEF Smooth, HasSocket
  <2>10. CASE conn.fd # "none"
    <3>0. Dialogue /\ conn.fd = "open" BY <2>1, <2>10, ConnFields DEF Smooth, HasSocket
    <3>1. conn.state \in InTransaction => conn.messages # << >> BY <2>1 DEF Steady, SteadyAs
    <3>2. RepliesInStep' BY <2>5, <2>6, <3>0 DEF Dialogue, RepliesInStep
    <3>3. CommandsInStep' BY <2>4, <2>5, <2>6, <3>0, <3>1 DEF Dialogue, CommandsInStep, CommandsAs
    <3>4. AnswerDue' /\ Greeted' /\ TextAgreed'
      BY <2>1, <2>5, <2>6, <2>7, <3>0 DEF Dialogue, AnswerDue, Greeted, TextAgreed
    <3>5. TransactionAgreed'
      <4>1. (Open' <=> Open) BY <2>5, <2>7 DEF Open
      <4>2. RcptUnderway' = RcptUnderway /\ LinesUnderway' = LinesUnderway
        BY <2>5, <2>6, <2>7 DEF RcptUnderway, LinesUnderway
      <4>3. Open => conn.messages # << >> BY <3>1 DEF Open, InTransaction
      <4>. QED BY <2>1, <2>4, <2>5, <3>0, <4>1, <4>2, <4>3 DEF Dialogue, TransactionAgreed
    <3>6. WordGiven' BY <1>0, <2>4, <2>5, <2>7, <3>0, <3>1 DEF Dialogue, WordGiven
    <3>7. Dialogue' BY <2>5, <3>0, <3>2, <3>3, <3>4, <3>5, <3>6 DEF Dialogue
    <3>. QED BY <1>0, <2>5, <2>8, <3>0, <3>7, SmoothSocket
  <2>. QED BY <2>9, <2>10
<1>2. ASSUME NEW up \in BOOLEAN, LoadToNew(m, parsed, up) PROVE Smooth'
  <2>. DEFINE q == IF parsed THEN << m >> ELSE << >>
  <2>1. /\ net' = Connected(up) /\ host' = NewHost
        /\ conn' = [SMTP_connection_init(up) EXCEPT !.messages = q]
    BY <1>2 DEF LoadToNew
  <2>2. conn' \in SMTP_connection
    <3>1. q \in Seq(Mails) /\ << >> \in Seq(Command) /\ << >> \in Seq(Reply) OBVIOUS
    <3>2. Fd(up) \in {"open", "none"} BY DEF Fd
    <3>3. "INIT" \in States /\ "NONE" \in Events BY Names
    <3>. QED BY <2>1, <3>1, <3>2, <3>3 DEF SMTP_connection_init, SMTP_connection
  <2>3. /\ conn'.messages = q /\ conn'.state = "INIT"
        /\ conn'.fd = (IF up THEN "open" ELSE "none")
        /\ conn'.messages_in = << >> /\ conn'.buffer_in = << >> /\ conn'.messages_out = << >>
    BY <2>1 DEF SMTP_connection_init, Fd
  <2>4. TakenMails'
    <3>1. \A i \in DOMAIN conn'.messages : conn'.messages[i] = m BY <2>3
    <3>. QED BY <1>0, <3>1 DEF TakenMails
  <2>. QED BY <1>0, <2>1, <2>2, <2>3, <2>4, FreshDialogue
<1>. QED BY <1>1, <1>2, <1>4

\* The greeting.
LEMMA GreetSmooth ==
  ASSUME Always, Smooth, ~rough, NEW class \in Classes, Greet(class), ~rough'
  PROVE  Smooth'
<1>0. /\ net.status = "up" /\ ~host.greeted /\ Foreseen("GREETING", class)
      /\ UNCHANGED << worker, files, conn, delivered, verdict, skipping >>
  BY DEF Greet
<1>1. /\ HasSocket /\ conn # NoConn /\ conn.fd = "open" /\ worker = "runs" /\ Dialogue /\ TakenMails
      /\ TypeOK /\ net \in Net /\ host \in Host
  BY <1>0 DEF Always, Wired, Smooth, HasSocket, TypeOK
<1>2. conn.state = "INIT" /\ Received = << >> /\ Underway = << >>
  BY <1>0, <1>1 DEF Dialogue, Greeted
<1>. DEFINE r == [class |-> class, to |-> "GREETING"]
<1>3. /\ net'.status = "up" /\ net'.cmds = net.cmds /\ net'.replies = Append(net.replies, r)
      /\ host'.greeted /\ host'.text = host.text /\ host'.rest = host.rest
  BY <1>0, <1>1 DEF Greet, Net, Host
<1>4. Underway' = << >> BY <1>0, <1>2, <1>3 DEF Underway, Outgoing
<1>5. Received' = << r >>
  <2>1. conn.messages_out \in Seq(Reply) /\ net.replies \in Seq(Reply)
    BY <1>1, ConnFields, NetFields DEF TypeOK
  <2>2. conn.messages_out = << >> /\ net.replies = << >>
    BY <1>2, <2>1, ConcatEqualIffEmpty DEF Received
  <2>3. net'.replies = << r >> BY <1>3, <2>2
  <2>4. r \in Reply BY DEF Reply
  <2>5. << r >> \in Seq(Reply) BY <2>4
  <2>. HIDE DEF r
  <2>6. << >> \o << r >> = << r >> BY <2>5, ConcatEmptySeq
  <2>. QED BY <1>0, <2>2, <2>3, <2>6 DEF Received
<1>6. Received' # << >> /\ Len(Received') = 1 /\ Received'[1] = r BY <1>5
<1>7. r.class = class /\ r.to = "GREETING" OBVIOUS
<1>. HIDE DEF r
<1>8. RepliesInStep' BY <1>0, <1>2, <1>4, <1>6, <1>7, Waits DEF RepliesInStep
<1>9. CommandsInStep'
  <2>1. DOMAIN Underway' = {} BY <1>4
  <2>. QED BY <2>1 DEF CommandsInStep, CommandsAs
<1>10. AnswerDue' BY <1>6 DEF AnswerDue, Pending
<1>11. Greeted' BY <1>1, <1>3, <1>4 DEF Greeted, Dialogue
<1>12. TextAgreed' BY <1>0, <1>1, <1>2, <1>3 DEF TextAgreed, Dialogue, InText
<1>13. TransactionAgreed' BY <1>0, <1>2 DEF TransactionAgreed, Open, InText
<1>14. WordGiven' BY <1>0, <1>2 DEF WordGiven, InTransaction, InText
<1>15. Dialogue'
  BY <1>0, <1>1, <1>8, <1>9, <1>10, <1>11, <1>12, <1>13, <1>14 DEF Dialogue
<1>16. TakenMails' BY <1>0, <1>1, <1>2 DEF TakenMails
<1>. QED BY <1>0, <1>1, <1>15, <1>16, SmoothSocket

\* The one command that is answered, and the reply.
LEMMA ServeFlow ==
  ASSUME Always, Smooth, ~rough, NEW class \in Classes, NEW rest \in BOOLEAN,
         Serve(class, rest), ~rough', NEW x, x = Head(net.cmds)
  PROVE  /\ HasSocket /\ conn.fd = "open" /\ worker = "runs" /\ Dialogue /\ TakenMails /\ ~rest
         /\ x \in Command /\ x.cmd # "MSG_TEXT" /\ Foreseen(x.cmd, class)
         /\ conn.state = WaitsIn(x.cmd)
         /\ conn.state \in InTransaction => x.mail = Head(conn.messages)
         /\ Pending /\ Len(Underway) = 1
         /\ Underway' = << >> /\ Received' = << [class |-> class, to |-> x.cmd] >>
         /\ net'.status = "up"
<1>0. /\ net.status = "up" /\ net.cmds # << >> /\ ~rest /\ Foreseen(x.cmd, class)
      /\ UNCHANGED << worker, files, conn, skipping >>
      /\ net' = [net EXCEPT !.cmds = Tail(@), !.replies = Append(@, [class |-> class, to |-> x.cmd])]
  BY DEF Serve
<1>1. /\ HasSocket /\ conn # NoConn /\ conn.fd = "open" /\ worker = "runs" /\ Dialogue /\ TakenMails
      /\ TypeOK /\ net \in Net
  BY <1>0 DEF Always, Wired, Smooth, HasSocket, TypeOK
<1>2. /\ Underway = net.cmds \o conn.messages_in /\ Underway \in Seq(Command)
      /\ net.cmds \in Seq(Command) /\ conn.messages_in \in Seq(Command)
      /\ conn.messages_out \in Seq(Reply) /\ net.replies \in Seq(Reply) /\ conn.buffer_in = << >>
  BY <1>1, FlowIs, ConnFields, NetFields DEF Dialogue, TypeOK
<1>3. x \in Command BY <1>0, <1>2, HeadTailProperties
<1>4. Underway # << >> /\ Underway[1] = x
  <2>1. net.cmds[1] = x BY <1>0, <1>2
  <2>. QED BY <1>0, <1>2, <2>1, ConcatHead
<1>5. Len(Underway) \in Nat \ {0} /\ DOMAIN Underway = 1 .. Len(Underway) /\ 1 \in DOMAIN Underway
  <2>1. Len(Underway) \in Nat \ {0} /\ DOMAIN Underway = 1 .. Len(Underway)
    BY <1>2, <1>4, EmptySeq, LenProperties
  <2>. QED BY <2>1
<1>6. x.cmd # "MSG_TEXT" BY <1>0, Waits DEF Foreseen, WaitStates
<1>7. /\ ~(1 < Len(Underway)) /\ conn.state = WaitsIn(x.cmd)
      /\ conn.state \in InTransaction => x.mail = Head(conn.messages)
  BY <1>1, <1>4, <1>5, <1>6 DEF Dialogue, CommandsInStep, CommandsAs
<1>8. Len(Underway) = 1 BY <1>5, <1>7
<1>9. Received = << >> BY <1>1, <1>4 DEF Dialogue, RepliesInStep
<1>10. conn.messages_in = << >> /\ Len(net.cmds) = 1
  <2>1. \A a, b \in Seq(Command) : Len(a \o b) = Len(a) + Len(b) OBVIOUS
  <2>2. Len(net.cmds) + Len(conn.messages_in) = 1 BY <1>2, <1>8, <2>1, Zenon
  <2>3. Len(net.cmds) \in Nat \ {0} /\ Len(conn.messages_in) \in Nat
    BY <1>0, <1>2, EmptySeq, LenProperties
  <2>4. \A a \in Nat \ {0} : \A b \in Nat : a + b = 1 => a = 1 /\ b = 0 OBVIOUS
  <2>5. Len(net.cmds) = 1 /\ Len(conn.messages_in) = 0 BY <2>2, <2>3, <2>4, Zenon
  <2>. QED BY <1>2, <2>5, EmptySeq
<1>11. Tail(net.cmds) = << >>
  <2>1. Tail(net.cmds) \in Seq(Command) /\ Len(Tail(net.cmds)) = Len(net.cmds) - 1
    BY <1>0, <1>2, HeadTailProperties
  <2>2. Len(Tail(net.cmds)) = 0 BY <1>10, <2>1
  <2>. QED BY <2>1, <2>2, EmptySeq
<1>12. conn.messages_out = << >> /\ net.replies = << >>
  BY <1>2, <1>9, ConcatEqualIffEmpty DEF Received
<1>. DEFINE r == [class |-> class, to |-> x.cmd]
<1>13. net'.cmds = << >> /\ net'.replies = << r >> /\ net'.status = "up"
  BY <1>0, <1>1, <1>11, <1>12 DEF Net
<1>14. Underway' = << >>
  <2>1. << >> \o << >> = << >> BY ConcatEmptySeq, EmptySeq
  <2>. QED BY <1>0, <1>10, <1>13, <2>1 DEF Underway, Outgoing
<1>15. Received' = << r >>
  <2>1. x.cmd \in Events BY <1>3 DEF Command
  <2>2. r \in Reply BY <2>1 DEF Reply
  <2>3. << r >> \in Seq(Reply) BY <2>2
  <2>. HIDE DEF r
  <2>4. << >> \o << r >> = << r >> BY <2>3, ConcatEmptySeq
  <2>. QED BY <1>0, <1>12, <1>13, <2>4 DEF Received
<1>. QED BY <1>0, <1>1, <1>3, <1>6, <1>7, <1>8, <1>9, <1>13, <1>14, <1>15 DEF Pending

\* What an answer makes of the host's side.
AnsweredAs(x, class, h) ==
  /\ ~h.rest /\ h.greeted = host.greeted
  /\ x.cmd = "MAIL" /\ class = "2XX" =>
       h.mail = x.mail /\ h.rcpts = 0 /\ h.lines = 0 /\ ~h.foreign
  /\ x.cmd = "RCPT" /\ class = "2XX" =>
       /\ h.mail = host.mail /\ h.rcpts = host.rcpts + 1
       /\ h.lines = host.lines /\ h.foreign = host.foreign
  /\ x.cmd = "DATA" /\ class = "3XX" =>
       /\ h.mail = host.mail /\ h.rcpts = host.rcpts
       /\ h.lines = host.lines /\ h.foreign = host.foreign /\ h.text
  /\ x.cmd = "END_DATA" => ~h.text
  /\ ~(x.cmd = "DATA" /\ class = "3XX") => (h.text => host.text)

LEMMA AnsweredIs ==
  ASSUME host \in Host, NEW x \in Command, NEW class \in Classes,
         NEW h, h = [Answered(x, class) EXCEPT !.rest = FALSE]
  PROVE  AnsweredAs(x, class, h)
<1>0. /\ Ended \in Host /\ Ended.greeted = host.greeted /\ ~Ended.text
      /\ Ended.rcpts = 0 /\ Ended.lines = 0 /\ ~Ended.foreign
  BY EndedType
<1>1. x.mail \in Mails \union {NoMail} /\ host.rcpts + 1 \in Nat BY HostFields DEF Command
<1>2. CASE x.cmd = "EHLO" BY <1>0, <1>2 DEF Answered, AnsweredAs, Host
<1>3. CASE x.cmd = "MAIL" BY <1>0, <1>1, <1>3 DEF Answered, AnsweredAs, Host
<1>4. CASE x.cmd = "RCPT" BY <1>1, <1>4 DEF Answered, AnsweredAs, Host
<1>5. CASE x.cmd = "DATA" BY <1>5 DEF Answered, AnsweredAs, Host
<1>6. CASE x.cmd \in {"RSET", "END_DATA"} BY <1>0, <1>6 DEF Answered, AnsweredAs, Host
<1>7. CASE x.cmd \notin {"EHLO", "MAIL", "RCPT", "DATA", "RSET", "END_DATA"} BY <1>7 DEF Answered, AnsweredAs, Host
<1>. QED BY <1>2, <1>3, <1>4, <1>5, <1>6, <1>7

\* A command is answered.
LEMMA ServeSmooth ==
  ASSUME Always, Smooth, ~rough, NEW class \in Classes, NEW rest \in BOOLEAN,
         Serve(class, rest), ~rough'
  PROVE  Smooth'
<1>. DEFINE x == Head(net.cmds)
            r == [class |-> class, to |-> x.cmd]
<1>1. /\ HasSocket /\ conn.fd = "open" /\ worker = "runs" /\ Dialogue /\ TakenMails /\ ~rest
      /\ x \in Command /\ x.cmd # "MSG_TEXT" /\ Foreseen(x.cmd, class)
      /\ conn.state = WaitsIn(x.cmd)
      /\ conn.state \in InTransaction => x.mail = Head(conn.messages)
      /\ Pending /\ Len(Underway) = 1
      /\ Underway' = << >> /\ Received' = << r >> /\ net'.status = "up"
  BY ServeFlow
<1>2. r.class = class /\ r.to = x.cmd OBVIOUS
<1>3. /\ host' = [Answered(x, class) EXCEPT !.rest = FALSE]
      /\ ~host.text \/ x.cmd = "END_DATA"
      /\ UNCHANGED << worker, pc, files, conn, elapsed, skipping >>
      /\ \/ /\ x.cmd = "END_DATA" /\ class = "2XX"
            /\ verdict' = [verdict EXCEPT ![host.mail] = "accepted"]
            /\ delivered' = [delivered EXCEPT ![host.mail] = IF @ = 2 THEN 2 ELSE @ + 1]
         \/ /\ ~(x.cmd = "END_DATA" /\ class = "2XX")
            /\ verdict' = IF x.cmd \in Transaction /\ class = "5XX"
                          THEN [verdict EXCEPT ![x.mail] = "refused"] ELSE verdict
            /\ delivered' = delivered
  BY <1>1 DEF Serve
<1>4. /\ TypeOK /\ host \in Host /\ conn # NoConn /\ conn \in SMTP_connection /\ Steady(conn)
      /\ OnePlace(conn) /\ verdict \in [Mails -> {"none", "accepted", "refused"}]
      /\ delivered \in [Mails -> 0 .. 2] /\ host.rcpts \in Nat /\ host.lines \in Nat
  BY <1>1, HostFields DEF Always, TypeOK, HasSocket
<1>. HIDE DEF x
<1>5. /\ ~host'.rest /\ host'.greeted = host.greeted
      /\ x.cmd = "MAIL" /\ class = "2XX" =>
           host'.mail = x.mail /\ host'.rcpts = 0 /\ host'.lines = 0 /\ ~host'.foreign
      /\ x.cmd = "RCPT" /\ class = "2XX" =>
           /\ host'.mail = host.mail /\ host'.rcpts = host.rcpts + 1
           /\ host'.lines = host.lines /\ host'.foreign = host.foreign
      /\ x.cmd = "DATA" /\ class = "3XX" =>
           /\ host'.mail = host.mail /\ host'.rcpts = host.rcpts
           /\ host'.lines = host.lines /\ host'.foreign = host.foreign /\ host'.text
      /\ x.cmd = "END_DATA" => ~host'.text
      /\ ~(x.cmd = "DATA" /\ class = "3XX") => (host'.text => host.text)
  <2>1. host' = [Answered(x, class) EXCEPT !.rest = FALSE] /\ host \in Host /\ x \in Command
    BY <1>1, <1>3, <1>4
  <2>2. AnsweredAs(x, class, host') BY <2>1, AnsweredIs
  <2>. QED BY <2>2 DEF AnsweredAs
<1>6. Received' # << >> /\ Len(Received') = 1 /\ Received'[1] = r BY <1>1
<1>. HIDE DEF r
<1>7. ~Pending' /\ \A k : Got(k)' <=> k = class BY <1>2, <1>6 DEF Pending, Got
<1>8. Received = << >> /\ net.status = "up" /\ Underway # << >>
  <2>1. Len(<< >>) # 1 OBVIOUS
  <2>2. Pending /\ Len(Underway) = 1 BY <1>1
  <2>3. Underway # << >> BY <2>1, <2>2, Zenon
  <2>. QED BY <2>2, <2>3 DEF Pending
<1>9. \/ x.cmd = "EHLO" /\ conn.state = "EHLO_SENDED"
      \/ x.cmd = "MAIL" /\ conn.state = "MAIL_SENDED"
      \/ x.cmd = "RCPT" /\ conn.state = "RCPT_SENDED"
      \/ x.cmd = "DATA" /\ conn.state = "DATA_SENDED"
      \/ x.cmd = "RSET" /\ conn.state = "RSET_SENDED"
      \/ x.cmd = "END_DATA" /\ conn.state = "END_DATA_SENDED"
      \/ x.cmd = "QUIT" /\ conn.state = "QUIT_SENDED"
  <2>1. conn.state \in WaitStates /\ conn.state = WaitsIn(x.cmd) BY <1>1 DEF Foreseen
  <2>2. x.cmd \in Events BY <1>1 DEF Command
  <2>. QED BY <2>1, <2>2, WaitedFor
<1>10. RepliesInStep' BY <1>1, <1>2, <1>3, <1>6 DEF RepliesInStep
<1>11. CommandsInStep'
  <2>1. DOMAIN Underway' = {} BY <1>1
  <2>. QED BY <2>1 DEF CommandsInStep, CommandsAs
<1>12. AnswerDue' BY <1>7 DEF AnswerDue
<1>13. Greeted'
  <2>1. conn.state # "INIT" BY <1>9
  <2>. QED BY <1>1, <1>3, <1>5, <2>1 DEF Greeted, Dialogue
<1>14. TextAgreed'
  <2>1. conn.state \notin InText BY <1>9 DEF InText
  <2>2. /\ host.text => conn.state = "END_DATA_SENDED"
        /\ conn.state = "DATA_SENDED" => ~host.text
    BY <1>3, <1>9
  <2>. QED BY <1>3, <1>5, <1>6, <1>7, <1>9, <2>1, <2>2 DEF TextAgreed
<1>15. TransactionAgreed'
  <2>1. SUFFICES ASSUME Open' PROVE TransactionAgreed' BY DEF TransactionAgreed
  <2>2. \/ conn.state = "MAIL_SENDED" /\ x.cmd = "MAIL" /\ class = "2XX"
        \/ conn.state = "RCPT_SENDED" /\ x.cmd = "RCPT" /\ class = "2XX"
        \/ conn.state = "DATA_SENDED" /\ x.cmd = "DATA" /\ class = "3XX"
    BY <1>3, <1>7, <1>9, <2>1 DEF Open, InText
  <2>3. RcptUnderway' = 0 /\ LinesUnderway' = 0
    BY <1>3, <1>7, <2>2 DEF RcptUnderway, LinesUnderway, InText
  <2>4. CASE conn.state = "MAIL_SENDED"
    <3>1. x.mail = Head(conn.messages) /\ conn.current_rcpt = 0 /\ conn.current_msg_line = 0
      BY <1>1, <1>4, <2>4 DEF InTransaction, Steady, SteadyAs
    <3>. QED BY <1>3, <1>5, <2>2, <2>3, <2>4, <3>1 DEF TransactionAgreed
  <2>5. CASE conn.state \in {"RCPT_SENDED", "DATA_SENDED"}
    <3>1. Open BY <1>1, <2>5 DEF Open
    <3>2. /\ host.mail = Head(conn.messages) /\ host.rcpts + RcptUnderway = conn.current_rcpt
          /\ host.lines + LinesUnderway = conn.current_msg_line /\ ~host.foreign
      BY <1>1, <1>8, <3>1 DEF Dialogue, TransactionAgreed
    <3>3. LinesUnderway = 0 /\ RcptUnderway = IF conn.state = "RCPT_SENDED" THEN 1 ELSE 0
      BY <1>1, <2>5 DEF LinesUnderway, RcptUnderway, InText
    <3>4. host'.mail = Head(conn'.messages) /\ ~host'.foreign BY <1>3, <1>5, <2>2, <2>5, <3>2
    <3>5. host'.rcpts + RcptUnderway' = conn'.current_rcpt
      BY <1>3, <1>4, <1>5, <2>2, <2>3, <2>5, <3>2, <3>3
    <3>6. host'.lines + LinesUnderway' = conn'.current_msg_line
      BY <1>3, <1>4, <1>5, <2>2, <2>3, <2>5, <3>2, <3>3
    <3>. QED BY <3>4, <3>5, <3>6 DEF TransactionAgreed
  <2>. QED BY <2>2, <2>4, <2>5
<1>16. conn.state = "END_DATA_SENDED" => host.mail = Head(conn.messages)
  BY <1>1 DEF Open, Dialogue, TransactionAgreed
<1>17. conn.state \in InTransaction => conn.messages # << >> /\ Head(conn.messages) \in Mails
  <2>1. conn.state \in InTransaction => conn.messages # << >> BY <1>4 DEF Steady, SteadyAs
  <2>. QED BY <1>4, <2>1, ConnFields, HeadTailProperties
<1>18. WordGiven'
  <2>1. SUFFICES ASSUME conn.state \in InTransaction,
                        class = "5XX" \/ (conn.state = "END_DATA_SENDED" /\ class = "2XX")
                 PROVE  verdict'[Head(conn.messages)] # "none"
    BY <1>3, <1>7, <1>9 DEF WordGiven
  <2>2. x.cmd \in Transaction BY <1>9, <2>1 DEF Transaction, InTransaction, InText
  <2>3. Head(conn.messages) \in Mails /\ x.mail = Head(conn.messages) BY <1>1, <1>17, <2>1
  <2>4. CASE class = "5XX" BY <1>3, <1>4, <2>2, <2>3, <2>4
  <2>5. CASE conn.state = "END_DATA_SENDED" /\ class = "2XX" BY <1>3, <1>4, <1>9, <1>16, <2>3, <2>5
  <2>. QED BY <2>1, <2>4, <2>5
<1>19. Dialogue'
  BY <1>1, <1>3, <1>10, <1>11, <1>12, <1>13, <1>14, <1>15, <1>18 DEF Dialogue
<1>20. TakenMails'
  <2>0. conn.messages \in Seq(Mails) /\ conn.state # "GET_NEXT_MESSAGE" BY <1>4, <1>9, ConnFields
  <2>1. \A i \in DOMAIN conn.messages : delivered[conn.messages[i]] = 0
    <3>1. \A i \in DOMAIN conn.messages : conn.messages[i] \in Mails BY <2>0, ElementOfSeq, LenProperties
    <3>2. ~Got("2XX") /\ net.status # "reset" BY <1>8 DEF Got
    <3>. QED BY <1>1, <1>4, <2>0, <3>1, <3>2 DEF TakenMails
  <2>2. CASE x.cmd = "END_DATA" /\ class = "2XX"
    <3>1. conn.state = "END_DATA_SENDED" /\ host.mail = Head(conn.messages)
      BY <1>9, <1>16, <2>2
    <3>2. conn.messages # << >> /\ Head(conn.messages) \in Mails BY <1>17, <3>1 DEF InTransaction
    <3>3. 1 \in DOMAIN conn.messages /\ conn.messages[1] = Head(conn.messages)
      <4>1. Len(conn.messages) \in Nat \ {0} /\ DOMAIN conn.messages = 1 .. Len(conn.messages)
        BY <2>0, <3>2, EmptySeq, LenProperties
      <4>. QED BY <2>0, <3>2, <4>1
    <3>4. delivered[Head(conn.messages)] = 0 /\ Head(conn.messages) \notin files
      BY <1>4, <2>1, <3>3 DEF OnePlace
    <3>5. /\ delivered'[Head(conn.messages)] = 1
          /\ \A k \in Mails : k # Head(conn.messages) => delivered'[k] = delivered[k]
      BY <1>3, <1>4, <2>2, <3>1, <3>2, <3>4
    <3>6. Got("2XX")' BY <1>7, <2>2
    <3>7. ASSUME NEW k \in Mails, delivered'[k] # 0
          PROVE  /\ delivered'[k] = 1 /\ k \notin files
                 /\ \A i \in DOMAIN conn.messages : conn.messages[i] = k => i = 1
      <4>1. CASE k = Head(conn.messages) BY <1>4, <3>3, <3>4, <3>5, <4>1 DEF OnePlace
      <4>2. CASE k # Head(conn.messages)
        <5>1. delivered[k] # 0 /\ delivered'[k] = delivered[k] BY <3>5, <3>7, <4>2
        <5>. QED BY <1>1, <1>4, <2>1, <5>1 DEF TakenMails
      <4>. QED BY <4>1, <4>2
    <3>. QED BY <1>3, <3>1, <3>6, <3>7 DEF TakenMails
  <2>3. CASE ~(x.cmd = "END_DATA" /\ class = "2XX")
    <3>1. delivered' = delivered BY <1>3, <2>3
    <3>. QED BY <1>1, <1>3, <2>1, <3>1 DEF TakenMails
  <2>. QED BY <2>2, <2>3
<1>. QED BY <1>1, <1>3, <1>19, <1>20, SmoothSocket

\* A line is taken as text.
LEMMA TakeTextSmooth ==
  ASSUME Always, Smooth, ~rough, TakeText
  PROVE  Smooth'
<1>. DEFINE x == Head(net.cmds)
            line == [cmd |-> "MSG_TEXT", mail |-> host.mail]
<1>0. /\ net.status = "up" /\ net.cmds # << >> /\ host.text /\ x.cmd # "END_DATA"
      /\ UNCHANGED << worker, files, conn, delivered, verdict, skipping, rough >>
      /\ net' = [net EXCEPT !.cmds = Tail(@)]
      /\ host' = [host EXCEPT !.lines = @ + 1, !.foreign = @ \/ x # line]
  BY DEF TakeText
<1>1. /\ HasSocket /\ conn # NoConn /\ conn.fd = "open" /\ worker = "runs" /\ Dialogue /\ TakenMails
      /\ TypeOK /\ net \in Net /\ host \in Host /\ host.lines \in Nat
  BY <1>0, HostFields DEF Always, Wired, Smooth, HasSocket, TypeOK
<1>2. /\ Underway = net.cmds \o conn.messages_in /\ Underway \in Seq(Command)
      /\ net.cmds \in Seq(Command) /\ conn.messages_in \in Seq(Command)
      /\ conn.messages_out \in Seq(Reply) /\ net.replies \in Seq(Reply) /\ conn.buffer_in = << >>
  BY <1>1, FlowIs, ConnFields, NetFields DEF Dialogue, TypeOK
<1>3. x \in Command /\ x = [cmd |-> x.cmd, mail |-> x.mail]
  <2>1. x \in Command BY <1>0, <1>2, HeadTailProperties
  <2>. QED BY <2>1 DEF Command
<1>4. Underway # << >> /\ Underway[1] = x /\ Tail(Underway) = Tail(net.cmds) \o conn.messages_in
  <2>1. net.cmds[1] = x OBVIOUS
  <2>2. /\ net.cmds \o conn.messages_in # << >> /\ (net.cmds \o conn.messages_in)[1] = net.cmds[1]
        /\ Tail(net.cmds \o conn.messages_in) = Tail(net.cmds) \o conn.messages_in
    BY <1>0, <1>2, ConcatHead, Zenon
  <2>. HIDE DEF x
  <2>. QED BY <1>2, <2>1, <2>2, Zenon
<1>. HIDE DEF x
<1>5. /\ net'.status = "up" /\ net'.cmds = Tail(net.cmds) /\ net'.replies = net.replies
      /\ host'.lines = host.lines + 1 /\ host'.foreign = (host.foreign \/ x # line)
      /\ host'.text /\ host'.mail = host.mail /\ host'.rcpts = host.rcpts
      /\ host'.rest = host.rest /\ host'.greeted = host.greeted
  BY <1>0, <1>1 DEF Net, Host
<1>. HIDE DEF line
<1>6. Underway' = Tail(Underway) /\ Received' = Received
  <2>1. Outgoing' = conn.messages_in
    <3>1. Outgoing = conn.messages_in BY <1>1, <1>2, FlowIs
    <3>. QED BY <1>0, <3>1 DEF Outgoing
  <2>. QED BY <1>0, <1>4, <1>5, <2>1 DEF Underway, Received
<1>7. Received = << >> /\ Pending BY <1>0, <1>1, <1>4 DEF Dialogue, RepliesInStep, Pending
<1>8. Pending' /\ \A k : ~Got(k) /\ ~Got(k)' BY <1>5, <1>6, <1>7 DEF Pending, Got
<1>9. conn.state \in InText \union {"END_DATA_SENDED", "RSET_SENDED"}
  BY <1>0, <1>1, <1>8 DEF Dialogue, TextAgreed
<1>10. /\ Len(Underway) \in Nat \ {0} /\ DOMAIN Underway = 1 .. Len(Underway)
       /\ Len(Tail(Underway)) = Len(Underway) - 1 /\ Tail(Underway) \in Seq(Command)
  BY <1>2, <1>4, EmptySeq, LenProperties, HeadTailProperties
<1>11. 1 \in DOMAIN Underway BY <1>10
<1>12. conn.state \in InText \union {"END_DATA_SENDED"} => x.cmd = "MSG_TEXT" /\ x.mail = Head(conn.messages)
  <2>1. conn.state \in InText => x.cmd = "MSG_TEXT"
    BY <1>1, <1>4, <1>11 DEF Dialogue, CommandsInStep, CommandsAs
  <2>2. conn.state = "END_DATA_SENDED" => x.cmd = "MSG_TEXT"
    BY <1>0, <1>1, <1>4, <1>11, Waits DEF Dialogue, CommandsInStep, CommandsAs
  <2>3. conn.state \in InText \union {"END_DATA_SENDED"} => x.mail = Head(conn.messages)
    BY <1>1, <1>4, <1>11 DEF Dialogue, CommandsInStep, CommandsAs, InTransaction
  <2>. QED BY <2>1, <2>2, <2>3
<1>13. RepliesInStep' BY <1>6, <1>7 DEF RepliesInStep
<1>14. CommandsInStep'
  <2>1. \A u \in Seq(Command) : u # << >> => u = << Head(u) >> \o Tail(u) OBVIOUS
  <2>2. Underway = << Head(Underway) >> \o Tail(Underway) BY <1>2, <1>4, <2>1
  <2>3. << Head(Underway) >> \in Seq(Command)
    <3>1. Head(Underway) \in Command BY <1>2, <1>4, HeadTailProperties
    <3>. QED BY <3>1
  <2>4. CommandsAs(<< Head(Underway) >> \o Tail(Underway), conn.state, Head(conn.messages))
    BY <1>1, <2>2 DEF Dialogue, CommandsInStep
  <2>5. CommandsAs(Tail(Underway), conn.state, Head(conn.messages))
    BY <1>10, <2>3, <2>4, SuffixInStep
  <2>. QED BY <1>0, <1>6, <2>5 DEF CommandsInStep
<1>15. conn.state = "END_DATA_SENDED" => Underway' # << >>
  <2>1. SUFFICES ASSUME conn.state = "END_DATA_SENDED" PROVE Underway' # << >> OBVIOUS
  <2>2. 1 < Len(Underway)
    <3>1. x.cmd = "MSG_TEXT" /\ conn.state \notin InText BY <1>12, <2>1 DEF InText
    <3>. QED BY <1>1, <1>4, <1>11, <3>1 DEF Dialogue, CommandsInStep, CommandsAs
  <2>3. Len(Tail(Underway)) # 0
    <3>1. \A m, n \in Nat : 1 < n /\ m = n - 1 => m # 0 OBVIOUS
    <3>2. Len(Underway) \in Nat /\ Len(Tail(Underway)) \in Nat BY <1>10, LenProperties
    <3>. QED BY <1>10, <2>2, <3>1, <3>2
  <2>4. Tail(Underway) # << >> BY <2>3, EmptySeq
  <2>. QED BY <1>6, <2>4
<1>16. AnswerDue' BY <1>0, <1>5, <1>9, <1>15 DEF AnswerDue, InText, WaitStates
<1>17. Greeted'
  <2>1. conn.state # "INIT" BY <1>9 DEF InText
  <2>. QED BY <1>0, <1>1, <1>5, <1>6, <2>1 DEF Greeted, Dialogue
<1>18. TextAgreed' BY <1>0, <1>5, <1>6, <1>7, <1>9 DEF TextAgreed, InText
<1>19. TransactionAgreed'
  <2>1. SUFFICES ASSUME Open' PROVE TransactionAgreed' BY DEF TransactionAgreed
  <2>2. conn.state \in InText \union {"END_DATA_SENDED"} BY <1>0, <1>9, <2>1 DEF Open, InText
  <2>3. Open BY <1>7, <2>2 DEF Open
  <2>4. /\ host.mail = Head(conn.messages) /\ host.rcpts + RcptUnderway = conn.current_rcpt
        /\ host.lines + LinesUnderway = conn.current_msg_line /\ ~host.foreign
    BY <1>0, <1>1, <2>3 DEF Dialogue, TransactionAgreed
  <2>5. RcptUnderway = 0 /\ RcptUnderway' = 0 BY <1>0, <2>2 DEF RcptUnderway, InText
  <2>6. LinesUnderway' = LinesUnderway - 1 /\ LinesUnderway \in Int
    <3>1. Len(Underway') = Len(Underway) - 1 BY <1>6, <1>10
    <3>. QED BY <1>0, <1>10, <2>2, <3>1 DEF LinesUnderway
  <2>7. x = line BY <1>3, <1>12, <2>2, <2>4 DEF line
  <2>8. host'.lines + LinesUnderway' = conn'.current_msg_line BY <1>0, <1>1, <1>5, <2>4, <2>6
  <2>9. ~host'.foreign BY <1>5, <2>4, <2>7
  <2>. QED BY <1>0, <1>5, <2>4, <2>5, <2>8, <2>9 DEF TransactionAgreed
<1>20. WordGiven' BY <1>0, <1>1, <1>8 DEF WordGiven, Dialogue
<1>21. Dialogue'
  BY <1>0, <1>2, <1>13, <1>14, <1>16, <1>17, <1>18, <1>19, <1>20 DEF Dialogue
<1>22. TakenMails' BY <1>0, <1>1, <1>5, <1>6, <1>8 DEF TakenMails
<1>. QED BY <1>0, <1>1, <1>21, <1>22, SmoothSocket

\* The other steps leave the dialogue alone.
LEMMA UnchangedSmooth ==
  ASSUME Smooth, UNCHANGED << worker, files, conn, net, host, delivered, verdict, skipping, rough >>
  PROVE  Smooth'
<1>1. SUFFICES ASSUME ~rough PROVE Smooth' BY DEF Smooth
<1>2. worker # "exited" /\ TakenMails BY <1>1 DEF Smooth
<1>3. Received' = Received /\ Underway' = Underway BY DEF Received, Underway, Outgoing
<1>4. CASE conn = NoConn
  <2>1. TakenMails' BY <1>2, <1>4 DEF TakenMails
  <2>. QED BY <1>2, <1>4, <2>1 DEF Smooth, HasSocket
<1>5. CASE conn # NoConn /\ HasSocket
  <2>1. Dialogue /\ conn.buffer_in = << >> BY <1>1, <1>5 DEF Smooth, Dialogue
  <2>2. Dialogue' /\ TakenMails' BY <1>2, <1>3, <1>5, <2>1, SameDialogue
  <2>. QED BY <1>2, <1>5, <2>2, SmoothSocket DEF HasSocket
<1>6. CASE conn # NoConn /\ ~HasSocket
  <2>1. conn.fd = "none" => Dialing' BY <1>1, <1>6 DEF Smooth, Dialing
  <2>2. TakenMails' BY <1>2, <1>3 DEF TakenMails, Got
  <2>. QED BY <1>2, <1>6, <2>1, <2>2 DEF Smooth, HasSocket
<1>. QED BY <1>4, <1>5, <1>6

LEMMA InitSmooth == Init => Smooth
BY DEF Init, Smooth, HasSocket, TakenMails

LEMMA NextSmooth ==
  ASSUME Always, Smooth, [Next]_vars
  PROVE  Smooth'
<1>0. Always' BY NextAlways
<1>1. SUFFICES ASSUME ~rough' PROVE Smooth' BY DEF Smooth
<1>2. ~rough
  BY <1>1 DEF Next, Worker, Load, MailHost, Network, Time, SelectNothing, ReceiveFails, SelectStep,
     SendFails, StepNothing, StepGiveUp, Step, StepReconnect, LoadToOpen, LoadToNew,
     LookupFails, Greet, Serve, TakeText, SendRest, Fin, Reset, Elapse, vars
<1>3. CASE Worker
  <2>0. worker = "runs" BY <1>3 DEF Worker
  <2>1. CASE SelectNothing \/ StepNothing
    BY <2>1, UnchangedSmooth DEF SelectNothing, StepNothing
  <2>2. CASE ReceiveFails \/ SendFails BY <1>1, <2>2 DEF ReceiveFails, SendFails
  <2>3. CASE SelectStep BY <1>0, <1>2, <2>3, SelectSmooth
  <2>4. CASE Step \/ StepGiveUp \/ \E up \in BOOLEAN : StepReconnect(up)
    <3>1. conn # NoConn /\ conn \in SMTP_connection /\ (~HasSocket => conn.fd = "none")
      <4>1. conn # NoConn BY <2>4 DEF Step, StepGiveUp, StepReconnect
      <4>2. conn \in SMTP_connection BY <4>1 DEF Always, TypeOK
      <4>. QED BY <4>1, <4>2, ConnFields DEF HasSocket
    <3>2. CASE HasSocket
      <4>1. Step BY <2>4, <3>2 DEF StepGiveUp, StepReconnect
      <4>. QED BY <1>2, <3>2, <4>1, SocketStep
    <3>3. CASE ~HasSocket BY <1>2, <2>4, <3>1, <3>3, DialingStep
    <3>. QED BY <3>2, <3>3
  <2>. QED BY <1>3, <2>1, <2>2, <2>3, <2>4 DEF Worker
<1>4. CASE Load BY <1>0, <1>2, <1>4, LoadSmooth DEF Load
<1>5. CASE MailHost
  <2>1. ASSUME NEW class \in Classes, Greet(class) PROVE Smooth' BY <1>1, <1>2, <2>1, GreetSmooth
  <2>2. ASSUME NEW class \in Classes, NEW rest \in BOOLEAN, Serve(class, rest) PROVE Smooth'
    BY <1>1, <1>2, <2>2, ServeSmooth
  <2>3. CASE TakeText BY <1>2, <2>3, TakeTextSmooth
  <2>4. CASE SendRest
    <3>1. HasSocket BY <2>4 DEF SendRest, Always, Wired
    <3>2. ~host.rest BY <1>2, <3>1 DEF Smooth, Dialogue, Greeted
    <3>. QED BY <2>4, <3>2 DEF SendRest
  <2>. QED BY <1>5, <2>1, <2>2, <2>3, <2>4 DEF MailHost
<1>6. CASE Network BY <1>0, <1>2, <1>6, NetworkSmooth
<1>7. CASE Time BY <1>7, UnchangedSmooth DEF Time, Elapse
<1>8. CASE UNCHANGED vars BY <1>8, UnchangedSmooth DEF vars
<1>. QED BY <1>3, <1>4, <1>5, <1>6, <1>7, <1>8 DEF Next

LEMMA Invariance == Spec => []CInv
<1>1. Init => CInv BY InitAlways, InitSmooth DEF CInv
<1>2. CInv /\ [Next]_vars => CInv' BY NextAlways, NextSmooth DEF CInv
<1>. QED BY <1>1, <1>2, PTL DEF Spec

----------------------------------------------------------------------------
\* What the invariant says of the dialogue.

LEMMA InStepHolds == CInv => InStep
<1>1. SUFFICES ASSUME CInv, Talking PROVE InStep BY DEF InStep
<1>2. Dialogue /\ conn # NoConn /\ TypeOK BY <1>1 DEF CInv, Always, Smooth, Talking, HasSocket
<1>3. Underway \in Seq(Command) /\ Received \in Seq(Reply) BY <1>2, FlowTypes
<1>4. /\ Len(Underway) \in Nat /\ DOMAIN Underway = 1 .. Len(Underway)
      /\ Len(Received) \in Nat /\ DOMAIN Received = 1 .. Len(Received)
  BY <1>3, LenProperties
<1>5. Len(Received) <= 1 BY <1>2 DEF Dialogue, RepliesInStep
<1>6. \A i \in Owed : ~(i < Len(Underway)) /\ conn.state = WaitsIn(Underway[i].cmd)
  BY <1>2 DEF Dialogue, CommandsInStep, CommandsAs, Owed
<1>7. \A i \in Owed : i = Len(Underway) BY <1>4, <1>6 DEF Owed
<1>8. Received # << >> => Owed = {}
  <2>1. SUFFICES ASSUME Received # << >> PROVE Owed = {} OBVIOUS
  <2>2. Underway = << >> BY <1>2, <2>1 DEF Dialogue, RepliesInStep
  <2>3. DOMAIN Underway = {} BY <2>2
  <2>. QED BY <2>3 DEF Owed
<1>9. \A i \in DOMAIN Received : conn.state = WaitsIn(Received[i].to)
  <2>1. SUFFICES ASSUME NEW i \in DOMAIN Received PROVE conn.state = WaitsIn(Received[i].to) OBVIOUS
  <2>2. i = 1 BY <1>4, <1>5
  <2>3. Received # << >> BY <1>3, <2>1
  <2>. QED BY <1>2, <2>2, <2>3 DEF Dialogue, RepliesInStep
<1>. QED BY <1>5, <1>6, <1>7, <1>8, <1>9 DEF InStep

LEMMA HeadInHandHolds == CInv => HeadInHand
<1>1. SUFFICES ASSUME CInv, conn # NoConn PROVE HeadInHand BY DEF HeadInHand, Talking, HasSocket
<1>2. conn.state \in InTransaction => conn.messages # << >>
  BY <1>1 DEF CInv, Always, Steady, SteadyAs
<1>3. Talking => TransactionAgreed BY <1>1 DEF CInv, Smooth, Dialogue, Talking
<1>4. Talking /\ conn.state \in {"SENDING_RCPT_OR_DATA", "SENDING_MSG_TEXT_OR_END_MSG"}
        => host.mail = Head(conn.messages)
  BY <1>3 DEF TransactionAgreed, Open, InText
<1>. QED BY <1>2, <1>4 DEF HeadInHand, InTransaction, InText

LEMMA ParkedHolds == CInv => ParkedForCause
<1>1. SUFFICES ASSUME CInv, Parked, ~rough, net.status # "fin"
               PROVE  conn.state = "EHLO_SENDED" \/ (conn.state = "RSET_SENDED" /\ host.text)
  BY DEF ParkedForCause
<1>2. /\ HasSocket /\ conn.state \in WaitStates /\ Owed = {} /\ Received = << >>
      /\ net.status = "up" /\ host.greeted
  BY <1>1 DEF Parked
<1>3. Dialogue /\ conn # NoConn /\ TypeOK BY <1>1, <1>2 DEF CInv, Always, Smooth, HasSocket
<1>4. Underway = << >>
  <2>1. Underway \in Seq(Command) BY <1>3, FlowTypes
  <2>2. Len(Underway) \in Nat /\ DOMAIN Underway = 1 .. Len(Underway) BY <2>1, LenProperties
  <2>3. SUFFICES ASSUME Len(Underway) # 0 PROVE FALSE BY <2>1, EmptySeq
  <2>4. Len(Underway) \in DOMAIN Underway BY <2>2, <2>3
  <2>5. conn.state \notin InText BY <1>2 DEF WaitStates, InText
  <2>6. Underway[Len(Underway)].cmd # "MSG_TEXT"
    BY <1>3, <2>2, <2>4, <2>5 DEF Dialogue, CommandsInStep, CommandsAs
  <2>. QED BY <1>2, <2>4, <2>6 DEF Owed
<1>. QED BY <1>2, <1>3, <1>4 DEF Dialogue, AnswerDue, Pending

\* The dialogue stays in step (generate_event and the rows of client-fsm.def): one
\* command unanswered at most, the one the state waits for, and no reply left over.
THEOREM StaysInStep == Spec => []InStep
BY Invariance, InStepHolds, PTL

\* queue_peek finds the mail of the open transaction, whatever was popped before.
THEOREM KeepsHeadInHand == Spec => []HeadInHand
BY Invariance, HeadInHandHolds, PTL

\* client_fsm_do_invalid is called only after a reply without a row, a split reply
\* or a lost connection, and a failed look-up (get_IP, then string_copy of a null ip in
\* tree_insert) brings the worker down only while it has no connection to the host and
\* leaves the file where it is.
THEOREM ExitHasCause == Spec => []ExitsForCause
<1>1. CInv => ExitsForCause BY DEF CInv, Always, Wired, Smooth, ExitsForCause
<1>. QED BY <1>1, Invariance, PTL

\* No mail is given to the host twice while the connection holds.
THEOREM GivenOnce == Spec => []DeliveredOnce
<1>1. CInv => DeliveredOnce
  <2>1. SUFFICES ASSUME CInv, ~rough, NEW m \in Mails PROVE delivered[m] <= 1
    BY DEF DeliveredOnce
  <2>2. delivered[m] \in 0 .. 2 /\ (delivered[m] # 0 => delivered[m] = 1)
    BY <2>1 DEF CInv, Always, TypeOK, Smooth, TakenMails
  <2>. QED BY <2>2
<1>. QED BY <1>1, Invariance, PTL

\* The client waits in vain only after an unnoticed FIN, a 4xx to EHLO, or an RSET
\* that was taken for text.
THEOREM ParkingHasCause == Spec => []ParkedForCause
BY Invariance, ParkedHolds, PTL

----------------------------------------------------------------------------
\* What the invariant says of the steps.

\* A 2xx to the dot finds the transaction of the mail at the head complete.
LEMMA ServedWhole ==
  ASSUME CInv, ~rough, NEW class \in Classes, NEW rest \in BOOLEAN, Serve(class, rest),
         Head(net.cmds).cmd = "END_DATA", class = "2XX"
  PROVE  host.rcpts = RcptCount /\ host.lines = LineCount /\ ~host.foreign
<1>1. Foreseen("END_DATA", "2XX")
  <2>1. "2XX" \in Events \ {"CLOSE_CONNECTION"} BY DEF Events, Replies
  <2>2. client_fsm_step("END_DATA_SENDED", "2XX") = EndDataSendedRows("2XX") BY <2>1, Rows
  <2>3. EndDataSendedRows("2XX") # "INVALID" BY DEF EndDataSendedRows
  <2>. QED BY <2>2, <2>3, Waits DEF Foreseen, WaitStates
<1>2. ~rough' BY <1>1 DEF Serve
<1>3. /\ HasSocket /\ Dialogue /\ Pending /\ Len(Underway) = 1
      /\ conn.state = WaitsIn("END_DATA")
  BY <1>2, ServeFlow DEF CInv
<1>4. conn.state = "END_DATA_SENDED" BY <1>3, Waits
<1>5. Open BY <1>3, <1>4 DEF Open
<1>6. /\ host.rcpts + RcptUnderway = conn.current_rcpt /\ ~host.foreign
      /\ host.lines + LinesUnderway = conn.current_msg_line
  BY <1>3, <1>5 DEF Dialogue, TransactionAgreed, Pending
<1>7. RcptUnderway = 0 /\ LinesUnderway = 0
  BY <1>3, <1>4 DEF RcptUnderway, LinesUnderway, InText
<1>8. conn.current_rcpt = RcptCount /\ conn.current_msg_line = LineCount
  BY <1>3, <1>4 DEF CInv, Always, Steady, SteadyAs, HasSocket, InText
<1>9. host.rcpts \in Nat /\ host.lines \in Nat BY HostFields DEF CInv, Always, TypeOK
<1>. QED BY <1>6, <1>7, <1>8, <1>9

LEMMA WholeStep ==
  ASSUME CInv, [Next]_vars, ~rough, NEW m \in Mails, delivered'[m] # delivered[m]
  PROVE  host.rcpts = RcptCount /\ host.lines = LineCount /\ ~host.foreign
<1>1. delivered' # delivered OBVIOUS
<1>2. PICK class \in Classes, rest \in BOOLEAN : Serve(class, rest)
  <2>1. MailHost
    BY <1>1 DEF Next, Worker, Load, Network, Time, SelectNothing, ReceiveFails, SelectStep,
       SendFails, StepNothing, StepGiveUp, Step, StepReconnect, LoadToOpen, LoadToNew,
       LookupFails, Fin, Reset, Elapse, vars
  <2>. QED BY <1>1, <2>1 DEF MailHost, Greet, TakeText, SendRest
<1>3. Head(net.cmds).cmd = "END_DATA" /\ class = "2XX" BY <1>1, <1>2 DEF Serve
<1>. QED BY <1>2, <1>3, ServedWhole

\* A mail the host takes has all its recipients and lines and nothing of another
\* mail, whatever refusals and retries of generate_event came before.
THEOREM GivenWhole == Spec => DeliveredWhole
<1>. DEFINE Whole ==
       \A m \in Mails : delivered'[m] # delivered[m] /\ ~rough =>
         host.rcpts = RcptCount /\ host.lines = LineCount /\ ~host.foreign
<1>1. CInv /\ [Next]_vars => [Whole]_vars BY WholeStep
<1>. QED BY <1>1, Invariance, PTL DEF Spec, DeliveredWhole

\* Where the state machine takes a mail off the queue.
LEMMA Pops ==
  ASSUME NEW c \in SMTP_connection, Steady(c), NEW el \in Elapsed,
         NEW g, g = generate_event(c, el)
  PROVE  \/ g.conn.messages = c.messages
         \/ /\ c.messages # << >> /\ g.conn.messages = Tail(c.messages)
            /\ \/ c.state = "GET_NEXT_MESSAGE"
               \/ el.late
<1>. DEFINE n == client_fsm_step(c.state, g.event)
<1>m. /\ c.messages \in Seq(Mails) /\ c.current_rcpt \in Nat /\ c.current_msg_line \in Nat
      /\ c.messages # << >> => Head(c.messages) \in Mails
  BY HeadTailProperties DEF SMTP_connection
<1>p. /\ Popped(c) \in SMTP_connection
      /\ c.messages = << >> => Popped(c).messages = c.messages
      /\ c.messages # << >> => Popped(c).messages = Tail(c.messages)
      /\ Restarted(c) \in SMTP_connection /\ Restarted(c).messages = c.messages
      /\ Restarted(Popped(c)) \in SMTP_connection
      /\ Restarted(Popped(c)).messages = Popped(c).messages
  BY PoppedTypes DEF Restarted, SMTP_connection
<1>q. Popped(c).messages # << >> => Head(Popped(c).messages) \in Mails
  BY <1>p, HeadTailProperties DEF SMTP_connection
<1>s. \A d \in SMTP_connection, e \in Events, m \in Mails \union {NoMail} :
        Sends(d, e, m).conn.messages = d.messages
  BY SendsTypes
<1>1. CASE c.state \in WaitStates \union {"MSG_TEXT_SENDED"}
  <2>1. g = TakeResponse(c) BY <1>1, Outcomes
  <2>. QED BY <2>1, TakeTypes
<1>2. CASE c.state = "SENDING_EHLO"
  <2>1. g = Sends(c, "EHLO", NoMail) BY <1>2, Outcomes
  <2>. QED BY <1>s, <2>1, Names
<1>3. CASE c.state = "GET_NEXT_MESSAGE"
  <2>1. \/ g = Sends(Popped(c), "QUIT", NoMail)
        \/ /\ Popped(c).messages # << >>
           /\ g = Sends(Restarted(Popped(c)), "MAIL", Head(Popped(c).messages))
    BY <1>3, Outcomes
  <2>2. g.conn.messages = Popped(c).messages BY <1>p, <1>q, <1>s, <2>1, Names
  <2>. QED BY <1>3, <1>p, <2>2
<1>4. CASE c.state = "SENDING_MAIL_OR_QUIT"
  <2>1. \/ g = Sends(c, "QUIT", NoMail)
        \/ g = [event |-> "NONE", conn |-> c]
        \/ c.messages # << >> /\ g = Sends(Restarted(c), "MAIL", Head(c.messages))
    BY <1>4, Outcomes
  <2>. QED BY <1>m, <1>p, <1>s, <2>1, Names
<1>5. CASE c.state = "SENDING_RCPT_OR_DATA"
  <2>0. c.messages # << >> BY <1>5 DEF Steady, SteadyAs, InTransaction
  <2>. DEFINE d == [c EXCEPT !.current_rcpt = @ + 1]
  <2>1. \/ el.late /\ g = Sends(Popped(c), "RSET", Head(c.messages))
        \/ g = Sends(d, "RCPT", Head(c.messages))
        \/ g = Sends(c, "DATA", Head(c.messages))
    BY <1>5, Outcomes
  <2>2. d \in SMTP_connection /\ d.messages = c.messages BY <1>m DEF SMTP_connection
  <2>. HIDE DEF d
  <2>. QED BY <1>m, <1>p, <1>s, <2>0, <2>1, <2>2, Names
<1>6. CASE c.state = "SENDING_MSG_TEXT_OR_END_MSG"
  <2>0. c.messages # << >> BY <1>6 DEF Steady, SteadyAs, InTransaction, InText
  <2>. DEFINE d == [c EXCEPT !.current_msg_line = @ + 1]
  <2>1. \/ el.late /\ g = Sends(Popped(c), "RSET", Head(c.messages))
        \/ g = Sends(d, "MSG_TEXT", Head(c.messages))
        \/ g = Sends(c, "END_DATA", Head(c.messages))
    BY <1>6, Outcomes
  <2>2. d \in SMTP_connection /\ d.messages = c.messages BY <1>m DEF SMTP_connection
  <2>. HIDE DEF d
  <2>. QED BY <1>m, <1>p, <1>s, <2>0, <2>1, <2>2, Names
<1>. QED BY <1>1, <1>2, <1>3, <1>4, <1>5, <1>6 DEF Steady, SteadyAs, Reached, States, WaitStates

\* The queue of a connection that goes on, after one step of the state machine.
LEMMA AdvancePops ==
  ASSUME NEW c \in SMTP_connection, Steady(c), NEW el \in Elapsed, NEW tcp,
         Advance(c, el, tcp), conn' # NoConn
  PROVE  \/ conn'.messages = c.messages
         \/ /\ c.messages # << >> /\ conn'.messages = Tail(c.messages)
            /\ \/ c.state = "GET_NEXT_MESSAGE"
               \/ el.late
<1>. DEFINE g == generate_event(c, el)
            n == client_fsm_step(c.state, g.event)
<1>1. Kept(c, g, n) BY StepKept
<1>2. conn' = g.conn \/ (n \in Reached /\ conn' = Goto(g.conn, n))
  BY <1>1 DEF Advance, Delete, Goto, Kept
<1>3. conn'.messages = g.conn.messages
  <2>1. g.conn \in SMTP_connection BY <1>1 DEF Kept
  <2>2. \A k \in Reached : Goto(g.conn, k).messages = g.conn.messages BY <2>1, Names, GotoTypes
  <2>. HIDE DEF g, n
  <2>. QED BY <1>2, <2>2
<1>4. \/ g.conn.messages = c.messages
      \/ /\ c.messages # << >> /\ g.conn.messages = Tail(c.messages)
         /\ \/ c.state = "GET_NEXT_MESSAGE"
            \/ el.late
  BY Pops
<1>. HIDE DEF g
<1>. QED BY <1>3, <1>4

\* Every mail but the head is still there without the head.
LEMMA LeftByTail ==
  ASSUME NEW s \in Seq(Mails), s # << >>, NEW m, m \in ToSet(s), m \notin ToSet(Tail(s))
  PROVE  m = Head(s)
<1>1. PICK i \in DOMAIN s : m = s[i] BY DEF ToSet
<1>2. /\ Len(s) \in Nat /\ DOMAIN s = 1 .. Len(s) /\ Tail(s) \in Seq(Mails)
      /\ DOMAIN Tail(s) = 1 .. (Len(s) - 1)
      /\ \A j \in 1 .. (Len(s) - 1) : Tail(s)[j] = s[j + 1]
  BY HeadTailProperties, LenProperties
<1>3. i = 1
  <2>1. SUFFICES ASSUME i # 1 PROVE FALSE OBVIOUS
  <2>2. i - 1 \in 1 .. (Len(s) - 1) /\ (i - 1) + 1 = i BY <1>2, <2>1
  <2>3. Tail(s)[i - 1] = m BY <1>1, <1>2, <2>2
  <2>. QED BY <1>2, <2>2, <2>3 DEF ToSet
<1>. QED BY <1>1, <1>3

\* Only a step of the state machine takes a mail off the queue.
LEMMA OthersKeep ==
  ASSUME Always, [Next]_vars, conn # NoConn, conn' # NoConn,
         ~Step, ~(\E up \in BOOLEAN : StepReconnect(up)), NEW m \in Mails, Queued(m)
  PROVE  Queued(m)'
<1>0. conn \in SMTP_connection BY DEF Always, TypeOK
<1>1. SUFFICES ASSUME conn' # conn PROVE Queued(m)' BY DEF Queued
<1>2. CASE \E f \in Mails, parsed \in BOOLEAN : LoadToOpen(f, parsed)
  <2>1. PICK f \in Mails : LoadToOpen(f, TRUE) BY <1>1, <1>2 DEF LoadToOpen
  <2>2. conn'.messages = Append(conn.messages, f) /\ conn.messages \in Seq(Mails)
    BY <1>0, <2>1 DEF LoadToOpen, SMTP_connection
  <2>3. /\ \A i \in DOMAIN conn.messages : i \in DOMAIN conn'.messages
        /\ \A i \in DOMAIN conn.messages : conn'.messages[i] = conn.messages[i]
    BY <2>2
  <2>. QED BY <2>3 DEF Queued, ToSet
<1>3. CASE ReceiveFails \/ SelectStep \/ SendFails
  <2>1. conn'.messages = conn.messages
    BY <1>0, <1>3 DEF ReceiveFails, SelectStep, SendFails, SMTP_connection
  <2>. QED BY <2>1 DEF Queued
<1>. QED BY <1>1, <1>2, <1>3 DEF Next, Worker, Load, MailHost, Network, Time, SelectNothing,
            StepNothing, StepGiveUp, Delete, LoadToNew, LookupFails, Greet, Serve, TakeText, SendRest, Fin,
            Reset, Elapse, vars

LEMMA LeavesStep ==
  ASSUME CInv, [Next]_vars, ~rough, NEW m \in Mails, Queued(m), conn' # NoConn, ~Queued(m)'
  PROVE  \/ verdict[m] # "none"
         \/ m = Head(conn.messages) /\ (elapsed.late \/ skipping)
<1>1. /\ conn # NoConn /\ conn \in SMTP_connection /\ Steady(conn) /\ elapsed \in Elapsed
      /\ conn.messages \in Seq(Mails) /\ conn.fd \in {"open", "none"}
  BY ConnFields DEF CInv, Always, TypeOK, Queued, Elapsed
<1>2. Step \/ \E up \in BOOLEAN : StepReconnect(up) BY <1>1, OthersKeep DEF CInv
<1>3. HasSocket \/ conn.state = "INIT" BY <1>1 DEF CInv, Smooth, HasSocket, Dialing
<1>4. CASE Step
  <2>1. \/ conn'.messages = conn.messages
        \/ /\ conn.messages # << >> /\ conn'.messages = Tail(conn.messages)
           /\ \/ conn.state = "GET_NEXT_MESSAGE"
              \/ elapsed.late
    BY <1>1, <1>4, AdvancePops DEF Step
  <2>2. conn'.messages # conn.messages BY DEF Queued
  <2>3. m = Head(conn.messages) BY <1>1, <2>1, <2>2, LeftByTail DEF Queued
  <2>4. conn.state = "GET_NEXT_MESSAGE" => skipping \/ verdict[Head(conn.messages)] # "none"
    BY <1>3 DEF CInv, Smooth, Dialogue, WordGiven
  <2>. QED BY <2>1, <2>2, <2>3, <2>4
<1>5. ASSUME NEW up \in BOOLEAN, StepReconnect(up) PROVE FALSE
  <2>. DEFINE c == SMTP_connection_reinit(conn, up)
              el == [elapsed EXCEPT !.connect = FALSE]
  <2>1. c \in SMTP_connection /\ Steady(c) /\ c.messages = conn.messages /\ c.state = "INIT"
    <3>1. c \in SMTP_connection /\ c.messages = conn.messages /\ c.state = "INIT"
      BY <1>1, ReinitTypes
    <3>. HIDE DEF c
    <3>. QED BY <3>1, Names DEF Steady, SteadyAs, InTransaction, InText
  <2>2. el \in Elapsed BY <1>1, ClockedTypes
  <2>3. Advance(c, el, Connected(up)) BY <1>5 DEF StepReconnect
  <2>4. generate_event(c, el) = TakeResponse(c) BY <2>1, <2>2, Outcomes DEF WaitStates
  <2>. HIDE DEF c, el
  <2>5. TakeResponse(c).conn.messages = c.messages BY <2>1, TakeTypes
  <2>6. conn'.messages = c.messages
    <3>1. TakeResponse(c).conn \in SMTP_connection BY <2>1, TakeTypes
    <3>. QED BY <2>3, <2>4, <2>5, <3>1 DEF Advance, Delete, SMTP_connection
  <2>. QED BY <2>1, <2>6 DEF Queued
<1>. QED BY <1>2, <1>4, <1>5

\* queue_pop takes a mail off the queue of a connection that goes on for a reason:
\* the host's final word, the mail's own time limit, or as the one mail behind an
\* expired one.
THEOREM LeavingHasCause == Spec => LeavesForCause
<1>. DEFINE Cause ==
       \A m \in Mails : Queued(m) /\ conn' # NoConn /\ ~Queued(m)' /\ ~rough =>
         \/ verdict[m] # "none"
         \/ m = Head(conn.messages) /\ (elapsed.late \/ skipping)
<1>1. CInv /\ [Next]_vars => [Cause]_vars BY LeavesStep
<1>. QED BY <1>1, Invariance, PTL DEF Spec, LeavesForCause
=============================================================================
