-------------------------- MODULE ClientConnection --------------------------
(***************************************************************************)
(* The sending side: one worker process and its connection to one mail host *)
(* (client/src/SMTP_connection.c, client-fsm.c, and the parts of worker.c,   *)
(* peer.c and select_fd_storage.c that touch one connection).  A pass of    *)
(* worker_main is select_step, then one step of the state machine, then the *)
(* file names the master has sent.  The mail host and the network are the    *)
(* environment: the host answers commands in order with any reply class the  *)
(* protocol knows, the network may break or close the connection.            *)
(***************************************************************************)
EXTENDS Integers, Sequences, SequencesExt

CONSTANTS
  Mails,       \* the files for this host that the master may send
  NoMail,      \* a command that belongs to no mail
  NoConn,      \* no entry for this host in host_vs_conn_map
  RcptCount,   \* recipients_count of a mail
  LineCount,   \* msg_lines of a mail
  MaxConnect,  \* max_connect_count
  MaxTroubles  \* bound: resets, FINs, split replies and replies that make no event

ASSUME ClientAssumption ==
  /\ NoMail \notin Mails
  /\ RcptCount \in Nat \ {0} /\ LineCount \in Nat /\ MaxConnect \in Nat \ {0}
  /\ MaxTroubles \in Nat

VARIABLES
  worker,    \* "runs"; "exited": client_fsm_do_invalid ended the process; "crashed"
  pc,        \* where in its pass the worker is
  files,     \* files not yet loaded: loading removes the file
  conn,      \* the SMTP_connection_t with its peer_t, or NoConn
  elapsed,   \* which of the connection's time limits have passed
  net,       \* the TCP connection as both ends see it
  host,      \* the mail host's side of the dialogue
  troubles,  \* how many troubles the network has made
  delivered, \* how often each mail was taken by the host: 0, 1, or 2 for more (history)
  verdict,   \* the host's last final word on each mail (history)
  skipping,  \* the head was popped by expiry and RSET is not answered yet (history)
  rough      \* a connection lost, a reply split, odd or without a row (history)

vars == << worker, pc, files, conn, elapsed, net, host, troubles, delivered, verdict,
          skipping, rough >>

----------------------------------------------------------------------------
\* The state machine: the table of client-fsm.c, generated from client.def.
\* One operator per state says where its rows lead; "INVALID" for an event without one.
\* Every callback returns the table's next state, but client_fsm_do_invalid.

Replies == { "2XX", "3XX", "4XX", "502", "5XX" }

Events == Replies \union { "NONE", "CLOSE_CONNECTION", "HELLO", "EHLO", "MAIL", "RSET", "RCPT",
                           "DATA", "MSG_TEXT", "END_DATA", "QUIT" }

InitRows(event) ==
  CASE event = "NONE" -> "INIT"
    [] event = "2XX"  -> "SENDING_EHLO"
    [] OTHER          -> "INVALID"

SendingHelloRows(event) == IF event = "HELLO" THEN "HELLO_SENDED" ELSE "INVALID"

HelloSendedRows(event) ==
  CASE event \in {"NONE", "4XX"} -> "HELLO_SENDED"
    [] event = "2XX"             -> "SENDING_MAIL_OR_QUIT"
    [] event = "502"             -> "SENDING_EHLO"
    [] event = "5XX"             -> "CLOSED_CONNECTION"
    [] OTHER                     -> "INVALID"

SendingEhloRows(event) == IF event = "EHLO" THEN "EHLO_SENDED" ELSE "INVALID"

EhloSendedRows(event) ==
  CASE event \in {"NONE", "4XX"} -> "EHLO_SENDED"
    [] event = "2XX"             -> "SENDING_MAIL_OR_QUIT"
    [] event = "5XX"             -> "CLOSED_CONNECTION"
    [] OTHER                     -> "INVALID"

GetNextMessageRows(event) ==
  CASE event = "MAIL" -> "MAIL_SENDED"
    [] event = "QUIT" -> "QUIT_SENDED"
    [] OTHER          -> "INVALID"

SendingMailOrQuitRows(event) ==
  CASE event = "NONE" -> "SENDING_MAIL_OR_QUIT"
    [] event = "MAIL" -> "MAIL_SENDED"
    [] event = "QUIT" -> "QUIT_SENDED"
    [] OTHER          -> "INVALID"

\* Mutated: the reply to MAIL is not waited for.
MailSendedRows_hasty(event) ==
  CASE event \in {"NONE", "2XX"} -> "SENDING_RCPT_OR_DATA"
    [] event = "4XX"             -> "SENDING_MAIL_OR_QUIT"
    [] event = "5XX"             -> "GET_NEXT_MESSAGE"
    [] OTHER                     -> "INVALID"

\* Mutated: a mail put off is taken for a mail refused.
MailSendedRows_drops(event) ==
  CASE event = "NONE"           -> "MAIL_SENDED"
    [] event = "2XX"            -> "SENDING_RCPT_OR_DATA"
    [] event \in {"4XX", "5XX"} -> "GET_NEXT_MESSAGE"
    [] OTHER                    -> "INVALID"

MailSendedRows(event) ==
  CASE event = "NONE" -> "MAIL_SENDED"
    [] event = "2XX"  -> "SENDING_RCPT_OR_DATA"
    [] event = "4XX"  -> "SENDING_MAIL_OR_QUIT"
    [] event = "5XX"  -> "GET_NEXT_MESSAGE"
    [] OTHER          -> "INVALID"

\* Mutated: RSET is not waited for.
SendingRcptOrDataRows_goes_on(event) ==
  CASE event = "RCPT" -> "RCPT_SENDED"
    [] event = "DATA" -> "DATA_SENDED"
    [] event = "RSET" -> "SENDING_RCPT_OR_DATA"
    [] OTHER          -> "INVALID"

SendingRcptOrDataRows(event) ==
  CASE event = "RCPT" -> "RCPT_SENDED"
    [] event = "DATA" -> "DATA_SENDED"
    [] event = "RSET" -> "RSET_SENDED"
    [] OTHER          -> "INVALID"

RcptSendedRows(event) ==
  CASE event = "NONE" -> "RCPT_SENDED"
    [] event = "2XX"  -> "SENDING_RCPT_OR_DATA"
    [] event = "4XX"  -> "SENDING_MAIL_OR_QUIT"
    [] event = "5XX"  -> "GET_NEXT_MESSAGE"
    [] OTHER          -> "INVALID"

DataSendedRows(event) ==
  CASE event = "NONE" -> "DATA_SENDED"
    [] event = "3XX"  -> "SENDING_MSG_TEXT_OR_END_MSG"
    [] event = "5XX"  -> "GET_NEXT_MESSAGE"
    [] OTHER          -> "INVALID"

\* Mutated: no row for the passes before the reply.
RsetSendedRows_impatient(event) == IF event = "2XX" THEN "GET_NEXT_MESSAGE" ELSE "INVALID"

RsetSendedRows(event) ==
  CASE event = "NONE" -> "RSET_SENDED"
    [] event = "2XX"  -> "GET_NEXT_MESSAGE"
    [] OTHER          -> "INVALID"

SendingMsgTextRows(event) ==
  CASE event = "MSG_TEXT" -> "MSG_TEXT_SENDED"
    [] event = "RSET"     -> "RSET_SENDED"
    [] event = "END_DATA" -> "END_DATA_SENDED"
    [] OTHER              -> "INVALID"

MsgTextSendedRows(event) == IF event = "NONE" THEN "SENDING_MSG_TEXT_OR_END_MSG" ELSE "INVALID"

\* Mutated: a mail the host has taken stays at the head.
EndDataSendedRows_again(event) ==
  CASE event = "NONE"           -> "END_DATA_SENDED"
    [] event \in {"2XX", "4XX"} -> "SENDING_MAIL_OR_QUIT"
    [] event = "5XX"            -> "GET_NEXT_MESSAGE"
    [] OTHER                    -> "INVALID"

\* Mutated: a temporary refusal is waited out, as after EHLO.
EndDataSendedRows_waits(event) ==
  CASE event \in {"NONE", "4XX"} -> "END_DATA_SENDED"
    [] event \in {"2XX", "5XX"}  -> "GET_NEXT_MESSAGE"
    [] OTHER                     -> "INVALID"

EndDataSendedRows(event) ==
  CASE event = "NONE"           -> "END_DATA_SENDED"
    [] event \in {"2XX", "5XX"} -> "GET_NEXT_MESSAGE"
    [] event = "4XX"            -> "SENDING_MAIL_OR_QUIT"
    [] OTHER                    -> "INVALID"

\* No event leads here and none but CLOSE_CONNECTION leads on.
SendingQuitRows(event) == "INVALID"

QuitSendedRows(event) ==
  CASE event = "NONE"                  -> "QUIT_SENDED"
    [] event \in {"2XX", "4XX", "5XX"} -> "CLOSED_CONNECTION"
    [] OTHER                           -> "INVALID"

ClosedConnectionRows(event) == IF event = "NONE" THEN "CLOSED_CONNECTION" ELSE "INVALID"

\* GET_NEXT_MESSAGE stands for GET_NEXT_MESSAGE_AND_SENDING_MAIL_OR_QUIT.
client_fsm_trans_table(state, event) ==
  CASE state = "INIT"                        -> InitRows(event)
    [] state = "SENDING_HELLO"               -> SendingHelloRows(event)
    [] state = "HELLO_SENDED"                -> HelloSendedRows(event)
    [] state = "SENDING_EHLO"                -> SendingEhloRows(event)
    [] state = "EHLO_SENDED"                 -> EhloSendedRows(event)
    [] state = "GET_NEXT_MESSAGE"            -> GetNextMessageRows(event)
    [] state = "SENDING_MAIL_OR_QUIT"        -> SendingMailOrQuitRows(event)
    [] state = "MAIL_SENDED"                 -> MailSendedRows(event)
    [] state = "SENDING_RCPT_OR_DATA"        -> SendingRcptOrDataRows(event)
    [] state = "RCPT_SENDED"                 -> RcptSendedRows(event)
    [] state = "DATA_SENDED"                 -> DataSendedRows(event)
    [] state = "RSET_SENDED"                 -> RsetSendedRows(event)
    [] state = "SENDING_MSG_TEXT_OR_END_MSG" -> SendingMsgTextRows(event)
    [] state = "MSG_TEXT_SENDED"             -> MsgTextSendedRows(event)
    [] state = "END_DATA_SENDED"             -> EndDataSendedRows(event)
    [] state = "SENDING_QUIT"                -> SendingQuitRows(event)
    [] state = "QUIT_SENDED"                 -> QuitSendedRows(event)
    [] state = "CLOSED_CONNECTION"           -> ClosedConnectionRows(event)

States == { "INIT", "SENDING_HELLO", "HELLO_SENDED", "SENDING_EHLO", "EHLO_SENDED",
            "GET_NEXT_MESSAGE", "SENDING_MAIL_OR_QUIT", "MAIL_SENDED",
            "SENDING_RCPT_OR_DATA", "RCPT_SENDED", "DATA_SENDED", "RSET_SENDED",
            "SENDING_MSG_TEXT_OR_END_MSG", "MSG_TEXT_SENDED", "END_DATA_SENDED",
            "SENDING_QUIT", "QUIT_SENDED", "CLOSED_CONNECTION" }

\* Every state has a row for CLOSE_CONNECTION.
CloseConnectionRow == "CLOSED_CONNECTION"

\* "INVALID" stands for the end of the process: client_fsm_do_invalid calls exit.
client_fsm_step(state, event) ==
  IF event = "CLOSE_CONNECTION" THEN CloseConnectionRow ELSE client_fsm_trans_table(state, event)

----------------------------------------------------------------------------
\* SMTP_connection_t with its peer_t.  Commands wait in messages_in and move to
\* buffer_in when they are sent; a failed send leaves them there.

Command == [ cmd : Events, mail : Mails \union {NoMail} ]
\* "ODD": no code that parse_response_code and generate_event make an event of: none at
\* all, below 200 or from 600 on.
Classes == Replies \union {"ODD"}
Reply   == [ class : Classes, to : Events \union {"GREETING"} ]

SMTP_connection ==
  [ state : States, last_event : Events, messages : Seq(Mails),
    current_rcpt : Nat, current_msg_line : Nat,
    current_connection_num : Nat, fd : {"open", "none"},
    messages_in : Seq(Command), buffer_in : Seq(Command), messages_out : Seq(Reply) ]

ASSUME NoConnAssumption == NoConn \notin SMTP_connection

Fd(up) == IF up THEN "open" ELSE "none"

\* last_event is not set by the code; no path reads it before generate_event sets it.
SMTP_connection_init(up) ==
  [ state |-> "INIT", last_event |-> "NONE", messages |-> << >>,
    current_rcpt |-> 0, current_msg_line |-> 0,
    current_connection_num |-> 1, fd |-> Fd(up),
    messages_in |-> << >>, buffer_in |-> << >>, messages_out |-> << >> ]

\* The queues of the peer and the mails stay.
SMTP_connection_reinit(c, up) ==
  [ c EXCEPT !.state = "INIT", !.current_msg_line = 0, !.current_rcpt = 0,
             !.fd = Fd(up), !.current_connection_num = @ + 1 ]

has_more_connection_attempts(c) == MaxConnect > c.current_connection_num

\* Mutated: the state is noted in place of the event.
Quiet_state(c, event) == [ event |-> event, conn |-> [c EXCEPT !.last_event = c.state] ]

\* What generate_event returns: the event, and the connection it leaves behind.
Quiet(c, event) == [ event |-> event, conn |-> [c EXCEPT !.last_event = event] ]

Sends(c, event, mail) ==
  Quiet([c EXCEPT !.messages_in = Append(@, [cmd |-> event, mail |-> mail])], event)

\* A retry that comes too early returns before last_event is assigned.
SendMailOrQuit(c, el) ==
  IF c.messages = << >> THEN Sends(c, "QUIT", NoMail)
  ELSE IF c.last_event = "4XX" /\ ~el.retry THEN [ event |-> "NONE", conn |-> c ]
  ELSE Sends([c EXCEPT !.current_rcpt = 0, !.current_msg_line = 0], "MAIL", Head(c.messages))

\* Mutated: the mail that was dealt with stays at the head.
GetNextMessage_keeps(c, el) == SendMailOrQuit(c, el)

GetNextMessage(c, el) ==
  SendMailOrQuit([c EXCEPT !.messages = IF @ = << >> THEN @ ELSE Tail(@)], el)

\* The time for this mail is over: it is dropped and the transaction reset.
Expire(c) == Sends([c EXCEPT !.messages = Tail(@)], "RSET", Head(c.messages))

\* Mutated: one recipient is left out.
SendRcptOrData_short(c, el) ==
  IF el.late THEN Expire(c)
  ELSE IF c.current_rcpt + 1 < RcptCount
       THEN Sends([c EXCEPT !.current_rcpt = @ + 1], "RCPT", Head(c.messages))
       ELSE Sends(c, "DATA", Head(c.messages))

SendRcptOrData(c, el) ==
  IF el.late THEN Expire(c)
  ELSE IF c.current_rcpt < RcptCount
       THEN Sends([c EXCEPT !.current_rcpt = @ + 1], "RCPT", Head(c.messages))
       ELSE Sends(c, "DATA", Head(c.messages))

SendMsgTextOrEndMsg(c, el) ==
  IF el.late THEN Expire(c)
  ELSE IF c.current_msg_line < LineCount
       THEN Sends([c EXCEPT !.current_msg_line = @ + 1], "MSG_TEXT", Head(c.messages))
       ELSE Sends(c, "END_DATA", Head(c.messages))

EventOf(class) == IF class = "ODD" THEN "NONE" ELSE class

\* The first reply counts, all others that have arrived are thrown away; a reply that
\* makes no event is gone as well.
TakeResponse(c) ==
  IF c.messages_out = << >> THEN Quiet(c, "NONE")
  ELSE Quiet([c EXCEPT !.messages_out = << >>], EventOf(Head(c.messages_out).class))

\* The switch of generate_event; el tells which time limits have passed.
generate_event(c, el) ==
  CASE c.state = "SENDING_HELLO"               -> Sends(c, "HELLO", NoMail)
    [] c.state = "SENDING_EHLO"                -> Sends(c, "EHLO", NoMail)
    [] c.state = "GET_NEXT_MESSAGE"            -> GetNextMessage(c, el)
    [] c.state = "SENDING_MAIL_OR_QUIT"        -> SendMailOrQuit(c, el)
    [] c.state = "SENDING_RCPT_OR_DATA"        -> SendRcptOrData(c, el)
    [] c.state = "SENDING_MSG_TEXT_OR_END_MSG" -> SendMsgTextOrEndMsg(c, el)
    [] c.state = "SENDING_QUIT"                -> Quiet(c, "NONE")
    [] c.state = "CLOSED_CONNECTION"           -> [ event |-> "NONE", conn |-> c ]
    [] OTHER                                   -> TakeResponse(c)

----------------------------------------------------------------------------
\* The environment: the TCP connection and the mail host.

Net == [ status : {"none", "up", "fin", "reset"}, cmds : Seq(Command), replies : Seq(Reply) ]

NoNet == [ status |-> "none", cmds |-> << >>, replies |-> << >> ]

Connected(up) == IF up THEN [NoNet EXCEPT !.status = "up"] ELSE NoNet

\* What the host holds of the dialogue on the present TCP connection.
Host ==
  [ greeted : BOOLEAN, hello : BOOLEAN,
    rest    : BOOLEAN,                  \* a second line of the EHLO reply is to come
    mail    : Mails \union {NoMail},    \* the open transaction
    rcpts   : Nat,
    text    : BOOLEAN,                  \* DATA was answered 3xx
    lines   : Nat,                      \* lines of text received
    foreign : BOOLEAN ]                 \* one of them is not of this mail

NewHost == [ greeted |-> FALSE, hello |-> FALSE, rest |-> FALSE, mail |-> NoMail,
             rcpts |-> 0, text |-> FALSE, lines |-> 0, foreign |-> FALSE ]

Limits == {"retry", "late", "connect"}

NoneElapsed == [ limit \in Limits |-> FALSE ]

Trouble == troubles < MaxTroubles /\ troubles' = troubles + 1

Init ==
  /\ worker = "runs"
  /\ pc = "select"
  /\ files = Mails
  /\ conn = NoConn
  /\ elapsed = NoneElapsed
  /\ net = NoNet
  /\ host = NewHost
  /\ troubles = 0
  /\ delivered = [ m \in Mails |-> 0 ]
  /\ verdict = [ m \in Mails |-> "none" ]
  /\ skipping = FALSE
  /\ rough = FALSE

----------------------------------------------------------------------------
\* The worker.  A pass over this connection is select_step and then a step of the
\* state machine; the file names come last, which is just before the next select.

HasSocket == conn # NoConn /\ conn.fd = "open"

\* FD_ISSET is also asked for descriptor -1; with glibc it answers for descriptor 63.
SelectNothing ==
  /\ pc = "select" /\ ~HasSocket
  /\ pc' = "step"
  /\ UNCHANGED << worker, files, conn, elapsed, net, host, troubles, delivered, verdict,
                  skipping, rough >>

\* peer_receive fails and gives the descriptor up.
ReceiveFails ==
  /\ pc = "select" /\ HasSocket /\ net.status = "reset"
  /\ pc' = "step"
  /\ conn' = [conn EXCEPT !.fd = "none"]
  /\ net' = NoNet
  /\ rough' = TRUE
  /\ UNCHANGED << worker, troubles, files, elapsed, host, delivered, verdict, skipping >>

Received == conn.messages_out \o net.replies

\* What peer_send sends: build_storage asks for it only when a command is queued.
Outgoing == IF conn.messages_in = << >> THEN << >> ELSE conn.buffer_in \o conn.messages_in

\* peer_receive takes what has arrived, nothing after a FIN; peer_send is called
\* only when a command is queued, and then sends what an earlier failure left in
\* the buffer too.  A closed peer answers data with a reset.
SelectStep ==
  /\ pc = "select" /\ HasSocket /\ net.status \in {"up", "fin"}
  /\ pc' = "step"
  /\ IF conn.messages_in = << >>
     THEN /\ conn' = [conn EXCEPT !.messages_out = Received]
          /\ net' = [net EXCEPT !.replies = << >>]
     ELSE /\ conn' = [conn EXCEPT !.messages_out = Received, !.messages_in = << >>,
                                  !.buffer_in = << >>]
          /\ net' = IF net.status = "up"
                    THEN [net EXCEPT !.replies = << >>, !.cmds = @ \o Outgoing]
                    ELSE [net EXCEPT !.replies = << >>, !.status = "reset"]
  /\ UNCHANGED << worker, troubles, files, elapsed, host, delivered, verdict, skipping, rough >>

\* peer_send fails: the commands stay in the buffer, the descriptor is given up.
SendFails ==
  /\ pc = "select" /\ HasSocket /\ net.status \in {"up", "fin"}
  /\ Trouble /\ conn.messages_in # << >>
  /\ pc' = "step"
  /\ conn' = [conn EXCEPT !.messages_out = Received, !.messages_in = << >>,
                          !.buffer_in = Outgoing, !.fd = "none"]
  /\ net' = NoNet
  /\ rough' = TRUE
  /\ UNCHANGED << worker, files, elapsed, host, delivered, verdict, skipping >>

\* worker_main closes the socket and deletes the connection with its mails.
Delete ==
  /\ conn' = NoConn
  /\ net' = NoNet
  /\ skipping' = FALSE

\* MAIL notes the time of this attempt, and of the first one unless it is a retry.
Clocked(c, event, el) ==
  IF event = "MAIL" THEN [el EXCEPT !.retry = FALSE, !.late = @ /\ c.last_event = "4XX"]
                    ELSE el

\* generate_event past the reconnection, client_fsm_step, and what worker_main
\* makes of the new state.
Advance(c, el, tcp) ==
  LET g    == generate_event(c, el)
      next == client_fsm_step(c.state, g.event)
  IN /\ elapsed' = Clocked(c, g.event, el)
     /\ \/ /\ next = "INVALID"
           /\ worker' = "exited"
           /\ conn' = g.conn
           /\ net' = NoNet
           /\ UNCHANGED skipping
        \/ /\ next = "CLOSED_CONNECTION"
           /\ Delete
           /\ UNCHANGED worker
        \/ /\ next \notin {"INVALID", "CLOSED_CONNECTION"}
           /\ conn' = [g.conn EXCEPT !.state = next]
           /\ net' = tcp
           /\ skipping' = IF g.event = "RSET" THEN TRUE
                          ELSE skipping /\ c.state # "GET_NEXT_MESSAGE"
           /\ UNCHANGED worker

StepNothing ==
  /\ pc = "step" /\ conn = NoConn
  /\ pc' = "select"
  /\ UNCHANGED << worker, files, conn, elapsed, net, host, troubles, delivered, verdict,
                  skipping, rough >>

\* No descriptor and no attempt left.
StepGiveUp ==
  /\ pc = "step" /\ conn # NoConn /\ ~HasSocket
  /\ ~has_more_connection_attempts(conn)
  /\ client_fsm_step(conn.state, "CLOSE_CONNECTION") = "CLOSED_CONNECTION"
  /\ pc' = "select"
  /\ Delete
  /\ UNCHANGED << worker, troubles, files, elapsed, host, delivered, verdict, rough >>

\* can_reconnect_now: the step goes on in the new connection's first state.
StepReconnect(up) ==
  /\ pc = "step" /\ conn # NoConn /\ ~HasSocket
  /\ has_more_connection_attempts(conn) /\ elapsed.connect
  /\ pc' = "select"
  /\ host' = NewHost
  /\ Advance(SMTP_connection_reinit(conn, up), [elapsed EXCEPT !.connect = FALSE],
             Connected(up))
  /\ UNCHANGED << files, troubles, delivered, verdict, rough >>

\* With a descriptor, or without one and too early to reconnect.
Step ==
  /\ pc = "step" /\ conn # NoConn
  /\ HasSocket \/ (has_more_connection_attempts(conn) /\ ~elapsed.connect)
  /\ pc' = "select"
  /\ Advance(conn, elapsed, net)
  /\ UNCHANGED << files, troubles, host, delivered, verdict, rough >>

\* process_parent_messages, one file name: the mail joins the host's connection,
\* which is made if there is none, and the file is removed.  A file that cannot be
\* parsed is removed like any other, and may leave a connection with nothing to send.
LoadToOpen(m, parsed) ==
  /\ pc = "select" /\ m \in files /\ conn # NoConn
  /\ files' = files \ {m}
  /\ conn' = IF parsed THEN [conn EXCEPT !.messages = Append(@, m)] ELSE conn
  /\ UNCHANGED << worker, troubles, pc, elapsed, net, host, delivered, verdict, skipping, rough >>

LoadToNew(m, parsed, up) ==
  /\ pc = "select" /\ m \in files /\ conn = NoConn
  /\ files' = files \ {m}
  /\ conn' = [SMTP_connection_init(up) EXCEPT !.messages = IF parsed THEN << m >> ELSE << >>]
  /\ elapsed' = NoneElapsed
  /\ net' = Connected(up)
  /\ host' = NewHost
  /\ UNCHANGED << worker, pc, troubles, delivered, verdict, skipping, rough >>

\* get_IP finds no address for the host: the new connection has a null ip, and
\* tree_insert copies it with string_copy, which dereferences it.  The file stays.
LookupFails(m) ==
  /\ pc = "select" /\ m \in files /\ conn = NoConn
  /\ worker' = "crashed"
  /\ UNCHANGED << pc, files, conn, elapsed, net, host, troubles, delivered, verdict,
                  skipping, rough >>

----------------------------------------------------------------------------
\* The mail host and the network.

\* Where the client waits for the answer to what.
WaitsIn(cmd) ==
  CASE cmd = "GREETING" -> "INIT"
    [] cmd = "EHLO"     -> "EHLO_SENDED"
    [] cmd = "MAIL"     -> "MAIL_SENDED"
    [] cmd = "RCPT"     -> "RCPT_SENDED"
    [] cmd = "DATA"     -> "DATA_SENDED"
    [] cmd = "RSET"     -> "RSET_SENDED"
    [] cmd = "END_DATA" -> "END_DATA_SENDED"
    [] cmd = "QUIT"     -> "QUIT_SENDED"
    [] OTHER            -> "none"

WaitStates == { "INIT", "EHLO_SENDED", "MAIL_SENDED", "RCPT_SENDED", "DATA_SENDED", "RSET_SENDED",
                "END_DATA_SENDED", "QUIT_SENDED" }

\* The reply has a row in the state that waits for it.
Foreseen(cmd, class) ==
  WaitsIn(cmd) \in WaitStates /\ client_fsm_step(WaitsIn(cmd), class) # "INVALID"

\* Bound: a host takes one recipient more than a mail has and refuses others.
HostLimit == RcptCount + 1

\* The classes a host may answer with: what is out of order is refused.
Answers(x) ==
  CASE x.cmd = "EHLO"               -> {"2XX", "4XX", "502", "5XX"}
    [] x.cmd = "MAIL" /\ host.hello -> {"2XX", "4XX", "5XX"}
    [] x.cmd = "RCPT" /\ host.mail # NoMail /\ host.rcpts < HostLimit -> {"2XX", "4XX", "5XX"}
    [] x.cmd = "DATA" /\ host.rcpts > 0     -> {"3XX", "4XX", "5XX"}
    [] x.cmd = "END_DATA" /\ host.text      -> {"2XX", "4XX", "5XX"}
    [] x.cmd \in {"RSET", "QUIT"}   -> {"2XX", "4XX", "5XX"}
    [] OTHER                        -> {"5XX"}

Ended == [ host EXCEPT !.mail = NoMail, !.rcpts = 0, !.text = FALSE, !.lines = 0,
                       !.foreign = FALSE ]

\* The host's side after it has answered x.
Answered(x, class) ==
  CASE x.cmd = "EHLO" /\ class = "2XX" -> [Ended EXCEPT !.hello = TRUE]
    [] x.cmd = "MAIL" /\ class = "2XX" -> [Ended EXCEPT !.mail = x.mail]
    [] x.cmd = "RCPT" /\ class = "2XX" -> [host EXCEPT !.rcpts = @ + 1]
    [] x.cmd = "DATA" /\ class = "3XX" -> [host EXCEPT !.text = TRUE]
    [] x.cmd = "RSET" /\ class = "2XX" -> Ended
    [] x.cmd = "END_DATA"              -> Ended
    [] OTHER                           -> host

Transaction == {"MAIL", "RCPT", "DATA", "END_DATA"}

Greet(class) ==
  /\ net.status = "up" /\ ~host.greeted
  /\ class \in {"2XX", "4XX", "5XX", "ODD"}
  /\ IF class = "ODD" THEN Trouble ELSE UNCHANGED troubles
  /\ host' = [host EXCEPT !.greeted = TRUE]
  /\ net' = [net EXCEPT !.replies = Append(@, [class |-> class, to |-> "GREETING"])]
  /\ rough' = (rough \/ ~Foreseen("GREETING", class))
  /\ UNCHANGED << worker, pc, files, conn, elapsed, delivered, verdict, skipping >>

\* A command is served; rest: the answer has a second line that travels alone.
Serve(class, rest) ==
  /\ net.status = "up" /\ host.greeted /\ ~host.rest /\ net.cmds # << >>
  /\ LET x == Head(net.cmds)
     IN /\ ~host.text \/ x.cmd = "END_DATA"
        /\ class \in Answers(x) \union {"ODD"}
        /\ rest => x.cmd = "EHLO" /\ class = "2XX"
        /\ IF rest \/ class = "ODD" THEN Trouble ELSE UNCHANGED troubles
        /\ host' = [Answered(x, class) EXCEPT !.rest = rest]
        /\ net' = [net EXCEPT !.cmds = Tail(@),
                              !.replies = Append(@, [class |-> class, to |-> x.cmd])]
        /\ rough' = (rough \/ rest \/ ~Foreseen(x.cmd, class))
        /\ IF x.cmd = "END_DATA" /\ class = "2XX"
           THEN /\ verdict' = [verdict EXCEPT ![host.mail] = "accepted"]
                /\ delivered' = [delivered EXCEPT ![host.mail] = IF @ = 2 THEN 2 ELSE @ + 1]
           ELSE /\ verdict' = IF x.cmd \in Transaction /\ class = "5XX"
                              THEN [verdict EXCEPT ![x.mail] = "refused"] ELSE verdict
                /\ UNCHANGED delivered
  /\ UNCHANGED << worker, pc, files, conn, elapsed, skipping >>

\* While the text is transferred every line but the dot is text, RSET too.
TakeText ==
  /\ net.status = "up" /\ host.text /\ net.cmds # << >>
  /\ LET x == Head(net.cmds)
     IN /\ x.cmd # "END_DATA"
        /\ host' = [host EXCEPT !.lines = @ + 1,
                      !.foreign = @ \/ x # [cmd |-> "MSG_TEXT", mail |-> host.mail]]
  /\ net' = [net EXCEPT !.cmds = Tail(@)]
  /\ UNCHANGED << worker, troubles, pc, files, conn, elapsed, delivered, verdict, skipping, rough >>

SendRest ==
  /\ net.status = "up" /\ host.rest
  /\ host' = [host EXCEPT !.rest = FALSE]
  /\ net' = [net EXCEPT !.replies = Append(@, [class |-> "2XX", to |-> "EHLO"])]
  /\ UNCHANGED << worker, troubles, pc, files, conn, elapsed, delivered, verdict, skipping, rough >>

\* The host closes its end, or the connection is reset with all that is under way.
Fin ==
  /\ Trouble /\ net.status = "up"
  /\ net' = [net EXCEPT !.status = "fin", !.cmds = << >>]
  /\ UNCHANGED << worker, pc, files, conn, elapsed, host, delivered, verdict, skipping, rough >>

Reset ==
  /\ Trouble /\ net.status \in {"up", "fin"}
  /\ net' = [NoNet EXCEPT !.status = "reset"]
  /\ UNCHANGED << worker, pc, files, conn, elapsed, host, delivered, verdict, skipping, rough >>

Deferred == conn.state = "SENDING_MAIL_OR_QUIT" /\ conn.last_event = "4XX"

\* Time passes one of the limits: min_interval_between_attempts ("retry"),
\* max_attempts_time ("late"), min_interval_between_connect ("connect").  That it
\* has passed shows where the code looks, so it need not be told earlier.
Elapse(limit) ==
  /\ conn # NoConn /\ ~elapsed[limit]
  /\ CASE limit = "retry"   -> Deferred
       [] limit = "late"    -> Deferred \/ conn.state \in {"SENDING_RCPT_OR_DATA",
                                                            "SENDING_MSG_TEXT_OR_END_MSG"}
       [] limit = "connect" -> ~HasSocket
  /\ elapsed' = [elapsed EXCEPT ![limit] = TRUE]
  /\ UNCHANGED << worker, pc, files, conn, net, host, troubles, delivered, verdict,
                  skipping, rough >>

----------------------------------------------------------------------------
Worker ==
  /\ worker = "runs"
  /\ \/ SelectNothing \/ ReceiveFails \/ SelectStep \/ SendFails
     \/ StepNothing \/ StepGiveUp \/ Step
     \/ \E up \in BOOLEAN : StepReconnect(up)

Load ==
  /\ worker = "runs"
  /\ \E m \in Mails :
       \/ \E parsed \in BOOLEAN :
            LoadToOpen(m, parsed) \/ \E up \in BOOLEAN : LoadToNew(m, parsed, up)
       \/ LookupFails(m)

MailHost ==
  \/ \E class \in Classes : Greet(class) \/ \E rest \in BOOLEAN : Serve(class, rest)
  \/ TakeText \/ SendRest

Network == Fin \/ Reset

Time == worker = "runs" /\ \E limit \in Limits : Elapse(limit)

Next == Worker \/ Load \/ MailHost \/ Network \/ Time

Spec == Init /\ [][Next]_vars

\* The worker's loop runs (select returns after a second at most), the host
\* answers, time passes.
FairSpec ==
  /\ Spec
  /\ WF_vars(Worker) /\ WF_vars(MailHost)
  /\ \A limit \in Limits : WF_vars(worker = "runs" /\ Elapse(limit))

\* ... and a host whose temporary refusals are temporary.
RelentingSpec == FairSpec /\ <>[][~Serve("4XX", FALSE)]_vars

----------------------------------------------------------------------------
\* The variables have their types.
TypeOK ==
  /\ worker \in {"runs", "exited", "crashed"}
  /\ pc \in {"select", "step"}
  /\ files \subseteq Mails
  /\ conn \in SMTP_connection \union {NoConn}
  /\ elapsed \in [ Limits -> BOOLEAN ]
  /\ net \in Net
  /\ host \in Host
  /\ delivered \in [ Mails -> 0..2 ]
  /\ verdict \in [ Mails -> {"none", "accepted", "refused"} ]
  /\ troubles \in 0..MaxTroubles
  /\ skipping \in BOOLEAN /\ rough \in BOOLEAN

Queued(m) == conn # NoConn /\ m \in ToSet(conn.messages)

\* The commands on their way, and those of them the host owes an answer to.
Underway == net.cmds \o Outgoing

Owed == { i \in DOMAIN Underway : Underway[i].cmd # "MSG_TEXT" }

\* The client waits for a reply and nobody owes it one.
Parked ==
  /\ HasSocket /\ conn.state \in WaitStates
  /\ Owed = {} /\ Received = << >>
  /\ net.status = "fin" \/ (net.status = "up" /\ host.greeted /\ ~host.rest)

Talking == worker = "runs" /\ HasSocket /\ ~rough

\* The dialogue stays in step: as long as the connection is not lost and every
\* reply comes in one piece and has a row, the client has at most one command
\* unanswered, the one its state waits for, and no reply is left over.
InStep ==
  Talking =>
    /\ \A i, j \in Owed : i = j
    /\ Len(Received) <= 1 /\ (Received # << >> => Owed = {})
    /\ \A i \in Owed : conn.state = WaitsIn(Underway[i].cmd)
    /\ \A i \in DOMAIN Received : conn.state = WaitsIn(Received[i].to)

\* In a transaction the mail at the head of the queue is the one the host was
\* told of in MAIL: queue_peek finds it, nothing popped it in between.
HeadInHand ==
  /\ conn # NoConn /\ conn.state \in {"SENDING_RCPT_OR_DATA", "RCPT_SENDED", "DATA_SENDED",
                       "SENDING_MSG_TEXT_OR_END_MSG", "MSG_TEXT_SENDED", "END_DATA_SENDED"}
       => conn.messages # << >>
  /\ Talking /\ conn.state \in {"SENDING_RCPT_OR_DATA", "SENDING_MSG_TEXT_OR_END_MSG"}
       => host.mail = Head(conn.messages)

\* As far as this host is concerned the process, with the connections to all its hosts,
\* ends only after a reply without a row, a split reply or a lost connection, or when it
\* takes up a mail while there is no connection and cannot find the host's address; that
\* file it leaves in the spool.
ExitsForCause ==
  /\ worker = "exited" => rough
  /\ worker = "crashed" => conn = NoConn /\ files # {}

\* A mail the host takes has all its recipients and all its lines and nothing
\* of another mail, whatever refusals and retries came before.
DeliveredWhole ==
  [][\A m \in Mails : delivered'[m] # delivered[m] /\ ~rough =>
        host.rcpts = RcptCount /\ host.lines = LineCount /\ ~host.foreign]_vars

\* No mail is taken twice while the connection holds.
DeliveredOnce == ~rough => \A m \in Mails : delivered[m] <= 1

\* A mail leaves the queue for a reason: the host's final word, its own time
\* limit, the end of the connection, or as the one mail behind an expired one.
LeavesForCause ==
  [][\A m \in Mails : Queued(m) /\ conn' # NoConn /\ ~Queued(m)' /\ ~rough =>
        \/ verdict[m] # "none"
        \/ m = Head(conn.messages) /\ (elapsed.late \/ skipping)]_vars

\* The client waits in vain only after a FIN it does not notice, after a 4xx
\* answer to EHLO, or after an RSET that the host took for text.
ParkedForCause ==
  Parked /\ ~rough =>
    \/ net.status = "fin"
    \/ conn.state = "EHLO_SENDED"
    \/ conn.state = "RSET_SENDED" /\ host.text

\* Every mail is dealt with, unless the process ends or the client is parked.
Settled ==
  \A m \in Mails : Queued(m) ~> (~Queued(m) \/ Parked \/ worker # "runs")

\* QUIT ends the session when there is nothing left to send.
QuitLeavesNothing ==
  [][conn # NoConn /\ conn.state = "QUIT_SENDED" /\ conn' = NoConn
        => conn.messages = << >>]_vars

\* When the time for all attempts at a mail is over, the mail is given up.
GivenUpInTime ==
  \A m \in Mails : (Queued(m) /\ m = Head(conn.messages) /\ elapsed.late)
                     ~> (~Queued(m) \/ Parked \/ worker # "runs")
=============================================================================
