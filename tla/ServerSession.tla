--------------------------- MODULE ServerSession ---------------------------
(***************************************************************************)
(* A session between the server and one SMTP peer: the client record driven *)
(* by the branches of process_poll (server/src/smtp_server.c) that concern  *)
(* one connection, the socket's receive buffer, the mails written, and the  *)
(* peer.  With Pipelining the peer sends any line at any time; without it   *)
(* the peer keeps to the dialogue: it waits for the reply to each command   *)
(* and sends the text of a message only after 354.                          *)
(***************************************************************************)
EXTENDS ServerClient

CONSTANTS
  Vocabulary,  \* the kinds of lines this peer uses as commands
  TextKinds,   \* the kinds of lines it uses as text of a message
  Pipelining,  \* whether the peer sends without waiting for replies
  MaxInbox,    \* bound: lines in the socket's receive buffer
  MaxText,     \* bound: lines of one message's text
  MaxMails,    \* bound: MAIL lines are sent only until write_mail was called so often
  NoLine       \* the peer is not waiting for a reply

ASSUME SessionAssumption ==
  /\ Pipelining \in BOOLEAN
  /\ MaxInbox \in Nat /\ MaxText \in Nat /\ MaxMails \in Nat
  /\ NoLine \notin Lines

VARIABLES
  c,       \* the client record
  inbox,   \* lines received by the kernel and not yet by the server
  fin,     \* the peer has closed its end
  conn,    \* "open", "closed" (fd is -1) or "crashed" (the server process died)
  calls,   \* number of calls of write_mail
  stored,  \* number of them that wrote a mail
  late,    \* the session has been timed out (history)
  sent,    \* parity of the number of replies sent completely (history)
  peer     \* what the peer knows (history): see Peer

vars == << c, inbox, fin, conn, calls, stored, late, sent, peer >>

\* The peer's own account of the dialogue, from the replies it has received.
Peer ==
  [ phase    : {"greeting", "hello", "idle", "mail", "data", "over"},
    awaits   : Lines \union {NoLine},     \* the line it waits an answer to
    from     : Senders \union {NoSender}, \* sender of the current transaction
    rcpts    : SUBSET Address,            \* receivers answered 250 in it
    lines    : Seq(Lines),                \* message text sent in it
    accepted : Nat ]                      \* messages answered 250

Init ==
  /\ c = client_init
  /\ inbox = << >>
  /\ fin = FALSE
  /\ conn = "open"
  /\ calls = 0
  /\ stored = 0
  /\ late = FALSE
  /\ sent = FALSE
  /\ peer = [ phase |-> "greeting", awaits |-> NoLine, from |-> NoSender,
              rcpts |-> {}, lines |-> << >>, accepted |-> 0 ]

----------------------------------------------------------------------------
\* The peer.

InDialogue == peer.phase \notin {"greeting", "over"} /\ peer.awaits = NoLine

\* A peer that does not keep to the dialogue draws no conclusions.
Noted(p) == IF Pipelining THEN peer ELSE p

PeerSend(l) ==
  /\ conn = "open" /\ ~ fin
  /\ l.cmd \in IF peer.phase = "data" THEN TextKinds \union {"DOT"} ELSE Vocabulary
  /\ Len(inbox) < MaxInbox
  /\ Pipelining \/ InDialogue
  /\ l.cmd = "MAIL" => calls < MaxMails
  /\ l.cmd # "DOT" => /\ InText(c) => Len(c.msg_text) + Len(inbox) < MaxText
                      /\ peer.phase = "data" => Len(peer.lines) < MaxText
  /\ inbox' = Append(inbox, l)
  /\ peer' = Noted(IF peer.phase = "data" /\ l.cmd # "DOT"
                     THEN [peer EXCEPT !.lines = Append(@, l)]
                     ELSE [peer EXCEPT !.awaits = l])
  /\ UNCHANGED << c, fin, conn, calls, stored, late, sent >>

PeerClose ==
  /\ conn = "open" /\ ~ fin
  /\ fin' = TRUE
  /\ UNCHANGED << c, inbox, conn, calls, stored, late, sent, peer >>

\* What the peer concludes from a complete reply.
PeerReads(p, code) ==
  LET l == p.awaits
      q == [p EXCEPT !.awaits = NoLine]
  IN  CASE code = "220" -> [q EXCEPT !.phase = "hello"]
        [] code = "354" -> [q EXCEPT !.phase = "data", !.lines = << >>]
        [] code = "221" -> [q EXCEPT !.phase = "over"]
        [] code = "250" /\ l # NoLine ->
             CASE l.cmd \in {"EHLO", "HELO"} -> [q EXCEPT !.phase = "idle"]
               [] l.cmd = "MAIL" -> [q EXCEPT !.phase = "mail", !.from = l.arg, !.rcpts = {}]
               [] l.cmd = "RCPT" -> [q EXCEPT !.rcpts = @ \union {l.arg}]
               [] l.cmd = "DOT" /\ p.phase = "data" ->
                    [q EXCEPT !.phase = "idle", !.from = NoSender, !.rcpts = {},
                              !.lines = << >>, !.accepted = @ + 1]
               [] OTHER          -> q
        [] OTHER        -> q

----------------------------------------------------------------------------
\* process_poll, for this connection.  POLLIN goes before POLLOUT.

\* The chunk at hand completes a message.
Completes == InText(c) /\ EndsMessage(inbox)

\* The file write_mail writes: its headers X-mysmtp-to and X-mysmtp-from, its text,
\* and the links to it.
WrittenMail ==
  [ from |-> c.from, to |-> c.to, text |-> c.msg_text \o BeforeEnd(inbox),
    links |-> Links(c.to) ]

\* msg_recv_one reads what is there; client_process_recv handles it.  write_mail may
\* fail to open its temporary file; with no receiver, to_count - 1 wraps around and
\* the header loop runs off the array.
Recv ==
  /\ conn = "open" /\ ~ fin
  /\ inbox # << >>
  /\ \E opened \in BOOLEAN :
       /\ opened \/ Completes
       /\ c' = client_process_recv(c, inbox, opened)
       /\ calls' = IF Completes THEN calls + 1 ELSE calls
       /\ stored' = IF Completes /\ opened /\ c.to # << >> THEN stored + 1 ELSE stored
       /\ conn' = IF Completes /\ opened /\ c.to = << >> THEN "crashed" ELSE conn
  /\ inbox' = << >>
  /\ UNCHANGED << fin, late, sent, peer >>

\* Mutated: nothing to read is taken for the end of the stream.
RecvEof_on_empty ==
  /\ conn = "open" /\ (fin \/ inbox = << >>)
  /\ conn' = "closed"
  /\ inbox' = << >>
  /\ UNCHANGED << c, fin, calls, stored, late, sent, peer >>

\* recv returns 0: lines read in the same pass are dropped with the message.
RecvEof ==
  /\ conn = "open" /\ fin
  /\ conn' = "closed"
  /\ inbox' = << >>
  /\ UNCHANGED << c, fin, calls, stored, late, sent, peer >>

CanSend == conn = "open" /\ ~ fin /\ inbox = << >> /\ c.need_send

\* msg_send_one sent the whole reply.
Send ==
  /\ CanSend
  /\ c' = client_process_send(c)
  /\ conn' = IF c'.closed THEN "closed" ELSE conn
  /\ peer' = Noted(PeerReads(peer, c.msg_for_sending))
  /\ sent' = ~ sent
  /\ UNCHANGED << inbox, fin, calls, stored, late >>

\* msg_send_one left part of the reply.
SendPart ==
  /\ CanSend
  /\ c' = [c EXCEPT !.cut = TRUE]
  /\ UNCHANGED << inbox, fin, conn, calls, stored, late, sent, peer >>

\* The last branch of process_poll: poll reported something (POLLERR) on a socket
\* that is neither readable nor has a reply it can take.  The start time is not
\* initialised before the first line, so the comparison may go either way.
CheckTimeout ==
  /\ conn = "open" /\ ~ fin /\ inbox = << >>
  /\ \E expired \in BOOLEAN :
       /\ c' = client_process_check_timeout(c, expired)
       /\ late' = (late \/ expired)
  /\ UNCHANGED << inbox, fin, conn, calls, stored, sent, peer >>

\* A finished session.
Finished == conn # "open" /\ UNCHANGED vars

Next ==
  \/ \E l \in Lines : PeerSend(l)
  \/ PeerClose
  \/ Recv
  \/ RecvEof
  \/ Send
  \/ SendPart
  \/ CheckTimeout
  \/ Finished

Spec == Init /\ [][Next]_vars

\* The worker thread keeps polling, and the peer keeps reading: input is read and
\* a reply is eventually taken by the socket.
Fairness == WF_vars(Recv) /\ WF_vars(RecvEof) /\ WF_vars(Send)

FairSpec == Spec /\ Fairness

----------------------------------------------------------------------------
\* Properties.

TypeOK ==
  /\ c \in Client
  /\ inbox \in Seq(Lines)
  /\ fin \in BOOLEAN
  /\ conn \in {"open", "closed", "crashed"}
  /\ calls \in Nat /\ stored \in Nat
  /\ late \in BOOLEAN /\ sent \in BOOLEAN
  /\ peer \in Peer

\* The states only EV_RESPONSE (or QUIT) leaves and whose entry sets a reply.
AwaitingSend ==
  {"INIT", "EHLO_RECEIVED", "HELLO_RECEIVED", "MAIL_RECEIVED", "RCPT_RECEIVED",
   "DATA_RECEIVED", "END_DATA_RECEIVED", "VRFY_RECEIVED"}

\* A session that waits for its reply to be sent has a reply to send: no sequence of
\* lines, partial sends and timeouts leaves it in one of these states for ever.
WaitingIsPending ==
  /\ conn = "open" /\ c.current_state \in AwaitingSend => c.need_send
  /\ c.need_send <=> c.msg_for_sending # "none"

\* The session state a peer that keeps to the dialogue deduces from the replies.
ExpectedState ==
  [ greeting |-> "INIT", hello |-> "WAIT_HELLO_OR_EHLO", idle |-> "CLIENT_INITED",
    mail |-> "EXPECTED_RCPT_OR_DATA", data |-> "EXPECTED_MSG_TEXT_OR_END_MSG" ]

\* Whenever a peer that waits for replies is not waiting for one, the server is in
\* the state the replies have told the peer of, and has handed exactly the mails
\* it confirmed to write_mail (unless it has timed the peer out).  It is down only
\* because write_mail ran off its array, for a message no receiver was accepted for.
InSync ==
  ~ Pipelining =>
    /\ conn = "open" /\ peer.awaits = NoLine /\ ~ late
         => /\ peer.phase # "over"
            /\ c.current_state = ExpectedState[peer.phase]
            /\ c.need_send <=> peer.phase = "greeting"
            /\ calls = peer.accepted
    /\ conn = "crashed" => peer.rcpts = {}

\* A mail is written from the sender last answered 250, with exactly the lines sent
\* since the last 354, and reaches every receiver answered 250 since that sender,
\* unless the receiver array was full: although the array still holds the receivers
\* of earlier mails of the session, some of them with their domain cleaned.
MailMatchesDialogue ==
  [][ ~ Pipelining /\ stored' # stored =>
        /\ WrittenMail.from = peer.from
        /\ WrittenMail.text = peer.lines
        /\ \/ peer.rcpts \subseteq Reached(WrittenMail.to, WrittenMail.links)
           \/ Len(WrittenMail.to) = MaxRcpt ]_vars

\* However fast lines arrive, while the reply to an accepted command is still to be
\* sent no other command takes effect, QUIT excepted.
NothingRunsBehindAReply ==
  [][ c.current_state \in AwaitingSend =>
        /\ c'.from = c.from /\ c'.to = c.to /\ c'.msg_text = c.msg_text
        /\ c'.current_state \in {c.current_state, AfterResponse(c.current_state),
                                 "QUIT_RECEIVED", "TIMEOUT"} ]_vars

\* The receiver array never overflows, however many mails share it.
ReceiversFit == Len(c.to) <= MaxRcpt

\* A peer that waits for replies, and was not timed out, never receives the beginning
\* of one reply followed by another: client_set_response does not overwrite a reply
\* that is partly sent.
NeverTorn ==
  [][ ~ Pipelining /\ ~ late /\ c.cut /\ c'.need_send =>
        c'.msg_for_sending = c.msg_for_sending /\ c'.cut ]_vars

\* The states a session can be parked in with no reply to send.
Parked == c.current_state \in {"RSET_RECEIVED", "QUIT_RECEIVED", "TIMEOUT"}

\* Every command of a peer that waits for replies is answered, unless it closes the
\* connection or the session is parked by RSET, by QUIT or by the timeout; and a
\* session that QUIT or the timeout has ended is closed once a reply is due, whatever
\* that reply has become by then.
AnsweredUnlessParked ==
  /\ (peer.awaits # NoLine) ~> (peer.awaits = NoLine \/ fin \/ conn # "open" \/ Parked)
  /\ (c.current_state \in {"QUIT_RECEIVED", "TIMEOUT"} /\ c.need_send)
       ~> (conn # "open" \/ fin)

\* The session, seen as a Connection.
Link == INSTANCE Connection WITH
          status <- IF conn = "crashed" THEN "down" ELSE conn,
          due    <- conn = "open" /\ c.need_send,
          sent   <- sent,
          gone   <- fin

\* The session keeps the promise the poll loop relies on: need_send, once set, is
\* cleared only by a reply sent completely; the server closes a living peer's
\* connection only then, and any other only after that peer closed its end or because
\* write_mail brought the process down.  Which reply is sent may change while it is
\* due, even partly sent: NeverTorn says for which peers it does not.
KeepsPromise == Link!Spec

----------------------------------------------------------------------------
\* What server/tex/report.tex says and the code does not do.

\* "RCPT names a receiver of the mail": a mail goes to the receivers named for it
\* and to nobody else.  The array is not emptied between mails.
NoStaleReceivers ==
  [][ ~ Pipelining /\ stored' # stored =>
        Reached(WrittenMail.to, WrittenMail.links) \subseteq peer.rcpts ]_vars
=============================================================================
