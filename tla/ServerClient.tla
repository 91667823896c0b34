--------------------------- MODULE ServerClient ---------------------------
(***************************************************************************)
(* One connection of the server: the client_t of server/src/client.c and    *)
(* its finite state machine server/src/client-fsm.c, as operators on a      *)
(* record.  What the peer sends arrives as chunks: the sequence of lines    *)
(* that were in the socket when the poll loop read it.                      *)
(***************************************************************************)
EXTENDS MailWriter

CONSTANTS
  Senders,   \* reverse paths
  NoSender,  \* client->from before the first MAIL
  NoArg,     \* the argument of a line that has none
  MaxRcpt    \* SMTP_RCPT_MAX_SIZE

ASSUME RcptAssumption   == MaxRcpt \in Nat \ {0}
ASSUME SenderAssumption == NoSender \notin Senders

----------------------------------------------------------------------------
\* The lines a peer can send, by what the regular expressions make of them.
\*   TEXT  matches no command and has more than one character (it may also be
\*         a piece of a command that TCP delivered in two segments);
\*   DOT   the line that ends a message;
\*   ONE   another line of one character, or the last character of a line that
\*         TCP delivered separately: RE_END_DATA's dot is not escaped.
PlainCmds == {"EHLO", "HELO", "QUIT", "RSET", "VRFY", "DATA", "TEXT", "DOT", "ONE"}

Lines == [cmd : PlainCmds, arg : {NoArg}]
           \union [cmd : {"MAIL"}, arg : Senders]
           \union [cmd : {"RCPT"}, arg : Address]

ClientStates ==
  {"INIT", "WAIT_HELLO_OR_EHLO", "HELLO_RECEIVED", "EHLO_RECEIVED", "CLIENT_INITED",
   "MAIL_RECEIVED", "EXPECTED_RCPT_OR_DATA", "RCPT_RECEIVED", "DATA_RECEIVED",
   "EXPECTED_MSG_TEXT_OR_END_MSG", "END_DATA_RECEIVED", "QUIT_RECEIVED",
   "RSET_RECEIVED", "VRFY_RECEIVED", "TIMEOUT", "SHUTDOWN", "INVALID", "DONE"}

Replies == {"220", "221", "250", "354", "500", "502", "503"}

\* client_t.  The greeting information, the ehlo flag and the mail writer's
\* configuration are written and never read by the session.
Client ==
  [ current_state   : ClientStates,
    need_send       : BOOLEAN,
    msg_for_sending : Replies \union {"none"},
    cut             : BOOLEAN,       \* some of msg_for_sending is already sent
    from            : Senders \union {NoSender},
    to              : Seq(Receiver),
    msg_text        : Seq(Lines),    \* after the header X-mysmtp-from: from
    closed          : BOOLEAN ]

client_init ==
  [ current_state |-> "INIT", need_send |-> TRUE, msg_for_sending |-> "220",
    cut |-> FALSE, from |-> NoSender, to |-> << >>, msg_text |-> << >>,
    closed |-> FALSE ]

----------------------------------------------------------------------------
\* The mutators of client.c.

client_set_response(c, code) ==
  [c EXCEPT !.msg_for_sending = code, !.cut = FALSE, !.need_send = TRUE]

\* Mutated: the text of the previous mail is kept.
client_add_mail_from_keeps_text(c, sender) == [c EXCEPT !.from = sender]

\* A new sender empties the text of the previous mail.
client_add_mail_from(c, sender) == [c EXCEPT !.from = sender, !.msg_text = << >>]

\* Mutated: the limit is tested one entry too late.
client_add_rcpt_to_late(c, addr) ==
  IF Len(c.to) = MaxRcpt + 1 THEN c ELSE [c EXCEPT !.to = Append(@, addr)]

\* The caller ignores CE_MAX_SIZE.
client_add_rcpt_to(c, addr) ==
  IF Len(c.to) = MaxRcpt THEN c ELSE [c EXCEPT !.to = Append(@, addr)]

client_add_msg_txt(c, lines) == [c EXCEPT !.msg_text = @ \o lines]

\* write_mail returns early when the temporary file cannot be opened.
client_data_end_process(c, opened) ==
  IF opened THEN [c EXCEPT !.to = Cleaned(@)] ELSE c

----------------------------------------------------------------------------
\* The transition table and its callbacks.

Goto(c, st) == [c EXCEPT !.current_state = st]

\* Mutated: a command out of sequence gets no reply.
client_do_invalid_silent(c, ev) ==
  IF ev = "UNKNOWN" THEN client_set_response(c, "500") ELSE c

client_do_invalid(c, ev) ==
  CASE ev = "RESPONSE" -> c
    [] ev = "UNKNOWN"  -> client_set_response(c, "500")
    [] OTHER           -> client_set_response(c, "503")

\* Only four of the QUIT callbacks set a reply.
QuitAnswered ==
  {"CLIENT_INITED", "DATA_RECEIVED", "EHLO_RECEIVED", "EXPECTED_RCPT_OR_DATA"}

do_quit(c) ==
  IF c.current_state \in QuitAnswered
    THEN client_set_response(Goto(c, "QUIT_RECEIVED"), "221")
    ELSE Goto(c, "QUIT_RECEIVED")

\* Mutated: the session goes on as if it still collected text after a message.
AfterResponse_stays_in_text(st) ==
  CASE st = "INIT"                             -> "WAIT_HELLO_OR_EHLO"
    [] st \in {"EHLO_RECEIVED", "HELLO_RECEIVED", "RSET_RECEIVED", "VRFY_RECEIVED"} ->
         "CLIENT_INITED"
    [] st \in {"MAIL_RECEIVED", "RCPT_RECEIVED"} -> "EXPECTED_RCPT_OR_DATA"
    [] st \in {"DATA_RECEIVED", "END_DATA_RECEIVED"} -> "EXPECTED_MSG_TEXT_OR_END_MSG"
    [] st \in {"QUIT_RECEIVED", "TIMEOUT", "SHUTDOWN"} -> "DONE"
    [] OTHER                                   -> st

\* The rows of event RESPONSE.
AfterResponse(st) ==
  CASE st = "INIT"                             -> "WAIT_HELLO_OR_EHLO"
    [] st \in {"EHLO_RECEIVED", "HELLO_RECEIVED", "END_DATA_RECEIVED",
               "RSET_RECEIVED", "VRFY_RECEIVED"} -> "CLIENT_INITED"
    [] st \in {"MAIL_RECEIVED", "RCPT_RECEIVED"} -> "EXPECTED_RCPT_OR_DATA"
    [] st = "DATA_RECEIVED"                    -> "EXPECTED_MSG_TEXT_OR_END_MSG"
    [] st \in {"QUIT_RECEIVED", "TIMEOUT", "SHUTDOWN"} -> "DONE"
    [] OTHER                                   -> st

\* The transitions on a command that has a row of its own in the state.
do_ehlo(c) == client_set_response(Goto(c, "EHLO_RECEIVED"), "250")
do_helo(c) == client_set_response(Goto(c, "HELLO_RECEIVED"), "250")
do_mail(c, sender) ==
  client_set_response(Goto(client_add_mail_from(c, sender), "MAIL_RECEIVED"), "250")
do_rcpt(c, addr) ==
  client_set_response(Goto(client_add_rcpt_to(c, addr), "RCPT_RECEIVED"), "250")

\* Mutated: the reply is forgotten.
do_data_mute(c) == Goto(c, "DATA_RECEIVED")

do_data(c) == client_set_response(Goto(c, "DATA_RECEIVED"), "354")
do_rset(c) == Goto(c, "RSET_RECEIVED")
do_vrfy(c) == client_set_response(Goto(c, "VRFY_RECEIVED"), "502")

\* Mutated: every piece of text is answered.
do_msg_text_answers(c, lines) ==
  client_set_response(client_add_msg_txt(c, lines), "250")

do_msg_text(c, lines) == client_add_msg_txt(c, lines)
do_end_data(c, lines, opened) ==
  client_set_response(
    Goto(client_data_end_process(client_add_msg_txt(c, lines), opened),
         "END_DATA_RECEIVED"), "250")

\* Mutated: receivers are taken before the previous reply has been sent.
HasRow_early(st, ev) ==
  \/ ev \in {"EHLO", "HELO"}           /\ st = "WAIT_HELLO_OR_EHLO"
  \/ ev \in {"MAIL", "RSET", "VRFY"}   /\ st = "CLIENT_INITED"
  \/ ev \in {"RCPT", "DATA"}           /\ st \in {"EXPECTED_RCPT_OR_DATA", "RCPT_RECEIVED"}
  \/ ev \in {"MSG_TEXT", "END_DATA"}   /\ st = "EXPECTED_MSG_TEXT_OR_END_MSG"

\* The states in which a command or a piece of text has a row of its own.
HasRow(st, ev) ==
  \/ ev \in {"EHLO", "HELO"}           /\ st = "WAIT_HELLO_OR_EHLO"
  \/ ev \in {"MAIL", "RSET", "VRFY"}   /\ st = "CLIENT_INITED"
  \/ ev \in {"RCPT", "DATA"}           /\ st = "EXPECTED_RCPT_OR_DATA"
  \/ ev \in {"MSG_TEXT", "END_DATA"}   /\ st = "EXPECTED_MSG_TEXT_OR_END_MSG"

\* The callback of such a row.
client_do(c, ev, arg, opened) ==
  CASE ev = "EHLO"     -> do_ehlo(c)
    [] ev = "HELO"     -> do_helo(c)
    [] ev = "MAIL"     -> do_mail(c, arg)
    [] ev = "RSET"     -> do_rset(c)
    [] ev = "VRFY"     -> do_vrfy(c)
    [] ev = "RCPT"     -> do_rcpt(c, arg)
    [] ev = "DATA"     -> do_data(c)
    [] ev = "MSG_TEXT" -> do_msg_text(c, arg)
    [] ev = "END_DATA" -> do_end_data(c, arg, opened)

client_step(c, ev, arg, opened) ==
  LET st == c.current_state IN
  CASE st \in {"INVALID", "DONE"} -> Goto(c, "INIT")
    [] st \notin {"INVALID", "DONE"} /\ HasRow(st, ev) -> client_do(c, ev, arg, opened)
    [] st \notin {"INVALID", "DONE"} /\ ~ HasRow(st, ev) ->
       CASE ev = "RESPONSE"                -> Goto(c, AfterResponse(st))
         [] ev = "QUIT"                    -> do_quit(c)
         [] ev \in {"TIMEOUT", "SHUTDOWN"} -> Goto(c, "TIMEOUT")
         [] ev = "UNKNOWN"                 -> Goto(c, "INVALID")
         [] OTHER                          -> client_do_invalid(c, ev)
----------------------------------------------------------------------------
\* What the poll loop calls.

\* The regular expressions are multi-line and tried in a fixed order: of all the
\* lines of a chunk the first one of the first kind that occurs is executed, the
\* others are dropped with the chunk.
CheckOrder == << "EHLO", "HELO", "MAIL", "RCPT", "QUIT", "RSET", "VRFY", "DATA" >>

Occurs(chunk, k) == \E i \in DOMAIN chunk : chunk[i].cmd = k

Recognised(chunk) ==
  LET found == { n \in DOMAIN CheckOrder : Occurs(chunk, CheckOrder[n]) } IN
  IF found = {} THEN "NONE"
  ELSE CheckOrder[CHOOSE n \in found : \A m \in found : n <= m]

\* Mutated: the argument is taken from the first line whatever it is.
ArgumentOf_first(chunk, k) == chunk[1].arg

ArgumentOf(chunk, k) ==
  chunk[CHOOSE i \in DOMAIN chunk :
          /\ chunk[i].cmd = k
          /\ \A j \in 1 .. (i - 1) : chunk[j].cmd # k].arg

\* RE_END_DATA: the chunk's last line has exactly one character.
EndsMessage(chunk) == chunk[Len(chunk)].cmd \in {"DOT", "ONE"}

\* The text before the line that ends the message.
BeforeEnd(chunk) == SubSeq(chunk, 1, Len(chunk) - 1)

InText(c) == c.current_state = "EXPECTED_MSG_TEXT_OR_END_MSG"

client_process_recv(c, chunk, opened) ==
  IF InText(c)
    THEN IF EndsMessage(chunk)
           THEN client_step(c, "END_DATA", BeforeEnd(chunk), opened)
           ELSE client_step(c, "MSG_TEXT", chunk, opened)
    ELSE LET k == Recognised(chunk) IN
         CASE k = "VRFY" -> client_set_response(c, "502")
           [] k = "NONE" -> client_set_response(c, "500")
           [] OTHER      -> client_step(c, k, ArgumentOf(chunk, k), opened)

client_process_send(c) ==
  LET sent == [c EXCEPT !.need_send = FALSE, !.msg_for_sending = "none", !.cut = FALSE]
      next == client_step(sent, "RESPONSE", NoArg, TRUE)
  IN  [next EXCEPT !.closed = (next.current_state = "DONE") \/ c.closed]

client_process_check_timeout(c, expired) ==
  IF expired THEN client_step(c, "TIMEOUT", NoArg, TRUE) ELSE c
=============================================================================
