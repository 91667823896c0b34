---------------------------- MODULE Connection ----------------------------
(***************************************************************************)
(* What one connection promises the poll loop, and what the poll loop makes *)
(* of it: an abstract specification that both the session of ServerSession  *)
(* and every connection of PollLoop implement.  A reply, once due, stays    *)
(* due until one has been sent completely or the connection is over; the    *)
(* server closes a connection only with a reply or once the peer has closed *)
(* its end.  Which reply is due may change meanwhile, even when part of it  *)
(* has been sent.                                                           *)
(***************************************************************************)
VARIABLES
  status,  \* "new", "open", "closed", or "down": the process or its worker ended
  due,     \* a reply is due
  sent,    \* parity of the number of replies sent completely
  gone     \* the peer has closed its end

connVars == << status, due, sent, gone >>

\* A connection is born open, the greeting due, or is opened later.
Init == /\ status \in {"new", "open"}
        /\ due = (status = "open")
        /\ sent = FALSE
        /\ gone = FALSE

\* The peer closes its end, at any time.
Leave == /\ gone' = TRUE
         /\ UNCHANGED << status, due, sent >>

Open == /\ status = "new"
        /\ status' = "open"
        /\ due' = TRUE
        /\ UNCHANGED << sent, gone >>

\* Input makes a reply due or changes nothing.
Receive == /\ status = "open"
           /\ due' = TRUE
           /\ UNCHANGED << status, sent, gone >>

\* A reply is sent; with some replies the server closes.
Reply == /\ status = "open" /\ due
         /\ status' \in {"open", "closed"}
         /\ due' = FALSE
         /\ sent' = ~ sent
         /\ UNCHANGED gone

\* The server sees that the peer has closed its end, and closes too.
Hangup == /\ status = "open" /\ gone
          /\ status' = "closed"
          /\ due' = FALSE
          /\ UNCHANGED << sent, gone >>

\* The server process dies, or the worker ends at shutdown.
Down == /\ status = "open"
        /\ status' = "down"
        /\ due' = FALSE
        /\ UNCHANGED << sent, gone >>

Next == Leave \/ Open \/ Receive \/ Reply \/ Hangup \/ Down

Spec == Init /\ [][Next]_connVars
=============================================================================
