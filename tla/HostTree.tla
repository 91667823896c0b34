------------------------------ MODULE HostTree ------------------------------
(***************************************************************************)
(* host_vs_conn_map, the search tree (client/src/tree.c) in which a worker    *)
(* keeps its connections, and the passes of worker_main over them: the        *)
(* pointers taken at the start of a pass, the connections closed in it, the   *)
(* hosts opened at its end.  What a connection does is ClientConnection's;    *)
(* here it serves its first mail or is over.                                  *)
(*                                                                         *)
(* A node is known by its place: the turns that lead to it from the root.     *)
(* The tree is the function from the places taken to the nodes there, and a   *)
(* place outside its domain is a NULL pointer.                                *)
(***************************************************************************)
EXTENDS Naturals, Sequences, FiniteSets

CONSTANTS
  Hosts,     \* the hosts, numbered as strcmp orders them
  Mails,
  MaxSize,   \* TREE_DEFAULT_MAX_SIZE
  MaxQueue,  \* bound: mails that wait for each host; 0: none of its files can be parsed
  Busy       \* bound: the hosts where an attempt gets under way and replies come in pieces

ASSUME TreeAssumption ==
  /\ Hosts \subseteq Nat \ {0} /\ Busy \subseteq Hosts /\ MaxSize \in Nat \ {0}
  /\ MaxQueue \in [Hosts -> Nat]

VARIABLES
  pc,      \* "start", "pass", "ended" or "undefined"
  root,    \* the nodes below tree->root, by their places
  size,    \* tree->size
  conns,   \* the pointers of this pass, each named by the host it stood for
  i,       \* the loop's index
  freed,   \* those of conns whose object has been freed
  closed   \* the hosts closed in this pass (history)

vars == << pc, root, size, conns, i, freed, closed >>

----------------------------------------------------------------------------
\* tree.c.  A node has key and value; a value is a connection: its addr, its mails,
\* what its peer holds of a reply ("none", "part" or "torn"), and the attempt times of
\* its first mail: "none" before the first attempt, "noted", or "lost".

Place == Seq({"left", "right"})

\* The place q is p or lies in a subtree of p.
Below(p, q) == Len(p) <= Len(q) /\ \A k \in 1 .. Len(p) : q[k] = p[k]

create_node(key, value) == [key |-> key, value |-> value]

\* Mutated: the mails are not copied.
SMTP_connection_copy_bare(conn) == [conn EXCEPT !.mails = << >>]

\* SMTP_connection_copy: peer_copy takes over the size of the buffer and not what is
\* in it; SMTP_message_copy leaves attempt_start_time and last_attempt_time unset.
SMTP_connection_copy(conn) ==
  [conn EXCEPT !.buffer = IF @ = "none" THEN @ ELSE "torn",
               !.times = IF @ = "none" THEN @ ELSE "lost"]

\* SMTP_connection_init.
NewConnection(h) == [addr |-> h, mails |-> << >>, buffer |-> "none", times |-> "none"]

Keys(t) == {t[p].key : p \in DOMAIN t}

\* The places a pointer of the tree can lead to.
Reach(t) == {<< >>} \union DOMAIN t \union
            {Append(p, side) : p \in DOMAIN t, side \in {"left", "right"}}

\* Where the walk for a key ends that starts at the place r: at the key or at a NULL.
\* It has turned at every node it came by, to the left for a smaller key.
tree_search(t, r, key) ==
  CHOOSE p \in Reach(t) :
    /\ p \in DOMAIN t => t[p].key = key
    /\ Below(r, p)
    /\ \A q \in DOMAIN t : Below(r, q) /\ Below(q, p) /\ q # p =>
         t[q].key # key /\ p[Len(q) + 1] = IF key < t[q].key THEN "left" ELSE "right"

Found(t, key) == tree_search(t, << >>, key) \in DOMAIN t

\* Below the limit: tree_insert tests the size first.  The value of a key that is
\* there is replaced.
tree_node_insert(t, key, value) ==
  LET p == tree_search(t, << >>, key) IN
  [q \in DOMAIN t \union {p} |->
     IF q = p THEN create_node(key, SMTP_connection_copy(value)) ELSE t[q]]

\* Mutated: the other end.
min_value_node_max(t, p) ==
  CHOOSE q \in DOMAIN t :
    /\ Below(p, q) /\ \A k \in Len(p) + 1 .. Len(q) : q[k] = "right"
    /\ Append(q, "right") \notin DOMAIN t

\* Left and left again, as far as it goes.
min_value_node(t, p) ==
  CHOOSE q \in DOMAIN t :
    /\ Below(p, q) /\ \A k \in Len(p) + 1 .. Len(q) : q[k] = "left"
    /\ Append(q, "left") \notin DOMAIN t

TwoChildren(t, p) == Append(p, "left") \in DOMAIN t /\ Append(p, "right") \in DOMAIN t

\* The place of a node when the node at p is gone: its only child takes its place,
\* and the subtree follows.
Up(p, q) == IF Below(p, q) /\ q # p
            THEN [k \in 1 .. Len(q) - 1 |-> IF k <= Len(p) THEN q[k] ELSE q[k + 1]] ELSE q

unlink(t, p) ==
  [q \in {Up(p, x) : x \in DOMAIN t \ {p}} |->
     t[CHOOSE x \in DOMAIN t \ {p} : Up(p, x) = q]]

\* A node with two children takes the key of its successor and a copy of its value;
\* the successor, which has no left child, is deleted from the right subtree, its
\* value with it.
tree_node_delete(t, key) ==
  LET p     == tree_search(t, << >>, key)
      right == Append(p, "right")
      temp  == t[min_value_node(t, right)]
      moved == [t EXCEPT ![p] = [key |-> temp.key, value |-> SMTP_connection_copy(temp.value)]]
  IN IF TwoChildren(t, p) THEN unlink(moved, tree_search(moved, right, temp.key))
     ELSE unlink(t, p)

\* A node comes before its subtrees, the left one before the right one.
Before(p, q) ==
  \E k \in 1 .. Len(q) :
    /\ \A j \in 1 .. k - 1 : j <= Len(p) /\ p[j] = q[j]
    /\ k = Len(p) + 1 \/ (k <= Len(p) /\ p[k] = "left" /\ q[k] = "right")

\* The values, in the order of get_SMTP_connections.
tree_nodes_to_array(t) ==
  LET size_ == Cardinality(DOMAIN t)
      order == CHOOSE s \in [1 .. size_ -> DOMAIN t] :
                 \A j, k \in 1 .. size_ : j < k => Before(s[j], s[k])
  IN [k \in 1 .. size_ |-> t[order[k]].value.addr]

\* The tree after a write through the pointer conns[i].
Deref(t, conn) ==
  [p \in DOMAIN t |-> IF t[p].value.addr = conn.addr THEN [t[p] EXCEPT !.value = conn] ELSE t[p]]

----------------------------------------------------------------------------
Init == /\ pc = "start" /\ root = << >> /\ size = 0
        /\ conns = << >> /\ i = 1 /\ freed = {} /\ closed = {}

\* get_SMTP_connections, get_peers, select_step.
StartPass ==
  /\ pc = "start"
  /\ pc' = "pass" /\ conns' = tree_nodes_to_array(root) /\ i' = 1
  /\ freed' = {} /\ closed' = {}
  /\ UNCHANGED << root, size >>

\* The loop is at an entry whose connection is still there.
Handles(h) == pc = "pass" /\ i <= Len(conns) /\ h = conns[i] /\ h \notin freed

ConnectionOf(t, h) == t[tree_search(t, << >>, h)].value

Conn(h) == ConnectionOf(root, h)

\* What a step may leave of a reply, and of the attempt times: a first attempt at the
\* mail notes them, a further one leaves the start as it is; with the mail its times go.
BufferAfter(h) == {Conn(h).buffer, "none"} \union (IF h \in Busy THEN {"part"} ELSE {})

TimesAfter(h, mails) ==
  IF mails = << >> THEN {"none"}
  ELSE {IF mails = Conn(h).mails THEN Conn(h).times ELSE "none"} \union
       (IF h \in Busy THEN {"noted"} ELSE {})

\* fill_messages_out, generate_event and client_fsm_step: replies are taken, the
\* first mail may be done with.
client_fsm_step(h) ==
  /\ Handles(h)
  /\ \E mails \in {Conn(h).mails} \union
                   (IF Conn(h).mails = << >> THEN {} ELSE {Tail(Conn(h).mails)}) :
       \E buffer \in BufferAfter(h), times \in TimesAfter(h, mails) :
         root' = Deref(root, [addr |-> h, mails |-> mails, buffer |-> buffer,
                              times |-> times])
  /\ i' = i + 1
  /\ UNCHANGED << pc, size, conns, freed, closed >>

\* Mutated: the size stays.
tree_delete_no_size(h) ==
  LET node == tree_search(root, << >>, h) IN
  /\ Handles(h)
  /\ root' = tree_node_delete(root, h)
  /\ freed' = freed \union {h} \union
       (IF TwoChildren(root, node)
        THEN {root[min_value_node(root, Append(node, "right"))].value.addr} ELSE {})
  /\ closed' = closed \union {h}
  /\ i' = i + 1
  /\ UNCHANGED << pc, size, conns >>

\* The step led to CLIENT_FSM_ST_CLOSED_CONNECTION: tree_delete.
tree_delete(h) ==
  LET node == tree_search(root, << >>, h) IN
  /\ Handles(h)
  /\ root' = tree_node_delete(root, h) /\ size' = size - 1
  /\ freed' = freed \union {h} \union
       (IF TwoChildren(root, node)
        THEN {root[min_value_node(root, Append(node, "right"))].value.addr} ELSE {})
  /\ closed' = closed \union {h}
  /\ i' = i + 1
  /\ UNCHANGED << pc, conns >>

\* conns[i] is a freed object: undefined, and nothing more is said of this worker.
UseFreed ==
  /\ pc = "pass" /\ i <= Len(conns) /\ conns[i] \in freed
  /\ pc' = "undefined"
  /\ UNCHANGED << root, size, conns, i, freed, closed >>

AtParent == pc = "pass" /\ i > Len(conns)

\* process_parent_messages for a name: get_conn_for_sending finds the host's
\* connection, or opens one and inserts it; the mail is queued there.
process_parent_messages(h, m) ==
  LET known == Found(root, h)
      tree  == IF known THEN root ELSE tree_node_insert(root, h, NewConnection(h)) IN
  /\ AtParent /\ MaxQueue[h] # 0
  /\ IF known THEN Len(Conn(h).mails) < MaxQueue[h] ELSE size < MaxSize
  /\ root' = Deref(tree, [ConnectionOf(tree, h) EXCEPT !.mails = Append(@, m)])
  /\ size' = IF known THEN size ELSE size + 1
  /\ UNCHANGED << pc, conns, i, freed, closed >>

\* The file cannot be parsed: the host's connection has been opened nevertheless.
OpenForNothing(h) ==
  /\ AtParent /\ ~ Found(root, h) /\ size < MaxSize
  /\ root' = tree_node_insert(root, h, NewConnection(h))
  /\ size' = size + 1
  /\ UNCHANGED << pc, conns, i, freed, closed >>

\* get_IP finds no address: SMTP_connection_copy dereferences the null ip.
LookupFails(h) ==
  /\ AtParent /\ ~ Found(root, h) /\ size < MaxSize
  /\ pc' = "undefined"
  /\ UNCHANGED << root, size, conns, i, freed, closed >>

\* The tree is full: tree_insert adds nothing, and the result of the search that
\* follows, NULL, is used.
TreeOverflow(h) ==
  /\ AtParent /\ ~ Found(root, h) /\ size = MaxSize
  /\ pc' = "undefined"
  /\ UNCHANGED << root, size, conns, i, freed, closed >>

EndPass ==
  /\ AtParent /\ pc' = "start" /\ conns' = << >> /\ i' = 1 /\ freed' = {} /\ closed' = {}
  /\ UNCHANGED << root, size >>

\* while_true was cleared: tree_clear frees what is there.
Stop == /\ pc = "start" /\ pc' = "ended"
        /\ UNCHANGED << root, size, conns, i, freed, closed >>

Next ==
  \/ StartPass \/ UseFreed \/ EndPass \/ Stop
  \/ \E h \in Hosts : \/ client_fsm_step(h) \/ tree_delete(h) \/ OpenForNothing(h)
                      \/ LookupFails(h) \/ TreeOverflow(h)
                      \/ \E m \in Mails : process_parent_messages(h, m)

Spec == Init /\ [][Next]_vars

----------------------------------------------------------------------------
\* Properties.

\* The tree is a search tree of the size it claims, within its limit, and every
\* node's value is the connection of its key, however connections were closed and
\* opened.  tree_nodes_to_array asserts the size; get_conn_for_sending relies on
\* the rest.
SearchTree ==
  LET array == tree_nodes_to_array(root) IN
  /\ size = Len(array) /\ size = Cardinality(Keys(root)) /\ size <= MaxSize
  /\ \A h \in Keys(root) : /\ Found(root, h) /\ Conn(h).addr = h
                           /\ \E k \in DOMAIN array : array[k] = h

\* A pointer of this pass goes stale before its turn only for a host that is still
\* open, and only for the one that follows, in order, a host closed in this pass
\* (worker.c takes the pointers before the loop, tree_node_delete moves the
\* successor's connection).  All others can be used.
StaleIsNext ==
  pc = "pass" =>
    \A k \in i .. Len(conns) :
      conns[k] \in freed =>
        /\ conns[k] \in Keys(root)
        /\ \E c \in closed : /\ c < conns[k]
                            /\ \A x \in Keys(root) : x <= c \/ x >= conns[k]

\* The map: the connection of a host is the value of the node that has its key.
Node(h) == root[CHOOSE p \in DOMAIN root : root[p].key = h]

Spoilt(field, value) == {h \in Keys(root) : Node(h).value[field] = value}

Abstract == INSTANCE HostMap WITH
  mails <- [h \in Keys(root) |-> Node(h).value.mails],
  torn  <- Spoilt("buffer", "torn"),
  lost  <- Spoilt("times", "lost")

\* The tree implements the map: no operation on one host adds, drops or reorders the
\* mails of another, also when tree_node_delete moves connections.  A close spoils at
\* most the next host: its half-received reply (peer_copy) and the attempt times of its
\* first mail (SMTP_message_copy), on which that host's own later steps depend.
ImplementsMap == Abstract!Spec
=============================================================================
