----------------------------- MODULE ConnManager -----------------------------
(***************************************************************************)
(* What one server process knows of its TCP connections: the CConnection   *)
(* objects (common/core/core_connection.cpp), the pool they come from      *)
(* (common/revolver/object_pool.h) and the nodes of Connection_Manager     *)
(* (common/core/core_connection_mananger.cpp).  A process is a record and  *)
(* the methods are operators on it; what they put on the wire is returned  *)
(* by operators of its own.                                                *)
(*                                                                         *)
(* A server has one id and one address.  Clients, which have no id and no  *)
(* node, are left out: every peer is of a type from eDaemon_Server on.     *)
(***************************************************************************)
EXTENDS Naturals, Sequences, SequencesExt, FiniteSetsExt

CONSTANTS
    Servers,    \* server ids
    NoServer,   \* id 0: the handshake has not come yet
    Objects,    \* the CConnection objects a process may have
    NoObject,   \* NULL
    Messages    \* what servers send each other

ASSUME ManagerAssumption ==
    /\ NoServer \notin Servers
    /\ NoObject \notin Objects
    /\ IsFiniteSet(Objects)

\* A connection: state_, server_id_, the timer it runs, timer_count_, and the
\* link its socket is on (0: no socket).
IdleConn == [state |-> "IDLE", sid |-> NoServer, timer |-> "none", beats |-> 0, link |-> 0]

\* Server_Node_t; `here' says whether nodes_ has the id.
NoNode == [here |-> FALSE, conn |-> NoObject, del |-> FALSE, strms |-> <<>>]

NewProcess(known) ==
    [conn |-> [c \in Objects |-> IdleConn],
     pool |-> SetToSeq(Objects),
     node |-> [s \in Servers |-> IF s \in known THEN [NoNode EXCEPT !.here = TRUE] ELSE NoNode]]

-----------------------------------------------------------------------------
\* CONNECTION_POOL
NextObject(p) == Head(p.pool)
Popped(p)     == [p EXCEPT !.pool = Tail(@)]
Pushed(p, c)  == [p EXCEPT !.pool = Append(@, c)]

\* Mutation: reset leaves the timer running.
Reset_KeepTimer(p, c) == [p EXCEPT !.conn[c] = [IdleConn EXCEPT !.timer = p.conn[c].timer]]

Reset(p, c) == [p EXCEPT !.conn[c] = IdleConn]

\* add_server
Added(p, s) ==
    IF p.node[s].here THEN [p EXCEPT !.node[s].del = FALSE]
    ELSE [p EXCEPT !.node[s] = [NoNode EXCEPT !.here = TRUE]]

\* del_server: a node with a connection is only marked.
Deleted(p, s) ==
    IF ~p.node[s].here THEN p
    ELSE IF p.node[s].conn = NoObject THEN [p EXCEPT !.node[s] = NoNode]
    ELSE [p EXCEPT !.node[s].del = TRUE]

\* Mutation: the queue is sent and kept.
Attached_KeepsQueue(p, c) ==
    LET s == p.conn[c].sid
    IN  IF p.node[s].here THEN [p EXCEPT !.node[s].conn = c]
        ELSE [p EXCEPT !.node[s] = [here |-> TRUE, conn |-> c, del |-> TRUE, strms |-> <<>>]]

\* on_add_connection, after the handshake: the connection becomes that of the
\* node, whatever was there before, and takes the queued messages along.
Attached(p, c) ==
    LET s == p.conn[c].sid
    IN  IF p.node[s].here
        THEN [p EXCEPT !.node[s].conn = c, !.node[s].strms = <<>>]
        ELSE [p EXCEPT !.node[s] = [here |-> TRUE, conn |-> c, del |-> TRUE, strms |-> <<>>]]

\* Mutation: only the first message is taken along.
Waiting_First(p, s) ==
    IF p.node[s].strms = <<>> THEN <<>> ELSE <<Head(p.node[s].strms)>>

\* What it takes along to server s.
Waiting(p, s) == p.node[s].strms

\* on_del_connection: the node of the server loses its connection, which need
\* not be this one, and its queue; one the daemon has given up goes.
Detached(p, c) ==
    LET s == p.conn[c].sid
    IN  IF s = NoServer \/ ~p.node[s].here THEN p
        ELSE IF p.node[s].del THEN [p EXCEPT !.node[s] = NoNode]
        ELSE [p EXCEPT !.node[s].conn = NoObject, !.node[s].strms = <<>>]

\* Mutation: the manager hears only of connections that were CONNECTED.
Closed_ConnectedOnly(p, c) ==
    Pushed(Reset(IF p.conn[c].state = "CONNECTED" THEN Detached(p, c) ELSE p, c), c)

\* handle_close and handle_exception of a connection that is not IDLE.
Closed(p, c) == Pushed(Reset(Detached(p, c), c), c)

\* Mutation: the socket stays open.
TimedOut_KeepsSocket(p, c) ==
    [Detached(p, c) EXCEPT !.conn[c].state = "IDLE", !.conn[c].timer = "none"]

\* The connect timer: the connection is made IDLE before it is closed, so the
\* object is neither reset nor pooled.
TimedOut(p, c) ==
    [Detached(p, c) EXCEPT !.conn[c].state = "IDLE", !.conn[c].timer = "none",
                           !.conn[c].link = 0]

-----------------------------------------------------------------------------
\* Mutation: no timer is set for the connect.
Connecting_NoTimer(p, s, l, m) ==
    LET c == NextObject(p)
    IN  [Popped(p) EXCEPT
           !.conn[c] = [state |-> "CONNECTING", sid |-> s, timer |-> "none",
                        beats |-> 0, link |-> l],
           !.node[s].conn = c,
           !.node[s].strms = Append(@, m)]

\* connecting_by_id without a connection; connect() succeeds at once.
Connecting(p, s, l, m) ==
    LET c == NextObject(p)
    IN  [Popped(p) EXCEPT
           !.conn[c] = [state |-> "CONNECTING", sid |-> s, timer |-> "connect",
                        beats |-> 0, link |-> l],
           !.node[s].conn = c,
           !.node[s].strms = Append(@, m)]

\* connect() fails: the object goes back with the server's id, not reset, and
\* the message is dropped.
NotConnecting(p, s) ==
    LET c == NextObject(p)
    IN  Pushed([Popped(p) EXCEPT !.conn[c].sid = s], c)

\* The listener's accept: a connection without a timer, of a server unknown.
Accepted(p, l) ==
    LET c == NextObject(p)
    IN  [Popped(p) EXCEPT !.conn[c] = [IdleConn EXCEPT !.state = "CONNECTING", !.link = l]]

\* Mutation: the heartbeat is not started.
Connected_NoBeat(p, c) ==
    [p EXCEPT !.conn[c].state = "CONNECTED", !.conn[c].timer = "none", !.conn[c].beats = 0]

\* check_connecting_state of a connection that is CONNECTING.
Connected(p, c) ==
    [p EXCEPT !.conn[c].state = "CONNECTED", !.conn[c].timer = "heartbeat",
              !.conn[c].beats = 0]

\* process_handshake from server s.
HandShaken(p, c, s) ==
    LET q == IF p.conn[c].state = "CONNECTING" THEN Connected(p, c) ELSE p
    IN  Attached([q EXCEPT !.conn[c].sid = s, !.conn[c].beats = 0], c)

-----------------------------------------------------------------------------
NodeType ==
    [here : BOOLEAN, conn : Objects \cup {NoObject}, del : BOOLEAN, strms : Seq(Messages)]

ConnType ==
    [state : {"IDLE", "CONNECTING", "CONNECTED"}, sid : Servers \cup {NoServer},
     timer : {"none", "connect", "heartbeat"}, beats : Nat, link : Nat]

ProcessType ==
    [conn : [Objects -> ConnType], pool : Seq(Objects), node : [Servers -> NodeType]]

\* The connection of a node is in use and belongs to that server; messages
\* wait only for a connection on its way.
NodeSound(p) ==
    \A s \in Servers :
        LET n == p.node[s]
        IN  IF n.conn = NoObject THEN n.strms = <<>>
            ELSE /\ p.conn[n.conn].state # "IDLE"
                 /\ p.conn[n.conn].sid = s
                 /\ p.conn[n.conn].link # 0
                 /\ n.conn \notin ToSet(p.pool)

\* An object in the pool is there once, without state, socket or timer.
PoolSound(p) ==
    /\ IsInjective(p.pool)
    /\ \A c \in ToSet(p.pool) :
          [p.conn[c] EXCEPT !.sid = NoServer] = IdleConn
=============================================================================
