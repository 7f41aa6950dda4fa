-------------------------- MODULE ServerConnections --------------------------
(***************************************************************************)
(* Servers that send each other messages: the connection managers          *)
(* (ConnManager) of several processes, the listener                        *)
(* (common/core/core_tcp_listener.cpp) and the handlers of CConnection     *)
(* (common/core/core_connection.cpp) over TCP links.  A server connects to *)
(* another when it has a message for it and no connection, so two servers  *)
(* may connect to each other at once, and both links stay.                 *)
(*                                                                         *)
(* A link carries each way what was written to its socket, in order.  It   *)
(* may fail silently (dead) or with an error at both ends (reset); an end  *)
(* that is closed is noticed at the other, maybe before what was sent last *)
(* is read.  Send buffers are part of the link.  Pings are left out: on a  *)
(* link that works one is answered between two heartbeats, so a heartbeat  *)
(* without a message is one of a dead link; the connect timer, too, runs   *)
(* out on dead links only, which stands for every answer that comes late.  *)
(***************************************************************************)
EXTENDS ConnManager

CONSTANTS
    From, To,     \* of every message, the two servers; it is sent at most once
    MaxLinks,     \* bound: links at a time
    MaxBeats,     \* heartbeats without a message before a close (4)
    MaxFaults,    \* bound: failures of connections and processes
    MaxDels       \* bound: servers the daemon reports gone

ASSUME ServerAssumption ==
    /\ Messages \subseteq Nat \ {0}
    /\ From \in [Messages -> Servers] /\ To \in [Messages -> Servers]
    /\ \A m \in Messages : From[m] # To[m]
    /\ MaxLinks \in Nat /\ MaxBeats \in Nat /\ MaxFaults \in Nat /\ MaxDels \in Nat

VARIABLES
    proc,     \* the processes
    link,     \* the links between them
    sent,     \* the messages handed to send_dispatch_by_id
    got,      \* how often each message was handed to the application
    faults,   \* failures so far
    dels      \* deletions so far

vars == <<proc, link, sent, got, faults, dels>>

LinkIds == 1 .. MaxLinks

\* The first message on a link, which is no member of Messages.
Handshake == 0

FreeLink == [st |-> "free", by |-> NoServer, to |-> NoServer, wire |-> "ok",
             end |-> [s \in Servers |-> NoObject], q |-> [s \in Servers |-> <<>>]]

Peer(k, s) == IF k.by = s THEN k.to ELSE k.by

\* The socket at the other end of s is closed.
Alone(k, s) == k.st = "up" /\ k.end[Peer(k, s)] = NoObject

\* Link k after s has closed its socket: free when nobody is left and nobody
\* is to come.
Hung(k, s) ==
    IF Alone(k, s) \/ (k.st = "syn" /\ k.wire # "ok") THEN FreeLink
    ELSE [k EXCEPT !.end[s] = NoObject, !.q[s] = <<>>]

\* Link k after s has written a sequence: a dead link swallows it, and so does
\* a socket that was closed at the other end.
Written(k, s, ms) ==
    IF k.wire # "ok" \/ Alone(k, s) THEN k
    ELSE [k EXCEPT !.q[Peer(k, s)] = @ \o ms]

\* Link k after s has read the first message.
Read(k, s) == [k EXCEPT !.q[s] = Tail(@)]

Uses(s, c, l) == l \in LinkIds /\ proc[s].conn[c].link = l

Init ==
    /\ proc = [s \in Servers |-> NewProcess(Servers \ {s})]
    /\ link = [l \in LinkIds |-> FreeLink]
    /\ sent = {}
    /\ got = [m \in Messages |-> 0]
    /\ faults = 0 /\ dels = 0

Fail == faults < MaxFaults /\ faults' = faults + 1

-----------------------------------------------------------------------------
\* The messages of a server are numbered as it sends them.
Unsent(m) ==
    /\ m \notin sent
    /\ \A k \in Messages : k < m /\ From[k] = From[m] => k \in sent

\* send_dispatch_by_id with a connection that is CONNECTED, with one that is
\* not, and to a server the process does not know.
SendNow(m) ==
    LET s == From[m]
        n == proc[s].node[To[m]]
        l == proc[s].conn[n.conn].link
    IN  /\ Unsent(m) /\ n.conn # NoObject
        /\ proc[s].conn[n.conn].state = "CONNECTED"
        /\ sent' = sent \cup {m}
        /\ link' = [link EXCEPT ![l] = Written(@, s, <<m>>)]
        /\ UNCHANGED <<proc, got, faults, dels>>

SendLater(m) ==
    LET s == From[m]
        n == proc[s].node[To[m]]
    IN  /\ Unsent(m) /\ n.conn # NoObject
        /\ proc[s].conn[n.conn].state # "CONNECTED"
        /\ sent' = sent \cup {m}
        /\ proc' = [proc EXCEPT ![s].node[To[m]].strms = Append(@, m)]
        /\ UNCHANGED <<link, got, faults, dels>>

SendNowhere(m) ==
    /\ Unsent(m) /\ ~proc[From[m]].node[To[m]].here
    /\ sent' = sent \cup {m}
    /\ UNCHANGED <<proc, link, got, faults, dels>>

\* send_dispatch_by_id without a connection: connecting_by_id makes one.
MustConnect(m) ==
    LET n == proc[From[m]].node[To[m]]
    IN  Unsent(m) /\ n.here /\ n.conn = NoObject /\ proc[From[m]].pool # <<>>

SendConnecting(m) ==
    LET s == From[m]
    IN  /\ MustConnect(m)
        /\ sent' = sent \cup {m}
        /\ \E l \in LinkIds :
              /\ link[l].st = "free"
              /\ \A k \in 1 .. l - 1 : link[k].st # "free"
              /\ link' = [link EXCEPT ![l] =
                    [FreeLink EXCEPT !.st = "syn", !.by = s, !.to = To[m],
                                     !.end[s] = NextObject(proc[s])]]
              /\ proc' = [proc EXCEPT ![s] = Connecting(@, To[m], l, m)]
        /\ UNCHANGED <<got, faults, dels>>

SendFailing(m) ==
    /\ MustConnect(m) /\ Fail
    /\ sent' = sent \cup {m}
    /\ proc' = [proc EXCEPT ![From[m]] = NotConnecting(@, To[m])]
    /\ UNCHANGED <<link, got, dels>>

-----------------------------------------------------------------------------
\* CCoreTCPListener::handle_input
Accept(l) ==
    LET s == link[l].to
    IN  /\ link[l].st = "syn" /\ link[l].wire = "ok"
        /\ proc[s].pool # <<>>
        /\ proc' = [proc EXCEPT ![s] = Accepted(@, l)]
        /\ link' = [link EXCEPT ![l].st = "up", ![l].end[s] = NextObject(proc[s])]
        /\ UNCHANGED <<sent, got, faults, dels>>

\* handle_close of c, an error or the end of the stream on its socket.
Close(s, c) ==
    /\ proc' = [proc EXCEPT ![s] = Closed(@, c)]
    /\ link' = [link EXCEPT ![proc[s].conn[c].link] = Hung(@, s)]

Lost(s, c) ==
    \E l \in LinkIds :
        /\ Uses(s, c, l)
        /\ \/ link[l].wire = "reset"
           \/ link[l].wire = "ok" /\ Alone(link[l], s)
        /\ Close(s, c)
        /\ UNCHANGED <<sent, got, faults, dels>>

\* handle_output of a connection that has opened sends the handshake.
Writable(s, c) ==
    \E l \in LinkIds :
        /\ Uses(s, c, l)
        /\ proc[s].conn[c].state = "CONNECTING"
        /\ link[l].by = s => link[l].wire = "ok"
        /\ proc' = [proc EXCEPT ![s] = Connected(@, c)]
        /\ link' = [link EXCEPT ![l] = Written(@, s, <<Handshake>>)]
        /\ UNCHANGED <<sent, got, faults, dels>>

\* There is something to read, and MASK_READ is set: by the listener, or when
\* the connection became CONNECTED.
Readable(s, c, l) ==
    /\ Uses(s, c, l) /\ link[l].q[s] # <<>> /\ link[l].wire = "ok"
    /\ proc[s].conn[c].state = "CONNECTED" \/ link[l].to = s

\* process_handshake: it may come before the first writable event.
ReadHandshake(s, c) ==
    \E l \in LinkIds :
        /\ Readable(s, c, l) /\ Head(link[l].q[s]) = Handshake
        /\ LET p == HandShaken(proc[s], c, Peer(link[l], s))
               answer == IF proc[s].conn[c].state = "CONNECTING" THEN <<Handshake>> ELSE <<>>
           IN  /\ proc' = [proc EXCEPT ![s] = p]
               /\ link' = [link EXCEPT ![l] =
                     Written(Read(@, s), s, answer \o Waiting(proc[s], Peer(link[l], s)))]
        /\ UNCHANGED <<sent, got, faults, dels>>

ReadMessage(s, c) ==
    \E l \in LinkIds :
        /\ Readable(s, c, l) /\ Head(link[l].q[s]) # Handshake
        /\ got' = [got EXCEPT ![Head(link[l].q[s])] = @ + 1]
        /\ link' = [link EXCEPT ![l] = Read(@, s)]
        /\ proc' = [proc EXCEPT ![s].conn[c].beats = 0]
        /\ UNCHANGED <<sent, faults, dels>>

-----------------------------------------------------------------------------
\* handle_timeout of the connect timer.
ConnectTimeout(s, c) ==
    \E l \in LinkIds :
        /\ Uses(s, c, l) /\ proc[s].conn[c].timer = "connect"
        /\ link[l].wire = "dead"
        /\ proc' = [proc EXCEPT ![s] = TimedOut(@, c)]
        /\ link' = [link EXCEPT ![l] = Hung(@, s)]
        /\ UNCHANGED <<sent, got, faults, dels>>

\* handle_timeout of the heartbeat, with nothing heard since the last one.
Heartbeat(s, c) ==
    \E l \in LinkIds :
        /\ Uses(s, c, l) /\ proc[s].conn[c].timer = "heartbeat"
        /\ link[l].wire = "dead"
        /\ IF proc[s].conn[c].beats + 1 > MaxBeats THEN Close(s, c)
           ELSE /\ proc' = [proc EXCEPT ![s].conn[c].beats = @ + 1]
                /\ UNCHANGED link
        /\ UNCHANGED <<sent, got, faults, dels>>

-----------------------------------------------------------------------------
\* The daemon tells s of server t, or that it is gone.
AddServer(s, t) ==
    /\ s # t /\ (~proc[s].node[t].here \/ proc[s].node[t].del)
    /\ proc' = [proc EXCEPT ![s] = Added(@, t)]
    /\ UNCHANGED <<link, sent, got, faults, dels>>

DelServer(s, t) ==
    /\ dels < MaxDels /\ dels' = dels + 1
    /\ proc[s].node[t].here
    /\ proc' = [proc EXCEPT ![s] = Deleted(@, t)]
    /\ UNCHANGED <<link, sent, got, faults>>

\* A link fails; one that nobody has accepted yet may be refused (reset).
Break(l, how) ==
    /\ Fail /\ link[l].st # "free" /\ link[l].wire = "ok"
    /\ link[l].st = "syn" => link[l].end[link[l].by] # NoObject
    /\ link' = [link EXCEPT ![l].wire = how]
    /\ UNCHANGED <<proc, sent, got, dels>>

\* A process dies and starts again; the kernel closes its sockets and resets
\* the links its listener has not accepted.
Orphaned(k, s) ==
    CASE k.end[s] # NoObject -> Hung(k, s)
      [] k.st = "syn" /\ k.to = s ->
            IF k.end[k.by] = NoObject THEN FreeLink ELSE [k EXCEPT !.wire = "reset"]
      [] OTHER -> k

Crash(s) ==
    /\ Fail
    /\ proc' = [proc EXCEPT ![s] = NewProcess({})]
    /\ link' = [l \in LinkIds |-> Orphaned(link[l], s)]
    /\ UNCHANGED <<sent, got, dels>>

\* What the reactor of process s does: it serves the sockets that are readable,
\* writable or closed and the timers that run out.
Reactor(s) ==
    \/ \E l \in LinkIds : link[l].to = s /\ Accept(l)
    \/ \E c \in Objects :
          \/ Lost(s, c) \/ Writable(s, c) \/ ReadHandshake(s, c) \/ ReadMessage(s, c)
          \/ ConnectTimeout(s, c) \/ Heartbeat(s, c)

Next ==
    \/ \E m \in Messages : \/ SendNow(m) \/ SendLater(m) \/ SendNowhere(m)
                           \/ SendConnecting(m) \/ SendFailing(m)
    \/ \E s \in Servers : Reactor(s) \/ Crash(s)
    \/ \E l \in LinkIds, how \in {"dead", "reset"} : Break(l, how)
    \/ \E s, t \in Servers : AddServer(s, t) \/ DelServer(s, t)

Spec == Init /\ [][Next]_vars

Fairness == \A s \in Servers : WF_vars(Reactor(s))

FairSpec == Spec /\ Fairness

-----------------------------------------------------------------------------
LinkType ==
    [st : {"free", "syn", "up"}, by : Servers \cup {NoServer}, to : Servers \cup {NoServer},
     wire : {"ok", "dead", "reset"}, end : [Servers -> Objects \cup {NoObject}],
     q : [Servers -> Seq(Messages \cup {Handshake})]]

\* Types; a socket of a connection in use is an end of its link, and no other
\* connection's (reactor handlers are found by socket).
TypeOK ==
    /\ proc \in [Servers -> ProcessType]
    /\ link \in [LinkIds -> LinkType]
    /\ sent \subseteq Messages
    /\ got \in [Messages -> Nat]
    /\ faults \in 0 .. MaxFaults /\ dels \in 0 .. MaxDels
    /\ \A s \in Servers, c \in Objects, l \in LinkIds :
          proc[s].conn[c].link = l <=> link[l].end[s] = c

\* Connection_Manager's nodes: whatever order two servers' simultaneous
\* connections, their handshakes, closes and timeouts come in, the connection
\* a node names is in use and belongs to that server, never an object that is
\* back in the pool, and messages wait only for a connection on its way.
NodesSound == \A s \in Servers : NodeSound(proc[s])

\* CONNECTION_POOL: no object is in it twice or still has a state, a socket or
\* a timer of its last connection, although handle_close, handle_exception,
\* the listener and connecting_by_id all put objects back.
PoolsSound == \A s \in Servers : PoolSound(proc[s])

\* send_dispatch_by_id: through queueing, reconnecting and crossing
\* connections a message is handed on at most once, and one that is waiting or
\* on its way in one place is nowhere else.
DeliveredOnce ==
    \A m \in Messages :
        got[m] + Cardinality({l \in LinkIds : m \in ToSet(link[l].q[To[m]])})
               + Cardinality({s \in Servers : \E t \in Servers : m \in ToSet(proc[s].node[t].strms)})
            <= IF m \in sent THEN 1 ELSE 0

\* No message waits for ever: when the servers have done what there is to do,
\* every queue of a node has been sent or given up.
QueuesResolved == []<>(\A s, t \in Servers : proc[s].node[t].strms = <<>>)

\* A link that fails silently is noticed at both ends, by the connect timer or
\* by the heartbeat, and its sockets are closed.
HalfOpenNoticed == []<>(\A l \in LinkIds : link[l].wire # "dead")

\* While nothing fails every message arrives, also when the two servers
\* connect to each other at once.
AllArrive == []<>(faults + dels > 0 \/ \A m \in sent : got[m] = 1)
=============================================================================
