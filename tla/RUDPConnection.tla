-------------------------- MODULE RUDPConnection --------------------------
(***************************************************************************)
(* The life of a connection: RUDPSocket (common/rudp/rudp_socket.cpp) with *)
(* its states, timer and keepalive, and RUDPObject (rudp_interface.cpp)    *)
(* with the socket table, the reuse of socket ids and the index of         *)
(* half-open peers.                                                        *)
(*                                                                         *)
(* Every host runs one RUDPObject on one reactor thread, so one handler is *)
(* one action.  RUDP_CLOSE is not a state one can see: set_state frees the *)
(* socket.  Nor is RUDP_FIN2_STATE: the event it raises makes the          *)
(* application close, which frees the socket inside the handler.           *)
(*                                                                         *)
(* The application is RUDPConnection of test/rudp_sender: it closes its    *)
(* stream and deletes itself in rudp_close_event and rudp_exception_event, *)
(* and unbinds itself before it closes on its own account.                 *)
(***************************************************************************)
EXTENDS Naturals, FiniteSets, FiniteSetsExt

CONSTANTS
  Hosts,        \* hosts, one UDP address each
  Clients,      \* hosts whose application connects to the others
  MaxSockets,   \* bound: sockets of a host, numbered from 1
  SynMax,       \* SYN_MAX_COUNT
  FinMax,       \* FIN_MAX_COUNT
  TimeoutCount, \* timeout_count_
  MaxConnects,  \* bound: calls of connect
  MaxOut,       \* bound: segments an application sends before the test ends
  MaxNet,       \* bound: distinct packets in flight, the rest is lost
  MaxDups       \* bound: packets the network delivers once more

ASSUME ConnectionAssumption ==
  /\ Clients \subseteq Hosts
  /\ {MaxSockets, SynMax, FinMax} \subseteq Nat \ {0}
  /\ {TimeoutCount, MaxConnects, MaxOut, MaxNet, MaxDups} \subseteq Nat

VARIABLES
  sock,      \* socket_array_ of every host
  peers,     \* peer_socket_ids_: local socket of a half-open peer, 0 for none
  sessions,  \* calls of connect so far; the n-th one draws check sum n
  accepted,  \* sessions with the sockets they were accepted between, ever (history)
  net,       \* packets in flight
  dups       \* packets repeated so far

vars == <<sock, peers, sessions, accepted, net, dups>>

Ids == 1..MaxSockets
States == {"FREE", "CONNECTING", "CONNECTED", "FIN"}

Socket ==
  [ state   : States,
    host    : Hosts \cup {"NONE"},           \* remote_addr_
    remote  : 0..MaxSockets,                 \* remote_rudp_id_, 0 for invalid
    sum     : Nat,                           \* check_sum_
    handler : {"NONE", "BOUND", "DELETED"},  \* event_handler_
    sends   : Nat,                           \* send_count_
    alive   : Nat,                           \* keeplive_count_
    out     : Nat,                           \* segments cut since reset()
    skipped : Nat ]                          \* segments of the peer below first_seq_

FreeSocket ==
  [ state |-> "FREE", host |-> "NONE", remote |-> 0, sum |-> 0, handler |-> "NONE",
    sends |-> 0, alive |-> 0, out |-> 0, skipped |-> 0 ]

---------------------------------------------------------------------------
(* Packets and the socket table                                            *)

\* A packet from socket s of host h to the peer s knows.
Packet(h, s, type) ==
  [type |-> type, from |-> h, to |-> s.host, id |-> s.remote, sum |-> s.sum]

Syn(h, i, s) ==
  [type |-> "SYN", from |-> h, to |-> s.host, id |-> 0, sum |-> s.sum, src |-> i]

Syn2_LastSeq(h, i, s, error) ==
  [type |-> "SYN2", from |-> h, to |-> s.host, id |-> s.remote, sum |-> s.sum,
   src |-> i, start |-> s.out, error |-> error]

\* start is the next segment to cut, not the first one that was cut.
Syn2(h, i, s, error) ==
  [type |-> "SYN2", from |-> h, to |-> s.host, id |-> s.remote, sum |-> s.sum,
   src |-> i, start |-> s.out + 1, error |-> error]

\* create_socket takes the smallest free id.
FreeIds(h) == {i \in Ids : sock[h][i].state = "FREE"}
NewId(h) == Min(FreeIds(h))

\* The packets in out leave; a network that is full drops them.
Emit(rest, out) ==
  net' = IF Cardinality(rest \cup out) <= MaxNet THEN rest \cup out ELSE rest

\* The socket lives on as s, and the packets in out leave.
Keep(h, i, s, rest, out) ==
  /\ sock' = [sock EXCEPT ![h][i] = s]
  /\ Emit(rest, out)
  /\ UNCHANGED peers

\* peer_socket_ids_.erase(peer)
Forget(h, peer) ==
  [peers EXCEPT ![h] = [p \in DOMAIN @ |-> IF p = peer THEN 0 ELSE @[p]]]

Close_KeepsIndex(h, i, rest, out) ==
  /\ sock' = [sock EXCEPT ![h][i] = FreeSocket]
  /\ Emit(rest, out)
  /\ UNCHANGED peers

\* set_state(RUDP_CLOSE): free_sockets resets the socket, returns its id and
\* drops the index entry of its peer.
Close(h, i, rest, out) ==
  /\ sock' = [sock EXCEPT ![h][i] = FreeSocket]
  /\ peers' = Forget(h, <<sock[h][i].host, sock[h][i].remote>>)
  /\ Emit(rest, out)

---------------------------------------------------------------------------
Init ==
  /\ sock = [h \in Hosts |-> [i \in Ids |-> FreeSocket]]
  /\ peers = [h \in Hosts |-> [p \in Hosts \X Ids |-> 0]]
  /\ sessions = 0 /\ accepted = {} /\ net = {} /\ dups = 0

(* What the application does.                                              *)

\* RUDPConnection::connect: open, connect and bind_event_handle.
Connect(h, to) ==
  LET i == NewId(h)
      s == [FreeSocket EXCEPT !.state = "CONNECTING", !.host = to, !.sum = sessions + 1,
                              !.handler = "BOUND", !.sends = 1]
  IN /\ FreeIds(h) # {} /\ sessions < MaxConnects
     /\ sessions' = sessions + 1
     /\ Keep(h, i, s, net, {Syn(h, i, s)})
     /\ UNCHANGED <<accepted, dups>>

\* RUDPConnection::close: no handler any more, then close() of the socket.
AppClose(h, i) ==
  LET s == sock[h][i]
  IN /\ s.handler = "BOUND" /\ s.state \in {"CONNECTING", "CONNECTED"}
     /\ Keep(h, i, [s EXCEPT !.handler = "NONE", !.state = "FIN", !.sends = 1],
             net, {Packet(h, s, "FIN")})
     /\ UNCHANGED <<sessions, accepted, dups>>

\* RUDPStream::force_close
ForceClose(h, i) ==
  LET s == sock[h][i]
  IN /\ s.handler = "BOUND" /\ s.state \in {"CONNECTING", "CONNECTED"}
     /\ Close(h, i, net, {Packet(h, s, "FIN")})
     /\ UNCHANGED <<sessions, accepted, dups>>

\* RUDPSocket::send of one segment; the data itself is in RUDPTransfer.
AppSend(h, i) ==
  LET s == sock[h][i]
  IN /\ s.state = "CONNECTED" /\ s.handler = "BOUND" /\ s.out < MaxOut
     /\ Keep(h, i, [s EXCEPT !.out = @ + 1], net, {})
     /\ UNCHANGED <<sessions, accepted, dups>>

---------------------------------------------------------------------------
(* What the timers do.                                                     *)

Again_NoCount(s) == s
Missed_NoCount(s) == s

\* send_count_ ++
Again(s) == [s EXCEPT !.sends = @ + 1]

\* keeplive_count_ ++
Missed(s) == [s EXCEPT !.alive = @ + 1]

\* handle_timeout.  A connection that times out raises an exception; with or
\* without a handler the socket is free afterwards.
Timeout(h, i) ==
  LET s == sock[h][i]
  IN /\ \/ /\ s.state = "CONNECTING" /\ s.sends < SynMax
           /\ Keep(h, i, Again(s), net, {Syn(h, i, s)})
        \/ /\ s.state = "FIN" /\ s.sends < FinMax
           /\ Keep(h, i, Again(s), net, {Packet(h, s, "FIN")})
        \/ /\ \/ s.state = "CONNECTING" /\ s.sends >= SynMax
              \/ s.state = "FIN" /\ s.sends >= FinMax
           /\ Close(h, i, net, {})
     /\ UNCHANGED <<sessions, accepted, dups>>

\* heartbeat(), when keeplive_intnal_ has passed since the last keepalive.
Heartbeat(h, i) ==
  LET s == sock[h][i]
  IN /\ s.state = "CONNECTED"
     /\ IF Missed(s).alive > TimeoutCount THEN Close(h, i, net, {})
        ELSE Keep(h, i, Missed(s), net, {Packet(h, s, "KEEPALIVE")})
     /\ UNCHANGED <<sessions, accepted, dups>>

---------------------------------------------------------------------------
(* What a packet does.  The network may keep a copy of it for later.       *)

Taken(m, rest) ==
  \/ rest = net \ {m} /\ UNCHANGED dups
  \/ dups < MaxDups /\ rest = net /\ dups' = dups + 1

\* RUDPObject::process of a SYN: find the peer's half-open socket or create
\* one, let the application accept it, then process_syn.
ProcessSyn(h, m, rest) ==
  LET found == peers[h][<<m.from, m.src>>]
      i == NewId(h)
      s == [FreeSocket EXCEPT !.state = "CONNECTED", !.host = m.from, !.remote = m.src,
                              !.sum = m.sum, !.handler = "BOUND"]
  IN \/ /\ found = 0 /\ FreeIds(h) # {}
        /\ sock' = [sock EXCEPT ![h][i] = s]
        /\ peers' = [peers EXCEPT ![h][<<m.from, m.src>>] = i]
        /\ accepted' = accepted \cup {[sum |-> m.sum, client |-> <<m.from, m.src>>, server |-> <<h, i>>]}
        /\ Emit(rest, {Syn2(h, i, s, FALSE), Packet(h, s, "KEEPALIVE")})
     \/ /\ found # 0 /\ sock[h][found].state \in {"CONNECTING", "CONNECTED"}
        /\ Keep(h, found, sock[h][found], rest, {Syn2(h, found, sock[h][found], FALSE)})
        /\ UNCHANGED accepted
     \/ /\ found # 0 /\ sock[h][found].state = "FIN"
        /\ Close(h, found, rest, {Syn2(h, found, sock[h][found], TRUE)})
        /\ UNCHANGED accepted

ProcessSyn2(h, i, s, m, rest) ==
  \/ /\ s.state = "CONNECTING" /\ m.error
     /\ Close(h, i, rest, {})
  \/ /\ s.state = "CONNECTING" /\ ~m.error
     /\ LET c == [s EXCEPT !.state = "CONNECTED", !.sends = 0,
                           !.remote = m.src, !.skipped = m.start - 1]
        IN Keep(h, i, c, rest, {Packet(h, c, "SYN_ACK")})
  \/ /\ s.state = "CONNECTED"
     /\ Keep(h, i, s, rest, {Packet(h, s, "SYN_ACK")})
  \/ /\ s.state = "FIN"
     /\ Keep(h, i, s, rest, {})

\* The connection is no longer half-open, whatever state it is in.
ProcessSynAck(h, i, s, rest) ==
  /\ sock' = [sock EXCEPT ![h][i] = s]
  /\ peers' = Forget(h, <<s.host, s.remote>>)
  /\ Emit(rest, {})

\* Every state ends in RUDP_CLOSE, directly or by the application's close.
ProcessFin(h, i, s, rest) == Close(h, i, rest, {Packet(h, s, "FIN2")})

\* With a handler only rudp_close_event: the application closes its stream
\* and deletes itself, and event_handler_ keeps pointing at it.  A second FIN2
\* calls the deleted object; here that call does nothing.
ProcessFin2(h, i, s, rest) ==
  \/ /\ s.handler = "NONE"
     /\ Close(h, i, rest, {})
  \/ /\ s.handler = "BOUND" /\ s.state \in {"CONNECTING", "CONNECTED"}
     /\ Keep(h, i, [s EXCEPT !.state = "FIN", !.sends = 1, !.handler = "DELETED"],
             rest, {Packet(h, s, "FIN")})
  \/ /\ s.handler = "DELETED"
     /\ Keep(h, i, s, rest, {})

ProcessKeepalive(h, i, s, rest) ==
  Keep(h, i, s, rest, IF s.state = "CONNECTED" THEN {Packet(h, s, "KEEPALIVE_ACK")} ELSE {})

Mine_AnySum(m) == m.id \in Ids /\ sock[m.to][m.id].state # "FREE"

\* get_socket finds a socket for the packet and the check sums agree.
Mine(m) ==
  m.id \in Ids /\ sock[m.to][m.id].state # "FREE" /\ sock[m.to][m.id].sum = m.sum

\* RUDPObject::process, then RUDPSocket::process: a packet that is for no
\* socket is dropped, any other one resets keeplive_count_.
Process(m) ==
  \E rest \in {net, net \ {m}} :
    LET h == m.to
        i == m.id
        s == [sock[h][i] EXCEPT !.alive = 0]
    IN /\ Taken(m, rest)
       /\ \/ m.type = "SYN" /\ ProcessSyn(h, m, rest)
          \/ m.type # "SYN" /\ ~Mine(m) /\ net' = rest /\ UNCHANGED <<sock, peers>>
          \/ Mine(m) /\ m.type = "SYN2" /\ ProcessSyn2(h, i, s, m, rest)
          \/ Mine(m) /\ m.type = "SYN_ACK" /\ ProcessSynAck(h, i, s, rest)
          \/ Mine(m) /\ m.type = "FIN" /\ ProcessFin(h, i, s, rest)
          \/ Mine(m) /\ m.type = "FIN2" /\ ProcessFin2(h, i, s, rest)
          \/ Mine(m) /\ m.type = "KEEPALIVE" /\ ProcessKeepalive(h, i, s, rest)
          \/ Mine(m) /\ m.type = "KEEPALIVE_ACK" /\ Keep(h, i, s, rest, {})
       /\ m.type # "SYN" => UNCHANGED accepted
       /\ UNCHANGED sessions

\* The network loses a packet.
Lose(m) ==
  /\ net' = net \ {m}
  /\ UNCHANGED <<sock, peers, sessions, accepted, dups>>

Next ==
  \/ \E h \in Clients, to \in Hosts : h # to /\ Connect(h, to)
  \/ \E h \in Hosts, i \in Ids :
       AppClose(h, i) \/ ForceClose(h, i) \/ AppSend(h, i) \/ Timeout(h, i) \/ Heartbeat(h, i)
  \/ \E m \in net : Process(m)
  \/ \E m \in net : Lose(m)

Spec == Init /\ [][Next]_vars

\* Timers run, and packets do not stay in flight for ever: keepalives are
\* seconds apart, so the network falls silent between them again and again.
Fairness ==
  /\ \A h \in Hosts, i \in Ids : WF_vars(Timeout(h, i)) /\ WF_vars(Heartbeat(h, i))
  /\ []<>(net = {})

FairSpec == Spec /\ Fairness

---------------------------------------------------------------------------
Live(h) == {i \in Ids : sock[h][i].state # "FREE"}

Session == [sum : Nat, client : Hosts \X Ids, server : Hosts \X Ids]

\* The state is of the declared types.
TypeOK ==
  /\ sock \in [Hosts -> [Ids -> Socket]]
  /\ peers \in [Hosts -> [Hosts \X Ids -> 0..MaxSockets]]
  /\ sessions \in Nat /\ accepted \subseteq Session /\ dups \in Nat

\* An entry of the half-open index names a live socket that belongs to that
\* peer, although ids are reused and three code paths drop entries.
IndexIsLive ==
  \A h \in Hosts : \A p \in Hosts \X Ids :
    peers[h][p] # 0 =>
      /\ peers[h][p] \in Live(h)
      /\ <<sock[h][peers[h][p]].host, sock[h][peers[h][p]].remote>> = p

\* Two sockets are bound to each other only by an accept of this very session
\* between these two: ids are reused at once and packets are late, but none of
\* an earlier session binds a socket to the wrong peer.
SessionsAgree ==
  \A h \in Hosts : \A i \in Live(h) :
    sock[h][i].remote # 0 =>
      \E a \in accepted :
        /\ a.sum = sock[h][i].sum
        /\ {a.client, a.server} = {<<h, i>>, <<sock[h][i].host, sock[h][i].remote>>}

\* The comment in RUDPObject::process: the index of half-open peers is there
\* to prevent a connection from being established twice.
NoDuplicateConnection ==
  \A h \in Hosts : \A i, j \in Live(h) :
    sock[h][i].sum = sock[h][j].sum => i = j

\* A handshake ends in a connection or in an exception, a close ends with the
\* socket freed, whatever packets are lost.
TransientStatesEnd ==
  \A h \in Hosts : \A i \in Ids :
    sock[h][i].state \in {"CONNECTING", "FIN"} ~> sock[h][i].state \in {"CONNECTED", "FREE"}

\* A connected socket is an orphan if no live socket answers to it: its peer
\* never heard of it, has gone, or is bound to another socket.
Orphan(h, i) ==
  /\ sock[h][i].state = "CONNECTED"
  /\ \A k \in Hosts \ {h} : \A j \in Live(k) :
       sock[k][j].sum = sock[h][i].sum => sock[k][j].remote # i

\* The keepalive notices every orphan: it is freed, if it does not find a
\* peer after all.
OrphansAreNoticed ==
  \A h \in Hosts : \A i \in Ids : Orphan(h, i) ~> ~Orphan(h, i)
===========================================================================
