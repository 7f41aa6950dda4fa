------------------------------ MODULE DCClient ------------------------------
(***************************************************************************)
(* Requests to the data centre: CCoreDCClient                              *)
(* (common/core/core_dc_client.cpp) with one short connection a request    *)
(* (ShortConnection, common/core/dc_short_conn.cpp), the pool of those     *)
(* (common/revolver/object_pool.h), the timers of both on the reactor's    *)
(* queue (TimerWheel), and the events of the reactor                       *)
(* (common/revolver/base_epoll_reactor.cpp).                               *)
(*                                                                         *)
(* One thread runs the reactor, the callbacks of the application and the   *)
(* calls the application makes: an action is one event, with the callback  *)
(* it ends in and what the application does there (Reaction).  The network *)
(* and the data centre are the environment: a connection opens, is lost or *)
(* hangs, a request is answered once or never.  Buffers are left out: a    *)
(* request is one message.                                                 *)
(*                                                                         *)
(* The application hands in a fresh parameter with every request and       *)
(* cancels only requests that are open.  A request without a parameter,    *)
(* for which the client makes one that nobody is told about, is left out.  *)
(***************************************************************************)
EXTENDS TimerWheel

CONSTANTS
    Params,        \* parameter objects, each for one request
    Kind,          \* of a parameter's request: [read, ack]
    Conns,         \* ShortConnection objects there may be
    NoConn,        \* NULL
    FirstPool,     \* the connections init() puts into the pool, as a sequence
    PoolStep,      \* CAPACITY / 2 + 1, by how many an empty pool grows
    ReadDelay, WriteDelay, ConnectDelay, HeartbeatDelay,   \* in ticks
    MaxLag,        \* ticks the scan may be behind the clock
    Uptime,        \* how long the reactor has run idle when the runs start
    LastPost,      \* bound: the time of the last request
    MaxNow         \* bound: the end of time

ASSUME DCAssumption ==
    /\ Kind \in [Params -> [read : BOOLEAN, ack : BOOLEAN]]
    /\ NoConn \notin Conns /\ IsFiniteSet(Conns)
    /\ FirstPool \in Seq(Conns) /\ IsInjective(FirstPool)
    /\ {ReadDelay, WriteDelay, ConnectDelay, HeartbeatDelay, MaxLag} \subseteq Nat \ {0}
    /\ \A d \in {ReadDelay, WriteDelay, ConnectDelay, HeartbeatDelay} :
          MaxLag <= d /\ d + MaxLag <= Lap - RingSize ^ (Rings - 1)
    /\ {Uptime, LastPost, MaxNow} \subseteq Nat /\ PoolStep \in Nat \ {0}
    /\ Uptime < Lap /\ Uptime <= MaxNow

VARIABLES
    now,      \* the clock
    dc        \* the client, its connections and timers

vars == <<now, dc>>

Delay == [p \in Params |-> IF Kind[p].read THEN ReadDelay ELSE WriteDelay]

-----------------------------------------------------------------------------
\* A connection: state_, conn_id_, timer_id_, timer_count_, its socket, and the
\* number of the request the data centre has got through that socket, or 0.
IdleConn == [state |-> "IDLE", id |-> 0, timer |-> 0, count |-> 0,
             sock |-> "none", asked |-> 0]

\* A parameter: the number of its request (0: not posted), when it was posted,
\* conn_, and how it was handed back.
NewParam == [exc |-> 0, at |-> 0, conn |-> NoConn, got |-> <<>>]

Posted(s, p) == s.param[p].exc # 0 \/ s.param[p].got # <<>>
IsOpen(s, p) == s.param[p].exc # 0 /\ s.param[p].got = <<>>

\* ObjectPool::pop_obj: a pool that is empty makes new objects first.
Refilled(s) ==
    IF s.pool # <<>> THEN s
    ELSE LET n == Min({PoolStep, Cardinality(s.unmade)})
             made == CHOOSE f \in {g \in [1 .. n -> s.unmade] : IsInjective(g)} : TRUE
         IN  [s EXCEPT !.pool = made, !.unmade = @ \ ToSet(made)]

Popped(s)    == [Refilled(s) EXCEPT !.pool = Tail(@)]
NextConn(s)  == Head(Refilled(s).pool)
CanPop(s)    == s.pool # <<>> \/ s.unmade # {}
Pushed(s, c) == [s EXCEPT !.pool = Append(@, c)]

\* REACTOR_INSTANCE()->cancel_timer
Untimed(s, id) == [s EXCEPT !.wheel = Cancel(@, id)]

\* ShortConnection::set_timer(type), as the timer of c.
ConnTimer(s, c, type, delay) ==
    [s EXCEPT !.wheel = Schedule(@, <<type, c>>, delay, now),
              !.conns[c].timer = NextId(s.wheel)]

\* Mutation: reset leaves the timer running.
Reset_KeepTimer(s, c) == [s EXCEPT !.conns[c] = IdleConn]

\* ShortConnection::reset: the timer is cancelled, all else is as new.
Reset(s, c) == [Untimed(s, s.conns[c].timer) EXCEPT !.conns[c] = IdleConn]

\* handle_close without its notification; an IDLE connection is not pooled.
Shut(s, c) ==
    IF s.conns[c].state # "IDLE" THEN Pushed(Reset(s, c), c)
    ELSE [s EXCEPT !.conns[c].sock = "none", !.conns[c].asked = 0]

\* Mutation: the parameter forgets its connection without closing it.
Parted_Open(s, p) == [s EXCEPT !.param[p].conn = NoConn]

\* The three lines that part a parameter from its connection, conn_id_ first:
\* the notification of the close finds no request (core_dc_client.cpp:113-118).
Parted(s, p) ==
    LET c == s.param[p].conn
    IN  IF c = NoConn THEN s
        ELSE [Shut([s EXCEPT !.conns[c].id = 0], c) EXCEPT !.param[p].conn = NoConn]

HandedBack(s, p, how) == [s EXCEPT !.param[p].got = Append(@, how)]

\* ERASE_REQUEST
Erased(s, id) == [s EXCEPT !.ids = @ \ {id}]

\* CCoreDCClient::cancel_timer, for a number that is in timer_ids_.
CancelRequest(s, id) ==
    LET p == s.wheel.heap[id].act[2]
    IN  Parted(Untimed(Erased(s, id), id), p)

-----------------------------------------------------------------------------
\* post_dc_request: the server may be unknown, connect() may fail at once.
Routes == {"unknown", "failing", "connecting"}

Post(s, p, route) ==
    LET id    == NextId(s.wheel)
        c     == NextConn(s)
        timed == [s EXCEPT !.wheel = Schedule(@, <<"request", p>>, Delay[p], now),
                           !.ids = @ \cup {id},
                           !.param[p] = [NewParam EXCEPT !.exc = id, !.at = now]]
    IN  CASE route = "unknown" -> timed
          [] route = "failing" ->
               HandedBack(Pushed(Reset(CancelRequest(Popped(timed), id), c), c), p, "refused")
          [] route = "connecting" ->
               [ConnTimer([Popped(timed) EXCEPT !.conns[c].state = "CONNECTING",
                                                !.conns[c].sock = "opening"],
                          c, "connect", ConnectDelay)
                  EXCEPT !.conns[c].id = id, !.param[p].conn = c]

CanPost(s, p, route) ==
    /\ ~s.down
    /\ ~Posted(s, p)
    /\ now <= LastPost
    /\ route # "unknown" => CanPop(s)

Withdraw(s, p) ==
    HandedBack(CancelRequest(s, s.param[p].exc), p, "cancelled")

\* What the application may do in a callback.
Reactions ==
    [do : {"nothing"}]
    \cup [do : {"post"}, p : {p \in Params : ~Posted(dc, p)}, route : Routes]
    \cup [do : {"cancel"}, p : {p \in Params : IsOpen(dc, p)}]

CanReact(s, r) ==
    CASE r.do = "nothing" -> TRUE
      [] r.do = "post"    -> CanPost(s, r.p, r.route)
      [] r.do = "cancel"  -> IsOpen(s, r.p)

React(s, r) ==
    CASE r.do = "nothing" -> s
      [] r.do = "post"    -> Post(s, r.p, r.route)
      [] r.do = "cancel"  -> Withdraw(s, r.p)

\* A parameter whose answer the application waits for goes back through the
\* callback for what happened, another is released.
Answered(s, p, how) ==
    HandedBack(s, p, IF Kind[p].ack THEN how ELSE "released")

\* r is something the application may do in the callback for p, which there is
\* none of for a parameter that was released.
MayReact(s, p, r) ==
    /\ r.do # "nothing" => Last(s.param[p].got) # "released"
    /\ CanReact(s, r)

-----------------------------------------------------------------------------
\* on_short_disconnected: the request of a lost connection fails.
HasRequest(s, c) == s.conns[c].id \in s.ids
RequestOf(s, c)  == s.wheel.heap[s.conns[c].id].act[2]

\* Mutation: the request's timer is not cancelled.
Told_KeepTimer(s, c) ==
    LET id     == s.conns[c].id
        parted == [s EXCEPT !.conns[c].id = 0]
    IN  IF HasRequest(s, c)
        THEN Answered(Erased(parted, id), RequestOf(s, c), "exception")
        ELSE parted

Told(s, c) ==
    LET id     == s.conns[c].id
        parted == [s EXCEPT !.conns[c].id = 0]
    IN  IF HasRequest(s, c)
        THEN Answered(Untimed(Erased(parted, id), id), RequestOf(s, c), "exception")
        ELSE parted

\* handle_close: the object is reset and pooled after the callback.
MayLose(s, c, r) ==
    IF HasRequest(s, c) THEN MayReact(Told(s, c), RequestOf(s, c), r) ELSE r.do = "nothing"

AfterLoss(s, c, r) == Pushed(Reset(React(Told(s, c), r), c), c)

-----------------------------------------------------------------------------
\* Between two events of the reactor.
Rest == ~dc.wheel.scan.on /\ dc.hup = NoConn

Init ==
    /\ now = Uptime
    /\ dc = [wheel  |-> IdleWheel(Uptime),
             conns  |-> [c \in Conns |-> IdleConn],
             pool   |-> FirstPool,
             unmade |-> Conns \ ToSet(FirstPool),
             ids    |-> {},
             param  |-> [p \in Params |-> NewParam],
             hup    |-> NoConn,
             down   |-> FALSE]

Tick ==
    /\ now < MaxNow
    /\ now <= LastPost \/ \E p \in Params : IsOpen(dc, p)
    /\ now - dc.wheel.prev < MaxLag
    /\ now' = now + 1
    /\ UNCHANGED dc

AppPost(p, route) ==
    /\ Rest /\ CanPost(dc, p, route)
    /\ dc' = Post(dc, p, route)
    /\ UNCHANGED now

\* cancel_dc_request
AppCancel(p) ==
    /\ Rest /\ IsOpen(dc, p) /\ ~dc.down
    /\ dc' = Withdraw(dc, p)
    /\ UNCHANGED now

\* event_loop calls expire.
Scan ==
    /\ Rest
    /\ now > dc.wheel.prev
    /\ dc' = [dc EXCEPT !.wheel = Expire(@, now)]
    /\ UNCHANGED now

\* The number of a timer becomes free after its owner has run.
Returned(s, id) == [s EXCEPT !.wheel = Fired(@, id, now)]

FiringAct == dc.wheel.heap[FiringId(dc.wheel)].act

\* CCoreDCClient::handle_timeout
RequestTimeout(r) ==
    /\ Firing(dc.wheel)
    /\ FiringAct[1] = "request"
    /\ LET id   == FiringId(dc.wheel)
           p    == FiringAct[2]
           told == Answered(Parted(Erased(dc, id), p), p, "timeout")
       IN  /\ MayReact(told, p, r)
           /\ dc' = Returned(React(told, r), id)
    /\ UNCHANGED now

\* ShortConnection::handle_timeout of the connect timer: the connection is
\* made IDLE before it is closed, so nobody is told and it is not pooled.
ConnectTimeout ==
    /\ Firing(dc.wheel)
    /\ FiringAct[1] = "connect"
    /\ LET id == FiringId(dc.wheel)
           c  == FiringAct[2]
           un == [dc EXCEPT !.conns[c].timer = 0]
       IN  dc' = Returned(IF dc.conns[c].state = "CONNECTING"
                          THEN Shut([un EXCEPT !.conns[c].state = "IDLE"], c)
                          ELSE un, id)
    /\ UNCHANGED now

\* ShortConnection::handle_timeout of the heartbeat: after the fourth without
\* a message the connection is closed.
Heartbeat(r) ==
    /\ Firing(dc.wheel)
    /\ FiringAct[1] = "heartbeat"
    /\ LET id == FiringId(dc.wheel)
           c  == FiringAct[2]
           un == [dc EXCEPT !.conns[c].timer = 0, !.conns[c].count = @ + 1]
       IN  IF un.conns[c].count > 3
           THEN MayLose(un, c, r) /\ dc' = Returned(AfterLoss(un, c, r), id)
           ELSE /\ r.do = "nothing"
                /\ dc' = Returned(ConnTimer(un, c, "heartbeat", HeartbeatDelay), id)
    /\ UNCHANGED now

\* handle_output on a connection that has opened: check_connecting_state,
\* on_short_connected, and the request goes out.
Opened(c) ==
    /\ Rest
    /\ dc.conns[c].sock = "opening"
    /\ LET id == dc.conns[c].id
           un == ConnTimer(Untimed(dc, dc.conns[c].timer), c, "heartbeat", HeartbeatDelay)
       IN  dc' = [un EXCEPT !.conns[c].state = "CONNECTED", !.conns[c].count = 0,
                            !.conns[c].sock = "open",
                            !.conns[c].asked = IF id \in dc.ids THEN id ELSE 0]
    /\ UNCHANGED now

\* The connection is refused, reset, or closed by the peer.
Lost(c, r) ==
    /\ Rest
    /\ dc.conns[c].sock # "none"
    /\ MayLose(dc, c, r)
    /\ dc' = AfterLoss(dc, c, r)
    /\ UNCHANGED now

\* handle_input: process, on_message, on_php_response.  The connection is
\* closed and pooled before the callback, which may take it out again; then
\* the rest of the same event, which may be a hang-up, meets the new one.
Response(c, r, hup) ==
    /\ Rest
    /\ dc.conns[c].asked \in dc.ids
    /\ LET id   == dc.conns[c].asked
           p    == dc.wheel.heap[id].act[2]
           told == HandedBack(CancelRequest(dc, id), p, "response")
           done == React(told, r)
       IN  /\ MayReact(told, p, r)
           /\ hup => done.conns[c].state # "IDLE"
           /\ dc' = [done EXCEPT !.hup = IF hup THEN c ELSE NoConn]
    /\ UNCHANGED now

\* event_loop: EPOLLHUP of the event whose EPOLLIN was handled before.
StaleHangup(r) ==
    /\ dc.hup # NoConn
    /\ MayLose(dc, dc.hup, r)
    /\ dc' = [AfterLoss(dc, dc.hup, r) EXCEPT !.hup = NoConn]
    /\ UNCHANGED now

\* stop_event_loop: handle_close for every handler that is registered.
Stopped(s) ==
    LET handlers == SetToSeq({c \in Conns : s.conns[c].sock # "none"})
        after[k \in 0 .. Len(handlers)] ==
            IF k = 0 THEN s ELSE AfterLoss(after[k - 1], handlers[k], [do |-> "nothing"])
    IN  after[Len(handlers)]

\* release_timer_act, for the timer id.
TimerReleased(s, id) ==
    LET p == s.wheel.heap[id].act[2]
        c == s.param[p].conn
        t == Untimed(s, id)
    IN  HandedBack(IF c = NoConn THEN t ELSE [Shut(t, c) EXCEPT !.param[p].conn = NoConn],
                   p, "released")

\* clear() forgets the numbers before it cancels them and so releases nothing.
Cleared(s) == [s EXCEPT !.ids = {}]

\* clear_timer_events of the client's destructor finds the timers that are left.
TimersReleased(s) ==
    LET n == Len(s.wheel.heap)
        left == {id \in LiveIds(s.wheel) : s.wheel.heap[id].act[1] = "request"}
        after[id \in 0 .. n] ==
            IF id = 0 THEN s
            ELSE IF id \in left THEN TimerReleased(after[id - 1], id) ELSE after[id - 1]
    IN  after[n]

\* ICoreFrame::destroy, when the application has stopped.
Shutdown ==
    /\ Rest /\ ~dc.down
    /\ dc' = [TimersReleased(Cleared(Stopped(dc))) EXCEPT !.down = TRUE]
    /\ UNCHANGED now

\* What the reactor's loop does by itself.
Loop ==
    \/ Scan
    \/ ConnectTimeout
    \/ \E r \in Reactions : RequestTimeout(r) \/ Heartbeat(r) \/ StaleHangup(r)

Next ==
    \/ Tick
    \/ \E p \in Params, route \in Routes : AppPost(p, route)
    \/ \E p \in Params : AppCancel(p)
    \/ Loop
    \/ \E c \in Conns : Opened(c)
    \/ \E c \in Conns, r \in Reactions :
          Lost(c, r) \/ (\E hup \in BOOLEAN : Response(c, r, hup))
    \/ Shutdown

\* The reactor's loop goes on, and time.
Fairness == WF_vars(Tick) /\ WF_vars(Loop)

Spec     == Init /\ [][Next]_vars
FairSpec == Spec /\ Fairness

-----------------------------------------------------------------------------
ConnState == [state : {"IDLE", "CONNECTING", "CONNECTED"}, id : Nat, timer : Nat,
              count : 0 .. 3, sock : {"none", "opening", "open"}, asked : Nat]

\* Types; timer_ids_ holds numbers the heap knows, and the timer queue is never
\* ahead of the clock.
TypeOK ==
    /\ now \in 0 .. MaxNow
    /\ dc.conns \in [Conns -> ConnState]
    /\ dc.pool \in Seq(Conns) /\ dc.unmade \subseteq Conns
    /\ dc.ids \subseteq DOMAIN dc.wheel.heap
    /\ \A p \in Params :
          /\ dc.param[p].exc \in Nat /\ dc.param[p].at \in Nat
          /\ dc.param[p].conn \in Conns \cup {NoConn}
    /\ dc.hup \in Conns \cup {NoConn} /\ dc.down \in BOOLEAN
    /\ dc.wheel.start <= now /\ dc.wheel.prev <= now

\* A scan that runs stands at a timer whose owner it calls: ScanSteps silent
\* steps were enough to take it there.
Settled == dc.wheel.scan.on => Firing(dc.wheel)

\* The timer queue serves everyone it was asked to: numbers are not lost or
\* handed out twice and every timer stands where the scan will find it, also
\* while callbacks set and cancel timers in the middle of a scan.
TimersKept == Settled /\ NumbersPartitioned(dc.wheel) /\ InPlace(dc.wheel)

RequestTimers == {id \in LiveIds(dc.wheel) : dc.wheel.heap[id].act[1] = "request"}

\* A request is open as long as it has its timer and its entry in timer_ids_,
\* all under one number, which no other request has.
OneNumber ==
    /\ dc.ids = RequestTimers
    /\ \A id \in RequestTimers :
          LET p == dc.wheel.heap[id].act[2]
          IN  IsOpen(dc, p) /\ dc.param[p].exc = id
    /\ \A p \in Params : IsOpen(dc, p) => dc.param[p].exc \in RequestTimers

\* A connection works for one open request, and that request knows it: what
\* arrives on it or happens to it concerns no other request.  (The end of the
\* program leaves the number in a connection whose connect timed out.)
OwnConnection ==
    /\ \A c \in Conns : dc.conns[c].id # 0 /\ ~dc.down =>
          \E p \in Params : /\ IsOpen(dc, p) /\ dc.param[p].exc = dc.conns[c].id
                             /\ dc.param[p].conn = c
    /\ \A p \in Params : IsOpen(dc, p) /\ dc.param[p].conn # NoConn =>
          dc.conns[dc.param[p].conn].id = dc.param[p].exc
    /\ \A c \in Conns : dc.conns[c].asked \in {0, dc.conns[c].id}

\* A connection in the pool is there once and has nothing left of its last
\* use: no state, number, socket or timer.
PoolClean ==
    /\ IsInjective(dc.pool)
    /\ \A c \in ToSet(dc.pool) : dc.conns[c] = IdleConn
    /\ \A id \in LiveIds(dc.wheel) \ RequestTimers :
          LET c == dc.wheel.heap[id].act[2]
          IN  dc.conns[c].timer = id /\ c \notin ToSet(dc.pool)

\* What a caller sees of a parameter.
View(s, p) ==
    LET got == s.param[p].got
    IN  [is |-> CASE ~Posted(s, p)  -> "unposted"
                  [] IsOpen(s, p)   -> "open"
                  [] Len(got) = 1    -> got[1]
                  [] Len(got) > 1    -> "twice",
         at |-> s.param[p].at]

Views(s) == [p \in Params |-> View(s, p)]

\* The client keeps the promises of RequestBroker.
Broker == INSTANCE RequestBroker WITH
    Early <- MaxLag - 1, Late <- MaxLag, clock <- now, request <- Views(dc)

KeepsPromises == Broker!BrokerSpec

\* Every request is answered: by the data centre, by the network, by the
\* application or by its timer.
EveryRequestEnds == \A p \in Params : IsOpen(dc, p) ~> ~IsOpen(dc, p)
=============================================================================
