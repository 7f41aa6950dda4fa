# A verification of the transports, clients, locks and transactions of this repository

The repository holds two programs. `src/common` is a C++ server framework: a
reactor, a library of TCP connections, and *RUDP*, a reliable transport over
UDP; `src/test` and `src/daemon` use it. The other half, the files
directly under `src/`, is an annotated transcription of the InnoDB storage
engine. This directory models the parts whose correctness depends on the order
in which things happen, checks the models with TLC and proves the main
invariants with TLAPS.

Names of definitions are those of the code wherever TLA+ allows it.
`PROJECT.json` maps every definition to the lines it stands for.

## 1. Inventory

### RUDP (`src/common/rudp`)

| component | state | operations | what makes it hard | what makes it correct |
|---|---|---|---|---|
| send buffer, `rudp_send_buffer.cpp` | `send_data_` (cut, unsent), `send_window_` (in flight), `loss_set_`, `buffer_data_size_`, `dest_max_seq_`, `cwnd_max_seq_`, `buffer_seq_` | `send`, `on_ack`, `on_nack`, `on_timer`, `attempt_send` | acknowledgements and loss reports are late, repeated and out of order; small writes are glued onto the last unsent segment; three different conditions send a segment again | frees only what the peer has; a number always stands for the same bytes; every loss is repaired |
| receive buffer, `rudp_recv_buffer.cpp` | `first_seq_`, `max_seq_`, `recv_window_`, `recv_data_`, `loss_map_`, `recv_new_packet_` | `on_data`, `check_loss`, `check_recv_window`, `on_timer`, `on_read`/`read` | gaps inside gaps; acknowledgements are delayed, piggybacked or repeated | delivers each byte once and in order; forgets neither a gap nor an acknowledgement that is due |
| congestion control, `rudp_ccc.cpp` | `snd_cwnd_`, `max_cwnd_`, `rtt_`, `last_ack_id_`, `slow_start_`, `loss_flag_`, `resend_count_` | `on_ack`, `on_loss`, `on_timer`, `set_rtt`, `add_resend` | five methods called from different handlers change one window, and its limit moves | the window keeps its bounds; a loss never speeds the sender up |
| socket, `rudp_socket.cpp` | `state_`, ids and address of the peer, `check_sum_`, `send_count_`, `keeplive_count_`, `event_handler_` | `connect`, `close`, `send`, `recv`, one `process_*` per packet type, `handle_timeout`, `heartbeat` | loss of any handshake packet, retries that race late answers, callbacks into the application that may close the socket | ends agree on who is connected with whom; every handshake and every close ends; a vanished peer is noticed |
| socket table, `rudp_interface.cpp` | `socket_array_`, used ids, free ids, `peer_socket_ids_` | `create_socket`, `free_sockets`, `process`, `heartbeat` | ids are reused at once while packets of the former owner are under way | the index of half-open peers names live sockets; a packet never reaches another session |
| stream, adapter, acceptor | wrappers around the above | forwarding | none | – |

The reactor calls `RUDPObject::process` for each datagram and `heartbeat` every
10 ms (`rudp_interface.cpp:65`); both call into sockets; a socket calls its two
buffers, which call back `send_data`, `send_ack` and `send_nack` of the socket
and the application's event handler; the application calls `send`, `recv` and
`close` from there. All of this runs on one reactor thread, so handlers do not
interleave; *packets* do.

### Timers, connections and requests (`src/common/revolver`, `src/common/core`)

| component | state | operations | what makes it hard | what makes it correct |
|---|---|---|---|---|
| timers, `timer_queue_t.inl`, `timer_ring.cpp` | `heap_` of timers by number, `freeTimers_`, four `rings_` of slots with a position each, `start_time_`, `prev_time_` | `schedule`, `cancel_timer`, `expire` (`revolver`, `cycle`, `ring_event`, `insert_node`) | callbacks set and cancel timers while a slot is iterated; numbers are reused; the scan is late by any number of ticks; the origin of time moves when the last ring comes round | a timer stands where the scan will meet it, fires once, and in time |
| object pool, `object_pool.h` | `obj_list_` | `pop_obj`, `push_obj` | objects come back from five handlers, some while a handler of theirs still runs | an object is in it once, and clean |
| data-centre client, `core_dc_client.cpp`, `dc_short_conn.cpp` | `timer_ids_`; per connection `state_`, `conn_id_`, `timer_id_`, `timer_count_`; per parameter `conn_` | `post_dc_request`, `cancel_dc_request`, `handle_timeout` of client and connection, `on_short_connected`, `on_short_disconnected`, `on_php_response`, `clear` | one number names a request, its timer and what its connection works for; answer, loss, timeout and cancellation race; callbacks start the next request | every parameter comes back once and in time; a connection works for one request |
| connection manager, `core_connection_mananger.cpp` | per server id a `Server_Node_t`: `conn`, `strms`, `daemon_del_` | `add_server`, `del_server`, `on_add_connection`, `on_del_connection`, `send_dispatch_by_id`, `connecting_by_id` | two servers connect to each other at once; a late close clears the node of another connection | a node names a live connection to its server; no message is sent twice or kept for ever |
| TCP connections, `core_connection.cpp`, `core_tcp_listener.cpp` | `state_`, `server_id_`, `timer_id_`, `timer_count_`, socket | `connect`, accept, `handle_input`, `handle_output`, `handle_timeout`, `handle_close`, `process_handshake` | handshakes cross; silent failures; processes restart | a broken link is noticed at both ends; nothing of an old connection is left in a pooled one |

One reactor thread (`CEpollReactor::event_loop`) serves the events of sockets and
then calls `expire`; the handlers call the client or the manager, which call back
the application. Within a process everything is therefore one event after
another, but callbacks re-enter the timers, the pool and the client, and the
processes and the network between them are concurrent.

### The rest of `src/common`, `src/daemon`

* **revolver**: byte streams, queues, threads, log: sequential containers.
* **core**: message dispatch, bandwidth throttler, frame; the client of the daemon.
* **daemon**: supervision of processes and their ids.
* **protocol_analysis, code_generator, json**: offline generators and vendored
  code.

### InnoDB (`src/*.cc`)

| component | state | what makes it hard | what makes it correct |
|---|---|---|---|
| lock system (`lock0lock.cc`) | `lock_sys->rec_hash`: a chain of record locks per page; a queue of table locks per table; `wait_lock` and `que_state` of transactions | `lock_clust_rec_read_check_and_lock`, `..modify..`, `lock_rec_insert_check_and_lock`, `lock_update_insert`, `lock_update_delete`, store and restore on the infimum, `lock_release_off_kernel`, `lock_cancel_waiting_and_release`, page split, merge and reorganization: granting and cancelling in queue order, implicit locks, gap locks inherited by the next record, deadlock search | no two conflicting locks granted; a waiter has something to wait for; no circle of waiters; no victim without a deadlock; what is locked stays locked when the page changes |
| mutexes, rw-locks, wait array (`sync0*.cc`) | lock word, waiters flag, cells, events | signals between the check and the wait | mutual exclusion, no lost wakeup |
| log (`log0log.cc`) and recovery | log buffer, written and flushed lsn, pending writes, checkpoint | group commit with released mutex; a crash at every step | durable lsn never ahead of the disk; the checkpoint never ahead of dirty pages |
| buffer pool (`buf0*.cc`) | fix counts, `io_fix`, LRU and flush lists | eviction against reading and flushing | a fixed page is not evicted |
| transactions, read views, purge (`trx0trx.cc`, `trx0undo.cc`, `trx0purge.cc`, `read0read.cc`, `row0vers.cc`) | `trx_list`, `max_trx_id`, `view_list`; per transaction id, number, view and two undo logs; the history list, `rseg->last_...`, `purge_sys` | `trx_start`, `trx_assign_read_view`, `trx_undo_report_row_operation`, `trx_commit_off_kernel`, `trx_purge`, `trx_purge_fetch_next_rec`: a commit takes four critical sections, under two mutexes, and views are opened and purge goes on in between | a view sees what was committed when it was opened, and purge leaves it that |
| files, B-tree, pages, rows, dictionary, SQL, utilities | on-page data and sequential containers | mostly sequential code on bytes | reached well by tests |

Row operations call the lock system with the page's latch held; inside, every
call owns `kernel_mutex`. Commit, rollback, the purge thread and the lock timeout
thread call it too, and a grant wakes the thread that waits in
`srv_suspend_mysql_thread`.

The InnoDB half does not compile as it stands (unresolved names, statements cut
off in the transcription), and some of its divergences from the original are
bugs of the transcription; the list of hazards names those found so far.

### Hazards

`PROJECT.json` lists them, each at its line and with the properties that cover
it. Those without a property, and why:

* a server that comes back under another id (`core_connection.cpp:566`): ids are
  fixed.

Further ones were met that no model reaches:

* a call of a deleted event handler after `rudp_close_event` (`rudp_socket.cpp:849`):
  what the deleted object does is outside any model;
* the start announced by a repeated SYN2 (`rudp_socket.cpp:464`): modelled, but what
  was intended is only hinted at by a comment (see section 4);
* a parameter posted again from `dc_request_exception`, whose `conn_` is stale
  (`core_dc_client.cpp:317`): the model's application uses fresh parameters;
* table locks: `lock_table_other_has_incompatible` (`lock0lock.cc:1633`) looks at the
  requesting transaction's own locks, so nobody ever waits;
* the newest log of the history (`trx0purge.cc:409`), see below.

## 2. Modules

| module | models | checked by |
|---|---|---|
| `RUDPSendBuffer` | the send buffer, as operators from record to record | through `RUDPTransfer` |
| `RUDPRecvBuffer` | the receive buffer, likewise | through `RUDPTransfer` |
| `RUDPTransfer` | two connected sockets that exchange data over the network | `MCRUDPTransfer`, three runs |
| `ByteStream` | what an application may rely on: bytes written are read once, in order | as a property of `RUDPTransfer` |
| `RUDPConnection` | sockets, their table and the handshake | `MCRUDPConnection`, three runs |
| `RUDPCcc` | congestion control | one run |
| `TimerWheel` | the timer queue and its rings, as operators on a record | through `DCClient` |
| `RequestBroker` | what a caller of the data-centre client may rely on: every parameter comes back once and in time | as a property of `DCClient` |
| `DCClient` | the data-centre client with its connections, their pool, the timers and the reactor's loop | `MCDCClient`, one run |
| `ConnManager` | what one process knows of its TCP connections: nodes, connection objects, pool, as operators on a record | through `ServerConnections` |
| `ServerConnections` | several such processes, their reactors and the links between them | `MCServerConnections`, one run |
| `LockQueue` | the chain of record locks of a page, as operators from chain to chain, and the deadlock search | through `LockSys` |
| `LockSys` | record locks of a clustered leaf page: transactions, purge and lock timeouts | `MCLockSys`, two runs |
| `ReadView` | read views: opening, copying the oldest, what a view sees, as operators | through `TrxSys` |
| `TrxSys` | transactions in the steps of their commit, versions of rows, undo logs, the history list and the purge | `MCTrxSys`, one run |
| `RUDPTransferProofs` | lemmas about the operators of the two buffers, theorems about `RUDPTransfer` | TLAPS |
| `RUDPConnectionProofs`, `RUDPCccProofs` | theorems about the two specifications | TLAPS |
| `DCClientProofs` | lemmas about the operators of `TimerWheel` and `DCClient`, theorems about `DCClient` | TLAPS |
| `ServerConnectionsProofs` | lemmas about the operators of `ConnManager`, theorems about `ServerConnections` | TLAPS |
| `LockSysProofs` | lemmas about the operators of `LockQueue`, theorems about `LockSys` | TLAPS |
| `TrxSysProofs` | theorems about `TrxSys` | TLAPS |

### How `RUDPTransfer` corresponds to the code

One handler is one action, because one thread runs them all: `Send`, `Recv`,
`Timer` (`heartbeat`), and `Process` for the three packet types. An action
includes the segments that `attempt_send` lets out, the acknowledgement they
carry (`send_data` clears `recv_new_packet_`), and for `process_data` the write the
application makes inside `rudp_output_event`.

* Sequence numbers are relative to the random start each end draws.
* `seg` keeps every segment ever cut, the acknowledged ones too; this is
  history, so that properties can speak of them. `send_window_` and `send_data_`
  are sets of numbers into it, `recv_data_` is the bytes not yet read.
* A byte is the number of its position in the stream.
* Timestamps are choices: a segment is *due* when its resend timeout has passed,
  a gap *expired* when its report may be repeated, the delayed acknowledgement
  *late*, the last write *young* when NAGLE still waits. With `AnyAge` any subset
  of a window may be due, otherwise all or none.
* The congestion window is any value of `CwndSizes`, chosen anew by every
  handler. `RUDPCcc` justifies the bound: its window never exceeds the largest
  limit, 12288, and `MAX_SEQ_INTNAL` is 20480. The handler of a NACK reads the
  window twice; if the second is larger, the difference is a heartbeat after it.
* An application that reads in `rudp_input_event` is a `Recv` right after the
  handler.
* The bandwidth counters are left out. (`rudp_recv_buffer.cpp:137` adds the size
  of a segment to `bandwidth_ts_`, a time, instead of the counter.)

### How `RUDPConnection` corresponds to the code

* `RUDP_CLOSE` is not visible, since `set_state` frees the socket; nor is
  `RUDP_FIN2_STATE`, since the event raised makes the application close.
* The application is that of `src/test/rudp_sender` and `rudp_reciver`: it closes
  its stream and deletes itself in the close and exception events. It may close
  or force-close at any time.
* Check sums are distinct per session. The code draws `rand() % 65536`: a clash
  is possible but is not what the properties are about.
* `accepted` is history: every session a server has accepted, by its check sum,
  with the sockets it was accepted between. `SessionsAgree` says that a socket bound
  to a peer stands in it with that peer.
* Control packets that the code sends three or six times in a row are one packet
  of a set; `MaxDups` allows further copies. Packets that exceed `MaxNet` are lost.
* Left out: learning a new address of the peer, the answer to a SYN when the
  table is full (`SYSTEM_SYN_ERROR`), `setoption`.

### How `RUDPCcc` corresponds to the code

Every method is an operator, every handler that calls one an action. Factors
such as `snd_cwnd_ / 1.125` with their rounding are exact integer arithmetic.
`print_count_` counts modulo 10 (above 1 it decides nothing but when to recompute
the limit), the last acknowledged number is relative to `init`, and wrapping of
32-bit counters, which takes a connection of four billion segments, is left out.

### How `TimerWheel` and `DCClient` correspond to the code

A timer's number, its stamp, the rings and the free list are those of the code; the
base of the stamp's digits is `RingSize` for 256. Slots are sets that `cycle`
visits in the order of their numbers, first the one at the ring's position (timers
set meanwhile), then, one further, the next. Between two callbacks a scan changes
nothing but the queue, which is locked, so these steps are taken at once
(`Settle`); each callback is a step of its own, in which the application may post
or cancel a request, and the scan goes on in the queue that callback leaves.

* A tick of the clock is a step; the scan may be up to `MaxLag` ticks late. In the
  code a scan comes at least every 5 ms, unless a callback takes long.
* An event of the reactor is an action, with the callback it ends in and what the
  application does there. The one place where the code goes on with an
  object after its callback, the hang-up in the event that brought the
  answer, is a step that follows (`StaleHangup`).
* The timers of connections and of requests share one queue, as in the code, so
  that numbers move between them. `DCENTERDELAY`, 15 s for writes, 23 s for a connect and
  the heartbeat keep their order.
* A connection is lost by an error, a refusal or a close of the peer, all of which
  end in `handle_close` or `handle_exception`, which do the same.
* `Shutdown` is `ICoreFrame::destroy` with the order in it: the reactor closes its
  handlers, `clear()` forgets the numbers, the destructor releases the timers left.
  The application, which was stopped before, does nothing in these callbacks.
* `Stopped` and `TimersReleased` go over the registered sockets, and over the timers in the
  order of their numbers, one after another: recursive functions, so that they can be proved about.
* Left out: a request without a parameter (the client makes one nobody is told
  about), full buffers, compression, `reset_timer` (called by nothing).

### How `ConnManager` and `ServerConnections` correspond to the code

A process is a record of nodes, connection objects and the pool; the methods of
`Connection_Manager` and the parts of handlers that change a process are operators of
the same order of effects. An action is one event of one reactor. A link carries
what each end has written; the handshake is the first message, answered by the other
end's first writable event or by the answer to it, whichever comes first.

* `on_del_connection` is called with the connection that closes, and does not ask
  whether the node names that one: `Detached` does what it does.
* A connect timeout leaves its object outside the pool and without a socket
  (`TimedOut`); `Objects` is the pool plus one for every such loss.
* A crash empties a process; it starts again without nodes, and learns of servers
  from the daemon (`AddServer`).
* Messages sent directly may overtake ones that were queued before
  (`send_dispatch_by_id` looks only at the state of the connection, the queue goes out
  with the handshake): no order is promised, and none is stated.
* Left out: clients without an id, packet framing, full buffers, `close_all`, UDP.

### How `LockSys` corresponds to the code

An action is what one thread does while it owns `kernel_mutex`, with what it then
does to the page whose x-latch it holds. An insert is two actions, since the
mutex is left between the check and `lock_update_insert`, and so is an update that
moves its record over the infimum. In between, no other operation reaches the
page, but commits, timeouts and the grants they cause do.

* A `lock_t` is a record: transaction, mode, `LOCK_GAP`, `LOCK_WAIT`, and the set of
  bits in its bitmap. The chain is a sequence, since `HASH_INSERT` appends; the order
  of the chain is the order of every queue on the page. `trx_locks` is the same
  order, restricted to a transaction.
* A walk along the queue of a record, `Along`, calls its step for every lock that is on
  the record when the walk begins; the steps put locks on another record only.
* `lock_rec_lock_fast` has no definition of its own: where it applies, the slow
  path has the same effect. The wider bitmap a lock created later may have
  (`LOCK_PAGE_BITMAP_MARGIN`) is left out.
* A record carries the transaction that wrote it as long as that is active; this
  is the implicit lock. Purge may remove any record without an active writer,
  locked or not: whether it is delete-marked and old enough is another module's matter.
* `DeadlockOccurs` is the closed form of the depth-first search: the wait locks it
  looks at are the least set that has the new one and follows blocking locks
  (`Searched`); it is TRUE when one of them leads back to the start, and when two blocking
  locks lead to one waiting transaction (finding 3). The limit of 1,000,000 steps is left out.
* `Release` gives back one lock at a time, because `kernel_mutex` is left after every
  1000 locks and locks on other pages count.
* A victim of a deadlock or a timeout rolls back completely
  (`row0mysql.cc:253`), row by row; a rollback of one statement is left out. A
  transaction that has ended goes on as the next one of its session.
* `lock_rec_insert_check_and_lock` sets `inherit` only if the next record has a lock
  and means to clear it before; without a lock there is nothing to inherit. Its test
  `flags && BTR_NO_LOCKING_FLAG` (line 2462; `&` everywhere else) returns at once for any flags
  but 0. `InsertCheck` is the call with flags 0 of `row0ins.cc:729` and `732`; all other callers
  pass `BTR_NO_LOCKING_FLAG`, so that the slip changes nothing for them either.
* The page is alone in its hash cell: `lock_rec_get_next_on_page` (line 358)
  would capture the locks of another one.

### How `ReadView` and `TrxSys` correspond to the code

An action is one critical section: `kernel_mutex` for the lists of transactions and
views, `rseg->mutex` for undo logs and history list, `purge_sys->mutex` for the purge.
A commit is `CommitNumber`, `CommitLogged`, `CommitInMemory`, `CommitEnd`; the first
enters `rseg->mutex` and the second leaves it, and between any two of them other
transactions start, open views, write and commit, and the purge runs.

* Transactions are named by their ids. A transaction that leaves `trx_list` loses id
  and number in the model; the code keeps them in an object nobody looks at.
* A row is the sequence of its versions, with the writer of each and the undo log with
  the record that undoes it. An undo log is known by the transaction that created
  it; the records in it are those of the versions that name it.
* A transaction with only one undo log, or none, takes the other branch of
  `trx0trx.cc:419`: it ends in one critical section and leaves the log it has in its
  slot. The next transaction of the session writes into the same log, which enters the
  history under the number of the first that commits with both (`CommitUnlogged`,
  `Update`, `CommitLogged`). An insert serves only to give a transaction its second log.
* There is one rollback segment, since `trx_rseg_create` is called by nothing.
* The view of the purge is always the last of `view_list` (it is a copy of the last one, or
  was opened when there was none) and is kept in `purge.view`; `views` is the rest.
* The purge reads whole logs: `FetchNextRec` is the call that returns a log's last record
  and goes on to the next log. What `row0purge.cc` does with a record is delete-marked
  records, which nothing here makes. `handle_limit` is not counted: the purge may stop
  whenever it runs (`StopPurge`). Its one thread gives a record back before it asks for the
  next, so its array is empty when it truncates.
* The newest log of the history has no successor, and `trx0purge.cc:409` compares the page
  of the successor with `NULL` where the list ends with `FIL_NULL`: the server goes on to
  read page `FIL_NULL` and stops. `FetchNextRec` therefore needs a newer log, and
  that a log is purged in the end is not a property of this code.
* `Read` is what `row_vers_build_for_consistent_read` finds: it goes back from version
  to version, needs the undo record of each, and gets `DB_MISSING_HISTORY` when
  the purge sees the writer. `snap` is history: what had ended when the view was opened.
* Slips of the transcription are read as what can only be meant: `trx_id =`
  (`trx0trx.cc:381`) is `trx->id`, `reg->mutex` (`:443`) is `rseg->mutex`.
* Left out: rollback (`row0undo.cc` and `trx0roll.cc` use pointers before they are set), undo
  logs of more than a page (`trx0rec.cc:670` enters `rseg->mutex` and does not leave it),
  deletes, secondary indexes (`row0vers.cc:233` has `&&` where the loop needs its
  opposite), restarts, and the redo log, which the commit of line 419's other branch does not flush.

## 3. Runs

| run | result | what it shows |
|---|---|---|
| `transfer_safety` | pass | data in both directions with NAGLE over a network that reorders, delays without end and repeats: `AckedIsReceived`, `WindowIsContiguous`, `NoSpuriousException`, `BufferAccounting`, `SegmentsAreStable`; the exchange implements `ByteStream`; `AcksAreAnnounced`, `GapsAreReported` |
| `transfer_live` | pass | one loss is repaired and the sender drains, as long as `loss_set_` is not stale |
| `transfer_reliable` | violation | without that condition it is not (finding 1) |
| `connection_safety` | pass | two sessions, two ids reused at once: `IndexIsLive`, `SessionsAgree` |
| `connection_live` | pass | handshakes and closes end; sockets without a peer are freed |
| `connection_single_accept` | violation | one connection is accepted twice (finding 2) |
| `lock_safety` | pass | three transactions on a page with two keys, purge, rollback and timeouts: `NoConflictingGrants` (implicit locks included), `WaitersHaveReason`, `NoWaitCycle`, `CoveredStaysLocked` |
| `lock_deadlock` | violation | a victim is chosen without a deadlock (finding 3) |
| `dc_requests` | pass | requests, their connections, timers and numbers agree (`OneNumber`, `OwnConnection`, `PoolClean`, `TimersKept`), the client implements `RequestBroker` (`KeepsPromises`), and every request ends |
| `tcp_servers` | pass | `NodesSound`, `PoolsSound`, `DeliveredOnce`; queues are resolved, silent failures noticed, and without failures everything arrives |
| `trx_reads` | pass | two sessions and the purge: `ReadsAreConsistent`, `PurgeSeesLess`, `HistoryInOrder` |
| `ccc_window` | pass | bounds of the congestion window in any order of calls |

**Bounds.** `transfer_safety` writes three bytes from one end, in calls of 1 and 3 and
with segments of up to 2, and one byte from the other: segments are glued and
split, there are two or three of them, a congestion window of 2 segments, a segment
interval of 2 that the receiver's check could trip over, piggybacked
acknowledgements, writes of the application inside `process_data`, reads of 1 and 2
bytes, two packets in flight in any order, one of them repeated, and timers that are due or not
for each segment alone. A packet that stays in flight is as good as lost for a safety
property; losses that free its place are in `transfer_live`, and the proofs (section 5) hold
for any numbers of losses, repetitions and packets, and any windows. Its mutants show that each property can fail at that size.
`transfer_live` has one segment per byte, three of them, so that a gap, its
report and a lost acknowledgement each happen; one loss is enough for each to be
the lost packet. `connection_safety` has two socket ids per host and two
sessions, the least in which an id is reused while packets of its first session
are under way; two packets in flight can be of different sessions, and `SynMax` and
`FinMax` let each of SYN, SYN2 and FIN be resent. `connection_live` does not resend a FIN. `ccc_window` scales the limits down to 12..24 segments above a minimum of
10. Its round trips reach two of the four limits, so that the limit moves up and down, and the
shrinking factors and both clamps; with longer round trips there are too many states to visit,
and `WindowBounds`, `SlowStartBounded` and `LossHolds` cover all four.
`lock_safety` has three transactions, the least in which one waits behind a
waiting one and a circle is longer than two, two keys besides the supremum, so that a
record has a neighbour to inherit from and to insert before, and lets an operation
start while at most two locks are granted and three are in the chain (`MaxLocks`);
the operation may add two more, an explicit lock made of an implicit one and its own.
The start is a page with any of the keys and no lock.

`dc_requests` has four rings of two slots, a lap of 16 ticks, and starts at tick 15:
every request and connection sets its timers before the lap ends and they fire
after it, through all four rings. The heap starts with one number and grows
while requests are open; the pool starts with one connection and has to make the
second. Two requests, one that reads and is acknowledged, one that writes and is not,
are the least with which a callback for one can post, cancel or outlive the other; a
delay of each kind is longer or shorter than a connect. `ScanSteps` is the
number of silent steps a scan may take at once; `TimersKept` fails (its part `Settled`)
if it were too small.
`LastPost` and `MaxNow` let every request run into its timeout. `MaxLag` 2
is the least at which a scan covers more than one tick.

`tcp_servers` has two servers, two messages one way and one the other, and two links,
so that both servers may connect at once and both links stay, with messages
queued on either side; one failure (a link that dies silently or with an error, a
connect that fails at once, or a process that restarts) in any place and one deletion by
the daemon. One missed heartbeat stands for four. Three links, and two failures, have been
checked with the same result in longer runs.

`trx_reads` has two sessions and a row, seven ids and numbers and three versions: the least in
which a transaction has its number while another opens a view and a third, of the
same session as the first, writes after it, with two logs in the history, so
that the purge can go on from one to the next. Three sessions with five ids have been
checked with the same result. The proofs hold for any numbers.

**Deadlock** is not checked where a configuration says so: the bounded inputs
run out and the system is then at rest.

**Fairness.** `transfer_live`: the heartbeat is a timer that re-arms itself and
clocks advance, so weak fairness of a heartbeat in which everything is due; no
packet stays in flight for ever; the application reads what is readable.
Nothing is assumed of the application's writes or of the network beyond the number of
losses. `connection_live`: weak fairness of the timers; and packets live shorter than
the keepalive interval (seconds), so the network is silent again and again;
every packet may be lost. `dc_requests`: time goes on and the reactor's loop serves
what is due; nothing is assumed of the data centre, the network or the application.
`tcp_servers`: the reactor of each process serves its sockets and timers; nothing is
assumed of messages, failures or the daemon.

**How tight the timing is.** `RequestBroker` has two constants: a timeout comes at most
`Early` ticks before the delay has passed, and an open request is at most `Late`
ticks overdue. `DCClient` implements it with `Late = MaxLag` and
`Early = MaxLag - 1`; with one less of either TLC finds a violation. `Late` is
the time the scan itself may be behind. `Early` comes from line 235 of
`timer_queue_t.inl`: when the last ring comes round in the middle of a late scan,
`start_time_` becomes the current time, the remaining ticks of the scan are still
turned, and timers of the new lap are met that much too soon. With millisecond
ticks and a lap of 2^32 of them this is once in 49 days and by the length of a
scan.

`RUDPTransfer` checks `EventuallyDelivered` twice: as such (violated), and under
`LossSetIsLive`, the condition the violation points at (holds). The second run shows
that the stale entry is the *only* obstacle within the bounds.

## 4. Findings

1. **A late loss report disables retransmission.** `on_nack`
   (`rudp_send_buffer.cpp:161`) enters numbers into `loss_set_` without looking
   whether they are still in the window. A NACK overtaken by the acknowledgement
   leaves an entry nothing removes; `attempt_send` then always takes the branch
   for reported segments and never the timeout branch. The next segment that is
   lost with its report is never sent again.
2. **A late SYN is accepted a second time.** The index of half-open peers is there
   to prevent this (`rudp_interface.cpp:470`), but `process_syn_ack` erases the
   entry when the connection is established. The second socket is later freed by
   its keepalive (`OrphansAreNoticed`), after the listener has seen it.
3. **A deadlock that is none.** `lock_deadlock_recursive` answers TRUE when it meets a
   transaction it has already searched in vain (`lock0lock.cc:1438`). A transaction
   with two locks in a queue, its granted S and its waiting X, is enough: the next one that
   asks for the record is rolled back though nobody waits for it. (With FALSE in that line,
   the search would be the plain search for a circle.) `NoWaitCycle` holds: no
   deadlock is overlooked.

Seen while modelling, without a run of their own: a repeated SYN2 announces the next
number to cut, not the first one (`rudp_socket.cpp:464`, against
`rudp_packet.h:146`), so a client that receives only that one never gets the
data in front; objects whose connect times out never return to their pool
(`dc_short_conn.cpp:230`, `core_connection.cpp:319`).

## 5. Proofs

For all values of the constants that satisfy the assumptions:

* `RUDPTransferProofs`: `BuffersType`, `AckedReceived`, `WindowContiguous`,
  `SegmentsStable`, `NoException`, `BufferAccounted`, `ImplementsStream` (the exchange
  implements two `ByteStream`s), and the action properties `AcksAnnounced` and `GapsReported`.
* `RUDPConnectionProofs`: `ConnectionType`, `IndexStaysLive`, `SessionsStayApart`.
* `RUDPCccProofs`: `CccType`, `WindowBounds`, `SlowStartBounded`, `LossHolds`.
* `ServerConnectionsProofs`: `TypeCorrect`, `NodesStaySound`, `PoolsStaySound`,
  `DeliveredAtMostOnce`.
* `LockSysProofs`: `LockSysType`, `GrantsAgree`, `WaitsAreReasoned`, `NoCircles`, and the
  action property `NoPhantoms`.
* `TrxSysProofs`: `TypeCorrect`, `PurgeIsBehind`, `HistoryStaysInOrder`, `ConsistentReads`.
* `DCClientProofs`: `ClientKeeps`, `FullInvAlways`, `TypesAlways`, `OneNumberAlways`,
  `OwnConnectionAlways`, `PoolStaysClean`, `HandedBackOnce`, `NumbersStayApart`,
  `TimersStayInPlace`, `ClientKeepsPromises` (the client implements `RequestBroker`), and what
  that comes to for a request, stated of the client's own state: `RequestsEndInTime`,
  `TimeoutsAreDue`, `AnswersAreFinal`.

**Assumptions.** `SegmentAssumption` (segments hold at least a byte, the NAGLE
size is no larger than a segment), `IntervalAssumption` (the receiver's interval is a number),
`TransferAssumption` (two ends of a connection name each other; congestion windows
are at least 1 and at most `MaxSeqInterval`; the interval fits the 16-bit ids),
`CccAssumption` (every limit exceeds the minimum window; the default round trip is
at least `MIN_RTT`), `ManagerAssumption` (null server and object are none of the
others; a pool is finite), `ServerAssumption` (every message is from one server to
another), `PageAssumption` and `LockSysAssumption` (a page may hold a key; the null
transaction is none of the others; `MaxLocks` is a number) and `TrxAssumption` (the bounds are numbers).
`DCAssumption`: a delay is no shorter than the reactor's lag and fits a lap without its last
ring's slot (in the code a lap is 2^32 ticks, the delays are some thousand); there are finitely many connections;
the connections `init()` puts into the pool differ, being new objects; an empty pool grows
by at least one, since `pop_obj` makes `CAPACITY / 2 + 1`; and the program starts within a lap,
before the time of the run is up. `PowerAssumption` says what a power of `RingSize` is: the
exponent 0 gives 1 and one more multiplies by `RingSize`. That follows from the definition of
`^`, which the provers do not have; TLC evaluates it on every run of `DCClient`.
The bounds of the runs are constants too, so nothing proved
depends on their values.

**The invariant of the exchange**, `IInv`, is the conjunction of
* the type of the buffers,
* `SenderOK`: window and unsent segments are one run of consecutive numbers, the
  window first, and everything in front of that run is in the peer's prefix; what the
  peer's prefix covers has been sent,
* `ReceiverOK`: what waits for reassembly lies beyond the prefix, was sent, and is
  the segment the sender holds under that number,
* `ReaderOK`: what was read, followed by what may be read, is what the segments of the
  prefix hold, byte for byte,
* `Accounted`: `buffer_data_size_` is the sum of what window and unsent segments hold,
* `PacketOK`: a data packet carries a segment that was sent and the bytes it
  still has, and lies within the interval the receiver accepts; an acknowledgement
  in flight is not ahead of the prefix of the end that sent it.

None of the listed properties is inductive alone. That `on_ack` frees only what
the peer has needs that no acknowledgement in flight is from the future; that
the receiver's prefix is part of what was sent needs the same of the data in
flight; that a packet's bytes still are the segment's needs that only unsent
segments are glued onto. That no segment is refused as too far ahead combines the
length of the window with the position of its oldest segment: the segment the
receiver waits for is never freed.

The first part of `RUDPTransferProofs` states once what each operator
returns and preserves (what `Queue` may change, what `AttemptSend` sends, what a
data segment does to the prefix); the proof of the exchange cites that, one step
per action. `ImplementsStream` follows step by step: a write extends the stream
(`Send`, and `Process` where the application writes), a read moves the reader
forward over bytes that `ReaderOK` knows to be the next ones, and every other action
is a stutter.

**The invariant of the connections**, `IInv` of `RUDPConnectionProofs`:
* `SumIsOwn`, `SumsDiffer`: while a socket waits for its SYN2, every SYN with its check sum is
  its own, every accept of that sum is for it, and no other socket waits with it;
* `PacketOK`: a SYN2 answers an accept between the two sockets it names;
* `EntryOK`: an entry of the half-open index is a live socket that was accepted for that
  peer;
* `SocketOK`: a socket bound to a peer is so by an accept of its session.

`SessionsAgree` needs all of them, because a packet is believed for its check sum alone.

**The invariant of the congestion control** adds to the bounds that the limit is
one of the four or the initial minimum (`LimitIsKnown`) and that a loss report ends
slow start (`LossEndsSlowStart`), without which the handler that follows could add
acknowledged segments to the window.

**The invariant of the servers**, `IInv` of `ServerConnectionsProofs`, has a part for
each process alone and a part for processes and links together:
* every process is sound: its types, its nodes and its pool, and that what is outside
  the pool and in use has a socket;
* links and processes agree: an object's socket is an end of the link iff the link
  names the object at that end, so no two objects share a socket, and a free link has
  no ends;
* the server id a connection has learned or was made for is the other end of its link.

`MailInv` stands beside it: a message is in one queue of its sender or on one link, once,
after it was sent and before it was handed on. Queueing, flushing with the handshake, a
link that dies and a process that restarts move it or lose it, and never copy it.

`NodesSound` needs the last: `process_handshake` files the connection under the id
that the message carries, and only because that id belongs to the other end does a node
never come to name a connection that a close would clear under another id. It needs
that a node's connection is outside the pool, and this that pooled objects have no
socket. The lemmas at the front of the module say what each operator does to a sound
process; `StayStep`, `LeaveStep` and `JoinStep` say once what happens when a socket
stays, is closed or is opened, and the proof of every action cites one of them.

**The invariant of the transactions**, `IInv` of `TrxSysProofs`, has six parts:
* `TrxInv`: ids are below the counter and no two active transactions share one; only one
  committer is between its number and the history list;
* `ViewsInv`: every view is well formed (`GoodView`): an active transaction below its
  `low_limit_id` is among its ids or its creator, and no active one has a number below
  its `low_limit_no`; each view belongs to an active transaction, and an older one sees less than a newer one, the purge's the least
  (`Older`);
* `RowsInv`: the versions of an active transaction are in the log it still has;
* `KeptInv`: the log of every version a view does not see is in a slot, or in the history
  with a number that is not below the view's `low_limit_no`;
* `SnapInv`: what a view sees besides its own changes is what had ended when it was opened;
* `HistInv`: `HistoryInOrder`, and a committer's number is above those in the history.

`PurgeSeesLess` is the last step of the chain of `Older`, which is inductive only because a
copy of the oldest view takes its creator in. `ReadsAreConsistent` needs all of them: what
is undone on the way to the version was written by transactions the view does not see
(`SnapInv`), so the purge does not see them either, their logs are kept (`KeptInv`), and
truncation removes only logs below `purge.view.lowNo`, which needs the order of the
history. `KeptInv` in turn survives a commit because a view that was opened before, or
during it, has taken the number into its limit. The lemmas at the front of the module
say what `Min`, `Max` and the choice of a view return.

**The invariant of the lock system**, `IInv` of `LockSysProofs`:
* `Chain`, of the queue alone: a waiting lock is on one record (`OneRecord`) and its
  transaction waits nowhere else (`OneWait`); of two conflicting locks on a record the later
  one waits (`LaterWaits`); who waits has a lock in front to wait for (`Reasoned`);
* `OnInv`: locks are on records of the page, at the infimum only while a record moves
  over it;
* `ImplicitInv`: no other transaction has a lock on the record of an active writer that its
  implicit lock does not allow;
* `StateInv`: a transaction is in LOCK_WAIT exactly with a waiting lock.

`NoConflictingGrants` and `WaitersHaveReason` are read off `LaterWaits` and `Reasoned`. What is
not obvious is that `LaterWaits` is kept: `lock_rec_add_to_queue` may set a bit in a
`lock_t` far in front in the chain, which puts the lock ahead of others in the queue of
that record; it does so only where nobody waits for the record, and there every lock
agrees with the new one. `Blockers` looks at the single record a lock waits for, and a
walk that inherits or moves locks therefore changes nobody's blockers but those of the
locks it moves.

`NoCircles` adds `NoCircle`: in no set of transactions does everyone wait for a member
(`WaitsFor`). All steps but one only take edges of the waits-for graph away (`Eases`,
shown for each operator of `LockQueue`): even `Move`, which cancels a waiting lock and asks
for it again on another record, keeps the order of those that move. The one step left is
a request that waits. Its edges all start at the asker, `t`, so a new circle goes through
`t`, and through transactions the search has met, because what it looks at is closed under
following blocking locks (`SearchedClosed`). When the search found nothing, none of these
waits for `t` (`SearchedInVain`), so they would have been a circle without `t` before. The
proof uses the answer TRUE of the repeated visit nowhere: finding 3 costs rollbacks and
buys nothing.

`NoPhantoms` adds `InsertInv`: between the check of an insert and the insert itself nobody
else has a lock on the next record. Every step is then shown to carry the granted locks
on a key's gap over to where that gap is found after the step.

**The invariant of the data-centre client**, `ClientInv` of `DCClientProofs`, is `Sound` and
`Up`, with what `hup` may be:
* the numbers of the timer queue: each is free or names a live timer, and every live
  timer is one of a request or of a connection (`WheelOK`);
* `TimersMatch`: a connection and its timer name each other;
* `RequestsMatch`: an open request and its timer name each other;
* `ConnsMatch`: the connection an open request has works for its number, and what the
  data centre was asked through a connection is that number or nothing;
* `Pooled`: what is in the pool or not yet made is as new, and there once;
* `Up`: `timer_ids_` is the set of the requests' numbers; until the program ends, a connection that
  has a number belongs to the open request with that number;
* `HangupNext`: a hang-up left over from an event finds a connection in use, and no scan is
  under way then.

Handlers break these in the middle: a request's number is erased and its timer cancelled
before its parameter is handed back, and in between a callback may post the next request,
which takes the number, or the connection, that has just become free. `Sound(s, X, Y, Z)` therefore
says the same of a client *in the middle of an event*: `X` are timers nobody counts on
any more (the one that fires), `Y` connections about to be closed, and `Z` parameters about
to be handed back. Each operator of the model has a lemma that says how it changes the three
sets; a handler is a walk that ends with all three empty, and a callback (`ReactKeeps`) is
allowed with timers or connections still in them, which is where re-entrance could do harm.

Of the wheel `ClientInv` takes what its callers see: `Schedule` hands out a number that
named nothing, `Cancel` and the end of a callback give one back, and the steps of a scan
(`TurnedTwice` to `SettleIs`) change rings and nothing else. `Stopped` and `TimersReleased`
walk over sockets and timers by recursive functions; the walks are followed by a least
counterexample (`LeastOf`) in place of induction. `HandedBackOnce` is in the type of a parameter:
`HandKeeps` finds the parameter in `Z`, hence open, so it has not been handed back.

**The invariant of the timer queue**, `Good(w, t, P)` of the same module, says how a queue `w`
stands at time `t` when its rings read `P` ticks. In the middle of a scan every part has a
case of its own:
* `Reads`: a ring stands at its digit of `P`, or one further if it has turned in the tick under
  way, and a ring above turns only when all below have come round;
* `Placed`: every live timer stands in the slot of its stamp (`Stands`), or waits in the slot
  that is being dealt out (`Waits`), no timer is in a ring that has been swept, none for
  the tick under way has been missed, and no slot holds another number;
* `OnTime`: the scan is at most `MaxLag` behind the clock, what is left of it adds up, and
  the reading of the rings differs from the time by less than that.

One number carries the timing: `Due`, the time at which the rings reach a timer's stamp. No
step of a scan changes it (`Silent`, `Turn`, the move of `start_time_` at the end of a lap),
`Schedule` sets it to the asked time or at most `MaxLag - 1` before (`InTime`), the scan calls
an owner when it has passed (`FiringDue`), and the clock cannot leave it behind by more than
the lag (`LateDue`). The lap of the last ring needs the bound on delays: with it no timer
outlives its lap by a whole turn of that ring. What a change of `P` by one does to its digits
is proved of `div` and `%` at the front of the module, from `PowerAssumption` alone.

`FullInv` joins the two: `ClientInv`, some `P` for which the queue is `Good`, and for this
`P` every open request's timer due when its delay is over (`Timely`). A handler's lemma
says beside `Sound` what the handler did to the timers (`Timing`: each is carried over or set now
for its owner's delay) and to the parameters (`Lasts`, `Bold`); both compose, so that callbacks
add nothing to prove. `TimersStayInPlace` is read off `Placed`; between two callbacks there is
nothing left to deal out. `ClientKeepsPromises` maps a step of the client to what `ViewsAlter`
makes of it: requests that were open and have one answer, parameters that are posted now,
nothing else. A timeout is reported by the timer that fires (`Lasts`), which is due
(`TimeoutInTime`); time passes only while no open request is overdue (`TickInTime`).
The same three facts give `RequestsEndInTime`, an invariant by induction over `FullInv`, and the action
properties `TimeoutsAreDue` and `AnswersAreFinal`. They do not rest on `RequestBroker`, whose
guards say as much by themselves: its guard on time is what the wheel has to earn.

The types of the two buffers (`BuffersTypeOK`), of the congestion control and of the
transactions are theorems only; no run checks them again.

**Only model-checked:** all liveness; and that a scan comes to its next callback, or to its end,
within `ScanSteps` silent steps (`Settled`). It is a bound of the model and no promise of
the code, whose loops run until they are done. `TimersStayInPlace` states `TimersKept` of the
settled states for this reason; `FullInvAlways` and `ClientKeepsPromises` hold with any `ScanSteps`,
because a scan that has stopped short holds `prev_time_` back, and the clock with it.

## 6. What is left

1. The lock system: table locks, page split, merge and reorganization, two pages in
   one hash cell.
2. Transactions: recovery and rollback, once the code determines them; the tables that
   `trx0sys.c` and `trx0rseg.cc` keep on pages.
3. The daemon client and the daemon: registration, ids, restarts.
4. Proofs: a measure by which every scan settles, with a bound for `ScanSteps` computed from the
   rings and the heap; that would remove `Settled` from `TimersStayInPlace`.

## 7. Not modelled

* **InnoDB latches and wait array.** `rw_lock_x_lock_func` returns with the mutex of the
  latch held (`sync0rw.cc:499`), `rw_lock_x_unlock_func` never leaves it (`:230`), and the
  walk of `sync_array_signal_object` does not count (`sync0arr.cc:505`). After a few
  operations every thread waits; the interesting interleavings come after that point.
* **InnoDB log and recovery.** `log_reserve_and_write_fast` leaves a mutex it has not
  entered (`log0log.inl:155`), `log_checkpoint_margin` does not leave the one it enters
  (`log0log.cc:1244`), `log0log.cc:789` does not parse. Group commit and checkpoints are
  not determined by this code.
* **InnoDB buffer pool.** As transcribed, `buf_flush_batch` stops at the first block of the
  flush list (`buf0flu.cc:394`) and `buf_flush_try_page` tests the event where it means
  the counter (`:246`), so flushing does not happen as durability needs it.
* **InnoDB rollback and recovery.** `LockSys` takes from rollback what it does to locks. The
  undo of a row and the rebuilding of transactions after a crash follow pointers that
  the transcription does not set (`row0undo.cc`, `trx0roll.cc`), and rest on the log.
* **InnoDB files, B-tree, pages, records, rows, dictionary, SQL, memory.** Sequential code
  on bytes and containers, generated parsers included: tests reach it, and a model short
  enough to check would leave out what can go wrong in it.
* **Framework, daemon, generators, JSON, packets, streams.** Dispatch, supervision of
  processes, text generation and encoding: calls to the operating system or conversions
  without a state whose order matters.
