------------------------------- MODULE TrxSys -------------------------------
(***************************************************************************)
(* Transactions, their read views, the versions of the rows they update    *)
(* and the purge of update undo logs (trx0trx.cc, trx0sys.inl, trx0rec.cc, *)
(* trx0undo.cc, trx0purge.cc, row0vers.cc), with one rollback segment.     *)
(*                                                                         *)
(* An action is one critical section: kernel_mutex for the list of         *)
(* transactions and views, the mutex of the rollback segment for its undo  *)
(* logs and history list, the purge mutex for the purge.  A commit takes   *)
(* several, and others run in between.  A committer that has its number    *)
(* holds the mutex of the rollback segment until its log is in the history *)
(* list.                                                                   *)
(*                                                                         *)
(* A row is its versions, oldest first; what a version is rolled back with *)
(* is in the update undo log log, or nowhere if it was inserted.  Undo     *)
(* logs take one page, rows have a clustered index only and are neither    *)
(* deleted nor rolled back.                                                *)
(***************************************************************************)
EXTENDS ReadView, Sequences, SequencesExt

CONSTANTS
    Trx,         \* transaction objects, one for a session
    Rows,        \* rows that are there from the beginning
    MaxId,       \* bound: ids and numbers
    MaxVersions  \* bound: versions of a row

ASSUME TrxAssumption == MaxId \in Nat /\ MaxVersions \in Nat

VARIABLES
    trx,    \* the transaction objects
    maxId,  \* trx_sys->max_trx_id
    views,  \* trx_sys->view_list without its last member, newest first
    row,    \* the versions of every row
    hist,   \* TRX_RSEG_HISTORY, oldest first
    last,   \* rseg->last_...: the log of hist the purge comes to next
    purge,  \* purge_sys; its view is always the last of view_list
    snap    \* what was committed when a transaction opened its view

vars == <<trx, maxId, views, row, hist, last, purge, snap>>

\* An undo log is known by the transaction that created it; NoLog is NULL.
NoLog == [log |-> 0, no |-> 0]

\* conc_state, and where in trx_commit_off_kernel the transaction is: NUMBERED
\* and LOGGED are TRX_ACTIVE, IN_MEMORY is TRX_COMMITTED_IN_MEMORY.
States == {"NOT_STARTED", "ACTIVE", "NUMBERED", "LOGGED", "IN_MEMORY"}

\* log and ins are update_undo and insert_undo, which outlive a transaction
\* that has only one of them.
TrxObject == [state : States, id : Nat, no : Nat, log : Nat, ins : BOOLEAN]

Log == [log : Nat, no : Nat]
Version == [id : Nat, log : Nat]

\* TRX_ACTIVE
Active(t) == trx[t].state \in {"ACTIVE", "NUMBERED", "LOGGED"}

\* Every transaction that ended, as far as its id goes.
Committed == (0 .. maxId - 1) \ {trx[t].id : t \in {u \in Trx : Active(u)}}

\* The mutex of the rollback segment.
RsegFree == \A t \in Trx : trx[t].state # "NUMBERED"

\* A view is found by its creator, the read_view of the transaction.
HasView(t) == \E k \in DOMAIN views : views[k].creator = trx[t].id
Place(t)   == CHOOSE k \in DOMAIN views : views[k].creator = trx[t].id
ViewOf(t)  == views[Place(t)]

\* The active ones of some transactions, as a view takes them in.
ActiveOf(T) == {[id |-> trx[u].id, no |-> trx[u].no] : u \in {v \in T : Active(v)}}

NewTrx == [state |-> "NOT_STARTED", id |-> 0, no |-> 0, log |-> 0, ins |-> FALSE]

\* After trx_purge_sys_create.
Init ==
    /\ trx = [t \in Trx |-> NewTrx]
    /\ maxId = 1
    /\ views = <<>>
    /\ row = [r \in Rows |-> <<[id |-> 0, log |-> 0]>>]
    /\ hist = <<>> /\ last = NoLog
    /\ purge = [on |-> FALSE, stored |-> FALSE, no |-> 0, view |-> OpenNow(0, 1, {})]
    /\ snap = [t \in Trx |-> {}]

-----------------------------------------------------------------------------
\* trx_start_low
Start(t) ==
    /\ trx[t].state = "NOT_STARTED" /\ maxId < MaxId
    /\ trx' = [trx EXCEPT ![t].state = "ACTIVE", ![t].id = maxId, ![t].no = 0]
    /\ maxId' = maxId + 1
    /\ UNCHANGED <<views, row, hist, last, purge, snap>>

\* trx_assign_read_view
AssignReadView(t) ==
    /\ trx[t].state = "ACTIVE" /\ ~HasView(t)
    /\ views' = <<OpenNow(trx[t].id, maxId, ActiveOf(Trx \ {t}))>> \o views
    /\ snap' = [snap EXCEPT ![t] = Committed]
    /\ UNCHANGED <<trx, maxId, row, hist, last, purge>>

\* The X lock on a row is free for t when its newest version was not written
\* by another active transaction.
Lockable(t, r) == \A u \in Trx \ {t} : ~(Active(u) /\ trx[u].id = row[r][Len(row[r])].id)

\* trx_undo_report_row_operation for an update, and the update.
Update(t, r) ==
    LET log == IF trx[t].log = 0 THEN trx[t].id ELSE trx[t].log
    IN  /\ trx[t].state = "ACTIVE" /\ Lockable(t, r) /\ Len(row[r]) < MaxVersions
        /\ trx[t].log = 0 => RsegFree
        /\ trx' = [trx EXCEPT ![t].log = log]
        /\ row' = [row EXCEPT ![r] = Append(@, [id |-> trx[t].id, log |-> log])]
        /\ UNCHANGED <<maxId, views, hist, last, purge, snap>>

\* The same for an insert; rows inserted are not followed.
Insert(t) ==
    /\ trx[t].state = "ACTIVE" /\ ~trx[t].ins /\ RsegFree
    /\ trx' = [trx EXCEPT ![t].ins = TRUE]
    /\ UNCHANGED <<maxId, views, row, hist, last, purge, snap>>

-----------------------------------------------------------------------------
(* trx_commit_off_kernel                                                   *)

TwoLogs(t) == trx[t].log # 0 /\ trx[t].ins

\* read_view_close
Close(t) ==
    /\ views' = IF HasView(t) THEN RemoveAt(views, Place(t)) ELSE views
    /\ snap' = [snap EXCEPT ![t] = {}]

\* The transaction leaves trx_list; its id and number are not used again.
Left(t) == [trx[t] EXCEPT !.state = "NOT_STARTED", !.id = 0, !.no = 0]

\* A transaction without one of the logs ends in one critical section and
\* keeps the other.
CommitUnlogged(t) ==
    /\ trx[t].state = "ACTIVE" /\ ~TwoLogs(t)
    /\ trx' = [trx EXCEPT ![t] = Left(t)]
    /\ Close(t)
    /\ UNCHANGED <<maxId, row, hist, last, purge>>

\* Fault: the number is taken before the mutex of the rollback segment.
CommitNumber_Early(t) ==
    /\ trx[t].state = "ACTIVE" /\ TwoLogs(t) /\ maxId < MaxId
    /\ trx' = [trx EXCEPT ![t].state = "NUMBERED", ![t].no = maxId]
    /\ maxId' = maxId + 1
    /\ UNCHANGED <<views, row, hist, last, purge, snap>>

\* Both undo logs get their final state, the transaction its number.
CommitNumber(t) ==
    /\ trx[t].state = "ACTIVE" /\ TwoLogs(t) /\ RsegFree /\ maxId < MaxId
    /\ trx' = [trx EXCEPT ![t].state = "NUMBERED", ![t].no = maxId]
    /\ maxId' = maxId + 1
    /\ UNCHANGED <<views, row, hist, last, purge, snap>>

\* trx_undo_update_cleanup and trx_purge_add_update_undo_to_history
CommitLogged(t) ==
    LET log == [log |-> trx[t].log, no |-> trx[t].no]
    IN  /\ trx[t].state = "NUMBERED"
        /\ hist' = Append(hist, log)
        /\ last' = IF last = NoLog THEN log ELSE last
        /\ trx' = [trx EXCEPT ![t].state = "LOGGED", ![t].log = 0]
        /\ UNCHANGED <<maxId, views, row, purge, snap>>

CommitInMemory(t) ==
    /\ trx[t].state = "LOGGED"
    /\ trx' = [trx EXCEPT ![t].state = "IN_MEMORY"]
    /\ Close(t)
    /\ UNCHANGED <<maxId, row, hist, last, purge>>

\* trx_undo_insert_cleanup
CommitEnd(t) ==
    /\ trx[t].state = "IN_MEMORY" /\ RsegFree
    /\ trx' = [trx EXCEPT ![t] = [Left(t) EXCEPT !.ins = FALSE]]
    /\ UNCHANGED <<maxId, views, row, hist, last, purge, snap>>

-----------------------------------------------------------------------------
\* trx_purge, up to the start of its query thread: a new view for the purge.
TrxPurge ==
    /\ ~purge.on
    /\ purge' = [purge EXCEPT !.on = TRUE, !.view =
                   IF views = <<>> THEN OpenNow(0, maxId, ActiveOf(Trx))
                   ELSE OldestCopy(0, views[Len(views)])]
    /\ UNCHANGED <<trx, maxId, views, row, hist, last, snap>>

\* trx_purge_choose_next_log
Chosen(p, l) == IF p.stored \/ l = NoLog THEN p
                ELSE [p EXCEPT !.stored = TRUE, !.no = l.no]

\* Where a log is in the history list.
PlaceOf(l) == CHOOSE k \in DOMAIN hist : hist[k] = l

\* trx_purge_fetch_next_rec returns the last record of a log:
\* trx_purge_rseg_get_next_history_log goes on to the next one.  It looks for
\* NULL where the newest log has FIL_NULL, and the server stops there.
FetchNextRec ==
    LET p == Chosen(purge, last)
        k == PlaceOf(last) + 1
    IN  /\ purge.on /\ RsegFree
        /\ p.stored /\ p.no < purge.view.lowNo
        /\ k <= Len(hist)
        /\ last' = hist[k]
        /\ purge' = Chosen([p EXCEPT !.stored = FALSE], hist[k])
        /\ UNCHANGED <<trx, maxId, views, row, hist, snap>>

\* trx_purge_truncate_rseg_history removes logs up to the first that is not
\* older than limit.
Truncated(limit) ==
    LET kept == {k \in DOMAIN hist : hist[k].no >= limit}
    IN  IF kept = {} THEN <<>> ELSE SubSeq(hist, Min(kept), Len(hist))

\* trx_purge_truncate_history
LimitOf(p) == IF p.no >= purge.view.lowNo THEN purge.view.lowNo ELSE p.no

\* trx_purge_fetch_next_rec returns NULL: there is no log, a view may need the
\* next one, or handle_limit is reached.
StopPurge ==
    LET p == Chosen(purge, last)
    IN  /\ purge.on /\ RsegFree
        /\ purge' = [p EXCEPT !.on = FALSE]
        /\ hist' = Truncated(LimitOf(p))
        /\ UNCHANGED <<trx, maxId, views, row, last, snap>>

Next ==
    \/ \E t \in Trx :
          \/ Start(t) \/ AssignReadView(t) \/ Insert(t)
          \/ \E r \in Rows : Update(t, r)
          \/ CommitUnlogged(t) \/ CommitNumber(t) \/ CommitLogged(t)
          \/ CommitInMemory(t) \/ CommitEnd(t)
    \/ TrxPurge \/ FetchNextRec \/ StopPurge

Spec == Init /\ [][Next]_vars

-----------------------------------------------------------------------------
(* Consistent reads                                                        *)

Missing == 0

\* The undo logs that are there.
Logs == {trx[t].log : t \in Trx} \cup {hist[k].log : k \in DOMAIN hist}

\* trx_undo_get_undo_rec: the record a version is rolled back with is looked
\* for only when the purge cannot have removed it.
HasUndo(version) == ~Sees(purge.view, version.id) /\ version.log \in Logs

\* row_vers_build_for_consistent_read: the version of a row a view reads.
Read(view, versions) ==
    LET seen == {k \in DOMAIN versions : Sees(view, versions[k].id)}
        k    == IF seen = {} THEN 1 ELSE Max(seen)
    IN  IF \A j \in k + 1 .. Len(versions) : HasUndo(versions[j]) THEN k ELSE Missing

\* The version a snapshot holds: the newest one whose writer had committed or
\* is the reader itself.
Snapshot(t, versions) ==
    Max({k \in DOMAIN versions : versions[k].id \in snap[t] \cup {trx[t].id}})

-----------------------------------------------------------------------------
TypeOK ==
    /\ maxId \in Nat
    /\ trx \in [Trx -> TrxObject]
    /\ \A t \in Trx : trx[t].id < maxId /\ trx[t].no < maxId
    /\ views \in Seq(View)
    /\ row \in [Rows -> Seq(Version)]
    /\ hist \in Seq(Log) /\ last \in Log
    /\ purge \in [on : BOOLEAN, stored : BOOLEAN, no : Nat, view : View]
    /\ snap \in [Trx -> SUBSET Nat]

\* What the purge sees, and may remove the undo records of, everyone sees.
PurgeSeesLess ==
    \A k \in DOMAIN views : \A id \in 0 .. maxId : Sees(purge.view, id) => Sees(views[k], id)

\* A consistent read finds the version that was current when the view was
\* opened, or the reader's own, and never misses a record it needs.
ReadsAreConsistent ==
    \A t \in Trx, r \in Rows :
        trx[t].state = "ACTIVE" /\ HasView(t) =>
            Read(ViewOf(t), row[r]) = Snapshot(t, row[r])

\* The history list is in the order of the numbers, and the purge stands at a
\* log of it.
HistoryInOrder ==
    /\ \A i, j \in DOMAIN hist : i < j => hist[i].no < hist[j].no
    /\ last # NoLog => last \in {hist[k] : k \in DOMAIN hist}
    /\ purge.stored => last # NoLog /\ purge.no = last.no
=============================================================================
