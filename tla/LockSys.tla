------------------------------ MODULE LockSys ------------------------------
(***************************************************************************)
(* Record locks on a leaf page of a clustered index: what transactions,    *)
(* the purge thread and the lock timeout thread do to the chain of         *)
(* LockQueue.  An action is what one thread does while it owns             *)
(* kernel_mutex.  Operations that change the page do so between two such   *)
(* sections and hold the page's x-latch all the time, which keeps other    *)
(* operations off the page but not commits, lock timeouts and grants.      *)
(*                                                                         *)
(* A transaction that ended goes on as the next one of its session.  Table *)
(* locks are intention locks here, which never conflict.                   *)
(***************************************************************************)
EXTENDS LockQueue

CONSTANTS
  NoTrx,     \* no transaction
  MaxLocks   \* bound: locks that are not waiting when an operation starts,
             \* and one less than all of them

ASSUME LockSysAssumption == NoTrx \notin Trx /\ MaxLocks \in Nat

VARIABLES
  locks,  \* the chain
  recs,   \* the user records
  state,  \* que_state and conc_state of every transaction
  latch   \* the operation that holds the page's x-latch, if any

vars == <<locks, recs, state, latch>>

\* by is the transaction whose id the record carries, while it is active: it
\* holds an implicit X lock.  fresh: that transaction inserted the record.
Rec == [here : BOOLEAN, by : Trx \cup {NoTrx}, fresh : BOOLEAN]

Absent == [here |-> FALSE, by |-> NoTrx, fresh |-> FALSE]
Old    == [here |-> TRUE, by |-> NoTrx, fresh |-> FALSE]

\* RUNNING; LOCK_WAIT; ROLLBACK after a deadlock or a timeout; RELEASE while
\* TRX_COMMITTED_IN_MEMORY and giving its locks back.
States == {"RUNNING", "LOCK_WAIT", "ROLLBACK", "RELEASE"}

NoLatch == [op |-> "NONE", trx |-> NoTrx, key |-> 0]
Latch   == [op : {"NONE", "INSERT", "UPDATE"}, trx : Trx \cup {NoTrx}, key : 0..N]

Waiting == {t \in Trx : state[t] = "LOCK_WAIT"}
Here    == {r \in Keys : recs[r].here}

\* page_rec_get_next
NextRec(r) == Min({p \in Here \cup {Supremum} : p > r})

Free == latch = NoLatch
Room ==
  /\ Cardinality({k \in DOMAIN locks : ~locks[k].wait}) <= MaxLocks
  /\ Len(locks) <= MaxLocks + 1

\* trx_end_lock_wait for every transaction whose lock in q waits no longer.
Resumed(q) ==
  [t \in Trx |-> IF state[t] = "LOCK_WAIT" /\ ~\E k \in DOMAIN q : q[k].trx = t /\ q[k].wait
                 THEN "RUNNING" ELSE state[t]]

---------------------------------------------------------------------------
(* Requests                                                                *)

\* Fault: an implicit lock stays implicit.
ConvertImpl_Nothing(q, r) == q

\* lock_rec_convert_impl_to_expl: who wrote record r gets its X lock.
ConvertImpl(q, r) ==
  IF r \in Here /\ recs[r].by # NoTrx /\ ~HasExpl(q, "X", r, recs[r].by)
  THEN AddToQueue(q, recs[r].by, "X", FALSE, FALSE, r) ELSE q

\* lock_rec_lock has to wait.  (Its fast path only takes a shortcut when no one
\* else has a lock on the page.)
Refused(q, mode, r, t) ==
  ~HasExpl(q, mode, r, t) /\ OtherHasExplReq(q, ConflMode(mode), FALSE, r, t)

\* lock_rec_lock of an explicit lock succeeds.
Granted(q, mode, r, t) ==
  IF HasExpl(q, mode, r, t) THEN q ELSE AddToQueue(q, t, mode, FALSE, FALSE, r)

\* lock_rec_enqueue_waiting.  A victim keeps the lock_t, on no record.
EnqueueWaiting(q, t, mode, gap, r) ==
  LET p == Create(q, t, mode, gap, TRUE, r)
      k == Len(p)
      dead == DeadlockOccurs(p, k, Waiting)
  IN /\ locks' = IF dead THEN [p EXCEPT ![k].wait = FALSE, ![k].on = {}] ELSE p
     /\ state' = [state EXCEPT ![t] = IF dead THEN "ROLLBACK" ELSE "LOCK_WAIT"]
     /\ UNCHANGED <<recs, latch>>

\* lock_clust_rec_read_check_and_lock
Read(t, r, mode) ==
  LET q == ConvertImpl(locks, r)
  IN /\ state[t] = "RUNNING" /\ Free /\ Room
     /\ r \in Here \cup {Supremum}
     /\ \/ Refused(q, mode, r, t) /\ EnqueueWaiting(q, t, mode, FALSE, r)
        \/ /\ ~Refused(q, mode, r, t)
           /\ locks' = Granted(q, mode, r, t)
           /\ UNCHANGED <<recs, state, latch>>

\* lock_clust_rec_modify_check_and_lock, which makes no explicit lock, then
\* the update in place or the delete mark, which writes the transaction's id;
\* or lock_rec_store_on_page_infimum, when the record has to move.
Modify(t, r) ==
  LET q == ConvertImpl(locks, r)
      written == [recs EXCEPT ![r].by = t, ![r].fresh = @ /\ recs[r].by = t]
  IN /\ state[t] = "RUNNING" /\ Free /\ Room
     /\ r \in Here
     /\ \/ Refused(q, "X", r, t) /\ EnqueueWaiting(q, t, "X", FALSE, r)
        \/ /\ ~Refused(q, "X", r, t)
           /\ \/ locks' = q /\ UNCHANGED latch
              \/ /\ locks' = Move(q, Infimum, r)
                 /\ latch' = [op |-> "UPDATE", trx |-> t, key |-> r]
           /\ recs' = written
           /\ UNCHANGED state

\* lock_rec_restore_from_page_infimum
RestoreFromInfimum(t) ==
  /\ latch.op = "UPDATE" /\ latch.trx = t
  /\ locks' = Move(locks, latch.key, Infimum)
  /\ latch' = NoLatch
  /\ UNCHANGED <<recs, state>>

\* lock_rec_insert_check_and_lock
InsertCheck(t, r) ==
  LET next == NextRec(r)
      refused == OtherHasExplReq(locks, "S", TRUE, next, t)
  IN /\ state[t] = "RUNNING" /\ Free /\ Room
     /\ r \in Keys \ Here
     /\ \/ refused /\ EnqueueWaiting(locks, t, "X", TRUE, next)
        \/ /\ ~refused
           /\ latch' = [op |-> "INSERT", trx |-> t, key |-> r]
           /\ UNCHANGED <<locks, recs, state>>

\* The record is inserted, lock_update_insert.  (Without a lock on the next
\* record inherit is not set, and then there is nothing to inherit.)
Insert(t) ==
  /\ latch.op = "INSERT" /\ latch.trx = t
  /\ recs' = [recs EXCEPT ![latch.key] = [here |-> TRUE, by |-> t, fresh |-> TRUE]]
  /\ locks' = InheritToGap(locks, latch.key, NextRec(latch.key))
  /\ latch' = NoLatch
  /\ UNCHANGED state

---------------------------------------------------------------------------
(* Removal of a record                                                     *)

\* Fault: the locks of the record are dropped and not inherited.
Delete_NoInherit(r) ==
  LET q == ResetAndRelease(locks, r)
  IN /\ locks' = q
     /\ state' = Resumed(q)
     /\ recs' = [recs EXCEPT ![r] = Absent]
     /\ UNCHANGED latch

\* lock_update_delete, then the record leaves the page.
Delete(r) ==
  LET q == ResetAndRelease(InheritToGap(locks, NextRec(r), r), r)
  IN /\ locks' = q
     /\ state' = Resumed(q)
     /\ recs' = [recs EXCEPT ![r] = Absent]
     /\ UNCHANGED latch

\* The purge thread removes a delete-marked record, no matter who locks it.
Purge(r) ==
  /\ Free /\ Room
  /\ r \in Here /\ recs[r].by = NoTrx
  /\ Delete(r)

\* Rollback undoes one row operation: an insert by removing the record.
Undo(t, r) ==
  /\ state[t] = "ROLLBACK" /\ Free /\ Room
  /\ r \in Here /\ recs[r].by = t
  /\ \/ recs[r].fresh /\ Delete(r)
     \/ /\ ~recs[r].fresh
        /\ recs' = [recs EXCEPT ![r] = Old]
        /\ UNCHANGED <<locks, state, latch>>

---------------------------------------------------------------------------
(* The end of a transaction                                                *)

HasLocks(t, q) == \E k \in DOMAIN q : q[k].trx = t

\* trx_commit_off_kernel: TRX_COMMITTED_IN_MEMORY ends the implicit locks.
Commit(t) ==
  LET wrote == {r \in Here : recs[r].by = t}
  IN /\ \/ state[t] = "RUNNING" /\ latch.trx # t
        \/ state[t] = "ROLLBACK" /\ wrote = {}
     /\ wrote # {} \/ HasLocks(t, locks) \/ state[t] = "ROLLBACK"
     /\ recs' = [r \in Keys |-> IF r \in wrote THEN Old ELSE recs[r]]
     /\ state' = [state EXCEPT ![t] = IF HasLocks(t, locks) THEN "RELEASE" ELSE "RUNNING"]
     /\ UNCHANGED <<locks, latch>>

\* lock_release_off_kernel: locks are released last first.  kernel_mutex is
\* left after every 1000 locks; locks on other pages count too, so that may
\* happen after any lock of this page.
Release(t) ==
  LET k == Max({i \in DOMAIN locks : locks[i].trx = t})
      q == Dequeue(locks, k)
  IN /\ state[t] = "RELEASE"
     /\ locks' = q
     /\ state' = [Resumed(q) EXCEPT ![t] = IF HasLocks(t, q) THEN "RELEASE" ELSE "RUNNING"]
     /\ UNCHANGED <<recs, latch>>

\* srv_lock_timeout_and_monitor_thread: lock_cancel_waiting_and_release, and
\* the transaction rolls back with DB_LOCK_WAIT_TIMEOUT.
Timeout(t) ==
  /\ state[t] = "LOCK_WAIT"
  /\ LET q == Dequeue(locks, WaitLock(locks, t))
     IN /\ locks' = q
        /\ state' = [Resumed(q) EXCEPT ![t] = "ROLLBACK"]
  /\ UNCHANGED <<recs, latch>>

---------------------------------------------------------------------------
Init ==
  /\ locks = << >>
  /\ recs \in [Keys -> {Absent, Old}]
  /\ state = [t \in Trx |-> "RUNNING"]
  /\ latch = NoLatch

Next ==
  \/ \E t \in Trx, r \in Keys \cup {Supremum}, mode \in {"S", "X"} : Read(t, r, mode)
  \/ \E t \in Trx, r \in Keys : Modify(t, r) \/ InsertCheck(t, r) \/ Undo(t, r)
  \/ \E t \in Trx : RestoreFromInfimum(t) \/ Insert(t)
  \/ \E r \in Keys : Purge(r)
  \/ \E t \in Trx : Commit(t) \/ Release(t) \/ Timeout(t)

Spec == Init /\ [][Next]_vars

---------------------------------------------------------------------------
\* The state is of the declared types, and a lock waits for one record, which
\* lock_rec_find_set_bit relies on.
TypeOK ==
  /\ locks \in Seq(Lock)
  /\ \A k \in DOMAIN locks : locks[k].wait => Cardinality(locks[k].on) = 1
  /\ recs \in [Keys -> Rec]
  /\ state \in [Trx -> States]
  /\ latch \in Latch

\* Two transactions never hold conflicting locks on a record, be they explicit
\* or the implicit lock of the transaction that wrote it (the assertions of
\* lock_rec_queue_validate).
NoConflictingGrants ==
  \A r \in Keys : \A k \in OnRec(locks, r) :
    ~locks[k].gap /\ ~locks[k].wait =>
      /\ \A j \in OnRec(locks, r) :
           ~locks[j].gap /\ ~locks[j].wait => ~HasToWait(locks[k], locks[j])
      /\ recs[r].by \in {NoTrx, locks[k].trx} \/ HasExpl(locks, "X", r, recs[r].by)

\* No wakeup is lost: a lock waits only while a lock in front of it conflicts,
\* and a transaction is in LOCK_WAIT exactly while it has such a lock, although
\* locks are released, inherited, moved and cancelled under it.
WaitersHaveReason ==
  /\ \A k \in DOMAIN locks : locks[k].wait => Blockers(locks, k) # {}
  /\ \A t \in Trx :
       Cardinality({k \in DOMAIN locks : locks[k].trx = t /\ locks[k].wait})
         = (IF state[t] = "LOCK_WAIT" THEN 1 ELSE 0)

\* Transactions never wait for one another in a circle: the search finds every
\* deadlock when the last lock of the circle is asked for, and nothing that
\* happens to waiting locks later closes one.
NoWaitCycle ==
  \A S \in SUBSET Waiting : S # {} =>
    \E t \in S : \A j \in Blockers(locks, WaitLock(locks, t)) : locks[j].trx \notin S

\* Where the locks on key r are: on the record or the one after the gap, and at
\* the infimum while that record moves.
Place(r) ==
  LET p == IF r \in Here THEN r ELSE NextRec(r)
  IN IF latch.op = "UPDATE" /\ latch.key = p THEN Infimum ELSE p

\* The keys t has locked, whether there is such a record or not.
Covered(t) ==
  {r \in Keys : \E k \in OnRec(locks, Place(r)) : locks[k].trx = t /\ ~locks[k].wait}

\* No phantoms: what a transaction has locked stays locked until it releases its
\* locks, however records are inserted, removed and moved, and no one else
\* inserts there.
CoveredStaysLocked ==
  [][\A t \in Trx : state[t] # "RELEASE" =>
       \A r \in Covered(t) :
         r \in Covered(t)' /\ (r \in Here' \ Here => recs'[r].by = t)]_vars

\* "DB_DEADLOCK": a request is refused because of a deadlock only if there is
\* one, so some transaction must be waiting for the one that is rolled back.
DeadlocksAreReal ==
  [][\A t \in Trx : state[t] = "RUNNING" /\ state'[t] = "ROLLBACK" =>
       \E u \in Waiting : \E j \in Blockers(locks, WaitLock(locks, u)) : locks[j].trx = t]_vars
===========================================================================
