----------------------------- MODULE LockQueue -----------------------------
(***************************************************************************)
(* The chain of record locks of one page in lock_sys->rec_hash             *)
(* (lock0lock.cc).  A lock_t belongs to a transaction and has a mode, the  *)
(* flags LOCK_GAP and LOCK_WAIT, and a bitmap of the records it is on.     *)
(* HASH_INSERT appends, so the order of the chain is the order of the      *)
(* queue of every record.  A function of the code that changes the chain   *)
(* is an operator from the chain before to the chain after.                *)
(*                                                                         *)
(* The page is alone in its hash cell.  Its user records have the keys     *)
(* 1..N, the infimum is below them and the supremum above.                 *)
(***************************************************************************)
EXTENDS Naturals, FiniteSets, FiniteSetsExt, Sequences, SequencesExt

CONSTANTS
  Trx,  \* transactions
  N     \* keys of the page's user records

ASSUME PageAssumption == N \in Nat \ {0}

Infimum  == 0
Keys     == 1..N
Supremum == N + 1
Heap     == Infimum..Supremum

Lock == [trx : Trx, mode : {"S", "X"}, gap : BOOLEAN, wait : BOOLEAN, on : SUBSET Heap]

---------------------------------------------------------------------------
(* Modes and conflicts                                                     *)

\* lock_mode_stronger_or_eq, lock_mode_compatible and lock_get_confl_mode, for
\* the two modes a record lock can have
StrongerOrEq(m1, m2) == m1 = "X" \/ m2 = "S"
Compatible(m1, m2)   == m1 = "S" /\ m2 = "S"
ConflMode(m)         == IF m = "S" THEN "X" ELSE "S"

\* lock_has_to_wait
HasToWait(l1, l2) == l1.trx # l2.trx /\ ~Compatible(l1.mode, l2.mode)

OnRec(q, r) == {k \in DOMAIN q : r \in q[k].on}

\* The locks in front of the k-th one for which it has to wait, on the one
\* record it waits for.
Blockers(q, k) ==
  {j \in 1 .. k - 1 : HasToWait(q[k], q[j]) /\ q[j].on \cap q[k].on # {}}

\* lock_rec_has_expl: t holds a lock of at least this mode on record r itself.
HasExpl(q, mode, r, t) ==
  \E k \in OnRec(q, r) :
    /\ q[k].trx = t /\ StrongerOrEq(q[k].mode, mode)
    /\ ~q[k].wait /\ ~q[k].gap /\ r # Supremum

\* lock_rec_other_has_expl_req, always called with wait = LOCK_WAIT.
OtherHasExplReq(q, mode, gap, r, t) ==
  \E k \in OnRec(q, r) :
    /\ q[k].trx # t /\ StrongerOrEq(q[k].mode, mode)
    /\ gap \/ ~(q[k].gap \/ r = Supremum)

---------------------------------------------------------------------------
(* Changes of the chain                                                    *)

\* lock_rec_create: the supremum has no gap lock, it is all gap.
Create(q, t, mode, gap, wait, r) ==
  Append(q, [trx |-> t, mode |-> mode, gap |-> gap /\ r # Supremum, wait |-> wait, on |-> {r}])

\* lock_rec_find_similar_on_page
Similar(q, t, mode, gap, wait) ==
  {k \in DOMAIN q : q[k].trx = t /\ q[k].mode = mode /\ q[k].gap = gap /\ q[k].wait = wait}

\* lock_rec_add_to_queue: a lock that need not wait shares the first similar
\* lock_t, unless somebody waits for the record.
AddToQueue(q, t, mode, gap, wait, r) ==
  LET similar == Similar(q, t, mode, gap /\ r # Supremum, wait)
  IN IF similar # {} /\ ~wait /\ ~\E k \in OnRec(q, r) : q[k].wait
     THEN [q EXCEPT ![Min(similar)].on = @ \cup {r}]
     ELSE Create(q, t, mode, gap, wait, r)

\* Fault: only the first waiting lock of the page is looked at.
GrantAll_First(q) ==
  [k \in DOMAIN q |->
     [q[k] EXCEPT !.wait = @ /\ (Blockers(q, k) # {} \/ \E j \in 1 .. k - 1 : q[j].wait)]]

\* lock_grant, for every waiting lock that nothing in front holds back
\* (lock_rec_has_to_wait_in_queue).
GrantAll(q) == [k \in DOMAIN q |-> [q[k] EXCEPT !.wait = @ /\ Blockers(q, k) # {}]]

\* lock_rec_dequeue_from_page of the k-th lock.
Dequeue(q, k) == GrantAll(RemoveAt(q, k))

\* What Step makes of the chain, called for every lock that is on record r when
\* the walk along the chain begins.
Along(q, r, Step(_, _)) ==
  LET after[k \in 0..Len(q)] ==
        IF k = 0 THEN q
        ELSE IF r \in q[k].on THEN Step(after[k - 1], k) ELSE after[k - 1]
  IN after[Len(q)]

\* lock_rec_inherit_to_gap: every lock on r, waiting ones too, becomes a
\* granted gap lock on heir.
InheritToGap(q, heir, r) ==
  Along(q, r, LAMBDA p, k : AddToQueue(p, q[k].trx, q[k].mode, TRUE, FALSE, heir))

\* Fault: a waiting lock leaves the record as a granted one does.
ResetAndRelease_StillWaits(q, r) ==
  [k \in DOMAIN q |-> IF r \in q[k].on THEN [q[k] EXCEPT !.on = @ \ {r}] ELSE q[k]]

\* lock_rec_reset_and_release_wait: r keeps no lock, who waited waits no more.
ResetAndRelease(q, r) ==
  [k \in DOMAIN q |-> IF r \in q[k].on
                      THEN [q[k] EXCEPT !.on = @ \ {r}, !.wait = FALSE]
                      ELSE q[k]]

\* lock_rec_move: the queue of donator becomes that of receiver, waiting locks
\* still waiting.
Move(q, receiver, donator) ==
  Along(q, donator,
        LAMBDA p, k : AddToQueue([p EXCEPT ![k].on = @ \ {donator}, ![k].wait = FALSE],
                                 q[k].trx, q[k].mode, q[k].gap, q[k].wait, receiver))

---------------------------------------------------------------------------
(* The deadlock search                                                     *)

WaitLock(q, t) == CHOOSE k \in DOMAIN q : q[k].trx = t /\ q[k].wait

\* The wait locks lock_deadlock_recursive looks at when it starts with the
\* k-th one: it follows a blocking lock to its transaction, if that waits.
Searched(q, k, waiting) ==
  LET W == {i \in DOMAIN q : q[i].wait}
      Closed(S) ==
        \A i \in S : \A j \in Blockers(q, i) : q[j].trx \in waiting => WaitLock(q, q[j].trx) \in S
  IN {i \in W : \A S \in SUBSET W : k \in S /\ Closed(S) => i \in S}

\* Fault: the search does not go beyond the locks in front of the new one.
DeadlockOccurs_OneStep(q, k, waiting) ==
  \E j \in Blockers(q, k) :
    q[j].trx \in waiting /\ \E i \in Blockers(q, WaitLock(q, q[j].trx)) : q[i].trx = q[k].trx

\* lock_deadlock_occurs.  The search ends with TRUE when it comes back to the
\* transaction it started with, and also when it meets a transaction whose
\* deadlock_mark it has set before: then two blocking locks lead to it.
DeadlockOccurs(q, k, waiting) ==
  LET edges == {e \in Searched(q, k, waiting) \X DOMAIN q : e[2] \in Blockers(q, e[1])}
  IN \/ \E e \in edges : q[e[2]].trx = q[k].trx
     \/ \E e, f \in edges : e # f /\ q[e[2]].trx = q[f[2]].trx /\ q[e[2]].trx \in waiting
===========================================================================
