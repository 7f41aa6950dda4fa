-------------------------- MODULE TrxSysProofs --------------------------
(***************************************************************************)
(* Consistent reads of TrxSys find what they need.  A view knows every     *)
(* transaction that was active when it was opened, and its low_limit_no is *)
(* not above the number any of them takes; an older view sees less, and    *)
(* the view of the purge is the oldest of all, with its creator added.     *)
(* So the logs the purge may remove hold nothing a view does not see.      *)
(***************************************************************************)
EXTENDS TrxSys, FiniteSetTheorems, SequenceTheorems, WellFoundedInduction, TLAPS

-----------------------------------------------------------------------------
(* The least and the largest of some numbers                               *)

\* Some numbers up to n have a largest one, the last in their order.
LEMMA MaxIsLargest ==
  ASSUME NEW n \in Nat, NEW S \in SUBSET (0 .. n), S # {}
  PROVE  Max(S) \in S /\ \A x \in S : x <= Max(S)
<1> DEFINE Above(x) == {y \in S : y > x}
           T == {Above(x) : x \in S}
<1>1. IsFiniteSet(S)
  BY FS_Interval, FS_Subset, 0 \in Int, n \in Int
<1>2. T \subseteq FiniteSubsetsOf(S) /\ T # {}
  <2>1. \A x \in S : Above(x) \in FiniteSubsetsOf(S)
    BY <1>1, FS_Subset DEF FiniteSubsetsOf
  <2> QED
    BY <2>1
<1>3. PICK A \in T : \A B \in T : ~ (<<B, A>> \in StrictSubsetOrdering(S))
  BY <1>1, <1>2, FS_StrictSubsetOrderingWellFounded, WFMin
<1>4. PICK m \in S : A = Above(m)
  OBVIOUS
<1>5. ASSUME NEW x \in S, x > m
      PROVE  FALSE
  <2>1. Above(x) \subseteq Above(m)
    <3>1. \A y \in S : y > x => y > m
      BY <1>5
    <3> QED
      BY <3>1
  <2>2. x \in Above(m) /\ x \notin Above(x)
    BY <1>5
  <2>3. <<Above(x), A>> \in StrictSubsetOrdering(S)
    BY <1>4, <2>1, <2>2 DEF StrictSubsetOrdering
  <2> QED
    BY <1>3, <2>3
<1>6. \E z \in S : \A x \in S : z >= x
  BY <1>5
<1> QED
  BY <1>6 DEF Max

\* They have a least one: its distance from n is the largest.
LEMMA MinIsLeast ==
  ASSUME NEW n \in Nat, NEW S \in SUBSET (0 .. n), S # {}
  PROVE  Min(S) \in S /\ \A x \in S : Min(S) <= x
<1> DEFINE D == {n - x : x \in S}
<1>1. D \in SUBSET (0 .. n) /\ D # {}
  <2>1. \A x \in S : x \in Nat /\ x <= n /\ n - x \in 0 .. n
    OBVIOUS
  <2> QED
    BY <2>1
<1>2. Max(D) \in D /\ \A d \in D : d <= Max(D)
  BY <1>1, MaxIsLargest
<1> HIDE DEF D
<1>3. PICK m \in S : Max(D) = n - m
  BY <1>2 DEF D
<1>4. \A x \in S : n - x <= n - m
  BY <1>2, <1>3 DEF D
<1>5. \A x \in S : m <= x
  BY <1>4
<1> QED
  BY <1>5 DEF Min

-----------------------------------------------------------------------------
(* Read views                                                              *)

\* up_limit_id is not above the ids, so it decides nothing the ids do not.
LEMMA SeesMeans ==
  ASSUME NEW v \in View, v.upId <= v.lowId, \A id \in v.ids : v.upId <= id, NEW id \in Nat
  PROVE  Sees(v, id) <=> id < v.lowId /\ id \notin v.ids
BY DEF Sees, View

\* Transactions as a view takes them in, while m is max_trx_id.
Listed(m) == [id : 1 .. m - 1, no : 0 .. m - 1]

\* read_view_open_now
LEMMA OpenNowIsGood ==
  ASSUME NEW c \in Nat, NEW m \in Nat \ {0}, NEW T \in SUBSET Listed(m),
         NEW v, v = OpenNow(c, m, T)
  PROVE  /\ v \in View /\ v.creator = c /\ v.lowId = m /\ v.ids = {t.id : t \in T}
         /\ v.lowNo <= m /\ \A t \in T : t.no # 0 => v.lowNo <= t.no
         /\ v.lowNo = m \/ \E t \in T : t.no # 0 /\ v.lowNo = t.no
         /\ 1 <= v.upId /\ v.upId <= m
         /\ \A id \in v.ids : v.upId <= id /\ id < m
<1> DEFINE ids == {t.id : t \in T}
           nos == {m} \cup {t.no : t \in {u \in T : u.no # 0}}
<1>1. /\ m \in Nat /\ 1 <= m
      /\ ids \in SUBSET (0 .. m) /\ \A id \in ids : id \in Nat /\ 1 <= id /\ id < m
      /\ nos \in SUBSET (0 .. m) /\ m \in nos /\ \A no \in nos : no \in Nat
  BY DEF Listed
<1>2. v = [creator |-> c, lowNo |-> Min(nos), lowId |-> m, upId |-> UpLimit(ids, m), ids |-> ids]
  BY DEF OpenNow
<1>3. Min(nos) \in nos /\ \A x \in nos : Min(nos) <= x
  BY <1>1, MinIsLeast
<1>4. ids # {} => Min(ids) \in ids /\ \A x \in ids : Min(ids) <= x
  BY <1>1, MinIsLeast
<1>5. \A t \in T : t.no # 0 => t.no \in nos
  OBVIOUS
<1>6. /\ UpLimit(ids, m) \in Nat /\ 1 <= UpLimit(ids, m) /\ UpLimit(ids, m) <= m
      /\ \A id \in ids : UpLimit(ids, m) <= id
  <2> HIDE DEF ids, nos
  <2>1. CASE ids = {}
    BY <2>1 DEF UpLimit
  <2>2. CASE ids # {}
    <3>1. UpLimit(ids, m) = Min(ids)
      BY <2>2 DEF UpLimit
    <3>2. Min(ids) \in ids /\ \A x \in ids : Min(ids) <= x
      BY <1>4, <2>2
    <3>3. \A id \in ids : id \in Nat /\ 1 <= id /\ id <= m
      BY <1>1
    <3>4. Min(ids) \in Nat /\ 1 <= Min(ids) /\ Min(ids) <= m
      BY <3>2, <3>3
    <3> QED
      BY <3>1, <3>2, <3>4
  <2> QED
    BY <2>1, <2>2
<1> HIDE DEF ids, nos
<1>7. ids \in SUBSET Nat /\ Min(nos) \in Nat /\ Min(nos) <= m
  BY <1>1, <1>3
<1>8. v \in View
  BY <1>2, <1>6, <1>7 DEF View
<1>9. \A t \in T : t.no # 0 => v.lowNo <= t.no
  BY <1>2, <1>3, <1>5
<1>10. v.lowNo = m \/ \E t \in T : t.no # 0 /\ v.lowNo = t.no
  <2>1. v.lowNo \in nos
    BY <1>2, <1>3
  <2>2. \A x \in nos : x = m \/ \E t \in T : t.no # 0 /\ x = t.no
    BY DEF nos
  <2> QED
    BY <2>1, <2>2
<1> QED
  BY <1>1, <1>2, <1>6, <1>7, <1>8, <1>9, <1>10 DEF ids

\* read_view_oldest_copy_or_open_new
LEMMA OldestCopyIsGood ==
  ASSUME NEW c \in Nat, NEW old \in View, 1 <= old.upId, old.upId <= old.lowId,
         \A id \in old.ids : old.upId <= id /\ id < old.lowId,
         old.creator # 0, old.creator < old.lowId, NEW v, v = OldestCopy(c, old)
  PROVE  /\ v \in View /\ v.creator = c /\ v.lowId = old.lowId /\ v.lowNo = old.lowNo
         /\ v.ids = old.ids \cup {old.creator}
         /\ 1 <= v.upId /\ v.upId <= v.lowId
         /\ \A id \in v.ids : v.upId <= id /\ id < v.lowId
<1> DEFINE ids == old.ids \cup {old.creator}
<1>1. ids \in SUBSET (0 .. old.lowId) /\ ids # {} /\ \A id \in ids : 1 <= id /\ id < old.lowId
  BY DEF View
<1>2. v = [creator |-> c, lowNo |-> old.lowNo, lowId |-> old.lowId,
           upId |-> UpLimit(ids, old.upId), ids |-> ids]
  BY DEF OldestCopy
<1>3. Min(ids) \in ids /\ \A x \in ids : Min(ids) <= x
  BY <1>1, MinIsLeast, ZenonT(90) DEF View
<1>4. UpLimit(ids, old.upId) = Min(ids)
  BY <1>1 DEF UpLimit
<1>5. Min(ids) \in Nat /\ ids \in SUBSET Nat
  BY <1>1, <1>3
<1> HIDE DEF ids
<1> QED
  BY <1>1, <1>2, <1>3, <1>4, <1>5 DEF View, ids

-----------------------------------------------------------------------------
(* The invariant                                                           *)

\* What view v must still find: what it does not see, and its creator's work.
Unseen(v, id) == ~Sees(v, id) \/ (id # 0 /\ id = v.creator)

\* Ids and numbers are used once, and one transaction at a time is logged.
TrxInv ==
    /\ maxId \in Nat \ {0}
    /\ trx \in [Trx -> TrxObject]
    /\ \A t \in Trx :
         /\ trx[t].id < maxId /\ trx[t].no < maxId
         /\ Active(t) => trx[t].id # 0
         /\ trx[t].state = "ACTIVE" => trx[t].no = 0
         /\ trx[t].state = "NUMBERED" => trx[t].no # 0 /\ trx[t].log # 0
         /\ trx[t].state = "LOGGED" => trx[t].no # 0
         /\ \A u \in Trx :
              /\ Active(t) /\ Active(u) /\ trx[t].id = trx[u].id => t = u
              /\ trx[t].state = "NUMBERED" /\ trx[u].state = "NUMBERED" => t = u

\* A view knows who was active, and no number of theirs is below its limit.
GoodView(v) ==
    /\ v \in View
    /\ 1 <= v.upId /\ v.upId <= v.lowId /\ v.lowId <= maxId /\ v.lowNo <= maxId
    /\ \A id \in v.ids : v.upId <= id /\ id < v.lowId
    /\ v.creator \notin v.ids /\ v.creator < v.lowId
    /\ \A t \in Trx : Active(t) =>
         /\ trx[t].id < v.lowId => trx[t].id \in v.ids \/ trx[t].id = v.creator
         /\ trx[t].no # 0 => v.lowNo <= trx[t].no

\* View w is not younger than v.
Older(w, v) ==
    /\ w.lowId <= v.lowId /\ w.lowNo <= v.lowNo
    /\ \A id \in v.ids : id < w.lowId => id \in w.ids \/ id = w.creator

ViewsInv ==
    /\ views \in Seq(View)
    /\ \A k \in DOMAIN views :
         /\ GoodView(views[k])
         /\ \E t \in Trx : Active(t) /\ views[k].creator = trx[t].id
         /\ Older(purge.view, views[k])
    /\ \A k, j \in DOMAIN views : k < j =>
         Older(views[j], views[k]) /\ views[j].creator # views[k].creator
    /\ GoodView(purge.view) /\ purge.view.creator = 0

InSlot(l) == l # 0 /\ \E t \in Trx : trx[t].log = l
InHist(l, no) == \E k \in DOMAIN hist : hist[k].log = l /\ no <= hist[k].no

\* The logs of what v must still find are there, and the purge stays away.
Kept(v) ==
    \A r \in Rows : \A j \in DOMAIN row[r] :
        Unseen(v, row[r][j].id) => InSlot(row[r][j].log) \/ InHist(row[r][j].log, v.lowNo)

\* The log of a version whose writer is active.
WriterLog(t, l) ==
    \/ trx[t].state # "LOGGED" /\ l = trx[t].log
    \/ trx[t].state = "LOGGED" /\ InHist(l, trx[t].no)

RowsInv ==
    /\ row \in [Rows -> Seq(Version)]
    /\ \A r \in Rows :
         /\ row[r] # <<>> /\ row[r][1].id = 0
         /\ \A j \in DOMAIN row[r] :
              /\ row[r][j].id < maxId
              /\ row[r][j].id # 0 => row[r][j].log # 0
              /\ \A t \in Trx : Active(t) /\ row[r][j].id = trx[t].id =>
                   WriterLog(t, row[r][j].log)

KeptInv ==
    /\ \A k \in DOMAIN views : Kept(views[k])
    /\ Kept(purge.view)

SnapInv ==
    /\ snap \in [Trx -> SUBSET Nat]
    /\ \A t \in Trx : \A k \in DOMAIN views : Active(t) /\ views[k].creator = trx[t].id =>
         snap[t] = (0 .. views[k].lowId - 1) \ (views[k].ids \cup {trx[t].id})

HistInv ==
    /\ hist \in Seq(Log) /\ last \in Log
    /\ purge \in [on : BOOLEAN, stored : BOOLEAN, no : Nat, view : View]
    /\ HistoryInOrder
    /\ \A k \in DOMAIN hist :
         /\ hist[k].no # 0 /\ hist[k].no < maxId
         /\ \A t \in Trx : trx[t].state = "NUMBERED" => hist[k].no < trx[t].no

IInv == TrxInv /\ ViewsInv /\ RowsInv /\ KeptInv /\ SnapInv /\ HistInv

-----------------------------------------------------------------------------
(* Transactions                                                            *)

\* What every step does to the transactions a view knows.
Grown ==
    /\ maxId' \in Nat /\ maxId <= maxId'
    /\ \A t \in Trx : Active(t)' =>
         \/ /\ Active(t) /\ trx'[t].id = trx[t].id
            /\ trx'[t].no = trx[t].no \/ maxId <= trx'[t].no
         \/ maxId <= trx'[t].id /\ trx'[t].no = 0

\* conc_state is TRX_ACTIVE.
IsActive(o) == o.state \in {"ACTIVE", "NUMBERED", "LOGGED"}

\* One transaction changes, or starts with an id of its own.
LEMMA TrxChange ==
  ASSUME TrxInv, NEW t \in Trx, NEW o \in TrxObject, trx' = [trx EXCEPT ![t] = o],
         maxId' \in {maxId, maxId + 1}, o.id < maxId', o.no < maxId',
         IsActive(o) => \/ Active(t) /\ o.id = trx[t].id /\ (o.no = trx[t].no \/ o.no = maxId)
                        \/ o.id = maxId /\ o.no = 0,
         o.state = "ACTIVE" => o.no = 0,
         o.state = "NUMBERED" => RsegFree /\ o.no # 0 /\ o.log # 0,
         o.state = "LOGGED" => o.no # 0
  PROVE  TrxInv' /\ Grown
<1>1. trx'[t] = o /\ \A u \in Trx : u # t => trx'[u] = trx[u]
  BY DEF TrxInv
<1>2. maxId \in Nat \ {0} /\ maxId' \in Nat \ {0} /\ maxId <= maxId'
  BY DEF TrxInv
<1>3. \A u \in Trx : trx[u].id \in Nat /\ trx[u].no \in Nat
  BY DEF TrxInv, TrxObject
<1>4. o.id \in Nat /\ o.no \in Nat
  BY DEF TrxObject
<1>5. trx' \in [Trx -> TrxObject]
  BY DEF TrxInv
<1>6. /\ Active(t)' <=> IsActive(o)
      /\ \A u \in Trx : u # t => (Active(u)' <=> Active(u))
  BY <1>1 DEF Active, IsActive
<1>7. Grown
  BY <1>1, <1>2, <1>3, <1>4, <1>6 DEF Grown
<1>8. \A u \in Trx :
        /\ trx'[u].id < maxId' /\ trx'[u].no < maxId'
        /\ Active(u)' => trx'[u].id # 0
        /\ trx'[u].state = "ACTIVE" => trx'[u].no = 0
        /\ trx'[u].state = "NUMBERED" => trx'[u].no # 0 /\ trx'[u].log # 0
        /\ trx'[u].state = "LOGGED" => trx'[u].no # 0
  BY <1>1, <1>2, <1>3, <1>4, <1>6 DEF TrxInv
<1>9. \A u, w \in Trx : Active(u)' /\ Active(w)' /\ trx'[u].id = trx'[w].id => u = w
  BY <1>1, <1>2, <1>3, <1>4, <1>6 DEF TrxInv
<1>10. \A u, w \in Trx : trx'[u].state = "NUMBERED" /\ trx'[w].state = "NUMBERED" => u = w
  BY <1>1 DEF TrxInv, RsegFree
<1> QED
  BY <1>2, <1>5, <1>7, <1>8, <1>9, <1>10 DEF TrxInv

\* No transaction changes.
LEMMA TrxSame ==
  ASSUME TrxInv, trx' = trx, maxId' = maxId
  PROVE  TrxInv' /\ Grown
<1>1. \A t \in Trx : Active(t)' <=> Active(t)
  BY DEF Active
<1> QED
  BY <1>1 DEF TrxInv, Grown

\* Every step keeps TrxInv.
LEMMA TrxStep ==
  ASSUME TrxInv, [Next]_vars
  PROVE  TrxInv' /\ Grown
<1>1. /\ maxId \in Nat \ {0} /\ \A t \in Trx : trx[t] \in TrxObject
      /\ \A t \in Trx : trx[t].id < maxId /\ trx[t].no < maxId
  BY DEF TrxInv
<1>2. ASSUME NEW t \in Trx, Start(t)
      PROVE  TrxInv' /\ Grown
  <2> DEFINE o == [trx[t] EXCEPT !.state = "ACTIVE", !.id = maxId, !.no = 0]
  <2>1. trx' = [trx EXCEPT ![t] = o] /\ maxId' = maxId + 1
    BY <1>2 DEF Start
  <2>2. o \in TrxObject /\ o.id = maxId /\ o.no = 0 /\ o.state = "ACTIVE"
    BY <1>1 DEF TrxObject, States
  <2> HIDE DEF o
  <2>3. maxId' \in {maxId, maxId + 1} /\ o.id < maxId' /\ o.no < maxId'
    BY <1>1, <2>1, <2>2
  <2> QED
    BY <2>1, <2>2, <2>3, TrxChange
<1>3. ASSUME NEW t \in Trx, NEW r \in Rows, Update(t, r)
      PROVE  TrxInv' /\ Grown
  <2> DEFINE o == [trx[t] EXCEPT !.log = IF trx[t].log = 0 THEN trx[t].id ELSE trx[t].log]
  <2>1. trx' = [trx EXCEPT ![t] = o] /\ maxId' = maxId /\ trx[t].state = "ACTIVE"
    BY <1>3 DEF Update
  <2>2. o \in TrxObject /\ o.id = trx[t].id /\ o.no = trx[t].no /\ o.state = "ACTIVE"
    BY <1>1, <2>1 DEF TrxObject
  <2>3. Active(t) /\ trx[t].no = 0
    BY <2>1 DEF Active, TrxInv
  <2> HIDE DEF o
  <2> QED
    BY <1>1, <2>1, <2>2, <2>3, TrxChange
<1>4. ASSUME NEW t \in Trx, Insert(t)
      PROVE  TrxInv' /\ Grown
  <2> DEFINE o == [trx[t] EXCEPT !.ins = TRUE]
  <2>1. trx' = [trx EXCEPT ![t] = o] /\ maxId' = maxId /\ trx[t].state = "ACTIVE"
    BY <1>4 DEF Insert
  <2>2. o \in TrxObject /\ o.id = trx[t].id /\ o.no = trx[t].no /\ o.state = "ACTIVE"
    BY <1>1, <2>1 DEF TrxObject
  <2>3. Active(t) /\ trx[t].no = 0
    BY <2>1 DEF Active, TrxInv
  <2> HIDE DEF o
  <2> QED
    BY <1>1, <2>1, <2>2, <2>3, TrxChange
<1>5. ASSUME NEW t \in Trx, CommitUnlogged(t)
      PROVE  TrxInv' /\ Grown
  <2>1. trx' = [trx EXCEPT ![t] = Left(t)] /\ maxId' = maxId
    BY <1>5 DEF CommitUnlogged
  <2>2. Left(t) \in TrxObject /\ Left(t).id = 0 /\ Left(t).no = 0 /\ Left(t).state = "NOT_STARTED"
    BY <1>1 DEF TrxObject, States, Left
  <2>3. maxId' \in {maxId, maxId + 1} /\ Left(t).id < maxId' /\ Left(t).no < maxId'
    BY <1>1, <2>1, <2>2
  <2> QED
    BY <2>1, <2>2, <2>3, TrxChange DEF IsActive
<1>6. ASSUME NEW t \in Trx, CommitNumber(t)
      PROVE  TrxInv' /\ Grown
  <2> DEFINE o == [trx[t] EXCEPT !.state = "NUMBERED", !.no = maxId]
  <2>1. /\ trx' = [trx EXCEPT ![t] = o] /\ maxId' = maxId + 1 /\ trx[t].state = "ACTIVE"
        /\ RsegFree /\ trx[t].log # 0
    BY <1>6 DEF CommitNumber, TwoLogs
  <2>2. /\ o \in TrxObject /\ o.id = trx[t].id /\ o.no = maxId /\ o.state = "NUMBERED"
        /\ o.log = trx[t].log
    BY <1>1, <2>1 DEF TrxObject, States
  <2>3. Active(t) /\ trx[t].id \in Nat
    BY <1>1, <2>1 DEF Active, TrxObject
  <2> HIDE DEF o
  <2>4. maxId' \in {maxId, maxId + 1} /\ o.id < maxId' /\ o.no < maxId' /\ o.no # 0
    BY <1>1, <2>1, <2>2, <2>3
  <2> QED
    BY <2>1, <2>2, <2>3, <2>4, TrxChange
<1>7. ASSUME NEW t \in Trx, CommitLogged(t)
      PROVE  TrxInv' /\ Grown
  <2> DEFINE o == [trx[t] EXCEPT !.state = "LOGGED", !.log = 0]
  <2>1. trx' = [trx EXCEPT ![t] = o] /\ maxId' = maxId /\ trx[t].state = "NUMBERED"
    BY <1>7 DEF CommitLogged
  <2>2. o \in TrxObject /\ o.id = trx[t].id /\ o.no = trx[t].no /\ o.state = "LOGGED"
    BY <1>1, <2>1 DEF TrxObject, States
  <2>3. Active(t) /\ trx[t].no # 0
    BY <2>1 DEF Active, TrxInv
  <2> HIDE DEF o
  <2> QED
    BY <1>1, <2>1, <2>2, <2>3, TrxChange
<1>8. ASSUME NEW t \in Trx, CommitInMemory(t)
      PROVE  TrxInv' /\ Grown
  <2> DEFINE o == [trx[t] EXCEPT !.state = "IN_MEMORY"]
  <2>1. trx' = [trx EXCEPT ![t] = o] /\ maxId' = maxId
    BY <1>8 DEF CommitInMemory
  <2>2. o \in TrxObject /\ o.id = trx[t].id /\ o.no = trx[t].no /\ o.state = "IN_MEMORY"
    BY <1>1, <2>1 DEF TrxObject, States
  <2> HIDE DEF o
  <2> QED
    BY <1>1, <2>1, <2>2, TrxChange DEF IsActive
<1>9. ASSUME NEW t \in Trx, CommitEnd(t)
      PROVE  TrxInv' /\ Grown
  <2> DEFINE o == [Left(t) EXCEPT !.ins = FALSE]
  <2>1. trx' = [trx EXCEPT ![t] = o] /\ maxId' = maxId
    BY <1>9 DEF CommitEnd
  <2>2. o \in TrxObject /\ o.id = 0 /\ o.no = 0 /\ o.state = "NOT_STARTED"
    BY <1>1 DEF TrxObject, States, Left
  <2> HIDE DEF o
  <2>3. maxId' \in {maxId, maxId + 1} /\ o.id < maxId' /\ o.no < maxId'
    BY <1>1, <2>1, <2>2
  <2> QED
    BY <2>1, <2>2, <2>3, TrxChange DEF IsActive
<1>10. ASSUME trx' = trx, maxId' = maxId
       PROVE  TrxInv' /\ Grown
  BY <1>10, TrxSame
<1>11. (\E t \in Trx : AssignReadView(t)) \/ TrxPurge \/ FetchNextRec \/ StopPurge \/ UNCHANGED vars
       => trx' = trx /\ maxId' = maxId
  BY DEF AssignReadView, TrxPurge, FetchNextRec, StopPurge, vars
<1> QED
  BY <1>2, <1>3, <1>4, <1>5, <1>6, <1>7, <1>8, <1>9, <1>10, <1>11 DEF Next

-----------------------------------------------------------------------------
(* Views                                                                   *)

\* A good view stays good.
LEMMA GoodViewStays ==
  ASSUME TrxInv, TrxInv', Grown, NEW v, GoodView(v)
  PROVE  GoodView(v)'
<1>1. /\ maxId \in Nat /\ maxId' \in Nat /\ maxId <= maxId'
      /\ v \in View /\ v.lowId \in Nat /\ v.lowNo \in Nat /\ v.lowId <= maxId /\ v.lowNo <= maxId
  BY DEF TrxInv, Grown, GoodView, View
<1>2. ASSUME NEW t \in Trx, Active(t)'
      PROVE  /\ trx'[t].id < v.lowId => trx'[t].id \in v.ids \/ trx'[t].id = v.creator
             /\ trx'[t].no # 0 => v.lowNo <= trx'[t].no
  <2>1. CASE /\ Active(t) /\ trx'[t].id = trx[t].id
             /\ trx'[t].no = trx[t].no \/ maxId <= trx'[t].no
    <3>1. /\ trx[t].id < v.lowId => trx[t].id \in v.ids \/ trx[t].id = v.creator
          /\ trx[t].no # 0 => v.lowNo <= trx[t].no
      BY <2>1 DEF GoodView
    <3>2. trx'[t].no \in Nat
      BY DEF TrxInv, TrxObject
    <3> QED
      BY <1>1, <2>1, <3>1, <3>2
  <2>2. CASE maxId <= trx'[t].id /\ trx'[t].no = 0
    <3>1. trx'[t].id \in Nat
      BY DEF TrxInv, TrxObject
    <3>2. ~(trx'[t].id < v.lowId)
      BY <1>1, <2>2, <3>1
    <3> QED
      BY <2>2, <3>2
  <2> QED
    BY <1>2, <2>1, <2>2 DEF Grown
<1>3. v.lowId <= maxId' /\ v.lowNo <= maxId'
  BY <1>1
<1> QED
  BY <1>2, <1>3 DEF GoodView

\* The views that stay keep their order, and their creators are active.
LEMMA ViewsStay ==
  ASSUME TrxInv, TrxInv', Grown, ViewsInv, purge'.view = purge.view,
         views' \in Seq(View), NEW f \in [DOMAIN views' -> DOMAIN views],
         \A k, j \in DOMAIN views' : k < j => f[k] < f[j],
         \A k \in DOMAIN views' :
           /\ views'[k] = views[f[k]]
           /\ \A t \in Trx : Active(t) /\ views'[k].creator = trx[t].id =>
                Active(t)' /\ trx'[t].id = trx[t].id
  PROVE  ViewsInv'
<1>1. ASSUME NEW k \in DOMAIN views'
      PROVE  /\ GoodView(views[k])'
             /\ \E t \in Trx : Active(t)' /\ views'[k].creator = trx'[t].id
             /\ Older(purge.view, views[k])'
  <2>1. PICK v : v = views[f[k]]
    OBVIOUS
  <2>2. GoodView(v) /\ Older(purge.view, v)
    BY <2>1 DEF ViewsInv
  <2>3. PICK t \in Trx : Active(t) /\ v.creator = trx[t].id
    BY <2>1 DEF ViewsInv
  <2>4. GoodView(v)' /\ views'[k] = v
    BY <2>1, <2>2, GoodViewStays
  <2>5. GoodView(views[k])'
    BY <2>4 DEF GoodView
  <2>6. Older(purge.view, views[k])'
    BY <2>2, <2>4 DEF Older
  <2>7. Active(t)' /\ trx'[t].id = trx[t].id
    BY <2>3, <2>4
  <2> QED
    BY <2>3, <2>4, <2>5, <2>6, <2>7
<1>2. ASSUME NEW k \in DOMAIN views', NEW j \in DOMAIN views', k < j
      PROVE  Older(views[j], views[k])' /\ views'[j].creator # views'[k].creator
  <2>1. Older(views[f[j]], views[f[k]]) /\ views[f[j]].creator # views[f[k]].creator
    BY <1>2 DEF ViewsInv
  <2> QED
    BY <2>1 DEF Older
<1>3. GoodView(purge.view)' /\ purge'.view.creator = 0
  <2>1. PICK v : v = purge.view
    OBVIOUS
  <2>2. GoodView(v)'
    BY <2>1, GoodViewStays DEF ViewsInv
  <2> QED
    BY <2>1, <2>2 DEF GoodView, ViewsInv
<1> QED
  BY <1>1, <1>2, <1>3 DEF ViewsInv

\* Nothing is opened or closed.
LEMMA ViewsSame ==
  ASSUME TrxInv, TrxInv', Grown, ViewsInv, purge'.view = purge.view, views' = views,
         \A t \in Trx : Active(t) => Active(t)' /\ trx'[t].id = trx[t].id
  PROVE  ViewsInv'
<1> DEFINE f == [k \in DOMAIN views |-> k]
<1>1. f \in [DOMAIN views' -> DOMAIN views] /\ \A k \in DOMAIN views : f[k] = k
  OBVIOUS
<1>2. views' \in Seq(View)
  BY DEF ViewsInv
<1> HIDE DEF f
<1> QED
  BY <1>1, <1>2, ViewsStay

\* The indices before and after a removed one.
LEMMA Shifted ==
  ASSUME NEW n \in Nat, NEW p \in 1 .. n, NEW k \in 1 .. n - 1
  PROVE  /\ (p - 1) + (n - p) = n - 1 /\ (k < p => k <= p - 1 /\ k \in 1 .. p - 1)
         /\ ~(k < p) => ~(k <= p - 1) /\ k - (p - 1) \in 1 .. n - p /\ p + 1 + (k - (p - 1)) - 1 = k + 1
OBVIOUS

\* RemoveAt, where an element that is not removed comes from.
LEMMA RemoveAtIs ==
  ASSUME NEW S, NEW s \in Seq(S), NEW p \in DOMAIN s, NEW r, r = RemoveAt(s, p)
  PROVE  /\ r \in Seq(S) /\ Len(r) = Len(s) - 1
         /\ \A k \in DOMAIN r : r[k] = s[IF k < p THEN k ELSE k + 1]
<1>1. p \in 1 .. Len(s) /\ Len(s) \in Nat /\ p \in Int /\ Len(s) \in Int /\ \A i \in 1 .. Len(s) : s[i] \in S
  BY LenProperties, ElementOfSeq
<1>2. PICK a : a = SubSeq(s, 1, p - 1)
  OBVIOUS
<1>3. PICK b : b = SubSeq(s, p + 1, Len(s))
  OBVIOUS
<1>4. a \in Seq(S) /\ Len(a) = p - 1 /\ \A i \in 1 .. p - 1 : a[i] = s[i]
  <2> DEFINE n == p - 1
  <2>0. 1 \in Int /\ n \in Int /\ \A i \in 1 .. n : s[i] \in S
    BY <1>1
  <2>1. \A i \in 1 .. p - 1 : 1 + i - 1 = i
    BY <1>1
  <2> HIDE DEF n
  <2>2. /\ SubSeq(s, 1, n) \in Seq(S) /\ Len(SubSeq(s, 1, n)) = IF 1 <= n THEN n - 1 + 1 ELSE 0
        /\ \A i \in 1 .. n - 1 + 1 : SubSeq(s, 1, n)[i] = s[1 + i - 1]
    BY <2>0, SubSeqProperties
  <2>3. (IF 1 <= n THEN n - 1 + 1 ELSE 0) = p - 1 /\ n - 1 + 1 = p - 1
    BY <1>1 DEF n
  <2>4. a = SubSeq(s, 1, n)
    BY <1>2 DEF n
  <2> QED
    BY <2>1, <2>2, <2>3, <2>4, Zenon
<1>5. b \in Seq(S) /\ Len(b) = Len(s) - p /\ \A i \in 1 .. Len(s) - p : b[i] = s[p + 1 + i - 1]
  <2> DEFINE m == p + 1
             n == Len(s)
  <2>1. m \in Int /\ n \in Int /\ \A i \in m .. n : s[i] \in S
    BY <1>1
  <2> HIDE DEF m, n
  <2>2. /\ SubSeq(s, m, n) \in Seq(S) /\ Len(SubSeq(s, m, n)) = IF m <= n THEN n - m + 1 ELSE 0
        /\ \A i \in 1 .. n - m + 1 : SubSeq(s, m, n)[i] = s[m + i - 1]
    BY <2>1, SubSeqProperties
  <2>3. (IF m <= n THEN n - m + 1 ELSE 0) = Len(s) - p /\ n - m + 1 = Len(s) - p
    BY <1>1 DEF m, n
  <2>4. b = SubSeq(s, m, n) /\ m = p + 1
    BY <1>3 DEF m, n
  <2> QED
    BY <2>2, <2>3, <2>4, Zenon
<1>6. r = a \o b
  BY <1>2, <1>3, Zenon DEF RemoveAt
<1>7. /\ r \in Seq(S) /\ Len(r) = Len(a) + Len(b) /\ DOMAIN r = 1 .. Len(r)
      /\ \A k \in 1 .. Len(a) + Len(b) : r[k] = IF k <= Len(a) THEN a[k] ELSE b[k - Len(a)]
  <2>1. /\ a \o b \in Seq(S) /\ Len(a \o b) = Len(a) + Len(b)
        /\ \A k \in 1 .. Len(a) + Len(b) : (a \o b)[k] = IF k <= Len(a) THEN a[k] ELSE b[k - Len(a)]
    BY <1>4, <1>5, ConcatProperties
  <2>2. DOMAIN r = 1 .. Len(r)
    BY <1>6, <2>1, LenProperties, Zenon
  <2> QED
    BY <1>6, <2>1, <2>2, Zenon
<1>8. p \in 1 .. Len(s) /\ Len(s) \in Nat /\ Len(a) = p - 1 /\ Len(b) = Len(s) - p
  BY ONLY <1>1, <1>4, <1>5
<1>9. Len(r) = Len(s) - 1 /\ DOMAIN r = 1 .. Len(s) - 1
  <2>1. Len(a) + Len(b) = Len(s) - 1
    BY ONLY <1>8
  <2> QED
    BY <1>7, <2>1, Zenon
<1>10. ASSUME NEW k \in 1 .. Len(s) - 1
       PROVE  r[k] = s[IF k < p THEN k ELSE k + 1]
  <2>1. Len(a) + Len(b) = Len(s) - 1
    BY <1>8, Shifted, Zenon
  <2>2. CASE k < p
    <3>1. k <= Len(a) /\ k \in 1 .. p - 1
      BY <1>8, <2>2, Shifted, Zenon
    <3> QED
      BY <1>4, <1>7, <2>1, <2>2, <3>1, Zenon
  <2>3. CASE ~(k < p)
    <3>1. PICK i : i = k - Len(a)
      OBVIOUS
    <3>2. ~(k <= Len(a)) /\ i \in 1 .. Len(s) - p /\ p + 1 + i - 1 = k + 1
      BY <1>8, <2>3, <3>1, Shifted, Zenon
    <3>3. r[k] = b[i]
      BY <1>7, <2>1, <3>1, <3>2, Zenon
    <3> QED
      BY <1>5, <2>3, <3>2, <3>3, Zenon
  <2> QED
    BY <2>2, <2>3
<1> QED
  BY <1>7, <1>9, <1>10, Zenon

\* A transaction ends and closes its view.
LEMMA ViewsClosed ==
  ASSUME TrxInv, TrxInv', Grown, ViewsInv, purge'.view = purge.view,
         NEW t \in Trx, Active(t), Close(t),
         \A u \in Trx \ {t} : Active(u) => Active(u)' /\ trx'[u].id = trx[u].id
  PROVE  /\ ViewsInv'
         /\ \A k \in DOMAIN views' : \E j \in DOMAIN views : views'[k] = views[j]
         /\ \A k \in DOMAIN views' : views'[k].creator # trx[t].id
<1>1. CASE ~HasView(t)
  <2>1. views' = views /\ \A k \in DOMAIN views : views[k].creator # trx[t].id
    BY <1>1 DEF Close, HasView
  <2> DEFINE f == [k \in DOMAIN views |-> k]
  <2>2. f \in [DOMAIN views' -> DOMAIN views] /\ \A k \in DOMAIN views : f[k] = k
    BY <2>1
  <2>3. views' \in Seq(View)
    BY <2>1 DEF ViewsInv
  <2> HIDE DEF f
  <2>4. \A k \in DOMAIN views' : \A u \in Trx :
          Active(u) /\ views'[k].creator = trx[u].id => Active(u)' /\ trx'[u].id = trx[u].id
    BY <2>1
  <2>5. ViewsInv'
    BY <2>1, <2>2, <2>3, <2>4, ViewsStay
  <2> QED
    BY <2>1, <2>5
<1>2. CASE HasView(t)
  <2>1. PICK p : p = Place(t)
    OBVIOUS
  <2>2. p \in DOMAIN views /\ views[p].creator = trx[t].id /\ views' = RemoveAt(views, p)
    BY <1>2, <2>1 DEF HasView, Place, Close
  <2> DEFINE f == [k \in DOMAIN views' |-> IF k < p THEN k ELSE k + 1]
  <2>3. /\ views \in Seq(View) /\ views' \in Seq(View) /\ Len(views') = Len(views) - 1
        /\ \A k \in DOMAIN views' : views'[k] = views[IF k < p THEN k ELSE k + 1]
    BY <2>2, RemoveAtIs, SMTT(90) DEF ViewsInv
  <2>4. p \in 1 .. Len(views) /\ Len(views) \in Nat /\ DOMAIN views = 1 .. Len(views)
        /\ DOMAIN views' = 1 .. Len(views) - 1
    BY <2>2, <2>3
  <2>5. /\ f \in [DOMAIN views' -> DOMAIN views]
        /\ \A k \in DOMAIN views' : views'[k] = views[f[k]] /\ f[k] # p
        /\ \A k, j \in DOMAIN views' : k < j => f[k] < f[j]
    BY <2>3, <2>4
  <2> HIDE DEF f
  <2>6. \A k \in DOMAIN views' : views'[k].creator # trx[t].id
    <3> SUFFICES ASSUME NEW k \in DOMAIN views'
                 PROVE  views'[k].creator # trx[t].id
      OBVIOUS
    <3>1. f[k] \in DOMAIN views /\ (f[k] < p \/ p < f[k]) /\ views'[k] = views[f[k]]
      BY <2>4, <2>5
    <3> QED
      BY <2>2, <3>1 DEF ViewsInv
  <2>7. \A k \in DOMAIN views' : \A u \in Trx :
          Active(u) /\ views'[k].creator = trx[u].id => Active(u)' /\ trx'[u].id = trx[u].id
    BY <2>6
  <2>8. ViewsInv'
    BY <2>3, <2>5, <2>7, ViewsStay
  <2> QED
    BY <2>5, <2>6, <2>8
<1> QED
  BY <1>1, <1>2

\* A view opened now for c, with the transactions that are active then.
Fresh(v, c) ==
    /\ GoodView(v) /\ v.creator = c /\ v.lowId = maxId
    /\ \A id \in v.ids : \E u \in Trx : Active(u) /\ id = trx[u].id
    /\ v.lowNo = maxId \/ \E u \in Trx : Active(u) /\ trx[u].no # 0 /\ v.lowNo = trx[u].no

LEMMA OpenNowIsFresh ==
  ASSUME TrxInv, NEW c \in Nat, c < maxId, NEW T \in SUBSET Trx,
         \A u \in Trx : Active(u) => IF u \in T THEN trx[u].id # c
                                         ELSE trx[u].id = c /\ trx[u].no = 0,
         NEW v, v = OpenNow(c, maxId, ActiveOf(T))
  PROVE  Fresh(v, c)
<1> DEFINE L == ActiveOf(T)
<1>1. L \in SUBSET Listed(maxId)
  <2> SUFFICES ASSUME NEW u \in Trx, Active(u)
               PROVE  [id |-> trx[u].id, no |-> trx[u].no] \in Listed(maxId)
    BY DEF ActiveOf
  <2>1. maxId \in Nat /\ trx[u].id \in Nat /\ trx[u].no \in Nat
    BY DEF TrxInv, TrxObject
  <2>2. trx[u].id # 0 /\ trx[u].id < maxId /\ trx[u].no < maxId
    BY DEF TrxInv
  <2> QED
    BY <2>1, <2>2 DEF Listed
<1>2. \A e \in L : \E u \in T : Active(u) /\ e.id = trx[u].id /\ e.no = trx[u].no
  BY DEF ActiveOf
<1>3. \A u \in T : Active(u) => \E e \in L : e.id = trx[u].id /\ e.no = trx[u].no
  <2> SUFFICES ASSUME NEW u \in T, Active(u)
               PROVE  [id |-> trx[u].id, no |-> trx[u].no] \in L
    OBVIOUS
  <2> QED
    BY DEF ActiveOf
<1>4. maxId \in Nat \ {0}
  BY DEF TrxInv
<1> HIDE DEF L
<1>5. /\ v \in View /\ v.creator = c /\ v.lowId = maxId /\ v.ids = {e.id : e \in L}
      /\ v.lowNo <= maxId /\ \A e \in L : e.no # 0 => v.lowNo <= e.no
      /\ v.lowNo = maxId \/ \E e \in L : e.no # 0 /\ v.lowNo = e.no
      /\ 1 <= v.upId /\ v.upId <= maxId
      /\ \A id \in v.ids : v.upId <= id /\ id < maxId
  BY <1>1, <1>4, OpenNowIsGood DEF L
<1>6. v.creator \notin v.ids
  BY <1>2, <1>5
<1>7. ASSUME NEW u \in Trx, Active(u)
      PROVE  /\ trx[u].id < v.lowId => trx[u].id \in v.ids \/ trx[u].id = v.creator
             /\ trx[u].no # 0 => v.lowNo <= trx[u].no
  <2>1. CASE u \in T
    BY <1>3, <1>5, <1>7, <2>1
  <2>2. CASE u \notin T
    <3>1. trx[u].id = c /\ trx[u].no = 0
      BY <1>7, <2>2
    <3> QED
      BY <1>5, <3>1
  <2> QED
    BY <2>1, <2>2
<1>8. GoodView(v)
  BY <1>4, <1>5, <1>6, <1>7 DEF GoodView
<1>9. \A id \in v.ids : \E u \in Trx : Active(u) /\ id = trx[u].id
  BY <1>2, <1>5
<1>10. v.lowNo = maxId \/ \E u \in Trx : Active(u) /\ trx[u].no # 0 /\ v.lowNo = trx[u].no
  BY <1>2, <1>5
<1> QED
  BY <1>5, <1>8, <1>9, <1>10 DEF Fresh

\* Every other view is older.
LEMMA FreshIsYoungest ==
  ASSUME NEW v, NEW c, Fresh(v, c), NEW w, GoodView(w)
  PROVE  Older(w, v)
<1>1. w.lowId <= v.lowId
  BY DEF Fresh, GoodView
<1>2. w.lowNo <= v.lowNo
  BY DEF Fresh, GoodView
<1>3. \A id \in v.ids : id < w.lowId => id \in w.ids \/ id = w.creator
  BY DEF Fresh, GoodView
<1> QED
  BY <1>1, <1>2, <1>3 DEF Older

\* trx_assign_read_view
LEMMA ViewsOpened ==
  ASSUME TrxInv, ViewsInv, NEW t \in Trx, AssignReadView(t)
  PROVE  /\ ViewsInv'
         /\ \E v : /\ Fresh(v, trx[t].id) /\ views' = <<v>> \o views
                   /\ v.ids = {trx[u].id : u \in {w \in Trx \ {t} : Active(w)}}
<1>1. PICK v : v = OpenNow(trx[t].id, maxId, ActiveOf(Trx \ {t}))
  OBVIOUS
<1>2. views' = <<v>> \o views /\ trx' = trx /\ maxId' = maxId /\ purge' = purge
      /\ Active(t) /\ ~HasView(t)
  BY <1>1 DEF AssignReadView, Active
<1>3. trx[t].id \in Nat /\ trx[t].id < maxId
  BY DEF TrxInv, TrxObject
<1>4. \A u \in Trx : Active(u) => IF u \in Trx \ {t} THEN trx[u].id # trx[t].id
                                                   ELSE trx[u].id = trx[t].id /\ trx[u].no = 0
  <2>1. trx[t].state = "ACTIVE" /\ trx[t].no = 0
    BY DEF AssignReadView, TrxInv
  <2>2. \A u \in Trx : Active(u) /\ trx[u].id = trx[t].id => u = t
    BY <1>2 DEF TrxInv
  <2> QED
    BY <2>1, <2>2
<1>5. Fresh(v, trx[t].id)
  BY <1>1, <1>3, <1>4, OpenNowIsFresh
<1>6. v.ids = {trx[u].id : u \in {w \in Trx \ {t} : Active(w)}}
  <2> DEFINE L == ActiveOf(Trx \ {t})
  <2>1. v.ids = {e.id : e \in L}
    BY <1>1 DEF OpenNow
  <2>2. \A e \in L : \E u \in Trx \ {t} : Active(u) /\ e.id = trx[u].id
    BY DEF ActiveOf
  <2>3. \A u \in Trx \ {t} : Active(u) => \E e \in L : e.id = trx[u].id
    <3> SUFFICES ASSUME NEW u \in Trx \ {t}, Active(u)
                 PROVE  [id |-> trx[u].id, no |-> trx[u].no] \in L
      OBVIOUS
    <3> QED
      BY DEF ActiveOf
  <2> HIDE DEF L
  <2> QED
    BY <2>1, <2>2, <2>3
<1>7. /\ views \in Seq(View) /\ v \in View /\ DOMAIN views = 1 .. Len(views) /\ Len(views) \in Nat
  BY <1>5 DEF ViewsInv, Fresh, GoodView
<1>8. /\ views' \in Seq(View) /\ DOMAIN views' = 1 .. Len(views) + 1
      /\ views'[1] = v /\ \A k \in DOMAIN views' : k # 1 => k - 1 \in DOMAIN views /\ views'[k] = views[k - 1]
  BY <1>2, <1>7
<1>9. \A u \in Trx : Active(u)' <=> Active(u)
  BY <1>2 DEF Active
<1>10. ASSUME NEW k \in DOMAIN views'
       PROVE  /\ GoodView(views'[k])
              /\ \E u \in Trx : Active(u) /\ views'[k].creator = trx[u].id
              /\ Older(purge.view, views'[k])
  <2>1. CASE k = 1
    BY <1>2, <1>5, <1>8, <2>1, FreshIsYoungest, ZenonT(90) DEF Fresh, ViewsInv
  <2>2. CASE k # 1
    BY <1>8, <2>2 DEF ViewsInv
  <2> QED
    BY <2>1, <2>2
<1>11. ASSUME NEW k \in DOMAIN views', NEW j \in DOMAIN views', k < j
       PROVE  Older(views'[j], views'[k]) /\ views'[j].creator # views'[k].creator
  <2>1. j # 1 /\ j - 1 \in DOMAIN views /\ views'[j] = views[j - 1]
    BY <1>8, <1>11
  <2>2. CASE k = 1
    <3>1. Older(views[j - 1], v)
      BY <1>5, <2>1, FreshIsYoungest DEF ViewsInv
    <3>2. views[j - 1].creator # v.creator
      BY <1>2, <1>5, <2>1 DEF HasView, Fresh
    <3> QED
      BY <1>8, <2>1, <2>2, <3>1, <3>2
  <2>3. CASE k # 1
    <3>1. k - 1 < j - 1 /\ k - 1 \in DOMAIN views /\ views'[k] = views[k - 1]
      BY <1>8, <1>11, <2>3
    <3> QED
      BY <2>1, <3>1 DEF ViewsInv
  <2> QED
    BY <2>2, <2>3
<1>12. ViewsInv'
  <2>1. \A k \in DOMAIN views' : GoodView(views[k])'
    BY <1>2, <1>9, <1>10 DEF GoodView
  <2>2. \A k \in DOMAIN views' : Older(purge.view, views[k])'
    BY <1>2, <1>10 DEF Older
  <2>3. \A k \in DOMAIN views' : \E u \in Trx : Active(u)' /\ views'[k].creator = trx'[u].id
    BY <1>2, <1>9, <1>10
  <2>4. GoodView(purge.view)' /\ purge'.view.creator = 0
    BY <1>2, <1>9 DEF GoodView, ViewsInv
  <2>5. \A k, j \in DOMAIN views' : k < j =>
          Older(views[j], views[k])' /\ views'[j].creator # views'[k].creator
    BY <1>11 DEF Older
  <2> QED
    BY <1>8, <2>1, <2>2, <2>3, <2>4, <2>5 DEF ViewsInv
<1> QED
  BY <1>2, <1>5, <1>6, <1>12

\* A copy of the oldest view sees no more, and nothing of its creator.
LEMMA CopyIsOlder ==
  ASSUME TrxInv, NEW old, GoodView(old), old.creator # 0, NEW v, v = OldestCopy(0, old)
  PROVE  /\ GoodView(v) /\ v.creator = 0 /\ v.lowNo = old.lowNo
         /\ \A w \in View : old = w \/ Older(old, w) => Older(v, w)
         /\ \A id \in Nat : Unseen(v, id) => Unseen(old, id)
<1>1. /\ old \in View /\ 1 <= old.upId /\ old.upId <= old.lowId
      /\ old.lowId <= maxId /\ old.lowNo <= maxId
      /\ \A id \in old.ids : old.upId <= id /\ id < old.lowId
      /\ old.creator < old.lowId
  BY DEF GoodView
<1>2. /\ v \in View /\ v.creator = 0 /\ v.lowId = old.lowId /\ v.lowNo = old.lowNo
      /\ v.ids = old.ids \cup {old.creator}
      /\ 1 <= v.upId /\ v.upId <= v.lowId
      /\ \A id \in v.ids : v.upId <= id /\ id < v.lowId
  BY <1>1, OldestCopyIsGood
<1>3. old.creator \in Nat /\ old.lowId \in Nat /\ old.lowNo \in Nat /\ old.upId \in Nat
      /\ v.lowId \in Nat /\ v.upId \in Nat /\ v.ids \in SUBSET Nat
  BY <1>1, <1>2 DEF View
<1>4. v.creator \notin v.ids /\ v.creator < v.lowId
  BY <1>2, <1>3
<1>5. \A t \in Trx : Active(t) =>
        /\ trx[t].id < v.lowId => trx[t].id \in v.ids \/ trx[t].id = v.creator
        /\ trx[t].no # 0 => v.lowNo <= trx[t].no
  BY <1>2 DEF GoodView
<1>6. GoodView(v)
  BY <1>1, <1>2, <1>4, <1>5 DEF GoodView
<1>7. ASSUME NEW w \in View, old = w \/ Older(old, w)
      PROVE  Older(v, w)
  <2>1. w.lowId \in Nat /\ w.lowNo \in Nat
    BY DEF View
  <2> QED
    BY <1>2, <1>3, <1>7, <2>1 DEF Older
<1>8. ASSUME NEW id \in Nat, Unseen(v, id)
      PROVE  Unseen(old, id)
  <2>1. ~Sees(v, id)
    BY <1>2, <1>8 DEF Unseen
  <2>2. ~(id < v.lowId) \/ id \in v.ids
    BY <1>2, <2>1, SeesMeans
  <2>3. CASE id = old.creator
    BY <2>3 DEF Unseen
  <2>4. CASE ~(id < old.lowId) \/ id \in old.ids
    <3>1. ~Sees(old, id)
      BY <1>1, <2>4, SeesMeans
    <3> QED
      BY <3>1 DEF Unseen
  <2> QED
    BY <1>2, <2>2, <2>3, <2>4
<1> QED
  BY <1>2, <1>6, <1>7, <1>8

\* trx_purge: the new view of the purge is as old as the oldest.
LEMMA ViewsPurged ==
  ASSUME TrxInv, ViewsInv, HistInv, TrxPurge
  PROVE  /\ ViewsInv'
         /\ \/ Fresh(purge'.view, 0)
            \/ \E k \in DOMAIN views :
                 /\ purge'.view.lowNo = views[k].lowNo
                 /\ \A id \in Nat : Unseen(purge'.view, id) => Unseen(views[k], id)
<1>1. trx' = trx /\ maxId' = maxId /\ views' = views
  BY DEF TrxPurge
<1>2. \A u \in Trx : Active(u)' <=> Active(u)
  BY <1>1 DEF Active
<1>3. PICK v : v = purge'.view
  OBVIOUS
<1>4. v = IF views = <<>> THEN OpenNow(0, maxId, ActiveOf(Trx))
          ELSE OldestCopy(0, views[Len(views)])
  BY <1>3 DEF TrxPurge, HistInv
<1>5. SUFFICES /\ GoodView(v) /\ v.creator = 0
               /\ \A k \in DOMAIN views : Older(v, views[k])
               /\ \/ Fresh(v, 0)
                  \/ \E k \in DOMAIN views :
                       /\ v.lowNo = views[k].lowNo
                       /\ \A id \in Nat : Unseen(v, id) => Unseen(views[k], id)
  <2>1. GoodView(purge.view)' /\ purge'.view.creator = 0
    BY <1>1, <1>2, <1>3, <1>5 DEF GoodView
  <2>2. \A k \in DOMAIN views' : GoodView(views[k])' /\ Older(purge.view, views[k])'
    BY <1>1, <1>2, <1>3, <1>5 DEF GoodView, Older, ViewsInv
  <2>3. \A k \in DOMAIN views' : \E t \in Trx : Active(t)' /\ views'[k].creator = trx'[t].id
    BY <1>1, <1>2 DEF ViewsInv
  <2>4. \A k, j \in DOMAIN views' : k < j =>
          Older(views[j], views[k])' /\ views'[j].creator # views'[k].creator
    BY <1>1 DEF Older, ViewsInv
  <2>5. ViewsInv'
    BY <1>1, <2>1, <2>2, <2>3, <2>4 DEF ViewsInv
  <2> QED
    BY <1>3, <1>5, <2>5
<1>6. CASE views = <<>>
  <2>1. v = OpenNow(0, maxId, ActiveOf(Trx))
    BY <1>4, <1>6
  <2>2. 0 < maxId /\ \A u \in Trx : Active(u) => trx[u].id # 0
    BY DEF TrxInv
  <2>3. Fresh(v, 0)
    BY <2>1, <2>2, OpenNowIsFresh
  <2> QED
    BY <1>6, <2>3 DEF Fresh
<1>7. CASE views # <<>>
  <2>1. v = OldestCopy(0, views[Len(views)])
    BY <1>4, <1>7
  <2>2. /\ Len(views) \in DOMAIN views /\ DOMAIN views = 1 .. Len(views) /\ Len(views) \in Nat
        /\ \A k \in DOMAIN views : views[k] \in View
    BY <1>7 DEF ViewsInv
  <2>3. GoodView(views[Len(views)])
    BY <2>2 DEF ViewsInv
  <2>4. views[Len(views)].creator # 0
    BY <2>2 DEF ViewsInv, TrxInv
  <2>5. PICK old : old = views[Len(views)]
    OBVIOUS
  <2>6. /\ GoodView(v) /\ v.creator = 0 /\ v.lowNo = old.lowNo
        /\ \A w \in View : old = w \/ Older(old, w) => Older(v, w)
        /\ \A id \in Nat : Unseen(v, id) => Unseen(old, id)
    BY <2>1, <2>3, <2>4, <2>5, CopyIsOlder
  <2>7. \A k \in DOMAIN views : k = Len(views) \/ k < Len(views)
    BY <2>2
  <2>8. \A k \in DOMAIN views : old = views[k] \/ Older(old, views[k])
    BY <2>2, <2>5, <2>7 DEF ViewsInv
  <2> QED
    BY <2>2, <2>5, <2>6, <2>8
<1> QED
  BY <1>6, <1>7

\* The purge keeps its view until it starts again.
LEMMA PurgeViewStays ==
  ASSUME HistInv, FetchNextRec \/ StopPurge
  PROVE  purge'.view = purge.view
BY DEF HistInv, FetchNextRec, StopPurge, Chosen

\* Every step keeps ViewsInv.
LEMMA ViewsStep ==
  ASSUME TrxInv, TrxInv', Grown, ViewsInv, HistInv, [Next]_vars
  PROVE  ViewsInv'
<1>0. trx \in [Trx -> TrxObject]
  BY DEF TrxInv
<1>1. ASSUME views' = views, purge'.view = purge.view,
             \A t \in Trx : Active(t) => Active(t)' /\ trx'[t].id = trx[t].id
      PROVE  ViewsInv'
  BY <1>1, ViewsSame
<1>2. ASSUME NEW t \in Trx,
             Start(t) \/ (\E r \in Rows : Update(t, r)) \/ Insert(t) \/ CommitNumber(t)
               \/ CommitLogged(t) \/ CommitEnd(t)
      PROVE  ViewsInv'
  <2>1. views' = views /\ purge' = purge
    BY <1>2 DEF Start, Update, Insert, CommitNumber, CommitLogged, CommitEnd
  <2>2. ASSUME NEW u \in Trx, Active(u)
        PROVE  Active(u)' /\ trx'[u].id = trx[u].id
    <3>1. CASE u # t
      <4>1. trx'[u] = trx[u]
        BY <1>0, <1>2, <3>1 DEF Start, Update, Insert, CommitNumber, CommitLogged, CommitEnd
      <4> QED
        BY <2>2, <4>1 DEF Active
    <3>2. CASE u = t
      <4>1. ~Start(t) /\ ~CommitEnd(t)
        BY <2>2, <3>2 DEF Active, Start, CommitEnd
      <4>2. /\ trx'[t].id = trx[t].id
            /\ trx'[t].state \in {trx[t].state, "NUMBERED", "LOGGED"}
        BY <1>0, <1>2, <4>1 DEF Update, Insert, CommitNumber, CommitLogged, TrxObject
      <4> QED
        BY <2>2, <3>2, <4>2 DEF Active
    <3> QED
      BY <3>1, <3>2
  <2> QED
    BY <1>1, <2>1, <2>2
<1>3. ASSUME NEW t \in Trx, CommitUnlogged(t) \/ CommitInMemory(t)
      PROVE  ViewsInv'
  <2>1. purge' = purge /\ Active(t) /\ Close(t)
    BY <1>3 DEF CommitUnlogged, CommitInMemory, Active
  <2>2. \A u \in Trx \ {t} : trx'[u] = trx[u]
    BY <1>0, <1>3 DEF CommitUnlogged, CommitInMemory
  <2>3. \A u \in Trx \ {t} : Active(u) => Active(u)' /\ trx'[u].id = trx[u].id
    BY <2>2 DEF Active
  <2> QED
    BY <2>1, <2>3, ViewsClosed
<1>4. ASSUME NEW t \in Trx, AssignReadView(t)
      PROVE  ViewsInv'
  BY <1>4, ViewsOpened
<1>5. CASE TrxPurge
  BY <1>5, ViewsPurged
<1>6. ASSUME trx' = trx, views' = views, purge'.view = purge.view
      PROVE  ViewsInv'
  BY <1>1, <1>6 DEF Active
<1>7. CASE FetchNextRec \/ StopPurge
  <2>1. trx' = trx /\ views' = views
    BY <1>7 DEF FetchNextRec, StopPurge
  <2> QED
    BY <1>6, <1>7, <2>1, PurgeViewStays
<1>8. CASE UNCHANGED vars
  BY <1>6, <1>8 DEF vars
<1> QED
  BY <1>2, <1>3, <1>4, <1>5, <1>7, <1>8 DEF Next

-----------------------------------------------------------------------------
(* The history list                                                        *)

\* Truncation cuts a beginning off.
LEMMA TruncatedIs ==
  ASSUME hist \in Seq(Log), NEW limit \in Nat
  PROVE  /\ Truncated(limit) \in Seq(Log)
         /\ \E d \in 0 .. Len(hist) :
              /\ Len(Truncated(limit)) = Len(hist) - d
              /\ \A k \in DOMAIN Truncated(limit) :
                   k + d \in DOMAIN hist /\ Truncated(limit)[k] = hist[k + d]
              /\ \A k \in DOMAIN hist : hist[k].no >= limit =>
                   k - d \in DOMAIN Truncated(limit) /\ Truncated(limit)[k - d] = hist[k]
<1> DEFINE kept == {k \in DOMAIN hist : hist[k].no >= limit}
<1>1. Len(hist) \in Nat /\ DOMAIN hist = 1 .. Len(hist)
  OBVIOUS
<1>2. CASE kept = {}
  <2>1. Truncated(limit) = <<>>
    BY <1>2 DEF Truncated
  <2>2. \A k \in DOMAIN hist : ~(hist[k].no >= limit)
    BY <1>2
  <2>3. Truncated(limit) \in Seq(Log) /\ Len(Truncated(limit)) = 0 /\ DOMAIN Truncated(limit) = {}
    BY <2>1
  <2> HIDE DEF kept
  <2>4. Len(hist) \in 0 .. Len(hist) /\ 0 = Len(hist) - Len(hist)
    BY <1>1
  <2> QED
    BY <2>2, <2>3, <2>4
<1>3. CASE kept # {}
  <2> DEFINE m == Min(kept)
             T == SubSeq(hist, m, Len(hist))
  <2>1. kept \in SUBSET (0 .. Len(hist))
    BY <1>1
  <2>2. m \in kept /\ \A x \in kept : m <= x
    BY <1>1, <1>3, <2>1, MinIsLeast
  <2>3. Truncated(limit) = T
    BY <1>3 DEF Truncated
  <2>4. m \in 1 .. Len(hist)
    BY <1>1, <2>2
  <2>5. \A k \in DOMAIN hist : hist[k].no >= limit => m <= k
    BY <2>2
  <2> HIDE DEF m, kept
  <2>6. T \in Seq(Log) /\ Len(T) = Len(hist) - (m - 1)
    BY <1>1, <2>4
  <2>7. \A k \in 1 .. Len(hist) - (m - 1) : T[k] = hist[m + k - 1]
    BY <1>1, <2>4
  <2> HIDE DEF T
  <2> DEFINE d == m - 1
  <2>8. d \in 0 .. Len(hist) /\ Len(T) = Len(hist) - d /\ DOMAIN T = 1 .. Len(hist) - d
    BY <1>1, <2>4, <2>6
  <2>9. ASSUME NEW k \in DOMAIN T
        PROVE  k + d \in DOMAIN hist /\ T[k] = hist[k + d]
    <3>1. k + d \in DOMAIN hist /\ k + d = m + k - 1 /\ k \in 1 .. Len(hist) - (m - 1)
      BY <1>1, <2>4, <2>8
    <3> QED
      BY <2>7, <3>1
  <2>10. ASSUME NEW k \in DOMAIN hist, hist[k].no >= limit
         PROVE  k - d \in DOMAIN T /\ T[k - d] = hist[k]
    <3>1. m <= k
      BY <2>5, <2>10
    <3>2. k - d \in DOMAIN T /\ (k - d) + d = k
      BY <1>1, <2>4, <2>8, <3>1
    <3> HIDE DEF d
    <3> QED
      BY <2>9, <3>2
  <2> HIDE DEF d
  <2> QED
    BY <2>3, <2>6, <2>8, <2>9, <2>10
<1> QED
  BY <1>2, <1>3

\* What the purge is at is not removed, nor what a number not below its view
\* belongs to.
LEMMA LimitIsLow ==
  ASSUME HistInv, GoodView(purge.view), NEW p, p = Chosen(purge, last), NEW limit, limit = LimitOf(p)
  PROVE  /\ p \in [on : BOOLEAN, stored : BOOLEAN, no : Nat, view : View]
         /\ p.stored => last # NoLog /\ p.no = last.no
         /\ limit \in Nat /\ limit <= purge.view.lowNo /\ limit <= p.no
         /\ last # NoLog => p.stored
<1>1. /\ purge \in [on : BOOLEAN, stored : BOOLEAN, no : Nat, view : View] /\ last \in Log
      /\ purge.stored => last # NoLog /\ purge.no = last.no
  BY DEF HistInv, HistoryInOrder
<1>2. last.no \in Nat /\ purge.view.lowNo \in Nat
  BY <1>1 DEF Log, View
<1>3. /\ p \in [on : BOOLEAN, stored : BOOLEAN, no : Nat, view : View]
      /\ p.stored => last # NoLog /\ p.no = last.no
      /\ last # NoLog => p.stored
  <2>1. CASE purge.stored \/ last = NoLog
    BY <1>1, <2>1 DEF Chosen
  <2>2. CASE ~(purge.stored \/ last = NoLog)
    <3>1. p = [purge EXCEPT !.stored = TRUE, !.no = last.no]
      BY <2>2 DEF Chosen
    <3> QED
      BY <1>1, <1>2, <2>2, <3>1
  <2> QED
    BY <2>1, <2>2
<1>4. p.no \in Nat
  BY <1>3
<1>5. limit \in Nat /\ limit <= purge.view.lowNo /\ limit <= p.no
  <2>1. CASE p.no >= purge.view.lowNo
    BY <1>2, <1>4, <2>1 DEF LimitOf
  <2>2. CASE ~(p.no >= purge.view.lowNo)
    BY <1>2, <1>4, <2>2 DEF LimitOf
  <2> QED
    BY <2>1, <2>2
<1> QED
  BY <1>3, <1>5

\* The history list does not change, nor does the purge.
LEMMA HistSame ==
  ASSUME TrxInv, TrxInv', Grown, HistInv, hist' = hist, last' = last,
         purge' \in [on : BOOLEAN, stored : BOOLEAN, no : Nat, view : View],
         purge'.stored = purge.stored, purge'.no = purge.no,
         \A t \in Trx : trx'[t].state = "NUMBERED" =>
           \/ trx[t].state = "NUMBERED" /\ trx'[t].no = trx[t].no
           \/ maxId <= trx'[t].no
  PROVE  HistInv'
<1>1. /\ maxId \in Nat /\ maxId' \in Nat /\ maxId <= maxId'
      /\ \A k \in DOMAIN hist : hist[k].no \in Nat /\ hist[k].no # 0 /\ hist[k].no < maxId
      /\ \A t \in Trx : trx'[t].no \in Nat
  <2>1. maxId \in Nat /\ maxId' \in Nat /\ maxId <= maxId'
    BY DEF TrxInv, Grown
  <2>2. \A k \in DOMAIN hist : hist[k] \in Log /\ hist[k].no # 0 /\ hist[k].no < maxId
    BY DEF HistInv
  <2>3. \A t \in Trx : trx'[t].no \in Nat
    BY DEF TrxInv, TrxObject
  <2> QED
    BY <2>1, <2>2, <2>3 DEF Log
<1>2. \A k \in DOMAIN hist : hist[k].no < maxId'
  BY <1>1
<1>3. \A k \in DOMAIN hist : \A t \in Trx : trx'[t].state = "NUMBERED" => hist[k].no < trx'[t].no
  BY <1>1 DEF HistInv
<1>4. HistoryInOrder'
  BY DEF HistInv, HistoryInOrder
<1> QED
  BY <1>1, <1>2, <1>3, <1>4 DEF HistInv

\* trx_purge_add_update_undo_to_history: the number is larger than all others.
LEMMA HistLogged ==
  ASSUME TrxInv, TrxInv', HistInv, NEW t \in Trx, CommitLogged(t)
  PROVE  HistInv'
<1> DEFINE log == [log |-> trx[t].log, no |-> trx[t].no]
<1>1. /\ hist' = Append(hist, log) /\ last' = (IF last = NoLog THEN log ELSE last)
      /\ trx' = [trx EXCEPT ![t].state = "LOGGED", ![t].log = 0]
      /\ maxId' = maxId /\ purge' = purge /\ trx[t].state = "NUMBERED"
  BY DEF CommitLogged
<1>2. /\ trx[t].no \in Nat /\ trx[t].no # 0 /\ trx[t].no < maxId /\ trx[t].log \in Nat
  BY <1>1 DEF TrxInv, TrxObject
<1>3. log \in Log /\ log # NoLog /\ log.no = trx[t].no
  BY <1>2 DEF Log, NoLog
<1> HIDE DEF log
<1>4. /\ hist \in Seq(Log) /\ last \in Log /\ Len(hist) \in Nat /\ DOMAIN hist = 1 .. Len(hist)
  BY DEF HistInv
<1>5. /\ hist' \in Seq(Log) /\ last' \in Log /\ DOMAIN hist' = 1 .. Len(hist) + 1
      /\ hist'[Len(hist) + 1] = log /\ \A k \in DOMAIN hist : hist'[k] = hist[k]
  BY <1>1, <1>3, <1>4
<1>6. \A k \in DOMAIN hist' : k = Len(hist) + 1 \/ k \in DOMAIN hist
  BY <1>4, <1>5
<1>7. \A k \in DOMAIN hist : hist[k].no < log.no
  BY <1>1, <1>3 DEF HistInv
<1>8. \A i, j \in DOMAIN hist' : i < j => hist'[i].no < hist'[j].no
  <2> SUFFICES ASSUME NEW i \in DOMAIN hist', NEW j \in DOMAIN hist', i < j
               PROVE  hist'[i].no < hist'[j].no
    OBVIOUS
  <2>1. i \in DOMAIN hist
    BY <1>4, <1>5
  <2>2. CASE j = Len(hist) + 1
    BY <1>5, <1>7, <2>1, <2>2
  <2>3. CASE j \in DOMAIN hist
    BY <1>5, <2>1, <2>3 DEF HistInv, HistoryInOrder
  <2> QED
    BY <1>6, <2>2, <2>3
<1>9. last' # NoLog => last' \in {hist'[k] : k \in DOMAIN hist'}
  <2>1. Len(hist) + 1 \in DOMAIN hist' /\ \A k \in DOMAIN hist : k \in DOMAIN hist'
    BY <1>4, <1>5
  <2> QED
    BY <1>1, <1>5, <2>1 DEF HistInv, HistoryInOrder
<1>10. purge'.stored => last' # NoLog /\ purge'.no = last'.no
  BY <1>1, <1>3 DEF HistInv, HistoryInOrder
<1>11. \A u \in Trx : trx'[u].state # "NUMBERED"
  <2>1. trx'[t].state = "LOGGED" /\ \A u \in Trx \ {t} : trx'[u] = trx[u]
    BY <1>1 DEF TrxInv, TrxObject
  <2> QED
    BY <1>1, <2>1 DEF TrxInv
<1>12. \A k \in DOMAIN hist' : hist'[k].no # 0 /\ hist'[k].no < maxId'
  BY <1>1, <1>2, <1>3, <1>5, <1>6 DEF HistInv
<1> QED
  BY <1>1, <1>5, <1>8, <1>9, <1>10, <1>11, <1>12 DEF HistInv, HistoryInOrder

\* trx_purge_fetch_next_rec: the purge moves to the next log.
LEMMA HistFetched ==
  ASSUME TrxInv, ViewsInv, HistInv, FetchNextRec
  PROVE  HistInv'
<1> DEFINE p == Chosen(purge, last)
           k == PlaceOf(last) + 1
<1>1. /\ last' = hist[k] /\ purge' = Chosen([p EXCEPT !.stored = FALSE], hist[k])
      /\ trx' = trx /\ maxId' = maxId /\ hist' = hist /\ k <= Len(hist) /\ p.stored
  BY DEF FetchNextRec
<1>2. /\ p \in [on : BOOLEAN, stored : BOOLEAN, no : Nat, view : View]
      /\ p.stored => last # NoLog /\ p.no = last.no
  BY LimitIsLow DEF ViewsInv
<1>3. k \in DOMAIN hist
  <2>1. \E j \in DOMAIN hist : hist[j] = last
    BY <1>1, <1>2 DEF HistInv, HistoryInOrder
  <2>2. PlaceOf(last) \in DOMAIN hist
    BY <2>1 DEF PlaceOf
  <2>3. hist \in Seq(Log) /\ Len(hist) \in Nat /\ DOMAIN hist = 1 .. Len(hist)
    BY DEF HistInv
  <2> QED
    BY <1>1, <2>2, <2>3
<1>4. PICK q : q = [p EXCEPT !.stored = FALSE]
  OBVIOUS
<1>5. /\ q \in [on : BOOLEAN, stored : BOOLEAN, no : Nat, view : View] /\ ~q.stored
  BY <1>2, <1>4
<1> HIDE DEF p, k
<1>6. PICK l : l = hist[k]
  OBVIOUS
<1>7. l \in Log /\ l.no \in Nat /\ l # NoLog
  <2>1. l \in Log /\ l.no # 0
    BY <1>3, <1>6 DEF HistInv
  <2> QED
    BY <2>1 DEF Log, NoLog
<1>8. purge' = [q EXCEPT !.stored = TRUE, !.no = l.no] /\ last' = l
  BY <1>1, <1>4, <1>5, <1>6, <1>7 DEF Chosen
<1>9. /\ purge' \in [on : BOOLEAN, stored : BOOLEAN, no : Nat, view : View] /\ purge'.no = last'.no
  BY <1>5, <1>7, <1>8
<1>10. HistoryInOrder'
  BY <1>1, <1>3, <1>6, <1>7, <1>8, <1>9 DEF HistInv, HistoryInOrder
<1> QED
  BY <1>1, <1>7, <1>8, <1>9, <1>10 DEF HistInv

\* The logs that are removed are older than the one the purge is at.
LEMMA HistStopped ==
  ASSUME TrxInv, ViewsInv, HistInv, StopPurge
  PROVE  HistInv'
<1>1. PICK p : p = Chosen(purge, last)
  OBVIOUS
<1>2. PICK limit : limit = LimitOf(p)
  OBVIOUS
<1>3. /\ purge' = [p EXCEPT !.on = FALSE] /\ hist' = Truncated(limit)
      /\ trx' = trx /\ maxId' = maxId /\ last' = last
  BY <1>1, <1>2 DEF StopPurge
<1>4. /\ p \in [on : BOOLEAN, stored : BOOLEAN, no : Nat, view : View]
      /\ p.stored => last # NoLog /\ p.no = last.no
      /\ limit \in Nat /\ limit <= p.no
      /\ last # NoLog => p.stored
  BY <1>1, <1>2, LimitIsLow DEF ViewsInv
<1>5. hist \in Seq(Log)
  BY DEF HistInv
<1>6. PICK d \in 0 .. Len(hist) :
           /\ Len(hist') = Len(hist) - d
           /\ \A k \in DOMAIN hist' : k + d \in DOMAIN hist /\ hist'[k] = hist[k + d]
           /\ \A k \in DOMAIN hist : hist[k].no >= limit =>
                k - d \in DOMAIN hist' /\ hist'[k - d] = hist[k]
  <2>1. PICK h : h = Truncated(limit)
    OBVIOUS
  <2> QED
    BY <1>3, <1>4, <1>5, <2>1, TruncatedIs
<1>7. ASSUME NEW i \in DOMAIN hist', NEW j \in DOMAIN hist', i < j
      PROVE  hist'[i].no < hist'[j].no
  <2>1. i \in Nat /\ j \in Nat /\ d \in Nat /\ i + d < j + d
    BY <1>5, <1>7
  <2>2. hist[i + d].no < hist[j + d].no
    BY <1>6, <2>1 DEF HistInv, HistoryInOrder
  <2> QED
    BY <1>6, <2>2
<1>8. ASSUME last # NoLog
      PROVE  last' \in {hist'[k] : k \in DOMAIN hist'}
  <2>1. PICK k \in DOMAIN hist : hist[k] = last
    BY <1>8 DEF HistInv, HistoryInOrder
  <2>2. last.no >= limit
    BY <1>4, <1>8 DEF HistInv, Log
  <2> QED
    BY <1>3, <1>6, <2>1, <2>2
<1>9. /\ purge' \in [on : BOOLEAN, stored : BOOLEAN, no : Nat, view : View]
      /\ purge'.stored = p.stored /\ purge'.no = p.no
  BY <1>3, <1>4
<1>10. HistoryInOrder'
  BY <1>3, <1>4, <1>7, <1>8, <1>9 DEF HistoryInOrder
<1>11. ASSUME NEW k \in DOMAIN hist'
       PROVE  /\ hist'[k].no # 0 /\ hist'[k].no < maxId'
              /\ \A t \in Trx : trx'[t].state = "NUMBERED" => hist'[k].no < trx'[t].no
  BY <1>3, <1>6 DEF HistInv
<1>12. hist' \in Seq(Log) /\ last' \in Log
  BY <1>3, <1>4, <1>5, TruncatedIs DEF HistInv
<1> QED
  BY <1>3, <1>9, <1>10, <1>11, <1>12 DEF HistInv

\* A transaction that has ended.
LEMMA LeftIs ==
  ASSUME trx \in [Trx -> TrxObject], NEW t \in Trx, CommitUnlogged(t) \/ CommitEnd(t)
  PROVE  trx'[t].state = "NOT_STARTED" /\ trx'[t].log = trx[t].log /\ ~Active(t)'
<1>1. trx[t] \in TrxObject
  OBVIOUS
<1>2. PICK o : o = Left(t)
  OBVIOUS
<1>3. o \in TrxObject /\ o.state = "NOT_STARTED" /\ o.log = trx[t].log
  BY <1>1, <1>2 DEF Left, TrxObject, States
<1>4. trx'[t] = o \/ trx'[t] = [o EXCEPT !.ins = FALSE]
  <2>1. CASE CommitUnlogged(t)
    BY <1>2, <2>1 DEF CommitUnlogged
  <2>2. CASE CommitEnd(t)
    BY <1>2, <2>2 DEF CommitEnd
  <2> QED
    BY <2>1, <2>2
<1>5. [o EXCEPT !.ins = FALSE].state = o.state /\ [o EXCEPT !.ins = FALSE].log = o.log
  BY <1>3 DEF TrxObject
<1>6. trx'[t].state = "NOT_STARTED" /\ trx'[t].log = trx[t].log
  BY <1>3, <1>4, <1>5
<1> QED
  BY <1>6 DEF Active

\* Every step keeps HistInv.
LEMMA HistStep ==
  ASSUME TrxInv, TrxInv', Grown, ViewsInv, ViewsInv', HistInv, [Next]_vars
  PROVE  HistInv'
<1>1. trx \in [Trx -> TrxObject] /\ maxId \in Nat
      /\ purge \in [on : BOOLEAN, stored : BOOLEAN, no : Nat, view : View]
  BY DEF TrxInv, HistInv
<1>2. ASSUME NEW t \in Trx,
             \/ Start(t) \/ AssignReadView(t) \/ Insert(t) \/ (\E r \in Rows : Update(t, r))
             \/ CommitUnlogged(t) \/ CommitNumber(t) \/ CommitInMemory(t) \/ CommitEnd(t)
      PROVE  HistInv'
  <2>1. hist' = hist /\ last' = last /\ purge' = purge
    BY <1>2 DEF Start, AssignReadView, Insert, Update, CommitUnlogged, CommitNumber,
                CommitInMemory, CommitEnd
  <2>2. \A u \in Trx \ {t} : trx'[u] = trx[u]
    BY <1>1, <1>2 DEF Start, AssignReadView, Insert, Update, CommitUnlogged, CommitNumber,
                CommitInMemory, CommitEnd
  <2>3. trx'[t].state = "NUMBERED" => maxId <= trx'[t].no
    <3>1. CASE CommitNumber(t)
      BY <1>1, <3>1 DEF CommitNumber, TrxObject
    <3>2. CASE Start(t) \/ CommitInMemory(t)
      <4>1. trx'[t].state # "NUMBERED"
        BY <1>1, <3>2 DEF Start, CommitInMemory, TrxObject
      <4> QED
        BY <4>1
    <3>3. CASE CommitUnlogged(t) \/ CommitEnd(t)
      <4>1. trx'[t].state # "NUMBERED"
        BY <1>1, <3>3, LeftIs
      <4> QED
        BY <4>1
    <3>4. CASE AssignReadView(t) \/ Insert(t) \/ \E r \in Rows : Update(t, r)
      <4>1. trx'[t].state = "ACTIVE"
        BY <1>1, <3>4 DEF AssignReadView, Insert, Update, TrxObject
      <4> QED
        BY <4>1
    <3> QED
      BY <1>2, <3>1, <3>2, <3>3, <3>4
  <2>4. \A u \in Trx : trx'[u].state = "NUMBERED" =>
          \/ trx[u].state = "NUMBERED" /\ trx'[u].no = trx[u].no
          \/ maxId <= trx'[u].no
    BY <2>2, <2>3
  <2> QED
    BY <1>1, <2>1, <2>4, HistSame
<1>3. ASSUME NEW t \in Trx, CommitLogged(t)
      PROVE  HistInv'
  BY <1>3, HistLogged
<1>4. CASE TrxPurge
  <2>1. trx' = trx /\ maxId' = maxId /\ hist' = hist /\ last' = last
    BY <1>4 DEF TrxPurge
  <2>2. PICK v : purge' = [purge EXCEPT !.on = TRUE, !.view = v]
    BY <1>4 DEF TrxPurge
  <2>3. purge'.view = v
    BY <1>1, <2>2
  <2>4. v \in View
    BY <2>3 DEF ViewsInv, GoodView
  <2>5. /\ purge' \in [on : BOOLEAN, stored : BOOLEAN, no : Nat, view : View]
        /\ purge'.stored = purge.stored /\ purge'.no = purge.no
    BY <1>1, <2>2, <2>4
  <2> QED
    BY <2>1, <2>5, HistSame
<1>5. CASE FetchNextRec
  BY <1>5, HistFetched
<1>6. CASE StopPurge
  BY <1>6, HistStopped
<1>7. CASE UNCHANGED vars
  <2>1. trx' = trx /\ maxId' = maxId /\ hist' = hist /\ last' = last /\ purge' = purge
    BY <1>7 DEF vars
  <2> QED
    BY <1>1, <2>1, HistSame
<1> QED
  BY <1>2, <1>3, <1>4, <1>5, <1>6, <1>7 DEF Next

-----------------------------------------------------------------------------
(* Rows and their undo logs                                                *)

\* Rows stay, and so do the logs of those who wrote them.
LEMMA RowsSame ==
  ASSUME TrxInv, TrxInv', Grown, RowsInv, row' = row, hist' = hist,
         \A t \in Trx : Active(t)' =>
           \/ /\ Active(t) /\ trx'[t].id = trx[t].id
              /\ \/ trx[t].state # "LOGGED" /\ trx'[t].state # "LOGGED" /\ trx'[t].log = trx[t].log
                 \/ trx[t].state = "LOGGED" /\ trx'[t] = trx[t]
           \/ maxId <= trx'[t].id
  PROVE  RowsInv'
<1>1. maxId \in Nat /\ maxId' \in Nat /\ maxId <= maxId'
  BY DEF TrxInv, Grown
<1>2. ASSUME NEW r \in Rows, NEW j \in DOMAIN row[r]
      PROVE  /\ row[r][j].id \in Nat /\ row[r][j].id < maxId
             /\ row[r][j].id # 0 => row[r][j].log # 0
             /\ \A t \in Trx : Active(t) /\ row[r][j].id = trx[t].id => WriterLog(t, row[r][j].log)
  <2>1. row[r][j] \in Version
    BY DEF RowsInv
  <2> QED
    BY <2>1 DEF RowsInv, Version
<1>3. ASSUME NEW r \in Rows, NEW j \in DOMAIN row[r], NEW t \in Trx,
             Active(t)', row[r][j].id = trx'[t].id
      PROVE  WriterLog(t, row[r][j].log)'
  <2>1. ~(maxId <= trx'[t].id)
    BY <1>1, <1>2, <1>3
  <2>2. /\ Active(t) /\ trx'[t].id = trx[t].id
        /\ \/ trx[t].state # "LOGGED" /\ trx'[t].state # "LOGGED" /\ trx'[t].log = trx[t].log
           \/ trx[t].state = "LOGGED" /\ trx'[t] = trx[t]
    BY <1>3, <2>1
  <2>3. WriterLog(t, row[r][j].log)
    BY <1>2, <1>3, <2>2
  <2> QED
    BY <2>2, <2>3 DEF WriterLog, InHist
<1>4. ASSUME NEW r \in Rows
      PROVE  /\ row'[r] # <<>> /\ row'[r][1].id = 0
             /\ \A j \in DOMAIN row'[r] :
                  /\ row'[r][j].id < maxId'
                  /\ row'[r][j].id # 0 => row'[r][j].log # 0
                  /\ \A t \in Trx : Active(t)' /\ row'[r][j].id = trx'[t].id =>
                       WriterLog(t, row[r][j].log)'
  <2>1. row[r] # <<>> /\ row[r][1].id = 0
    BY DEF RowsInv
  <2>2. \A j \in DOMAIN row[r] : row[r][j].id < maxId' /\ (row[r][j].id # 0 => row[r][j].log # 0)
    BY <1>1, <1>2
  <2> QED
    BY <1>3, <2>1, <2>2
<1> QED
  BY <1>4 DEF RowsInv

\* trx_undo_report_row_operation: the new version has a log that is in the slot.
LEMMA RowsUpdated ==
  ASSUME TrxInv, TrxInv', RowsInv, NEW t \in Trx, NEW q \in Rows, Update(t, q)
  PROVE  /\ RowsInv'
         /\ \A l : InSlot(l) => InSlot(l)'
         /\ \A r \in Rows : \A j \in DOMAIN row'[r] :
              \/ j \in DOMAIN row[r] /\ row'[r][j] = row[r][j]
              \/ InSlot(row[r][j].log)'
<1> DEFINE log == IF trx[t].log = 0 THEN trx[t].id ELSE trx[t].log
           new == [id |-> trx[t].id, log |-> log]
<1>1. /\ trx' = [trx EXCEPT ![t].log = log] /\ row' = [row EXCEPT ![q] = Append(@, new)]
      /\ maxId' = maxId /\ hist' = hist /\ trx[t].state = "ACTIVE"
  BY DEF Update
<1>2. /\ trx[t].id \in Nat /\ trx[t].id # 0 /\ trx[t].id < maxId /\ trx[t].log \in Nat
      /\ maxId \in Nat
  BY <1>1 DEF TrxInv, TrxObject, Active
<1>3. log \in Nat /\ log # 0
  BY <1>2
<1>4. new \in Version /\ new.id = trx[t].id /\ new.log = log
  BY <1>2, <1>3 DEF Version
<1>5. trx[t].log # 0 => log = trx[t].log
  OBVIOUS
<1> HIDE DEF log, new
<1>6. /\ trx'[t].log = log /\ trx'[t].id = trx[t].id /\ trx'[t].state = "ACTIVE"
      /\ \A u \in Trx \ {t} : trx'[u] = trx[u]
  BY <1>1 DEF TrxInv, TrxObject
<1>7. \A l : InSlot(l) => InSlot(l)'
  <2> SUFFICES ASSUME NEW l, InSlot(l)
               PROVE  InSlot(l)'
    OBVIOUS
  <2>1. PICK u \in Trx : trx[u].log = l /\ l # 0
    BY DEF InSlot
  <2>2. trx'[u].log = l
    BY <1>5, <1>6, <2>1
  <2> QED
    BY <2>1, <2>2 DEF InSlot
<1>8. /\ row \in [Rows -> Seq(Version)] /\ row' \in [Rows -> Seq(Version)]
      /\ \A r \in Rows \ {q} : row'[r] = row[r]
      /\ row[q] \in Seq(Version) /\ row'[q] = Append(row[q], new)
  BY <1>1, <1>4 DEF RowsInv
<1>9. \A r \in Rows : \A j \in DOMAIN row'[r] :
         \/ j \in DOMAIN row[r] /\ row'[r][j] = row[r][j]
         \/ r = q /\ row'[r][j] = new
  BY <1>8
<1>10. \A r \in Rows : row'[r] # <<>> /\ row'[r][1].id = 0
  <2> SUFFICES ASSUME NEW r \in Rows
               PROVE  row'[r] # <<>> /\ row'[r][1].id = 0
    OBVIOUS
  <2>1. row[r] \in Seq(Version) /\ row[r] # <<>> /\ row[r][1].id = 0
    BY <1>8 DEF RowsInv
  <2> QED
    BY <1>8, <2>1, SMTT(90)
<1>11. ASSUME NEW r \in Rows, NEW j \in DOMAIN row'[r]
       PROVE  /\ row'[r][j].id < maxId'
              /\ row'[r][j].id # 0 => row'[r][j].log # 0
              /\ \A u \in Trx : Active(u)' /\ row'[r][j].id = trx'[u].id =>
                   WriterLog(u, row[r][j].log)'
  <2>1. CASE r = q /\ row'[r][j] = new
    <3>1. \A u \in Trx : Active(u)' /\ new.id = trx'[u].id => u = t
      <4>1. Active(t)' /\ trx'[t].id = new.id
        BY <1>4, <1>6 DEF Active
      <4> QED
        BY <4>1 DEF TrxInv
    <3>2. WriterLog(t, row[r][j].log)'
      BY <1>4, <1>6, <2>1 DEF WriterLog
    <3> QED
      BY <1>1, <1>2, <1>3, <1>4, <2>1, <3>1, <3>2
  <2>2. CASE j \in DOMAIN row[r] /\ row'[r][j] = row[r][j]
    <3>1. /\ row[r][j].id < maxId
          /\ row[r][j].id # 0 => row[r][j].log # 0
          /\ \A u \in Trx : Active(u) /\ row[r][j].id = trx[u].id => WriterLog(u, row[r][j].log)
      BY <2>2 DEF RowsInv
    <3>2. ASSUME NEW u \in Trx, Active(u)', row[r][j].id = trx'[u].id
          PROVE  WriterLog(u, row[r][j].log)'
      <4>1. Active(u) /\ trx'[u].id = trx[u].id
        BY <1>1, <1>6, <3>2 DEF Active
      <4>2. WriterLog(u, row[r][j].log)
        BY <3>1, <3>2, <4>1
      <4>3. CASE u = t
        <5>1. row[r][j].log = trx[t].log /\ row[r][j].log # 0
          BY <1>1, <1>2, <3>1, <3>2, <4>1, <4>2, <4>3 DEF WriterLog
        <5> QED
          BY <1>5, <1>6, <2>2, <4>3, <5>1 DEF WriterLog
      <4>4. CASE u # t
        BY <1>1, <1>6, <2>2, <4>2, <4>4 DEF WriterLog, InHist
      <4> QED
        BY <4>3, <4>4
    <3> QED
      BY <1>1, <2>2, <3>1, <3>2
  <2> QED
    BY <1>9, <2>1, <2>2
<1>12. RowsInv'
  BY <1>8, <1>10, <1>11 DEF RowsInv
<1>13. \A r \in Rows : \A j \in DOMAIN row'[r] :
         \/ j \in DOMAIN row[r] /\ row'[r][j] = row[r][j]
         \/ InSlot(row[r][j].log)'
  BY <1>3, <1>4, <1>6, <1>9 DEF InSlot
<1> QED
  BY <1>7, <1>12, <1>13

\* Numbers in the history list and in a view can be compared.
LEMMA InHistLower ==
  ASSUME HistInv, NEW l, NEW m \in Nat, NEW n \in Nat, n <= m, InHist(l, m)
  PROVE  InHist(l, n)
<1>1. PICK k \in DOMAIN hist : hist[k].log = l /\ m <= hist[k].no
  BY DEF InHist
<1>2. hist[k] \in Log
  BY DEF HistInv
<1> QED
  BY <1>1, <1>2 DEF InHist, Log

\* A log goes from the slot of its transaction to the history list.
LEMMA LogsLogged ==
  ASSUME TrxInv, HistInv, NEW t \in Trx, CommitLogged(t)
  PROVE  /\ \A l, n : InHist(l, n) => InHist(l, n)'
         /\ \E k \in DOMAIN hist' : hist'[k].log = trx[t].log /\ hist'[k].no = trx[t].no
         /\ \A l : InSlot(l) => InSlot(l)' \/ l = trx[t].log
<1> DEFINE log == [log |-> trx[t].log, no |-> trx[t].no]
<1>1. /\ hist' = Append(hist, log) /\ trx' = [trx EXCEPT ![t].state = "LOGGED", ![t].log = 0]
  BY DEF CommitLogged
<1>2. hist \in Seq(Log) /\ log \in Log
  BY DEF HistInv, TrxInv, TrxObject, Log
<1>3. Len(hist) + 1 \in DOMAIN hist' /\ hist'[Len(hist) + 1] = log
      /\ \A k \in DOMAIN hist : k \in DOMAIN hist' /\ hist'[k] = hist[k]
  BY <1>1, <1>2
<1>4. \A u \in Trx : u # t => trx'[u] = trx[u]
  BY <1>1 DEF TrxInv
<1>5. log.log = trx[t].log /\ log.no = trx[t].no
  OBVIOUS
<1> HIDE DEF log
<1>6. \A l, n : InHist(l, n) => InHist(l, n)'
  BY <1>3 DEF InHist
<1>7. \E k \in DOMAIN hist' : hist'[k].log = trx[t].log /\ hist'[k].no = trx[t].no
  BY <1>3, <1>5
<1>8. \A l : InSlot(l) => InSlot(l)' \/ l = trx[t].log
  BY <1>4 DEF InSlot
<1> QED
  BY <1>6, <1>7, <1>8

\* trx_purge_truncate_history: no view needs what is removed.
LEMMA LogsTruncated ==
  ASSUME TrxInv, ViewsInv, HistInv, StopPurge, NEW n \in Nat, purge.view.lowNo <= n,
         NEW l, InHist(l, n)
  PROVE  InHist(l, n)'
<1>1. PICK limit : limit = LimitOf(Chosen(purge, last))
  OBVIOUS
<1>2. hist' = Truncated(limit)
  BY <1>1 DEF StopPurge
<1>3. limit \in Nat /\ limit <= purge.view.lowNo
  <2>1. PICK p : p = Chosen(purge, last)
    OBVIOUS
  <2> QED
    BY <1>1, <2>1, LimitIsLow DEF ViewsInv
<1>4. PICK k \in DOMAIN hist : hist[k].log = l /\ n <= hist[k].no
  BY DEF InHist
<1>5. hist \in Seq(Log) /\ hist[k].no \in Nat /\ purge.view.lowNo \in Nat
  <2>1. hist \in Seq(Log) /\ hist[k] \in Log /\ purge.view \in View
    BY DEF HistInv, ViewsInv, GoodView
  <2> QED
    BY <2>1 DEF Log, View
<1>6. hist[k].no >= limit
  BY <1>3, <1>4, <1>5
<1>7. \E j \in DOMAIN Truncated(limit) : Truncated(limit)[j] = hist[k]
  BY <1>3, <1>5, <1>6, TruncatedIs
<1> QED
  BY <1>2, <1>4, <1>7 DEF InHist

\* Every step keeps RowsInv.
LEMMA RowsStep ==
  ASSUME TrxInv, TrxInv', Grown, ViewsInv, HistInv, RowsInv, [Next]_vars
  PROVE  RowsInv'
<1>1. trx \in [Trx -> TrxObject] /\ maxId \in Nat /\ \A t \in Trx : trx[t].no \in Nat
  BY DEF TrxInv, TrxObject
<1>2. ASSUME NEW t \in Trx,
             \/ Start(t) \/ AssignReadView(t) \/ Insert(t)
             \/ CommitUnlogged(t) \/ CommitNumber(t) \/ CommitInMemory(t) \/ CommitEnd(t)
      PROVE  RowsInv'
  <2>1. row' = row /\ hist' = hist
    BY <1>2 DEF Start, AssignReadView, Insert, CommitUnlogged, CommitNumber,
                CommitInMemory, CommitEnd
  <2>2. \A u \in Trx \ {t} : trx'[u] = trx[u]
    BY <1>1, <1>2 DEF Start, AssignReadView, Insert, CommitUnlogged, CommitNumber,
                CommitInMemory, CommitEnd
  <2>3. Active(t)' =>
          \/ /\ Active(t) /\ trx'[t].id = trx[t].id
             /\ \/ trx[t].state # "LOGGED" /\ trx'[t].state # "LOGGED" /\ trx'[t].log = trx[t].log
                \/ trx[t].state = "LOGGED" /\ trx'[t] = trx[t]
          \/ maxId <= trx'[t].id
    <3>1. CASE Start(t)
      BY <1>1, <3>1 DEF Start, TrxObject
    <3>2. CASE CommitInMemory(t)
      BY <1>1, <3>2 DEF CommitInMemory, TrxObject, Active
    <3>3. CASE CommitUnlogged(t) \/ CommitEnd(t)
      BY <1>1, <3>3, LeftIs
    <3>4. CASE AssignReadView(t) \/ Insert(t) \/ CommitNumber(t)
      <4>1. /\ trx[t].state = "ACTIVE" /\ trx'[t].state \in {"ACTIVE", "NUMBERED"}
            /\ trx'[t].id = trx[t].id /\ trx'[t].log = trx[t].log
        BY <1>1, <3>4 DEF AssignReadView, Insert, CommitNumber, TrxObject
      <4> QED
        BY <4>1 DEF Active
    <3> QED
      BY <1>2, <3>1, <3>2, <3>3, <3>4
  <2>4. \A u \in Trx : Active(u)' =>
          \/ /\ Active(u) /\ trx'[u].id = trx[u].id
             /\ \/ trx[u].state # "LOGGED" /\ trx'[u].state # "LOGGED" /\ trx'[u].log = trx[u].log
                \/ trx[u].state = "LOGGED" /\ trx'[u] = trx[u]
          \/ maxId <= trx'[u].id
    BY <2>2, <2>3 DEF Active
  <2> QED
    BY <2>1, <2>4, RowsSame
<1>3. ASSUME NEW t \in Trx, NEW r \in Rows, Update(t, r)
      PROVE  RowsInv'
  BY <1>3, RowsUpdated
<1>4. ASSUME trx' = trx, row' = row, maxId' = maxId,
             \A t \in Trx : \A l : trx[t].state = "LOGGED" /\ InHist(l, trx[t].no) => InHist(l, trx[t].no)'
      PROVE  RowsInv'
  <2>1. ASSUME NEW t \in Trx, NEW l, WriterLog(t, l)
        PROVE  WriterLog(t, l)'
    BY <1>4, <2>1 DEF WriterLog, InHist
  <2>2. \A t \in Trx : Active(t)' <=> Active(t)
    BY <1>4 DEF Active
  <2>3. ASSUME NEW r \in Rows, NEW j \in DOMAIN row'[r], NEW t \in Trx,
               Active(t)', row'[r][j].id = trx'[t].id
        PROVE  WriterLog(t, row[r][j].log)'
    <3>1. PICK l : l = row[r][j].log
      OBVIOUS
    <3>2. WriterLog(t, l)
      BY <1>4, <2>2, <2>3, <3>1 DEF RowsInv
    <3> QED
      BY <1>4, <2>1, <3>1, <3>2 DEF WriterLog, InHist
  <2> QED
    BY <1>4, <2>3 DEF RowsInv
<1>5. ASSUME NEW t \in Trx, CommitLogged(t)
      PROVE  RowsInv'
  <2>1. /\ trx' = [trx EXCEPT ![t].state = "LOGGED", ![t].log = 0] /\ row' = row
        /\ maxId' = maxId /\ trx[t].state = "NUMBERED"
    BY <1>5 DEF CommitLogged
  <2>2. /\ trx'[t].state = "LOGGED" /\ trx'[t].id = trx[t].id /\ trx'[t].no = trx[t].no
        /\ \A u \in Trx \ {t} : trx'[u] = trx[u]
    BY <1>1, <2>1 DEF TrxObject
  <2>3. \A u \in Trx : Active(u)' <=> Active(u)
    BY <2>1, <2>2 DEF Active
  <2>4. ASSUME NEW u \in Trx, NEW l, WriterLog(u, l)
        PROVE  WriterLog(u, l)'
    <3>1. CASE u = t
      <4>1. l = trx[t].log
        BY <2>1, <2>4, <3>1 DEF WriterLog
      <4>2. InHist(l, trx[t].no)'
        <5>1. PICK k \in DOMAIN hist' : hist'[k].log = trx[t].log /\ hist'[k].no = trx[t].no
          BY <1>5, LogsLogged
        <5>2. hist'[k].no <= hist'[k].no
          BY <1>1, <5>1
        <5> QED
          BY <2>2, <4>1, <5>1, <5>2 DEF InHist
      <4> QED
        BY <2>2, <3>1, <4>2 DEF WriterLog
    <3>2. CASE u # t
      <4>1. trx'[u] = trx[u]
        BY <2>2, <3>2
      <4>2. \A n : InHist(l, n) => InHist(l, n)'
        BY <1>5, LogsLogged
      <4> QED
        BY <2>4, <4>1, <4>2 DEF WriterLog, InHist
    <3> QED
      BY <3>1, <3>2
  <2>5. ASSUME NEW r \in Rows, NEW j \in DOMAIN row'[r], NEW u \in Trx,
               Active(u)', row'[r][j].id = trx'[u].id
        PROVE  WriterLog(u, row[r][j].log)'
    <3>1. PICK l : l = row[r][j].log
      OBVIOUS
    <3>2. trx'[u].id = trx[u].id
      BY <2>2
    <3>3. WriterLog(u, l)
      BY <2>1, <2>3, <2>5, <3>1, <3>2 DEF RowsInv
    <3>4. WriterLog(u, l)'
      BY <2>4, <3>3
    <3> QED
      BY <2>1, <3>1, <3>4 DEF WriterLog, InHist
  <2> QED
    BY <2>1, <2>5 DEF RowsInv
<1>6. CASE TrxPurge \/ FetchNextRec \/ UNCHANGED vars
  <2>1. trx' = trx /\ row' = row /\ maxId' = maxId /\ hist' = hist
    BY <1>6 DEF TrxPurge, FetchNextRec, vars
  <2> QED
    BY <1>4, <2>1 DEF InHist
<1>7. CASE StopPurge
  <2>1. trx' = trx /\ row' = row /\ maxId' = maxId
    BY <1>7 DEF StopPurge
  <2>2. ASSUME NEW t \in Trx, NEW l, trx[t].state = "LOGGED", InHist(l, trx[t].no)
        PROVE  InHist(l, trx[t].no)'
    <3>1. PICK n \in Nat : n = trx[t].no
      BY <1>1
    <3>2. purge.view.lowNo <= n
      BY <2>2, <3>1 DEF ViewsInv, GoodView, Active, TrxInv
    <3>3. InHist(l, n)'
      BY <1>7, <2>2, <3>1, <3>2, LogsTruncated
    <3> QED
      BY <2>1, <3>1, <3>3 DEF InHist
  <2> QED
    BY <1>4, <2>1, <2>2
<1> QED
  BY <1>2, <1>3, <1>5, <1>6, <1>7 DEF Next

\* A view that is opened finds the logs of the transactions it does not see.
LEMMA FreshIsKept ==
  ASSUME TrxInv, HistInv, RowsInv, NEW v, NEW c, Fresh(v, c),
         c # 0 => \E t \in Trx : trx[t].state = "ACTIVE" /\ trx[t].id = c
  PROVE  Kept(v)
<1> SUFFICES ASSUME NEW r \in Rows, NEW j \in DOMAIN row[r], Unseen(v, row[r][j].id)
             PROVE  InSlot(row[r][j].log) \/ InHist(row[r][j].log, v.lowNo)
  BY DEF Kept
<1>1. PICK id, l : id = row[r][j].id /\ l = row[r][j].log
  OBVIOUS
<1>2. /\ id \in Nat /\ id < maxId
      /\ id # 0 => l # 0
      /\ \A t \in Trx : Active(t) /\ id = trx[t].id => WriterLog(t, l)
  <2>1. row[r][j] \in Version
    BY DEF RowsInv
  <2> QED
    BY <1>1, <2>1 DEF RowsInv, Version
<1>3. /\ v \in View /\ v.lowId = maxId /\ v.creator = c /\ v.lowNo \in Nat
      /\ v.upId <= v.lowId /\ \A i \in v.ids : v.upId <= i
      /\ \A i \in v.ids : i # 0
  BY DEF Fresh, GoodView, View
<1>4. \A t \in Trx : trx[t].no \in Nat /\ (Active(t) /\ trx[t].no # 0 => v.lowNo <= trx[t].no)
  BY DEF Fresh, GoodView, TrxInv, TrxObject
<1>5. CASE id \in v.ids
  <2>1. PICK u \in Trx : Active(u) /\ id = trx[u].id
    BY <1>5 DEF Fresh
  <2>2. WriterLog(u, l) /\ l # 0
    BY <1>2, <1>3, <1>5, <2>1
  <2>3. CASE trx[u].state # "LOGGED"
    BY <1>1, <2>2, <2>3 DEF WriterLog, InSlot
  <2>4. CASE trx[u].state = "LOGGED"
    <3>1. v.lowNo <= trx[u].no /\ trx[u].no \in Nat
      BY <1>4, <2>1, <2>4 DEF TrxInv
    <3>2. InHist(l, trx[u].no)
      BY <2>2, <2>4 DEF WriterLog
    <3>3. PICK m, n : m = trx[u].no /\ n = v.lowNo
      OBVIOUS
    <3>4. InHist(l, n)
      BY <1>3, <3>1, <3>2, <3>3, InHistLower
    <3> QED
      BY <1>1, <3>3, <3>4
  <2> QED
    BY <2>3, <2>4
<1>6. CASE id # 0 /\ id = c
  <2>1. PICK u \in Trx : trx[u].state = "ACTIVE" /\ trx[u].id = c
    BY <1>6
  <2>2. WriterLog(u, l) /\ l # 0
    BY <1>2, <1>6, <2>1 DEF Active
  <2> QED
    BY <1>1, <2>1, <2>2 DEF WriterLog, InSlot
<1>7. id \in v.ids \/ (id # 0 /\ id = c)
  BY <1>1, <1>2, <1>3, SeesMeans DEF Unseen
<1> QED
  BY <1>5, <1>6, <1>7

\* The logs a view needs are there as long as they only move to the history.
LEMMA KeptStays ==
  ASSUME row' = row, NEW v, Kept(v),
         \A l : InSlot(l) => InSlot(l)' \/ InHist(l, v.lowNo)',
         \A l : InHist(l, v.lowNo) => InHist(l, v.lowNo)'
  PROVE  Kept(v)'
<1> SUFFICES ASSUME NEW r \in Rows, NEW j \in DOMAIN row[r], Unseen(v, row[r][j].id)
             PROVE  InSlot(row[r][j].log)' \/ InHist(row[r][j].log, v.lowNo)'
  BY DEF Kept, Unseen
<1>1. PICK l : l = row[r][j].log
  OBVIOUS
<1>2. InSlot(l) \/ InHist(l, v.lowNo)
  BY <1>1 DEF Kept
<1>3. InSlot(l)' \/ InHist(l, v.lowNo)'
  BY <1>2
<1> QED
  BY <1>1, <1>3 DEF InSlot, InHist

\* No log moves, and every view was one before.
LEMMA KeptSame ==
  ASSUME KeptInv, row' = row, hist' = hist, \A t \in Trx : trx'[t].log = trx[t].log,
         \A k \in DOMAIN views' : \E j \in DOMAIN views : views'[k] = views[j],
         purge'.view = purge.view
  PROVE  KeptInv'
<1>1. ASSUME NEW v, Kept(v)
      PROVE  Kept(v)'
  BY <1>1, KeptStays DEF InSlot, InHist
<1>2. ASSUME NEW k \in DOMAIN views'
      PROVE  Kept(views[k])'
  <2>1. PICK j \in DOMAIN views : views'[k] = views[j]
    BY <1>2
  <2>2. PICK v : v = views[j]
    OBVIOUS
  <2>3. Kept(v)'
    BY <1>1, <2>2 DEF KeptInv
  <2> QED
    BY <2>1, <2>2, <2>3 DEF Kept, Unseen
<1>3. Kept(purge.view)'
  <2>1. PICK v : v = purge.view
    OBVIOUS
  <2>2. Kept(v)'
    BY <1>1, <2>1 DEF KeptInv
  <2> QED
    BY <2>1, <2>2 DEF Kept, Unseen
<1> QED
  BY <1>2, <1>3 DEF KeptInv

\* Views stay, and each of them still finds what it needs.
LEMMA KeptByEach ==
  ASSUME KeptInv, ViewsInv, views' = views, purge'.view = purge.view,
         \A v : Kept(v) /\ GoodView(v) /\ (v = purge.view \/ Older(purge.view, v)) => Kept(v)'
  PROVE  KeptInv'
<1>1. ASSUME NEW k \in DOMAIN views'
      PROVE  Kept(views[k])'
  <2>1. PICK v : v = views[k]
    OBVIOUS
  <2>2. Kept(v)'
    BY <2>1 DEF KeptInv, ViewsInv
  <2> QED
    BY <2>1, <2>2 DEF Kept, Unseen
<1>2. Kept(purge.view)'
  <2>1. PICK v : v = purge.view
    OBVIOUS
  <2>2. Kept(v)'
    BY <2>1 DEF KeptInv, ViewsInv
  <2> QED
    BY <2>1, <2>2 DEF Kept, Unseen
<1> QED
  BY <1>1, <1>2 DEF KeptInv

\* Every step keeps KeptInv.
LEMMA KeptStep ==
  ASSUME TrxInv, TrxInv', Grown, ViewsInv, HistInv, RowsInv, KeptInv, [Next]_vars
  PROVE  KeptInv'
<1>1. trx \in [Trx -> TrxObject]
  BY DEF TrxInv
<1>2. ASSUME NEW t \in Trx,
             Start(t) \/ Insert(t) \/ CommitUnlogged(t) \/ CommitNumber(t)
               \/ CommitInMemory(t) \/ CommitEnd(t)
      PROVE  KeptInv'
  <2>1. row' = row /\ hist' = hist /\ purge' = purge
    BY <1>2 DEF Start, Insert, CommitUnlogged, CommitNumber, CommitInMemory, CommitEnd
  <2>2. \A u \in Trx \ {t} : trx'[u] = trx[u]
    BY <1>1, <1>2 DEF Start, Insert, CommitUnlogged, CommitNumber, CommitInMemory, CommitEnd
  <2>3. trx'[t].log = trx[t].log
    <3>1. CASE CommitUnlogged(t) \/ CommitEnd(t)
      BY <1>1, <3>1, LeftIs
    <3>2. CASE Start(t) \/ Insert(t) \/ CommitNumber(t) \/ CommitInMemory(t)
      BY <1>1, <3>2 DEF Start, Insert, CommitNumber, CommitInMemory, TrxObject
    <3> QED
      BY <1>2, <3>1, <3>2
  <2>4. \A k \in DOMAIN views' : \E j \in DOMAIN views : views'[k] = views[j]
    <3>1. CASE CommitUnlogged(t) \/ CommitInMemory(t)
      <4>1. Active(t) /\ Close(t)
        BY <3>1 DEF CommitUnlogged, CommitInMemory, Active
      <4>2. \A u \in Trx \ {t} : Active(u) => Active(u)' /\ trx'[u].id = trx[u].id
        BY <2>2 DEF Active
      <4> QED
        BY <2>1, <4>1, <4>2, ViewsClosed
    <3>2. CASE Start(t) \/ Insert(t) \/ CommitNumber(t) \/ CommitEnd(t)
      BY <3>2 DEF Start, Insert, CommitNumber, CommitEnd
    <3> QED
      BY <1>2, <3>1, <3>2
  <2>5. \A u \in Trx : trx'[u].log = trx[u].log
    BY <2>2, <2>3
  <2> QED
    BY <2>1, <2>4, <2>5, KeptSame
<1>3. ASSUME NEW t \in Trx, AssignReadView(t)
      PROVE  KeptInv'
  <2>1. trx' = trx /\ row' = row /\ hist' = hist /\ purge' = purge /\ trx[t].state = "ACTIVE"
    BY <1>3 DEF AssignReadView
  <2>2. PICK v : Fresh(v, trx[t].id) /\ views' = <<v>> \o views
    BY <1>3, ViewsOpened
  <2>3. Kept(v)
    <3>1. PICK c : c = trx[t].id
      OBVIOUS
    <3> QED
      BY <2>1, <2>2, <3>1, FreshIsKept
  <2>4. \A k \in DOMAIN views' : Kept(views'[k])
    <3>1. views \in Seq(View) /\ v \in View
      BY <2>2 DEF ViewsInv, Fresh, GoodView
    <3>2. \A k \in DOMAIN views' : views'[k] = v \/ \E j \in DOMAIN views : views'[k] = views[j]
      BY <2>2, <3>1
    <3> QED
      BY <2>3, <3>2 DEF KeptInv
  <2>5. \A k \in DOMAIN views' : Kept(views[k])'
    BY <2>1, <2>4 DEF Kept, InSlot, InHist, Unseen
  <2>6. Kept(purge.view)'
    BY <2>1 DEF KeptInv, Kept, InSlot, InHist, Unseen
  <2> QED
    BY <2>5, <2>6 DEF KeptInv
<1>4. ASSUME NEW t \in Trx, NEW q \in Rows, Update(t, q)
      PROVE  KeptInv'
  <2>1. views' = views /\ purge' = purge /\ hist' = hist
    BY <1>4 DEF Update
  <2>2. /\ \A l : InSlot(l) => InSlot(l)'
        /\ \A r \in Rows : \A j \in DOMAIN row'[r] :
             \/ j \in DOMAIN row[r] /\ row'[r][j] = row[r][j]
             \/ InSlot(row[r][j].log)'
    BY <1>4, RowsUpdated
  <2>3. ASSUME NEW v, Kept(v)
        PROVE  Kept(v)'
    <3> SUFFICES ASSUME NEW r \in Rows, NEW j \in DOMAIN row'[r], Unseen(v, row'[r][j].id)
                 PROVE  InSlot(row[r][j].log)' \/ InHist(row[r][j].log, v.lowNo)'
      BY DEF Kept, Unseen
    <3>1. CASE j \in DOMAIN row[r] /\ row'[r][j] = row[r][j]
      <4>1. PICK l : l = row[r][j].log
        OBVIOUS
      <4>2. InSlot(l) \/ InHist(l, v.lowNo)
        BY <2>3, <3>1, <4>1 DEF Kept
      <4>3. InSlot(l)' \/ InHist(l, v.lowNo)'
        BY <2>1, <2>2, <4>2 DEF InHist
      <4> QED
        BY <3>1, <4>1, <4>3 DEF InSlot, InHist
    <3> QED
      BY <2>2, <3>1
  <2> QED
    BY <2>1, <2>3, KeptByEach
<1>5. ASSUME NEW t \in Trx, CommitLogged(t)
      PROVE  KeptInv'
  <2>1. /\ views' = views /\ purge' = purge /\ row' = row /\ trx[t].state = "NUMBERED"
    BY <1>5 DEF CommitLogged
  <2>2. /\ \A l, n : InHist(l, n) => InHist(l, n)'
        /\ \E k \in DOMAIN hist' : hist'[k].log = trx[t].log /\ hist'[k].no = trx[t].no
        /\ \A l : InSlot(l) => InSlot(l)' \/ l = trx[t].log
    BY <1>5, LogsLogged
  <2>3. ASSUME NEW v, Kept(v), GoodView(v)
        PROVE  Kept(v)'
    <3>1. v.lowNo <= trx[t].no
      BY <2>1, <2>3 DEF GoodView, Active, TrxInv
    <3>2. \A l : InSlot(l) => InSlot(l)' \/ InHist(l, v.lowNo)'
      BY <2>2, <3>1 DEF InHist
    <3>3. \A l : InHist(l, v.lowNo) => InHist(l, v.lowNo)'
      BY <2>2
    <3> QED
      BY <2>1, <2>3, <3>2, <3>3, KeptStays
  <2> QED
    BY <2>1, <2>3, KeptByEach
<1>6. CASE TrxPurge
  <2>1. trx' = trx /\ row' = row /\ hist' = hist /\ views' = views
    BY <1>6 DEF TrxPurge
  <2>2. PICK v : v = purge'.view
    OBVIOUS
  <2>3. Kept(v)
    <3>1. CASE Fresh(v, 0)
      BY <3>1, FreshIsKept
    <3>2. CASE \E k \in DOMAIN views :
                 /\ v.lowNo = views[k].lowNo
                 /\ \A id \in Nat : Unseen(v, id) => Unseen(views[k], id)
      <4>1. \A r \in Rows : \A j \in DOMAIN row[r] : row[r][j].id \in Nat
        <5>1. \A r \in Rows : \A j \in DOMAIN row[r] : row[r][j] \in Version
          BY DEF RowsInv
        <5> QED
          BY <5>1 DEF Version
      <4> QED
        BY <3>2, <4>1 DEF KeptInv, Kept
    <3> QED
      BY <1>6, <2>2, <3>1, <3>2, ViewsPurged
  <2>4. Kept(purge.view)'
    BY <2>1, <2>2, <2>3 DEF Kept, InSlot, InHist, Unseen
  <2>5. \A k \in DOMAIN views' : Kept(views[k])'
    BY <2>1 DEF KeptInv, Kept, InSlot, InHist, Unseen
  <2> QED
    BY <2>4, <2>5 DEF KeptInv
<1>7. CASE FetchNextRec \/ UNCHANGED vars
  <2>1. trx' = trx /\ row' = row /\ hist' = hist /\ views' = views
    BY <1>7 DEF FetchNextRec, vars
  <2>2. purge'.view = purge.view
    BY <1>7, PurgeViewStays DEF vars
  <2> QED
    BY <2>1, <2>2, KeptSame
<1>8. CASE StopPurge
  <2>1. trx' = trx /\ row' = row /\ views' = views
    BY <1>8 DEF StopPurge
  <2>2. purge'.view = purge.view
    BY <1>8, PurgeViewStays
  <2>3. ASSUME NEW v, Kept(v), GoodView(v), v = purge.view \/ Older(purge.view, v)
        PROVE  Kept(v)'
    <3>1. v.lowNo \in Nat /\ purge.view.lowNo <= v.lowNo
      BY <2>3 DEF Older, GoodView, View
    <3>2. PICK n \in Nat : n = v.lowNo
      BY <3>1
    <3>3. \A l : InHist(l, n) => InHist(l, n)'
      BY <1>8, <3>1, <3>2, LogsTruncated
    <3>4. \A l : InSlot(l) => InSlot(l)'
      BY <2>1 DEF InSlot
    <3> QED
      BY <2>1, <2>3, <3>2, <3>3, <3>4, KeptStays
  <2> QED
    BY <2>1, <2>2, <2>3, KeptByEach
<1> QED
  BY <1>2, <1>3, <1>4, <1>5, <1>6, <1>7, <1>8 DEF Next

-----------------------------------------------------------------------------
(* What had committed                                                      *)

\* No view is new, and who has one keeps the snapshot.
LEMMA SnapSame ==
  ASSUME TrxInv, Grown, ViewsInv, SnapInv, snap' \in [Trx -> SUBSET Nat],
         \A k \in DOMAIN views' : \E j \in DOMAIN views : views'[k] = views[j],
         \A t \in Trx : Active(t)' => snap'[t] = snap[t]
  PROVE  SnapInv'
<1> SUFFICES ASSUME NEW t \in Trx, NEW k \in DOMAIN views',
                    Active(t)', views'[k].creator = trx'[t].id
             PROVE  snap'[t] = (0 .. views'[k].lowId - 1) \ (views'[k].ids \cup {trx'[t].id})
  BY DEF SnapInv
<1>1. PICK j \in DOMAIN views : views'[k] = views[j]
  OBVIOUS
<1>2. views[j].creator < maxId
  <2>1. GoodView(views[j])
    BY DEF ViewsInv
  <2> QED
    BY <2>1 DEF GoodView, View, TrxInv
<1>3. ~(maxId <= trx'[t].id)
  <2>1. views[j].creator \in Nat /\ maxId \in Nat
    BY DEF ViewsInv, GoodView, View, TrxInv
  <2> QED
    BY <1>1, <1>2, <2>1
<1>4. Active(t) /\ trx'[t].id = trx[t].id
  BY <1>3 DEF Grown
<1> QED
  BY <1>1, <1>4 DEF SnapInv

\* trx_assign_read_view: the view sees what has committed.
LEMMA SnapOpened ==
  ASSUME TrxInv, ViewsInv, SnapInv, NEW t \in Trx, AssignReadView(t)
  PROVE  SnapInv'
<1>1. /\ trx' = trx /\ snap' = [snap EXCEPT ![t] = Committed] /\ Active(t)
  BY DEF AssignReadView, Active
<1>2. maxId \in Nat /\ snap \in [Trx -> SUBSET Nat]
  BY DEF TrxInv, SnapInv
<1>3. Committed \in SUBSET Nat
  BY <1>2 DEF Committed
<1>4. PICK v : /\ Fresh(v, trx[t].id) /\ views' = <<v>> \o views
               /\ v.ids = {trx[u].id : u \in {w \in Trx \ {t} : Active(w)}}
  BY ViewsOpened
<1>5. \A k \in DOMAIN views' : views'[k] = v \/ \E j \in DOMAIN views : views'[k] = views[j]
  <2>1. views \in Seq(View) /\ v \in View
    BY <1>4 DEF ViewsInv, Fresh, GoodView
  <2> QED
    BY <1>4, <2>1
<1>6. Committed = (0 .. v.lowId - 1) \ (v.ids \cup {trx[t].id})
  <2>1. v.ids \cup {trx[t].id} = {trx[u].id : u \in {w \in Trx : Active(w)}}
    BY <1>1, <1>4
  <2>2. v.lowId = maxId
    BY <1>4 DEF Fresh
  <2> QED
    BY <2>1, <2>2 DEF Committed
<1>7. ASSUME NEW u \in Trx, NEW k \in DOMAIN views',
             Active(u)', views'[k].creator = trx'[u].id
      PROVE  snap'[u] = (0 .. views'[k].lowId - 1) \ (views'[k].ids \cup {trx'[u].id})
  <2>1. Active(u)
    BY <1>1, <1>7 DEF Active
  <2>2. CASE views'[k] = v
    <3>1. v.creator = trx[t].id
      BY <1>4 DEF Fresh
    <3>2. u = t
      BY <1>1, <1>7, <2>1, <2>2, <3>1 DEF TrxInv
    <3>3. snap'[t] = Committed
      BY <1>1, <1>2
    <3> QED
      BY <1>1, <1>6, <2>2, <3>2, <3>3
  <2>3. CASE \E j \in DOMAIN views : views'[k] = views[j]
    <3>1. u # t
      BY <1>1, <1>7, <2>3 DEF AssignReadView, HasView
    <3>2. snap'[u] = snap[u]
      BY <1>1, <1>2, <3>1
    <3> QED
      BY <1>1, <1>7, <2>1, <2>3, <3>2 DEF SnapInv
  <2> QED
    BY <1>5, <2>2, <2>3
<1> QED
  BY <1>1, <1>2, <1>3, <1>7 DEF SnapInv

\* Every step keeps SnapInv.
LEMMA SnapStep ==
  ASSUME TrxInv, TrxInv', Grown, ViewsInv, SnapInv, [Next]_vars
  PROVE  SnapInv'
<1>1. snap \in [Trx -> SUBSET Nat] /\ trx \in [Trx -> TrxObject]
  BY DEF SnapInv, TrxInv
<1>2. ASSUME NEW t \in Trx, CommitUnlogged(t) \/ CommitInMemory(t)
      PROVE  SnapInv'
  <2>1. /\ purge' = purge /\ Active(t) /\ Close(t) /\ snap' = [snap EXCEPT ![t] = {}]
    BY <1>2 DEF CommitUnlogged, CommitInMemory, Active, Close
  <2>2. \A u \in Trx \ {t} : trx'[u] = trx[u]
    BY <1>1, <1>2 DEF CommitUnlogged, CommitInMemory
  <2>3. \A u \in Trx \ {t} : Active(u) => Active(u)' /\ trx'[u].id = trx[u].id
    BY <2>2 DEF Active
  <2>4. \A k \in DOMAIN views' : \E j \in DOMAIN views : views'[k] = views[j]
    BY <2>1, <2>3, ViewsClosed
  <2>5. ~Active(t)'
    BY <1>1, <1>2, ZenonT(90) DEF CommitUnlogged, CommitInMemory, Left, TrxObject, Active
  <2>6. \A u \in Trx : Active(u)' => snap'[u] = snap[u]
    BY <1>1, <2>1, <2>5
  <2>7. snap' \in [Trx -> SUBSET Nat]
    BY <1>1, <2>1
  <2> QED
    BY <2>4, <2>6, <2>7, SnapSame
<1>3. ASSUME NEW t \in Trx, AssignReadView(t)
      PROVE  SnapInv'
  BY <1>3, SnapOpened
<1>4. ASSUME views' = views, snap' = snap
      PROVE  SnapInv'
  BY <1>1, <1>4, SnapSame
<1>5. ASSUME NEW t \in Trx,
             Start(t) \/ Insert(t) \/ (\E r \in Rows : Update(t, r)) \/ CommitNumber(t)
               \/ CommitLogged(t) \/ CommitEnd(t)
      PROVE  SnapInv'
  <2>1. views' = views /\ snap' = snap
    BY <1>5 DEF Start, Insert, Update, CommitNumber, CommitLogged, CommitEnd
  <2> QED
    BY <1>4, <2>1
<1>6. CASE TrxPurge \/ FetchNextRec \/ StopPurge \/ UNCHANGED vars
  <2>1. views' = views /\ snap' = snap
    BY <1>6 DEF TrxPurge, FetchNextRec, StopPurge, vars
  <2> QED
    BY <1>4, <2>1
<1> QED
  BY <1>2, <1>3, <1>5, <1>6 DEF Next

-----------------------------------------------------------------------------
(* The theorems                                                            *)

\* After trx_purge_sys_create the invariant holds.
LEMMA InitIInv == Init => IInv
<1> SUFFICES ASSUME Init
             PROVE  IInv
  OBVIOUS
<1>1. /\ trx = [t \in Trx |-> NewTrx] /\ maxId = 1 /\ views = <<>>
      /\ row = [r \in Rows |-> <<[id |-> 0, log |-> 0]>>] /\ hist = <<>> /\ last = NoLog
      /\ snap = [t \in Trx |-> {}]
  BY DEF Init
<1>2. PICK v : /\ v = OpenNow(0, 1, {})
               /\ purge = [on |-> FALSE, stored |-> FALSE, no |-> 0, view |-> v]
  BY DEF Init
<1>3. NewTrx \in TrxObject /\ NewTrx.state = "NOT_STARTED" /\ NewTrx.id = 0 /\ NewTrx.no = 0
  BY DEF NewTrx, TrxObject, States
<1>4. trx \in [Trx -> TrxObject] /\ \A t \in Trx : trx[t] = NewTrx /\ ~Active(t)
  BY <1>1, <1>3 DEF Active
<1>5. TrxInv
  BY <1>1, <1>3, <1>4 DEF TrxInv
<1>6. Fresh(v, 0)
  <2>1. ActiveOf(Trx) = {}
    BY <1>4 DEF ActiveOf
  <2>2. 0 < maxId /\ v = OpenNow(0, maxId, ActiveOf(Trx))
    BY <1>1, <1>2, <2>1
  <2> QED
    BY <1>4, <1>5, <2>2, OpenNowIsFresh
<1>7. purge.view = v /\ v \in View /\ v.lowNo \in Nat
      /\ purge \in [on : BOOLEAN, stored : BOOLEAN, no : Nat, view : View] /\ ~purge.stored
  BY <1>2, <1>6 DEF Fresh, GoodView, View
<1>8. ViewsInv
  BY <1>1, <1>6, <1>7 DEF ViewsInv, Fresh
<1>9. [id |-> 0, log |-> 0] \in Version
  BY DEF Version
<1>10. RowsInv
  <2>1. \A r \in Rows : row[r] \in Seq(Version) /\ row[r] # <<>> /\ DOMAIN row[r] = {1}
                        /\ row[r][1] = [id |-> 0, log |-> 0]
    BY <1>1, <1>9
  <2>2. row \in [Rows -> Seq(Version)]
    BY <1>1, <2>1
  <2> QED
    BY <1>1, <1>4, <2>1, <2>2 DEF RowsInv
<1>11. HistInv
  <2>1. hist \in Seq(Log) /\ last \in Log /\ DOMAIN hist = {}
    BY <1>1 DEF Log, NoLog
  <2> QED
    BY <1>1, <1>7, <2>1 DEF HistInv, HistoryInOrder
<1>12. KeptInv
  BY <1>1, <1>5, <1>6, <1>7, <1>10, <1>11, FreshIsKept DEF KeptInv
<1>13. SnapInv
  BY <1>1 DEF SnapInv
<1> QED
  BY <1>5, <1>8, <1>10, <1>11, <1>12, <1>13 DEF IInv

\* The invariant is inductive.
THEOREM Invariant == Spec => []IInv
<1>1. IInv /\ [Next]_vars => IInv'
  <2> SUFFICES ASSUME IInv, [Next]_vars
               PROVE  IInv'
    OBVIOUS
  <2>1. TrxInv /\ ViewsInv /\ RowsInv /\ KeptInv /\ SnapInv /\ HistInv
    BY DEF IInv
  <2>2. TrxInv' /\ Grown
    BY <2>1, TrxStep
  <2>3. ViewsInv'
    BY <2>1, <2>2, ViewsStep
  <2>4. RowsInv' /\ KeptInv'
    BY <2>1, <2>2, RowsStep, KeptStep
  <2>5. SnapInv' /\ HistInv'
    BY <2>1, <2>2, <2>3, SnapStep, HistStep
  <2> QED
    BY <2>2, <2>3, <2>4, <2>5 DEF IInv
<1> QED
  BY <1>1, InitIInv, PTL DEF Spec

\* Every variable has its type, and ids and numbers were given out.
THEOREM TypeCorrect == Spec => []TypeOK
<1>1. IInv => TypeOK
  BY DEF IInv, TypeOK, TrxInv, ViewsInv, RowsInv, SnapInv, HistInv
<1> QED
  BY <1>1, Invariant, PTL

\* The purge's view is the oldest, so it sees the least.
LEMMA InvPurgeSeesLess == IInv => PurgeSeesLess
<1> SUFFICES ASSUME IInv, NEW k \in DOMAIN views, NEW id \in 0 .. maxId, Sees(purge.view, id)
             PROVE  Sees(views[k], id)
  BY DEF PurgeSeesLess
<1>1. PICK w, v : w = purge.view /\ v = views[k]
  OBVIOUS
<1>2. /\ GoodView(w) /\ GoodView(v) /\ Older(w, v) /\ w.creator = 0
      /\ id \in Nat
  BY <1>1 DEF IInv, ViewsInv, TrxInv
<1>3. id < w.lowId /\ id \notin w.ids
  BY <1>1, <1>2, SeesMeans DEF GoodView
<1>4. id < v.lowId
  BY <1>2, <1>3 DEF Older, GoodView, View
<1>5. \A i \in v.ids : i # 0
  BY <1>2 DEF GoodView, View
<1>6. id \notin v.ids
  BY <1>2, <1>3, <1>5 DEF Older
<1>7. Sees(v, id)
  BY <1>2, <1>4, <1>6, SeesMeans DEF GoodView
<1> QED
  BY <1>1, <1>7

\* trx_purge's view sees nothing that a read view does not see.
THEOREM PurgeIsBehind == Spec => []PurgeSeesLess
BY InvPurgeSeesLess, Invariant, PTL

\* trx_purge_add_update_undo_to_history and the purge keep the history list in
\* the order of the numbers.
THEOREM HistoryStaysInOrder == Spec => []HistoryInOrder
<1>1. IInv => HistoryInOrder
  BY DEF IInv, HistInv
<1> QED
  BY <1>1, Invariant, PTL

\* row_vers_build_for_consistent_read returns the version that was current
\* when the view was opened, whatever commits and is purged in the meantime.
THEOREM ConsistentReads == Spec => []ReadsAreConsistent
<1>1. IInv => ReadsAreConsistent
  <2> SUFFICES ASSUME IInv, NEW t \in Trx, NEW r \in Rows, trx[t].state = "ACTIVE", HasView(t)
               PROVE  Read(ViewOf(t), row[r]) = Snapshot(t, row[r])
    BY DEF ReadsAreConsistent
  <2>1. PICK p : p = Place(t)
    OBVIOUS
  <2>2. p \in DOMAIN views /\ views[p].creator = trx[t].id
    BY <2>1 DEF HasView, Place
  <2>3. PICK v, w, s : v = views[p] /\ w = purge.view /\ s = row[r]
    OBVIOUS
  <2>4. /\ ViewOf(t) = v /\ Kept(v) /\ GoodView(v) /\ v.creator = trx[t].id
        /\ Active(t) /\ maxId \in Nat
        /\ snap[t] = (0 .. v.lowId - 1) \ (v.ids \cup {trx[t].id})
    BY <2>1, <2>2, <2>3 DEF IInv, ViewOf, KeptInv, ViewsInv, SnapInv, Active, TrxInv
  <2>5. /\ s \in Seq(Version) /\ s # <<>> /\ s[1].id = 0 /\ DOMAIN s = 1 .. Len(s) /\ Len(s) \in Nat
        /\ \A j \in DOMAIN s : s[j].id \in Nat /\ s[j].id < maxId
    <3>1. s \in Seq(Version) /\ s # <<>> /\ s[1].id = 0 /\ \A j \in DOMAIN s : s[j].id < maxId
      BY <2>3 DEF IInv, RowsInv
    <3>2. \A j \in DOMAIN s : s[j] \in Version
      BY <3>1
    <3> QED
      BY <3>1, <3>2 DEF Version
  <2> DEFINE seen == {k \in DOMAIN s : Sees(v, s[k].id)}
  <2>6. \A id \in Nat : Sees(v, id) <=> id < v.lowId /\ id \notin v.ids
    BY <2>4, SeesMeans DEF GoodView
  <2>7. seen = {k \in DOMAIN s : s[k].id \in snap[t] \cup {trx[t].id}}
    <3>1. v.lowId \in Nat /\ v.creator \notin v.ids /\ v.creator < v.lowId
      BY <2>4 DEF GoodView, View
    <3>2. \A id \in Nat : Sees(v, id) <=> id \in snap[t] \cup {trx[t].id}
      BY <2>4, <2>6, <3>1
    <3> QED
      BY <2>5, <3>2
  <2>8. 1 \in seen
    <3>1. 1 \in DOMAIN s /\ 0 < v.lowId /\ 0 \notin v.ids
      BY <2>4, <2>5 DEF GoodView, View
    <3> QED
      BY <2>5, <2>6, <3>1
  <2>9. Max(seen) \in seen /\ \A k \in seen : k <= Max(seen)
    <3>1. seen \in SUBSET (0 .. Len(s)) /\ seen # {}
      BY <2>5, <2>8
    <3> HIDE DEF seen
    <3> QED
      BY <2>5, <3>1, MaxIsLargest
  <2>10. PICK m : m = Max(seen)
    OBVIOUS
  <2>11. ASSUME NEW j \in m + 1 .. Len(s)
         PROVE  HasUndo(s[j])
    <3>1. m \in 1 .. Len(s) /\ j \in DOMAIN s /\ ~(j <= m)
      BY <2>5, <2>9, <2>10
    <3>2. ~Sees(v, s[j].id)
      BY <2>9, <2>10, <3>1
    <3>3. ~Sees(w, s[j].id)
      <4>1. s[j].id \in 0 .. maxId
        BY <2>4, <2>5, <3>1
      <4>2. \A id \in 0 .. maxId : Sees(purge.view, id) => Sees(views[p], id)
        BY <2>2, InvPurgeSeesLess DEF PurgeSeesLess
      <4> QED
        BY <2>3, <3>2, <4>1, <4>2
    <3>4. InSlot(s[j].log) \/ InHist(s[j].log, v.lowNo)
      BY <2>3, <2>4, <3>1, <3>2 DEF Kept, Unseen
    <3>5. s[j].log \in Logs
      BY <3>4 DEF InSlot, InHist, Logs
    <3> QED
      BY <2>3, <3>3, <3>5 DEF HasUndo
  <2>12. Read(v, s) = m
    BY <2>8, <2>10, <2>11 DEF Read
  <2>13. Snapshot(t, s) = m
    BY <2>7, <2>10 DEF Snapshot
  <2> QED
    BY <2>3, <2>4, <2>12, <2>13
<1> QED
  BY <1>1, Invariant, PTL
=============================================================================
