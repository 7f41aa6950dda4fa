--------------------------- MODULE LockSysProofs ---------------------------
(***************************************************************************)
(* The chain of record locks stays in order, and what that means for the   *)
(* transactions.                                                           *)
(*                                                                         *)
(* First the operators of LockQueue: what each of them does to the chain   *)
(* (PutAt, Grown, Inherits, MovedTo, Cleared, Dequeued) and that it keeps  *)
(* the invariant of the chain, Chain.  Its heart is LaterWaits: of two     *)
(* conflicting locks on a record the later one waits.  It holds although   *)
(* lock_rec_add_to_queue may set a bit in an old lock_t, because it does   *)
(* so only where nobody waits.                                             *)
(*                                                                         *)
(* Then the actions of LockSys keep IInv: the chain is in order, locks are *)
(* on records of the page only, the implicit lock of a writer conflicts    *)
(* with no one, and transactions are in LOCK_WAIT exactly with a waiting   *)
(* lock.  The three theorems about states follow.                          *)
(*                                                                         *)
(* No circle of waiters: but for a request that waits, a step only takes   *)
(* edges of the waits-for graph away (Eases); and of those whom the search *)
(* for a deadlock met in vain no one waits for the one who asks.           *)
(*                                                                         *)
(* Last, no phantoms: every step carries the granted locks over to where   *)
(* the gap of a key is to be found after the step, and who inserts has had *)
(* the gap for himself since he checked it (InsertInv).                    *)
(***************************************************************************)
EXTENDS LockSys, FiniteSetTheorems, SequenceTheorems, WellFoundedInduction, TLAPS

---------------------------------------------------------------------------
(* Locks put on a record                                                   *)

\* A set of numbers has a least one.
LEMMA SmallestOf ==
  ASSUME NEW S \in SUBSET Nat, S # {}
  PROVE  \E m \in S : \A y \in S : m <= y
<1> DEFINE R == OpToRel(<, Nat)
<1>1. IsWellFoundedOn(R, Nat)
  BY NatLessThanWellFounded, Zenon
<1>2. PICK x \in S : \A y \in S : ~ (<<y, x>> \in R)
  <2> HIDE DEF R
  <2> QED
    BY <1>1, WFMin
<1>3. \A y \in S : ~(y < x)
  BY <1>2 DEF OpToRel
<1>4. \A y \in S : x <= y
  BY <1>3
<1> QED
  BY <1>4

\* So Min gives a member that no other undercuts.
LEMMA MinIs ==
  ASSUME NEW S \in SUBSET Nat, S # {}
  PROVE  Min(S) \in S /\ \A y \in S : Min(S) <= y
BY SmallestOf DEF Min

\* Two locks differ at most in the records they are on.
Same(l, m) == l.trx = m.trx /\ l.mode = m.mode /\ l.gap = m.gap /\ l.wait = m.wait

\* p is q with a lock of t on record r: a new one at the end, or a bit more in
\* the granted lock at place a, which nobody waiting for r stands in the way of.
PutAt(q, p, a, t, mode, gap, wait, r) ==
  /\ p \in Seq(Lock)
  /\ a \in DOMAIN p
  /\ a \in DOMAIN q => Len(p) = Len(q) /\ ~wait /\ \A k \in OnRec(q, r) : ~q[k].wait
  /\ a \notin DOMAIN q => a = Len(q) + 1 /\ Len(p) = Len(q) + 1 /\ p[a].on = {r}
  /\ \A k \in DOMAIN q :
       Same(p[k], q[k]) /\ p[k].on = IF k = a THEN q[k].on \cup {r} ELSE q[k].on
  /\ p[a].trx = t /\ p[a].mode = mode /\ p[a].gap = gap /\ p[a].wait = wait /\ r \in p[a].on

\* The fields of a lock.
LEMMA LockFields ==
  ASSUME NEW q \in Seq(Lock), NEW k \in DOMAIN q
  PROVE  /\ q[k] \in Lock
         /\ q[k].trx \in Trx /\ q[k].mode \in {"S", "X"} /\ q[k].gap \in BOOLEAN
         /\ q[k].wait \in BOOLEAN /\ q[k].on \in SUBSET Heap
<1>1. q[k] \in Lock
  OBVIOUS
<1> QED
  BY <1>1 DEF Lock

\* lock_rec_create puts a lock at the end.
LEMMA CreatePuts ==
  ASSUME NEW q \in Seq(Lock), NEW t \in Trx, NEW mode \in {"S", "X"}, NEW gap \in BOOLEAN,
         NEW wait \in BOOLEAN, NEW r \in Heap, NEW g, g = (gap /\ r # Supremum)
  PROVE  PutAt(q, Create(q, t, mode, gap, wait, r), Len(q) + 1, t, mode, g, wait, r)
<1> DEFINE l == [trx |-> t, mode |-> mode, gap |-> g, wait |-> wait, on |-> {r}]
           p == Append(q, l)
<1>1. Create(q, t, mode, gap, wait, r) = p
  BY DEF Create
<1>2. g \in BOOLEAN
  OBVIOUS
<1>3. l \in Lock
  BY <1>2 DEF Lock
<1>4. l.trx = t /\ l.mode = mode /\ l.gap = g /\ l.wait = wait /\ l.on = {r}
  OBVIOUS
<1> HIDE DEF l
<1>5. p \in Seq(Lock) /\ Len(p) = Len(q) + 1 /\ p[Len(q) + 1] = l /\ \A k \in DOMAIN q : p[k] = q[k]
  BY <1>3
<1>6. Len(q) + 1 \in DOMAIN p /\ Len(q) + 1 \notin DOMAIN q
  BY <1>5
<1> HIDE DEF p
<1> QED
  BY <1>1, <1>4, <1>5, <1>6 DEF PutAt, Same

\* lock_rec_add_to_queue puts a lock somewhere.
LEMMA AddPuts ==
  ASSUME NEW q \in Seq(Lock), NEW t \in Trx, NEW mode \in {"S", "X"}, NEW gap \in BOOLEAN,
         NEW wait \in BOOLEAN, NEW r \in Heap, NEW g, g = (gap /\ r # Supremum)
  PROVE  \E a : PutAt(q, AddToQueue(q, t, mode, gap, wait, r), a, t, mode, g, wait, r)
<1> DEFINE similar == Similar(q, t, mode, g, wait)
           shares  == similar # {} /\ ~wait /\ ~\E k \in OnRec(q, r) : q[k].wait
           a       == Min(similar)
           p       == [q EXCEPT ![a].on = @ \cup {r}]
<1>1. CASE ~shares
  <2>1. AddToQueue(q, t, mode, gap, wait, r) = Create(q, t, mode, gap, wait, r)
    BY <1>1 DEF AddToQueue
  <2>2. Len(q) + 1 \in Nat
    OBVIOUS
  <2> QED
    BY <2>1, <2>2, CreatePuts
<1>2. CASE shares
  <2>1. AddToQueue(q, t, mode, gap, wait, r) = p
    BY <1>2 DEF AddToQueue
  <2>2. similar \in SUBSET Nat
    BY DEF Similar
  <2>3. a \in similar
    BY <1>2, <2>2, MinIs
  <2>4. a \in DOMAIN q /\ q[a].trx = t /\ q[a].mode = mode /\ q[a].gap = g /\ q[a].wait = wait
    BY <2>3 DEF Similar
  <2> HIDE DEF a, similar
  <2>5. q[a] \in Lock
    BY <2>4, LockFields
  <2> DEFINE l == [q[a] EXCEPT !.on = @ \cup {r}]
  <2>6. l \in Lock
    BY <2>5 DEF Lock
  <2>7. Same(l, q[a]) /\ l.on = q[a].on \cup {r}
    BY <2>5 DEF Lock, Same
  <2>8. p = [q EXCEPT ![a] = l]
    BY <2>4
  <2> HIDE DEF l, p
  <2>9. p \in Seq(Lock) /\ Len(p) = Len(q) /\ DOMAIN p = DOMAIN q
    <3>1. [q EXCEPT ![a] = l] \in Seq(Lock)
      BY <2>4, <2>6
    <3>2. DOMAIN [q EXCEPT ![a] = l] = DOMAIN q /\ DOMAIN q = 1..Len(q)
      OBVIOUS
    <3>3. p \in Seq(Lock) /\ DOMAIN p = 1..Len(q)
      BY <2>8, <3>1, <3>2
    <3> QED
      BY <3>3
  <2>10. p[a] = l /\ \A k \in DOMAIN q : k # a => p[k] = q[k]
    BY <2>4, <2>8
  <2>11. PutAt(q, p, a, t, mode, g, wait, r)
    <3>1. ~wait /\ \A k \in OnRec(q, r) : ~q[k].wait
      BY <1>2
    <3>2. \A k \in DOMAIN q : Same(p[k], q[k]) /\ p[k].on = IF k = a THEN q[k].on \cup {r} ELSE q[k].on
      BY <2>7, <2>10 DEF Same
    <3>3. p[a].trx = t /\ p[a].mode = mode /\ p[a].gap = g /\ p[a].wait = wait /\ r \in p[a].on
      BY <2>4, <2>7, <2>10 DEF Same
    <3> QED
      BY <2>4, <2>9, <3>1, <3>2, <3>3 DEF PutAt
  <2>12. a \in Nat
    BY <2>4
  <2> QED
    BY <2>1, <2>11, <2>12
<1> QED
  BY <1>1, <1>2

\* A lock on the record itself and not only on the gap before it.
Real(l, r) == r \in l.on /\ l.gap = FALSE

\* A waiting lock is on one record.
OneRecord(q) == \A k \in DOMAIN q : q[k].wait => \E r \in Heap : q[k].on = {r}

\* Of two conflicting locks on a record the later one waits.
LaterWaits(q) ==
  \A k \in DOMAIN q : \A j \in 1 .. k - 1 : \A r \in Heap \ {Supremum} :
    Real(q[j], r) /\ Real(q[k], r) /\ HasToWait(q[k], q[j]) => q[k].wait

\* A waiting lock has one in front to wait for.  The records in R are in the
\* middle of a move and excepted.
Reasoned(q, R) == \A k \in DOMAIN q : q[k].wait /\ q[k].on \cap R = {} => Blockers(q, k) # {}

\* A transaction waits for one lock at a time.
OneWait(q) == \A j, k \in DOMAIN q : q[j].wait /\ q[k].wait /\ q[j].trx = q[k].trx => j = k

\* The invariant of the chain.
Chain(q, R) ==
  q \in Seq(Lock) /\ OneRecord(q) /\ LaterWaits(q) /\ Reasoned(q, R) /\ OneWait(q)

\* Transaction t has a waiting lock.
Waits(q, t) == \E k \in DOMAIN q : q[k].trx = t /\ q[k].wait

\* Transaction u waits for v.
WaitsFor(q, u, v) ==
  \E k \in DOMAIN q : q[k].trx = u /\ q[k].wait /\ \E j \in Blockers(q, k) : q[j].trx = v

\* Chain p makes nobody wait for anyone he does not wait for in q.
Eases(q, p) == \A u, v : WaitsFor(p, u, v) => WaitsFor(q, u, v)

\* The implicit X lock of u on r conflicts with no one: the other locks on r are
\* absent, or u has its lock explicitly as well.
Implied(q, r, u) == \A k \in DOMAIN q : Real(q[k], r) => q[k].trx = u \/ HasExpl(q, "X", r, u)

\* A lock of t in this mode may be put on r.
MayPut(q, t, mode, g, wait, r) ==
  /\ wait => /\ ~Waits(q, t)
             /\ \E k \in OnRec(q, r) : q[k].trx # t /\ ~Compatible(mode, q[k].mode)
  /\ ~wait /\ ~g /\ r # Supremum =>
       \A k \in DOMAIN q : Real(q[k], r) => q[k].trx = t \/ Compatible(mode, q[k].mode)

\* Where a put leaves the other locks.
LEMMA PutDomain ==
  ASSUME NEW q \in Seq(Lock), NEW p, NEW a, NEW t, NEW mode, NEW g, NEW wait, NEW r,
         PutAt(q, p, a, t, mode, g, wait, r)
  PROVE  DOMAIN q \subseteq DOMAIN p /\ \A k \in DOMAIN p : k # a => k \in DOMAIN q
<1>1. PICK n \in Nat : n = Len(q)
  OBVIOUS
<1>2. DOMAIN q = 1..n
  BY <1>1
<1>3. DOMAIN p = 1..n \/ (DOMAIN p = 1..n + 1 /\ a = n + 1)
  <2>1. p \in Seq(Lock)
    BY DEF PutAt
  <2>2. CASE a \in DOMAIN q
    <3>1. Len(p) = n
      BY <1>1, <2>2 DEF PutAt
    <3> QED
      BY <2>1, <3>1
  <2>3. CASE a \notin DOMAIN q
    <3>1. Len(p) = n + 1 /\ a = n + 1
      BY <1>1, <2>3 DEF PutAt
    <3> QED
      BY <2>1, <3>1
  <2> QED
    BY <2>2, <2>3
<1> QED
  BY <1>2, <1>3

\* What is put has the types of a lock.
LEMMA PutTypes ==
  ASSUME NEW q, NEW p, NEW a, NEW t, NEW mode, NEW g, NEW wait, NEW r,
         PutAt(q, p, a, t, mode, g, wait, r)
  PROVE  t \in Trx /\ mode \in {"S", "X"} /\ g \in BOOLEAN /\ wait \in BOOLEAN /\ r \in Heap
<1>1. p \in Seq(Lock) /\ a \in DOMAIN p
  BY DEF PutAt
<1>2. p[a].trx \in Trx /\ p[a].mode \in {"S", "X"} /\ p[a].gap \in BOOLEAN
      /\ p[a].wait \in BOOLEAN /\ p[a].on \in SUBSET Heap
  BY <1>1, LockFields
<1> QED
  BY <1>2 DEF PutAt

\* A lock that may be put keeps the invariant of the chain.  The delicate case
\* is LaterWaits: a bit set in an old lock can come before a later lock on r,
\* which then conflicts with it or waits; the first is excluded by MayPut and
\* the second by the scan of lock_rec_add_to_queue.
LEMMA PutKeepsChain ==
  ASSUME NEW R, NEW q, Chain(q, R), NEW p, NEW a, NEW t, NEW mode, NEW g, NEW wait, NEW r,
         PutAt(q, p, a, t, mode, g, wait, r), MayPut(q, t, mode, g, wait, r)
  PROVE  Chain(p, R)
<1>t. t \in Trx /\ mode \in {"S", "X"} /\ g \in BOOLEAN /\ wait \in BOOLEAN /\ r \in Heap
  BY PutTypes
<1>1. q \in Seq(Lock) /\ p \in Seq(Lock) /\ a \in DOMAIN p
  BY DEF Chain, PutAt
<1>2. ASSUME NEW k \in DOMAIN p, k # a
      PROVE  k \in DOMAIN q /\ Same(p[k], q[k]) /\ p[k].on = q[k].on
  <2>3. k \in DOMAIN q
    BY <1>1, <1>2, PutDomain
  <2> QED
    BY <1>2, <2>3 DEF PutAt
<1>3. p[a].trx = t /\ p[a].mode = mode /\ p[a].gap = g /\ p[a].wait = wait /\ r \in p[a].on
  BY DEF PutAt
<1>4. CASE a \in DOMAIN q
  <2>1. ~wait /\ ~q[a].wait /\ Same(p[a], q[a]) /\ p[a].on = q[a].on \cup {r} /\ Len(p) = Len(q)
    BY <1>3, <1>4 DEF PutAt, Same
  <2>2. \A k \in OnRec(q, r) : ~q[k].wait
    BY <1>4 DEF PutAt
  <2>3. DOMAIN p = DOMAIN q
    BY <1>1, <2>1
  <2>4. OneRecord(p)
    BY <1>2, <2>1, <2>3 DEF Chain, OneRecord, Same
  <2>5. OneWait(p)
    BY <1>2, <2>1, <2>3 DEF Chain, OneWait, Same
  <2>6. LaterWaits(p)
    <3> SUFFICES ASSUME NEW k \in DOMAIN p, NEW j \in 1 .. k - 1, NEW s \in Heap \ {Supremum},
                        Real(p[j], s), Real(p[k], s), HasToWait(p[k], p[j])
                 PROVE  p[k].wait
      BY DEF LaterWaits
    <3>1. j \in DOMAIN p /\ j # k
      BY <1>1
    <3>2. HasToWait(q[k], q[j]) /\ HasToWait(q[j], q[k])
      BY <1>2, <2>1, <3>1 DEF HasToWait, Same, Compatible
    <3>3. CASE Real(q[j], s) /\ Real(q[k], s)
      BY <1>2, <2>1, <2>3, <3>2, <3>3 DEF Chain, LaterWaits, Same
    <3>4. CASE ~(Real(q[j], s) /\ Real(q[k], s))
      <4>1. s = r /\ (k = a \/ j = a) /\ g = FALSE
        BY <1>2, <1>3, <2>1, <3>1, <3>4 DEF Real, Same
      <4>2. \A i \in DOMAIN q : Real(q[i], r) => q[i].trx = t \/ Compatible(mode, q[i].mode)
        BY <2>1, <4>1 DEF MayPut
      <4>3. CASE k = a
        BY <1>2, <1>3, <2>1, <2>3, <3>1, <4>1, <4>2, <4>3 DEF HasToWait, Same, Real
      <4>4. CASE j = a
        BY <1>2, <1>3, <2>1, <2>3, <3>1, <4>1, <4>2, <4>4 DEF HasToWait, Same, Real, Compatible
      <4> QED
        BY <4>1, <4>3, <4>4
    <3> QED
      BY <3>3, <3>4
  <2>7. Reasoned(p, R)
    <3> SUFFICES ASSUME NEW k \in DOMAIN p, p[k].wait, p[k].on \cap R = {}
                 PROVE  Blockers(p, k) # {}
      BY DEF Reasoned
    <3>1. k # a /\ q[k].wait /\ q[k].on \cap R = {} /\ p[k].on = q[k].on
      BY <1>2, <2>1 DEF Same
    <3>2. PICK j \in Blockers(q, k) : TRUE
      BY <2>3, <3>1 DEF Chain, Reasoned
    <3>3. j \in 1 .. k - 1 /\ j \in DOMAIN p
      BY <1>1, <3>2 DEF Blockers
    <3>4. q[j].on \subseteq p[j].on /\ HasToWait(p[k], p[j])
      BY <1>2, <2>1, <3>2, <3>3 DEF Blockers, HasToWait, Same
    <3> QED
      BY <3>1, <3>2, <3>3, <3>4 DEF Blockers
  <2> QED
    BY <1>1, <2>4, <2>5, <2>6, <2>7 DEF Chain
<1>5. CASE a \notin DOMAIN q
  <2>1. a = Len(q) + 1 /\ Len(p) = a /\ p[a].on = {r}
    BY <1>5 DEF PutAt
  <2>2. DOMAIN p = DOMAIN q \cup {a} /\ \A k \in DOMAIN q : k # a /\ k < a
    BY <1>1, <2>1
  <2>3. \A k \in DOMAIN q : Same(p[k], q[k]) /\ p[k].on = q[k].on
    BY <1>2, <2>2
  <2>4. OneRecord(p)
    <3>1. r \in Heap
      BY <1>t
    <3> QED
      BY <2>1, <2>2, <2>3, <3>1 DEF Chain, OneRecord, Same
  <2>5. OneWait(p)
    <3>1. wait => \A k \in DOMAIN q : ~(q[k].trx = t /\ q[k].wait)
      BY DEF MayPut, Waits
    <3> QED
      BY <1>3, <2>2, <2>3, <3>1 DEF Chain, OneWait, Same
  <2>6. LaterWaits(p)
    <3> SUFFICES ASSUME NEW k \in DOMAIN p, NEW j \in 1 .. k - 1, NEW s \in Heap \ {Supremum},
                        Real(p[j], s), Real(p[k], s), HasToWait(p[k], p[j])
                 PROVE  p[k].wait
      BY DEF LaterWaits
    <3>1. j \in DOMAIN q
      BY <1>1, <2>1, <2>2
    <3>2. Real(q[j], s)
      BY <2>3, <3>1 DEF Real, Same
    <3>3. CASE k = a
      <4>1. s = r /\ g = FALSE
        BY <1>3, <2>1, <3>3 DEF Real
      <4>2. q[j].trx # t /\ ~Compatible(mode, q[j].mode)
        BY <1>3, <2>3, <3>1, <3>3 DEF HasToWait, Same
      <4>3. wait = TRUE
        BY <3>1, <3>2, <4>1, <4>2 DEF MayPut
      <4> QED
        BY <1>3, <3>3, <4>3
    <3>4. CASE k # a
      <4>1. k \in DOMAIN q /\ Real(q[k], s) /\ HasToWait(q[k], q[j])
        BY <2>2, <2>3, <3>1, <3>4 DEF Real, Same, HasToWait
      <4> QED
        BY <2>3, <3>2, <4>1 DEF Chain, LaterWaits, Same
    <3> QED
      BY <3>3, <3>4
  <2>7. Reasoned(p, R)
    <3> SUFFICES ASSUME NEW k \in DOMAIN p, p[k].wait, p[k].on \cap R = {}
                 PROVE  Blockers(p, k) # {}
      BY DEF Reasoned
    <3>1. CASE k = a
      <4>1. PICK j \in OnRec(q, r) : q[j].trx # t /\ ~Compatible(mode, q[j].mode)
        BY <1>3, <3>1 DEF MayPut
      <4>2. j \in DOMAIN q /\ r \in p[j].on /\ HasToWait(p[a], p[j])
        BY <1>3, <2>3, <4>1 DEF OnRec, HasToWait, Same
      <4>3. j \in 1 .. a - 1
        BY <1>1, <2>1, <4>2
      <4> QED
        BY <1>3, <3>1, <4>2, <4>3 DEF Blockers
    <3>2. CASE k # a
      <4>1. k \in DOMAIN q /\ q[k].wait /\ q[k].on \cap R = {} /\ p[k].on = q[k].on
        BY <2>2, <2>3, <3>2 DEF Same
      <4>2. PICK j \in Blockers(q, k) : TRUE
        BY <4>1 DEF Chain, Reasoned
      <4>3. j \in 1 .. k - 1 /\ j \in DOMAIN q
        BY <1>1, <4>1, <4>2 DEF Blockers
      <4>4. q[j].on = p[j].on /\ HasToWait(p[k], p[j])
        BY <2>3, <4>1, <4>2, <4>3 DEF Blockers, HasToWait, Same
      <4> QED
        BY <4>1, <4>2, <4>3, <4>4 DEF Blockers
    <3> QED
      BY <3>1, <3>2
  <2> QED
    BY <1>1, <2>4, <2>5, <2>6, <2>7 DEF Chain
<1> QED
  BY <1>4, <1>5

\* What else a put does: bits, waiting transactions and owners.
LEMMA PutKeeps ==
  ASSUME NEW q \in Seq(Lock), NEW p, NEW a, NEW t, NEW mode, NEW g, NEW wait, NEW r,
         PutAt(q, p, a, t, mode, g, wait, r)
  PROVE  /\ \A k \in DOMAIN q : k \in DOMAIN p /\ Same(p[k], q[k])
         /\ \A k \in DOMAIN p : k # a => k \in DOMAIN q /\ p[k].on = q[k].on
         /\ \A k \in DOMAIN p : \A s : s \in p[k].on => (s = r /\ k = a) \/ (k \in DOMAIN q /\ s \in q[k].on)
         /\ \A u : Waits(p, u) <=> Waits(q, u) \/ (wait /\ u = t)
         /\ \A m, s, u : HasExpl(q, m, s, u) => HasExpl(p, m, s, u)
<1>t. wait \in BOOLEAN
  BY PutTypes
<1>1. p \in Seq(Lock) /\ a \in DOMAIN p
  BY DEF PutAt
<1>e. DOMAIN q \subseteq DOMAIN p /\ \A k \in DOMAIN p : k # a => k \in DOMAIN q
  BY PutDomain
<1>2. \A k \in DOMAIN q : k \in DOMAIN p /\ Same(p[k], q[k]) /\ q[k].on \subseteq p[k].on
  BY <1>e DEF PutAt
<1>3. \A k \in DOMAIN p : k # a => k \in DOMAIN q /\ p[k].on = q[k].on
  BY <1>e DEF PutAt
<1>f. a \notin DOMAIN q => p[a].on = {r}
  BY DEF PutAt
<1>g. a \in DOMAIN q => p[a].on = q[a].on \cup {r}
  BY DEF PutAt
<1>4. \A k \in DOMAIN p : \A s : s \in p[k].on => (s = r /\ k = a) \/ (k \in DOMAIN q /\ s \in q[k].on)
  BY <1>3, <1>f, <1>g
<1>5. p[a].trx = t /\ p[a].wait = wait
  BY DEF PutAt
<1>6. \A u : Waits(p, u) <=> Waits(q, u) \/ (wait /\ u = t)
  BY <1>1, <1>2, <1>3, <1>5, <1>t, SMTT(90) DEF Waits, Same
<1>7. \A m, s, u : HasExpl(q, m, s, u) => HasExpl(p, m, s, u)
  BY <1>2 DEF HasExpl, OnRec, Same
<1> QED
  BY <1>2, <1>3, <1>4, <1>6, <1>7

\* No one waits for a lock that need not wait itself and is put behind him, or
\* on a record nobody waits for.
LEMMA PutEases ==
  ASSUME NEW q \in Seq(Lock), NEW p, NEW a, NEW t, NEW mode, NEW g, NEW wait, NEW r,
         PutAt(q, p, a, t, mode, g, wait, r), ~wait
  PROVE  Eases(q, p)
<1> SUFFICES ASSUME NEW k \in DOMAIN p, p[k].wait, NEW j \in Blockers(p, k)
             PROVE  WaitsFor(q, p[k].trx, p[j].trx)
  BY DEF Eases, WaitsFor
<1>1. p \in Seq(Lock) /\ a \in DOMAIN p /\ ~p[a].wait
  BY DEF PutAt
<1>2. k # a /\ k \in DOMAIN q /\ Same(p[k], q[k]) /\ p[k].on = q[k].on
  BY <1>1, PutKeeps
<1>3. j \in 1 .. k - 1 /\ j \in DOMAIN q /\ j \in DOMAIN p
  BY <1>1, <1>2 DEF Blockers
<1>4. HasToWait(p[k], p[j]) /\ p[j].on \cap p[k].on # {}
  BY DEF Blockers
<1>5. Same(p[j], q[j])
  BY <1>3, PutKeeps
<1>6. q[j].on \cap q[k].on # {}
  <2>1. PICK s \in p[j].on : s \in q[k].on
    BY <1>2, <1>4
  <2>2. CASE s \in q[j].on
    BY <2>1, <2>2
  <2>3. CASE s \notin q[j].on
    <3>1. s = r /\ j = a
      BY <1>3, <2>1, <2>3, PutKeeps
    <3>2. k \in OnRec(q, r) /\ q[k].wait
      BY <1>2, <2>1, <3>1 DEF OnRec, Same
    <3> QED
      BY <1>3, <3>1, <3>2 DEF PutAt
  <2> QED
    BY <2>2, <2>3
<1>7. j \in Blockers(q, k)
  BY <1>2, <1>3, <1>4, <1>5, <1>6 DEF Blockers, HasToWait, Same
<1> QED
  BY <1>2, <1>5, <1>7 DEF WaitsFor, Same

\* A lock of t put on r is on the side of u, if it is one on s.
Sides(q, t, g, r, s, u) == s = r /\ g = FALSE => t = u \/ HasExpl(q, "X", s, u)

\* The implicit locks survive a put that is on their side.
LEMMA PutKeepsImplied ==
  ASSUME NEW q \in Seq(Lock), NEW p, NEW a, NEW t, NEW mode, NEW g, NEW wait, NEW r,
         NEW s, NEW u, PutAt(q, p, a, t, mode, g, wait, r),
         Implied(q, s, u), Sides(q, t, g, r, s, u)
  PROVE  Implied(p, s, u)
<1> SUFFICES ASSUME NEW k \in DOMAIN p, Real(p[k], s)
             PROVE  p[k].trx = u \/ HasExpl(p, "X", s, u)
  BY DEF Implied
<1>1. HasExpl(q, "X", s, u) => HasExpl(p, "X", s, u)
  <2>1. \A k1 \in DOMAIN q : k1 \in DOMAIN p /\ Same(p[k1], q[k1]) /\ q[k1].on \subseteq p[k1].on
    <3>1. DOMAIN q \subseteq DOMAIN p
      BY PutDomain
    <3> QED
      BY <3>1 DEF PutAt
  <2> QED
    BY <2>1 DEF HasExpl, OnRec, Same
<1>2. p[a].trx = t /\ p[a].gap = g
  BY DEF PutAt
<1>3. (s = r /\ k = a) \/ (k \in DOMAIN q /\ s \in q[k].on)
  BY PutKeeps DEF Real
<1>4. CASE s = r /\ k = a
  BY <1>1, <1>2, <1>4 DEF Real, Sides
<1>5. CASE k \in DOMAIN q /\ s \in q[k].on
  <2>1. Same(p[k], q[k])
    BY <1>5 DEF PutAt
  <2>2. Real(q[k], s)
    BY <1>5, <2>1 DEF Real, Same
  <2> QED
    BY <1>1, <1>5, <2>1, <2>2 DEF Implied, Same
<1> QED
  BY <1>3, <1>4, <1>5

---------------------------------------------------------------------------
(* Inheriting locks to a gap                                               *)

\* t has a granted lock on r, maybe on its gap only.
Holds(q, t, r) == \E k \in OnRec(q, r) : q[k].trx = t /\ ~q[k].wait

\* The chains of the walk of InheritToGap, one for every lock passed.
InheritStep(q, f, k, heir, r) ==
  IF r \in q[k].on THEN AddToQueue(f[k - 1], q[k].trx, q[k].mode, TRUE, FALSE, heir) ELSE f[k - 1]

\* InheritToGap is the end of such a walk.
LEMMA InheritWalk ==
  ASSUME NEW q \in Seq(Lock), NEW heir, NEW r
  PROVE  \E f : /\ f[0] = q
                /\ \A k \in 1..Len(q) : f[k] = InheritStep(q, f, k, heir, r)
                /\ InheritToGap(q, heir, r) = f[Len(q)]
<1> DEFINE Upto(n, h) == h = [k \in 0..n |-> IF k = 0 THEN q ELSE InheritStep(q, h, k, heir, r)]
           Bad == {n \in 0..Len(q) : ~ \E h : Upto(n, h)}
<1>1. InheritToGap(q, heir, r) = (CHOOSE h : Upto(Len(q), h))[Len(q)]
  BY DEF InheritToGap, Along, InheritStep
<1>2. Bad = {}
  <2>1. SUFFICES ASSUME Bad # {} PROVE FALSE
    OBVIOUS
  <2>2. Bad \in SUBSET Nat
    OBVIOUS
  <2>3. PICK n \in Bad : \A j \in Bad : n <= j
    BY <2>1, <2>2, SmallestOf
  <2>4. n \in 0..Len(q) /\ ~ \E h : Upto(n, h)
    BY <2>3
  <2>5. CASE n = 0
    <3> DEFINE h == [k \in 0..0 |-> q]
    <3>1. Upto(0, h)
      OBVIOUS
    <3> QED
      BY <2>4, <2>5, <3>1
  <2>6. CASE n # 0
    <3>1. n - 1 \in 0..Len(q) /\ ~(n <= n - 1)
      BY <2>4, <2>6
    <3>2. PICK h : Upto(n - 1, h)
      <4> HIDE DEF Upto
      <4> QED
        BY <2>3, <3>1
    <3> DEFINE e == [k \in 0..n |-> IF k = n THEN InheritStep(q, h, n, heir, r) ELSE h[k]]
    <3>3. \A k \in 0..n - 1 : h[k] = IF k = 0 THEN q ELSE InheritStep(q, h, k, heir, r)
      BY <3>2, Zenon
    <3>4. \A k \in 0..n - 1 : e[k] = h[k]
      BY <2>4, <2>6
    <3>5. e[n] = InheritStep(q, h, n, heir, r)
      BY <2>4
    <3>6. DOMAIN e = 0..n /\ e = [k \in 0..n |-> e[k]]
      OBVIOUS
    <3> HIDE DEF e
    <3>7. \A k \in 1..n : InheritStep(q, e, k, heir, r) = InheritStep(q, h, k, heir, r)
      <4> TAKE k \in 1..n
      <4>1. k - 1 \in 0..n - 1
        BY <2>4
      <4>2. e[k - 1] = h[k - 1]
        BY <3>4, <4>1
      <4> QED
        BY <4>2 DEF InheritStep
    <3>8. \A k \in 0..n : e[k] = IF k = 0 THEN q ELSE InheritStep(q, e, k, heir, r)
      <4> TAKE k \in 0..n
      <4>1. CASE k = n
        BY <2>4, <2>6, <3>5, <3>7, <4>1
      <4>2. CASE k # n
        <5>1. k \in 0..n - 1 /\ (k # 0 => k \in 1..n)
          BY <2>4, <4>2
        <5> QED
          BY <3>3, <3>4, <3>7, <5>1
      <4> QED
        BY <4>1, <4>2
    <3>9. Upto(n, e)
      BY <3>6, <3>8, Zenon
    <3> QED
      BY <2>4, <3>9
  <2> QED
    BY <2>5, <2>6
<1>3. \E h : Upto(Len(q), h)
  <2>1. Len(q) \in 0..Len(q)
    OBVIOUS
  <2> QED
    BY <1>2, <2>1
<1>4. PICK f : f = CHOOSE h : Upto(Len(q), h)
  OBVIOUS
<1>5. Upto(Len(q), f)
  BY <1>3, <1>4
<1>6. f[0] = q
  <2>1. 0 \in 0..Len(q)
    OBVIOUS
  <2> QED
    BY <1>5, <2>1, Zenon
<1>7. \A k \in 1..Len(q) : f[k] = InheritStep(q, f, k, heir, r)
  <2> TAKE k \in 1..Len(q)
  <2>1. k \in 0..Len(q) /\ k # 0
    OBVIOUS
  <2> QED
    BY <1>5, <2>1, Zenon
<1>8. InheritToGap(q, heir, r) = f[Len(q)]
  BY <1>1, <1>4
<1> HIDE DEF Upto
<1> QED
  BY <1>6, <1>7, <1>8

\* p is q with more granted gap locks on record h.
Inherits(q, p, h) ==
  /\ Chain(p, {})
  /\ \A k \in DOMAIN q : k \in DOMAIN p /\ Same(p[k], q[k]) /\ q[k].on \subseteq p[k].on
  /\ \A k \in DOMAIN p : \A s : s \in p[k].on => s = h \/ (k \in DOMAIN q /\ s \in q[k].on)
  /\ \A u : Waits(p, u) <=> Waits(q, u)
  /\ Eases(q, p)
  /\ \A s \in Heap \ {Supremum} : \A u : Implied(q, s, u) => Implied(p, s, u)

\* One more inherited lock.
LEMMA InheritsStep ==
  ASSUME NEW q, NEW p, NEW h \in Heap, Inherits(q, p, h), NEW t \in Trx, NEW mode \in {"S", "X"}
  PROVE  LET n == AddToQueue(p, t, mode, TRUE, FALSE, h)
         IN  Inherits(q, n, h) /\ Holds(n, t, h) /\ \A u : Holds(p, u, h) => Holds(n, u, h)
<1> DEFINE n == AddToQueue(p, t, mode, TRUE, FALSE, h)
<1>1. PICK g : g = (TRUE /\ h # Supremum)
  OBVIOUS
<1>2. g \in BOOLEAN /\ (~g => h = Supremum)
  BY <1>1
<1>w. PICK w \in BOOLEAN : w = FALSE
  OBVIOUS
<1>3. Chain(p, {}) /\ p \in Seq(Lock)
  BY DEF Inherits, Chain
<1>4. PICK a : PutAt(p, n, a, t, mode, g, w, h)
  BY <1>1, <1>3, <1>w, AddPuts
<1> HIDE DEF n
<1>5. MayPut(p, t, mode, g, w, h)
  BY <1>2, <1>w DEF MayPut
<1>6. Chain(n, {})
  BY <1>2, <1>3, <1>4, <1>5, PutKeepsChain
<1>7. /\ \A k \in DOMAIN p : k \in DOMAIN n /\ Same(n[k], p[k])
      /\ \A k \in DOMAIN n : \A s : s \in n[k].on => (s = h /\ k = a) \/ (k \in DOMAIN p /\ s \in p[k].on)
      /\ \A u : Waits(n, u) <=> Waits(p, u) \/ (w /\ u = t)
  BY <1>2, <1>3, <1>4, PutKeeps
<1>8. \A k \in DOMAIN p : p[k].on \subseteq n[k].on
  BY <1>4 DEF PutAt
<1>9. ASSUME NEW s \in Heap \ {Supremum}, NEW u, Implied(p, s, u) PROVE Implied(n, s, u)
  <2>1. Sides(p, t, g, h, s, u)
    BY <1>2 DEF Sides
  <2> QED
    BY <1>2, <1>3, <1>4, <1>9, <1>w, <2>1, PutKeepsImplied
<1>e. Eases(q, n)
  <2>1. Eases(p, n)
    BY <1>3, <1>4, <1>w, PutEases
  <2> QED
    BY <2>1 DEF Inherits, Eases
<1>10. Inherits(q, n, h)
  BY <1>6, <1>7, <1>8, <1>9, <1>e, <1>w DEF Inherits, Same
<1>11. Holds(n, t, h)
  BY <1>4, <1>w DEF PutAt, Holds, OnRec
<1>12. \A u : Holds(p, u, h) => Holds(n, u, h)
  BY <1>7, <1>8 DEF Holds, OnRec, Same
<1> QED
  BY <1>10, <1>11, <1>12 DEF n

\* lock_rec_inherit_to_gap keeps the chain in order, and who had a lock on r,
\* granted or waiting, then holds one on h.
LEMMA InheritKeeps ==
  ASSUME NEW q, Chain(q, {}), NEW h \in Heap, NEW r
  PROVE  /\ Inherits(q, InheritToGap(q, h, r), h)
         /\ \A k \in OnRec(q, r) : Holds(InheritToGap(q, h, r), q[k].trx, h)
<1>1. q \in Seq(Lock)
  BY DEF Chain
<1>2. PICK f : /\ f[0] = q
               /\ \A k \in 1..Len(q) : f[k] = InheritStep(q, f, k, h, r)
               /\ InheritToGap(q, h, r) = f[Len(q)]
  BY <1>1, InheritWalk
<1> DEFINE Good(n) == Inherits(q, f[n], h) /\ \A i \in 1..n : r \in q[i].on => Holds(f[n], q[i].trx, h)
           Bad == {n \in 0..Len(q) : ~Good(n)}
<1>3. Bad = {}
  <2>1. SUFFICES ASSUME Bad # {} PROVE FALSE
    OBVIOUS
  <2>2. Bad \in SUBSET Nat
    OBVIOUS
  <2>3. PICK n \in Bad : \A j \in Bad : n <= j
    BY <2>1, <2>2, SmallestOf
  <2>4. n \in 0..Len(q) /\ ~Good(n)
    BY <2>3
  <2>5. CASE n = 0
    <3>1. Inherits(q, q, h)
      BY <1>1 DEF Inherits, Same, Eases
    <3>2. Good(0)
      BY <1>2, <3>1
    <3> QED
      BY <2>4, <2>5, <3>2
  <2>6. CASE n # 0
    <3>1. n - 1 \in 0..Len(q) /\ ~(n <= n - 1) /\ n \in 1..Len(q)
      BY <2>4, <2>6
    <3>2. Inherits(q, f[n - 1], h) /\ \A i \in 1..n - 1 : r \in q[i].on => Holds(f[n - 1], q[i].trx, h)
      BY <2>3, <3>1
    <3>3. f[n] = InheritStep(q, f, n, h, r)
      BY <1>2, <3>1
    <3>4. \A i \in 1..n : i = n \/ i \in 1..n - 1
      BY <2>4
    <3>5. CASE r \in q[n].on
      <4>1. f[n] = AddToQueue(f[n - 1], q[n].trx, q[n].mode, TRUE, FALSE, h)
        BY <3>3, <3>5 DEF InheritStep
      <4>2. n \in DOMAIN q
        BY <1>1, <3>1
      <4>3. q[n].trx \in Trx /\ q[n].mode \in {"S", "X"}
        BY <1>1, <4>2, LockFields
      <4>4. Inherits(q, f[n], h) /\ Holds(f[n], q[n].trx, h) /\ \A u : Holds(f[n - 1], u, h) => Holds(f[n], u, h)
        BY <3>2, <4>1, <4>3, InheritsStep, ZenonT(90)
      <4>5. Good(n)
        BY <3>2, <3>4, <4>4
      <4> QED
        BY <2>4, <4>5
    <3>6. CASE r \notin q[n].on
      <4>1. f[n] = f[n - 1]
        BY <3>3, <3>6 DEF InheritStep
      <4>2. Good(n)
        BY <3>2, <3>4, <3>6, <4>1
      <4> QED
        BY <2>4, <4>2
    <3> QED
      BY <3>5, <3>6
  <2> QED
    BY <2>5, <2>6
<1>4. Len(q) \in 0..Len(q) /\ DOMAIN q = 1..Len(q)
  BY <1>1
<1>5. Good(Len(q))
  BY <1>3, <1>4
<1> QED
  BY <1>2, <1>4, <1>5 DEF OnRec

---------------------------------------------------------------------------
(* Moving the locks of a record                                            *)

\* Lock k leaves record r of chain p.
Leaves(p, k, r) == [p EXCEPT ![k].on = @ \ {r}, ![k].wait = FALSE]

\* The chains of the walk of Move, one for every lock passed.
MoveStep(q, f, k, to, from) ==
  IF from \in q[k].on
  THEN AddToQueue(Leaves(f[k - 1], k, from), q[k].trx, q[k].mode, q[k].gap, q[k].wait, to)
  ELSE f[k - 1]

\* Move is the end of such a walk.
LEMMA MoveWalk ==
  ASSUME NEW q \in Seq(Lock), NEW to, NEW from
  PROVE  \E f : /\ f[0] = q
                /\ \A k \in 1..Len(q) : f[k] = MoveStep(q, f, k, to, from)
                /\ Move(q, to, from) = f[Len(q)]
<1> DEFINE Upto(n, h) == h = [k \in 0..n |-> IF k = 0 THEN q ELSE MoveStep(q, h, k, to, from)]
           Bad == {n \in 0..Len(q) : ~ \E h : Upto(n, h)}
<1>1. Move(q, to, from) = (CHOOSE h : Upto(Len(q), h))[Len(q)]
  BY DEF Move, Along, MoveStep, Leaves
<1>2. Bad = {}
  <2>1. SUFFICES ASSUME Bad # {} PROVE FALSE
    OBVIOUS
  <2>2. Bad \in SUBSET Nat
    OBVIOUS
  <2>3. PICK n \in Bad : \A j \in Bad : n <= j
    BY <2>1, <2>2, SmallestOf
  <2>4. n \in 0..Len(q) /\ ~ \E h : Upto(n, h)
    BY <2>3
  <2>5. CASE n = 0
    <3> DEFINE h == [k \in 0..0 |-> q]
    <3>1. Upto(0, h)
      OBVIOUS
    <3> QED
      BY <2>4, <2>5, <3>1
  <2>6. CASE n # 0
    <3>1. n - 1 \in 0..Len(q) /\ ~(n <= n - 1)
      BY <2>4, <2>6
    <3>2. PICK h : Upto(n - 1, h)
      <4> HIDE DEF Upto
      <4> QED
        BY <2>3, <3>1
    <3> DEFINE e == [k \in 0..n |-> IF k = n THEN MoveStep(q, h, n, to, from) ELSE h[k]]
    <3>3. \A k \in 0..n - 1 : h[k] = IF k = 0 THEN q ELSE MoveStep(q, h, k, to, from)
      BY <3>2, Zenon
    <3>4. \A k \in 0..n - 1 : e[k] = h[k]
      BY <2>4, <2>6
    <3>5. e[n] = MoveStep(q, h, n, to, from)
      BY <2>4
    <3>6. DOMAIN e = 0..n /\ e = [k \in 0..n |-> e[k]]
      OBVIOUS
    <3> HIDE DEF e
    <3>7. \A k \in 1..n : MoveStep(q, e, k, to, from) = MoveStep(q, h, k, to, from)
      <4> TAKE k \in 1..n
      <4>1. k - 1 \in 0..n - 1
        BY <2>4
      <4>2. e[k - 1] = h[k - 1]
        BY <3>4, <4>1
      <4> QED
        BY <4>2 DEF MoveStep
    <3>8. \A k \in 0..n : e[k] = IF k = 0 THEN q ELSE MoveStep(q, e, k, to, from)
      <4> TAKE k \in 0..n
      <4>1. CASE k = n
        BY <2>4, <2>6, <3>5, <3>7, <4>1
      <4>2. CASE k # n
        <5>1. k \in 0..n - 1 /\ (k # 0 => k \in 1..n)
          BY <2>4, <4>2
        <5> QED
          BY <3>3, <3>4, <3>7, <5>1
      <4> QED
        BY <4>1, <4>2
    <3>9. Upto(n, e)
      BY <3>6, <3>8, Zenon
    <3> QED
      BY <2>4, <3>9
  <2> QED
    BY <2>5, <2>6
<1>3. \E h : Upto(Len(q), h)
  <2>1. Len(q) \in 0..Len(q)
    OBVIOUS
  <2> QED
    BY <1>2, <2>1
<1>4. PICK f : f = CHOOSE h : Upto(Len(q), h)
  OBVIOUS
<1>5. Upto(Len(q), f)
  BY <1>3, <1>4
<1>6. f[0] = q
  <2>1. 0 \in 0..Len(q)
    OBVIOUS
  <2> QED
    BY <1>5, <2>1, Zenon
<1>7. \A k \in 1..Len(q) : f[k] = MoveStep(q, f, k, to, from)
  <2> TAKE k \in 1..Len(q)
  <2>1. k \in 0..Len(q) /\ k # 0
    OBVIOUS
  <2> QED
    BY <1>5, <2>1, Zenon
<1>8. Move(q, to, from) = f[Len(q)]
  BY <1>1, <1>4
<1> HIDE DEF Upto
<1> QED
  BY <1>6, <1>7, <1>8

\* What Leaves does to the chain.
Left(q, p, k, r) ==
  /\ p \in Seq(Lock) /\ DOMAIN p = DOMAIN q
  /\ \A i \in DOMAIN q : i # k => p[i] = q[i]
  /\ p[k].trx = q[k].trx /\ p[k].mode = q[k].mode /\ p[k].gap = q[k].gap
  /\ p[k].wait = FALSE /\ p[k].on = q[k].on \ {r}

\* Leaves does it.
LEMMA LeavesIs ==
  ASSUME NEW q \in Seq(Lock), NEW k \in DOMAIN q, NEW r, NEW p, p = Leaves(q, k, r)
  PROVE  Left(q, p, k, r)
<1> DEFINE l == [q[k] EXCEPT !.on = @ \ {r}, !.wait = FALSE]
<1>1. q[k] \in Lock
  OBVIOUS
<1>2. l \in Lock
  BY <1>1 DEF Lock
<1>3. l.trx = q[k].trx /\ l.mode = q[k].mode /\ l.gap = q[k].gap /\ l.wait = FALSE /\ l.on = q[k].on \ {r}
  BY <1>1 DEF Lock
<1>4. p = [q EXCEPT ![k] = l]
  BY DEF Leaves
<1> HIDE DEF l
<1>5. p \in Seq(Lock) /\ DOMAIN p = DOMAIN q
  <2>1. [q EXCEPT ![k] = l] \in Seq(Lock)
    BY <1>2
  <2>2. DOMAIN [q EXCEPT ![k] = l] = DOMAIN q
    OBVIOUS
  <2> QED
    BY <1>4, <2>1, <2>2
<1>6. p[k] = l /\ \A i \in DOMAIN q : i # k => p[i] = q[i]
  BY <1>4
<1> QED
  BY <1>3, <1>5, <1>6 DEF Left

\* Leaving a record keeps the chain in order, but for the locks that still wait
\* for it.
LEMMA LeavesKeeps ==
  ASSUME NEW q, NEW k \in DOMAIN q, NEW r, Chain(q, {r}), r \in q[k].on
  PROVE  Chain(Leaves(q, k, r), {r})
<1>0. PICK p : p = Leaves(q, k, r)
  OBVIOUS
<1>1. q \in Seq(Lock)
  BY DEF Chain
<1>2. /\ p \in Seq(Lock) /\ DOMAIN p = DOMAIN q
      /\ \A i \in DOMAIN q : i # k => p[i] = q[i]
      /\ p[k].trx = q[k].trx /\ p[k].mode = q[k].mode /\ p[k].gap = q[k].gap
      /\ p[k].wait = FALSE /\ p[k].on = q[k].on \ {r}
  <2>1. Left(q, p, k, r)
    BY <1>0, <1>1, LeavesIs
  <2> QED
    BY <2>1 DEF Left
<1>3. q[k].wait => p[k].on = {}
  BY <1>2 DEF Chain, OneRecord
<1>4. OneRecord(p)
  BY <1>2 DEF Chain, OneRecord
<1>5. OneWait(p)
  BY <1>2 DEF Chain, OneWait
<1>6. LaterWaits(p)
  <2> SUFFICES ASSUME NEW i \in DOMAIN p, NEW j \in 1 .. i - 1, NEW s \in Heap \ {Supremum},
                      Real(p[j], s), Real(p[i], s), HasToWait(p[i], p[j])
               PROVE  p[i].wait
    BY DEF LaterWaits
  <2>1. j \in DOMAIN q /\ i \in DOMAIN q
    BY <1>1, <1>2
  <2>2. Real(q[j], s) /\ Real(q[i], s) /\ HasToWait(q[i], q[j])
    BY <1>2, <2>1 DEF Real, HasToWait
  <2>3. q[i].wait
    BY <2>1, <2>2 DEF Chain, LaterWaits
  <2>4. i # k
    BY <1>3, <2>3 DEF Real
  <2> QED
    BY <1>2, <2>1, <2>3, <2>4
<1>7. Reasoned(p, {r})
  <2> SUFFICES ASSUME NEW i \in DOMAIN p, p[i].wait, p[i].on \cap {r} = {}
               PROVE  Blockers(p, i) # {}
    BY DEF Reasoned
  <2>1. i # k /\ p[i] = q[i]
    BY <1>2
  <2>2. PICK j \in Blockers(q, i) : TRUE
    BY <1>2, <2>1 DEF Chain, Reasoned
  <2>3. j \in 1 .. i - 1 /\ j \in DOMAIN q /\ HasToWait(q[i], q[j]) /\ q[j].on \cap q[i].on # {}
    BY <1>1, <1>2, <2>2 DEF Blockers
  <2>4. PICK s \in q[j].on \cap q[i].on : s # r
    BY <2>1, <2>3
  <2>5. s \in p[j].on /\ HasToWait(p[i], p[j])
    BY <1>2, <2>1, <2>3, <2>4 DEF HasToWait
  <2> QED
    BY <2>1, <2>3, <2>4, <2>5 DEF Blockers
<1> QED
  BY <1>2, <1>4, <1>5, <1>6, <1>7, <1>0 DEF Chain

\* What is in front of a waiting lock that was moved was in front of it before.
InOrder(q, p, n, to, from) ==
  \A a, b \in OnRec(p, to) :
    p[a].wait /\ b < a =>
      \E i, j \in OnRec(q, from) : j < i /\ i <= n /\ Same(p[a], q[i]) /\ Same(p[b], q[j])

\* p is the chain when the walk of Move along q has passed n locks.
Moves(q, p, n, to, from) ==
  /\ Chain(p, {from})
  /\ \A i \in DOMAIN q :
       /\ i \in DOMAIN p
       /\ p[i].trx = q[i].trx /\ p[i].mode = q[i].mode /\ p[i].gap = q[i].gap
       /\ i <= n /\ from \in q[i].on => p[i].wait = FALSE /\ from \notin p[i].on
       /\ ~(i <= n /\ from \in q[i].on) =>
            p[i].wait = q[i].wait /\ (from \in q[i].on => from \in p[i].on)
                                  /\ (from \in p[i].on => from \in q[i].on)
       /\ q[i].on \ {to, from} \subseteq p[i].on
       /\ p[i].on \ {to, from} \subseteq q[i].on
  /\ \A i \in DOMAIN p : i \notin DOMAIN q => p[i].on = {to}
  /\ \A a \in OnRec(p, to) : \E i \in OnRec(q, from) : i <= n /\ Same(p[a], q[i])
  /\ \A i \in OnRec(q, from) : i <= n => \E a \in OnRec(p, to) : Same(p[a], q[i])
  /\ InOrder(q, p, n, to, from)
  /\ \A u : (Waits(p, u) => Waits(q, u)) /\ (Waits(q, u) => Waits(p, u))

\* One more lock moved.
LEMMA MovesStep ==
  ASSUME NEW q, Chain(q, {}), NEW to \in Heap \ {Supremum}, NEW from \in Heap \ {Supremum}, to # from,
         NEW n \in DOMAIN q, from \in q[n].on, NEW p, Moves(q, p, n - 1, to, from)
  PROVE  Moves(q,
               AddToQueue(Leaves(p, n, from), q[n].trx, q[n].mode, q[n].gap, q[n].wait, to),
               n, to, from)
<1>0. PICK p1 : p1 = Leaves(p, n, from)
  OBVIOUS
<1> DEFINE m == AddToQueue(p1, q[n].trx, q[n].mode, q[n].gap, q[n].wait, to)
<1>1. q \in Seq(Lock) /\ p \in Seq(Lock) /\ n \in Nat
  BY DEF Chain, Moves
<1>2. q[n].trx \in Trx /\ q[n].mode \in {"S", "X"} /\ q[n].gap \in BOOLEAN /\ q[n].wait \in BOOLEAN
  BY <1>1, LockFields
<1>3. n \in DOMAIN p /\ ~(n <= n - 1)
  BY <1>1 DEF Moves
<1>4. /\ p[n].trx = q[n].trx /\ p[n].mode = q[n].mode /\ p[n].gap = q[n].gap
      /\ p[n].wait = q[n].wait /\ from \in p[n].on
  BY <1>3 DEF Moves
<1>5. p[n].wait => p[n].on = {from}
  BY <1>3, <1>4 DEF Moves, Chain, OneRecord
<1>6. /\ p1 \in Seq(Lock) /\ DOMAIN p1 = DOMAIN p
      /\ \A i \in DOMAIN p : i # n => p1[i] = p[i]
      /\ p1[n].trx = p[n].trx /\ p1[n].mode = p[n].mode /\ p1[n].gap = p[n].gap
      /\ p1[n].wait = FALSE /\ p1[n].on = p[n].on \ {from}
  <2>1. Left(p, p1, n, from)
    BY <1>0, <1>1, <1>3, LeavesIs
  <2> QED
    BY <2>1 DEF Left
<1>7. Chain(p1, {from})
  BY <1>0, <1>3, <1>4, LeavesKeeps DEF Moves
<1>8. PICK t, mode, g, w : t = q[n].trx /\ mode = q[n].mode /\ g = q[n].gap /\ w = q[n].wait
  OBVIOUS
<1>9. t \in Trx /\ mode \in {"S", "X"} /\ g \in BOOLEAN /\ w \in BOOLEAN
  BY <1>2, <1>8
<1>10. PICK a : PutAt(p1, m, a, t, mode, g, w, to)
  <2>1. g = (g /\ to # Supremum)
    BY <1>9
  <2>2. m = AddToQueue(p1, t, mode, g, w, to) /\ to \in Heap
    BY <1>8
  <2> HIDE DEF m
  <2> QED
    BY <1>6, <1>9, <2>1, <2>2, AddPuts
<1> HIDE DEF m
<1>11. \A b \in OnRec(p1, to) : b \in OnRec(p, to) /\ Same(p1[b], p[b])
  <2> TAKE b \in OnRec(p1, to)
  <2>1. b \in DOMAIN p /\ to \in p1[b].on
    BY <1>6 DEF OnRec
  <2>2. CASE b # n
    BY <1>6, <2>1, <2>2 DEF OnRec, Same
  <2>3. CASE b = n
    <3>1. p[n].wait = FALSE
      BY <1>2, <1>4, <1>5, <1>6, <2>1, <2>3
    <3> QED
      BY <1>6, <2>1, <2>3, <3>1 DEF OnRec, Same
  <2> QED
    BY <2>2, <2>3
<1>12. \A b \in OnRec(p, to) : b \in OnRec(p1, to) /\ Same(p1[b], p[b])
  <2> TAKE b \in OnRec(p, to)
  <2>1. b \in DOMAIN p /\ to \in p[b].on
    BY DEF OnRec
  <2>2. CASE b # n
    BY <1>6, <2>1, <2>2 DEF OnRec, Same
  <2>3. CASE b = n
    <3>1. p[n].wait = FALSE
      BY <1>2, <1>4, <1>5, <2>1, <2>3
    <3> QED
      BY <1>6, <2>1, <2>3, <3>1 DEF OnRec, Same
  <2> QED
    BY <2>2, <2>3
<1>13. MayPut(p1, t, mode, g, w, to)
  <2>1. ASSUME w
        PROVE  ~Waits(p1, t)
    <3> SUFFICES ASSUME NEW i \in DOMAIN p1, p1[i].trx = t, p1[i].wait
                 PROVE  FALSE
      BY DEF Waits
    <3>1. i # n /\ i \in DOMAIN p /\ p[i].trx = t /\ p[i].wait
      BY <1>6
    <3>2. p[n].wait /\ p[n].trx = t
      BY <1>4, <1>8, <2>1
    <3> QED
      BY <1>3, <3>1, <3>2 DEF Moves, Chain, OneWait
  <2>2. ASSUME w
        PROVE  \E k \in OnRec(p1, to) : p1[k].trx # t /\ ~Compatible(mode, p1[k].mode)
    <3>1. q[n].wait /\ q[n].on \cap {} = {}
      BY <1>8, <2>2
    <3>2. PICK j \in Blockers(q, n) : TRUE
      BY <3>1 DEF Chain, Reasoned
    <3>3. q[n].on = {from}
      BY <3>1 DEF Chain, OneRecord
    <3>4. j \in 1 .. n - 1 /\ j \in DOMAIN q /\ HasToWait(q[n], q[j]) /\ from \in q[j].on
      BY <1>1, <3>2, <3>3 DEF Blockers
    <3>5. j \in OnRec(q, from) /\ j <= n - 1
      BY <1>1, <3>4 DEF OnRec
    <3>6. PICK b \in OnRec(p, to) : Same(p[b], q[j])
      BY <3>5 DEF Moves
    <3>7. b \in OnRec(p1, to) /\ Same(p1[b], p[b])
      BY <1>12
    <3> QED
      BY <1>8, <3>4, <3>6, <3>7 DEF HasToWait, Same
  <2>3. ASSUME ~w, ~g, NEW b \in DOMAIN p1, Real(p1[b], to)
        PROVE  p1[b].trx = t \/ Compatible(mode, p1[b].mode)
    <3>1. b \in OnRec(p1, to)
      BY <2>3 DEF Real, OnRec
    <3>2. b \in OnRec(p, to) /\ Same(p1[b], p[b])
      BY <1>11, <3>1
    <3>3. PICK i \in OnRec(q, from) : i <= n - 1 /\ Same(p[b], q[i])
      BY <3>2 DEF Moves
    <3>4. i \in DOMAIN q /\ i \in 1 .. n - 1 /\ Real(q[i], from) /\ Real(q[n], from)
      <4>1. i \in DOMAIN q /\ from \in q[i].on
        BY DEF OnRec
      <4>2. i \in 1 .. n - 1
        BY <1>1, <3>3, <4>1
      <4>3. q[i].gap = FALSE /\ q[n].gap = FALSE
        BY <1>8, <1>9, <2>3, <3>2, <3>3 DEF Real, Same
      <4> QED
        BY <4>1, <4>2, <4>3 DEF Real
    <3>5. ~HasToWait(q[n], q[i])
      BY <1>8, <2>3, <3>4 DEF Chain, LaterWaits
    <3> QED
      BY <1>8, <3>2, <3>3, <3>5 DEF HasToWait, Same
  <2> QED
    BY <2>1, <2>2, <2>3 DEF MayPut
<1>14. Chain(m, {from})
  BY <1>7, <1>10, <1>13, PutKeepsChain
<1>15. /\ \A k \in DOMAIN p1 : k \in DOMAIN m /\ Same(m[k], p1[k])
       /\ \A k \in DOMAIN m : k # a => k \in DOMAIN p1 /\ m[k].on = p1[k].on
       /\ \A k \in DOMAIN m : \A s : s \in m[k].on => (s = to /\ k = a) \/ (k \in DOMAIN p1 /\ s \in p1[k].on)
       /\ \A u : Waits(m, u) <=> Waits(p1, u) \/ (w /\ u = t)
  BY <1>6, <1>10, PutKeeps
<1>16. \A k \in DOMAIN p1 : p1[k].on \subseteq m[k].on
  BY <1>10 DEF PutAt
<1>17. a \in OnRec(m, to) /\ Same(m[a], q[n])
  BY <1>8, <1>10 DEF PutAt, OnRec, Same
<1>18. ASSUME NEW i \in DOMAIN q
       PROVE  /\ i \in DOMAIN m
              /\ m[i].trx = q[i].trx /\ m[i].mode = q[i].mode /\ m[i].gap = q[i].gap
              /\ i <= n /\ from \in q[i].on => m[i].wait = FALSE /\ from \notin m[i].on
              /\ ~(i <= n /\ from \in q[i].on) =>
                   m[i].wait = q[i].wait /\ (from \in q[i].on => from \in m[i].on)
                                         /\ (from \in m[i].on => from \in q[i].on)
              /\ q[i].on \ {to, from} \subseteq m[i].on
              /\ m[i].on \ {to, from} \subseteq q[i].on
  <2>1. i \in DOMAIN p /\ i \in DOMAIN p1 /\ i \in DOMAIN m /\ i \in Nat
    BY <1>1, <1>6, <1>15 DEF Moves
  <2>2. /\ p[i].trx = q[i].trx /\ p[i].mode = q[i].mode /\ p[i].gap = q[i].gap
        /\ i <= n - 1 /\ from \in q[i].on => p[i].wait = FALSE /\ from \notin p[i].on
        /\ ~(i <= n - 1 /\ from \in q[i].on) =>
             p[i].wait = q[i].wait /\ (from \in q[i].on => from \in p[i].on)
                                   /\ (from \in p[i].on => from \in q[i].on)
        /\ q[i].on \ {to, from} \subseteq p[i].on
        /\ p[i].on \ {to, from} \subseteq q[i].on
    BY DEF Moves
  <2>3. Same(m[i], p1[i]) /\ p1[i].on \subseteq m[i].on /\ m[i].on \subseteq p1[i].on \cup {to}
    BY <1>15, <1>16, <2>1
  <2>4. CASE i = n
    BY <1>6, <2>1, <2>2, <2>3, <2>4 DEF Same
  <2>5. CASE i # n
    <3>1. p1[i] = p[i] /\ (i <= n <=> i <= n - 1)
      BY <1>1, <1>6, <2>1, <2>5
    <3> QED
      BY <2>1, <2>2, <2>3, <3>1 DEF Same
  <2> QED
    BY <2>4, <2>5
<1>19. \A i \in DOMAIN m : i \notin DOMAIN q => m[i].on = {to}
  <2> SUFFICES ASSUME NEW i \in DOMAIN m, i \notin DOMAIN q
               PROVE  m[i].on = {to}
    OBVIOUS
  <2>1. CASE i \in DOMAIN p1
    <3>1. i \in DOMAIN p /\ i # n /\ p1[i] = p[i] /\ p[i].on = {to}
      BY <1>6, <2>1 DEF Moves
    <3>2. \A s : s \in m[i].on => s = to
      BY <1>15, <3>1
    <3> QED
      BY <1>16, <2>1, <3>1, <3>2
  <2>2. CASE i \notin DOMAIN p1
    <3>1. i = a
      BY <1>15, <2>2
    <3> QED
      BY <1>10, <2>2, <3>1 DEF PutAt
  <2> QED
    BY <2>1, <2>2
<1>20. \A b \in OnRec(m, to) : \E i \in OnRec(q, from) : i <= n /\ Same(m[b], q[i])
  <2> TAKE b \in OnRec(m, to)
  <2>1. CASE b = a
    <3>1. n \in OnRec(q, from) /\ n <= n
      BY <1>1 DEF OnRec
    <3> QED
      BY <1>17, <2>1, <3>1
  <2>2. CASE b # a
    <3>1. b \in OnRec(p1, to) /\ Same(m[b], p1[b])
      BY <1>15, <2>2 DEF OnRec
    <3>2. b \in OnRec(p, to) /\ Same(p1[b], p[b])
      BY <1>11, <3>1
    <3>3. PICK i \in OnRec(q, from) : i <= n - 1 /\ Same(p[b], q[i])
      BY <3>2 DEF Moves
    <3>4. i <= n
      BY <1>1, <3>3 DEF OnRec
    <3> QED
      BY <3>1, <3>2, <3>3, <3>4 DEF Same
  <2> QED
    BY <2>1, <2>2
<1>21. \A i \in OnRec(q, from) : i <= n => \E b \in OnRec(m, to) : Same(m[b], q[i])
  <2> SUFFICES ASSUME NEW i \in OnRec(q, from), i <= n
               PROVE  \E b \in OnRec(m, to) : Same(m[b], q[i])
    OBVIOUS
  <2>1. CASE i = n
    BY <1>17, <2>1
  <2>2. CASE i # n
    <3>1. i <= n - 1
      BY <1>1, <2>2 DEF OnRec
    <3>2. PICK b \in OnRec(p, to) : Same(p[b], q[i])
      BY <3>1 DEF Moves
    <3>3. b \in OnRec(p1, to) /\ Same(p1[b], p[b])
      BY <1>12
    <3>4. b \in OnRec(m, to) /\ Same(m[b], p1[b])
      BY <1>15, <1>16, <3>3 DEF OnRec
    <3> QED
      BY <3>2, <3>3, <3>4 DEF Same
  <2> QED
    BY <2>1, <2>2
<1>22. ASSUME NEW u
       PROVE  (Waits(m, u) => Waits(q, u)) /\ (Waits(q, u) => Waits(m, u))
  <2>1. (Waits(p, u) => Waits(q, u)) /\ (Waits(q, u) => Waits(p, u))
    BY DEF Moves
  <2>2. Waits(p1, u) => Waits(p, u)
    BY <1>6 DEF Waits
  <2>3. w /\ u = t => Waits(p, u)
    BY <1>3, <1>4, <1>8 DEF Waits
  <2>4. Waits(p, u) => Waits(p1, u) \/ (w /\ u = t)
    BY <1>4, <1>6, <1>8 DEF Waits
  <2>5. Waits(m, u) <=> Waits(p1, u) \/ (w /\ u = t)
    BY <1>15
  <2> QED
    BY <2>1, <2>2, <2>3, <2>4, <2>5
<1>o. InOrder(q, m, n, to, from)
  <2> SUFFICES ASSUME NEW c \in OnRec(m, to), NEW b \in OnRec(m, to), m[c].wait, b < c
               PROVE  \E i, j \in OnRec(q, from) : j < i /\ i <= n /\ Same(m[c], q[i]) /\ Same(m[b], q[j])
    BY DEF InOrder
  <2>0. m \in Seq(Lock) /\ c \in DOMAIN m /\ b \in DOMAIN m /\ b \in Nat /\ c \in Nat
    <3>1. m \in Seq(Lock)
      BY <1>14 DEF Chain
    <3> QED
      BY <3>1 DEF OnRec
  <2>1. ASSUME NEW d \in OnRec(m, to), d # a
        PROVE  d \in OnRec(p, to) /\ Same(m[d], p[d])
    <3>1. d \in OnRec(p1, to) /\ Same(m[d], p1[d])
      BY <1>15, <2>1 DEF OnRec
    <3>2. d \in OnRec(p, to) /\ Same(p1[d], p[d])
      BY <1>11, <3>1
    <3> QED
      BY <3>1, <3>2 DEF Same
  <2>2. CASE c = a
    <3>1. b \in OnRec(p, to) /\ Same(m[b], p[b])
      BY <2>0, <2>1, <2>2
    <3>2. PICK j \in OnRec(q, from) : j <= n - 1 /\ Same(p[b], q[j])
      BY <3>1 DEF Moves
    <3>3. n \in OnRec(q, from) /\ n <= n /\ j < n
      BY <1>1, <3>2 DEF OnRec
    <3>4. Same(m[b], q[j])
      BY <3>1, <3>2 DEF Same
    <3> QED
      BY <1>17, <2>2, <3>3, <3>4
  <2>3. CASE c # a /\ b # a
    <3>1. c \in OnRec(p, to) /\ Same(m[c], p[c]) /\ b \in OnRec(p, to) /\ Same(m[b], p[b])
      BY <2>1, <2>3
    <3>2. PICK i, j \in OnRec(q, from) : j < i /\ i <= n - 1 /\ Same(p[c], q[i]) /\ Same(p[b], q[j])
      BY <3>1 DEF Moves, InOrder, Same
    <3>3. i <= n
      BY <1>1, <3>2 DEF OnRec
    <3>4. Same(m[c], q[i]) /\ Same(m[b], q[j])
      BY <3>1, <3>2 DEF Same
    <3> QED
      BY <3>2, <3>3, <3>4
  <2>4. CASE c # a /\ b = a
    <3>1. c \in OnRec(p1, to) /\ Same(m[c], p1[c])
      BY <1>15, <2>4 DEF OnRec
    <3>2. p1[c].wait /\ c \in DOMAIN p1
      BY <3>1 DEF Same, OnRec
    <3>3. a \notin DOMAIN p1
      BY <1>10, <3>1, <3>2 DEF PutAt
    <3>4. a = Len(p1) + 1
      BY <1>10, <3>3 DEF PutAt
    <3>5. c <= Len(p1) /\ Len(p1) \in Nat
      BY <1>6, <3>2
    <3> QED
      BY <2>0, <2>4, <3>4, <3>5
  <2> QED
    BY <2>2, <2>3, <2>4
<1>23. Moves(q, m, n, to, from)
  BY <1>14, <1>18, <1>19, <1>20, <1>21, <1>22, <1>o DEF Moves
<1> QED
  BY <1>0, <1>23 DEF m

\* p is q after the locks on record from went to record to.
MovedTo(q, p, to, from) ==
  /\ Chain(p, {})
  /\ \A i \in DOMAIN q : i \in DOMAIN p /\ p[i].trx = q[i].trx
  /\ \A u : (Waits(p, u) => Waits(q, u)) /\ (Waits(q, u) => Waits(p, u))
  /\ Eases(q, p)
  /\ \A i \in DOMAIN p : \A s : s \in p[i].on => s = to \/ (s # from /\ i \in DOMAIN q /\ s \in q[i].on)
  /\ \A s, u : s \notin {to, from} /\ Implied(q, s, u) => Implied(p, s, u)
  /\ \A u : Implied(q, from, u) => Implied(p, to, u)
  /\ \A u : Holds(q, u, from) => Holds(p, u, to)
  /\ \A s, u : s \notin {to, from} /\ Holds(q, u, s) => Holds(p, u, s)

\* The whole walk.
LEMMA MovesAll ==
  ASSUME NEW q, Chain(q, {}), NEW to \in Heap \ {Supremum}, NEW from \in Heap \ {Supremum}, to # from,
         OnRec(q, to) = {}
  PROVE  Moves(q, Move(q, to, from), Len(q), to, from)
<1>1. q \in Seq(Lock)
  BY DEF Chain
<1>2. PICK f : /\ f[0] = q
               /\ \A k \in 1..Len(q) : f[k] = MoveStep(q, f, k, to, from)
               /\ Move(q, to, from) = f[Len(q)]
  BY <1>1, MoveWalk
<1> DEFINE Bad == {n \in 0..Len(q) : ~Moves(q, f[n], n, to, from)}
<1>3. Bad = {}
  <2>1. SUFFICES ASSUME Bad # {} PROVE FALSE
    OBVIOUS
  <2>2. Bad \in SUBSET Nat
    OBVIOUS
  <2>3. PICK n \in Bad : \A j \in Bad : n <= j
    BY <2>1, <2>2, SmallestOf
  <2>4. n \in 0..Len(q) /\ ~Moves(q, f[n], n, to, from)
    BY <2>3
  <2>5. CASE n = 0
    <3>1. Chain(q, {from})
      BY DEF Chain, Reasoned
    <3>2. \A i \in DOMAIN q : ~(i <= 0)
      BY <1>1
    <3>3. \A i \in OnRec(q, from) : ~(i <= 0)
      BY <3>2 DEF OnRec
    <3>4. Moves(q, q, 0, to, from)
      BY <3>1, <3>2, <3>3 DEF Moves, InOrder
    <3> QED
      BY <1>2, <2>4, <2>5, <3>4
  <2>6. CASE n # 0
    <3>1. n - 1 \in 0..Len(q) /\ ~(n <= n - 1) /\ n \in 1..Len(q)
      BY <2>4, <2>6
    <3>2. Moves(q, f[n - 1], n - 1, to, from)
      BY <2>3, <3>1
    <3>3. f[n] = MoveStep(q, f, n, to, from)
      BY <1>2, <3>1
    <3>4. n \in DOMAIN q
      BY <1>1, <3>1
    <3>5. CASE from \in q[n].on
      <4>1. f[n] = AddToQueue(Leaves(f[n - 1], n, from), q[n].trx, q[n].mode, q[n].gap, q[n].wait, to)
        BY <3>3, <3>5 DEF MoveStep
      <4>2. Moves(q, f[n], n, to, from)
        BY <3>2, <3>4, <3>5, <4>1, MovesStep
      <4> QED
        BY <2>4, <4>2
    <3>6. CASE from \notin q[n].on
      <4>1. f[n] = f[n - 1]
        BY <3>3, <3>6 DEF MoveStep
      <4>2. \A i \in DOMAIN q : i <= n /\ from \in q[i].on => i <= n - 1
        BY <1>1, <3>1, <3>6
      <4>3. \A i \in DOMAIN q : i <= n - 1 => i <= n
        BY <1>1, <3>1
      <4>4. \A i \in OnRec(q, from) : i \in DOMAIN q /\ from \in q[i].on
        BY DEF OnRec
      <4>5. Moves(q, f[n - 1], n, to, from)
        <5> DEFINE p == f[n - 1]
        <5> HIDE DEF p
        <5>1. Moves(q, p, n - 1, to, from)
          BY <3>2 DEF p
        <5>2. \A i \in DOMAIN q : (i <= n /\ from \in q[i].on) <=> (i <= n - 1 /\ from \in q[i].on)
          BY <4>2, <4>3
        <5>3. \A a \in OnRec(p, to) : \E i \in OnRec(q, from) : i <= n /\ Same(p[a], q[i])
          BY <4>3, <4>4, <5>1 DEF Moves
        <5>4. \A i \in OnRec(q, from) : i <= n => \E a \in OnRec(p, to) : Same(p[a], q[i])
          BY <4>2, <4>4, <5>1 DEF Moves
        <5>o. InOrder(q, p, n, to, from)
          <6>1. InOrder(q, p, n - 1, to, from)
            BY <5>1 DEF Moves
          <6>2. \A i \in OnRec(q, from) : i <= n - 1 => i <= n
            BY <4>3, <4>4
          <6> QED
            BY <6>1, <6>2 DEF InOrder
        <5>5. Moves(q, p, n, to, from)
          BY <5>1, <5>2, <5>3, <5>4, <5>o DEF Moves
        <5> QED
          BY <5>5 DEF p
      <4> QED
        BY <2>4, <4>1, <4>5
    <3> QED
      BY <3>5, <3>6
  <2> QED
    BY <2>5, <2>6
<1>4. Len(q) \in 0..Len(q)
  BY <1>1
<1> QED
  BY <1>2, <1>3, <1>4

\* lock_rec_move to a record without locks keeps the chain in order.
LEMMA MoveKeeps ==
  ASSUME NEW q, Chain(q, {}), NEW to \in Heap \ {Supremum}, NEW from \in Heap \ {Supremum}, to # from,
         OnRec(q, to) = {}
  PROVE  MovedTo(q, Move(q, to, from), to, from)
<1>1. PICK p : p = Move(q, to, from)
  OBVIOUS
<1>2. PICK n : n = Len(q)
  OBVIOUS
<1>3. Moves(q, p, n, to, from)
  BY <1>1, <1>2, MovesAll
<1>4. q \in Seq(Lock) /\ p \in Seq(Lock) /\ \A i \in DOMAIN q : i <= n
  BY <1>2, <1>3 DEF Chain, Moves
<1>5. \A i \in DOMAIN q : /\ i \in DOMAIN p /\ p[i].trx = q[i].trx /\ p[i].mode = q[i].mode /\ p[i].gap = q[i].gap
                          /\ from \in q[i].on => p[i].wait = FALSE /\ from \notin p[i].on
                          /\ from \notin q[i].on => p[i].wait = q[i].wait /\ from \notin p[i].on
                          /\ \A s : s \notin {to, from} => (s \in p[i].on <=> s \in q[i].on)
  BY <1>3, <1>4 DEF Moves
<1>6. \A i \in DOMAIN p : i \notin DOMAIN q => p[i].on = {to}
  BY <1>3 DEF Moves
<1>7. /\ \A a \in OnRec(p, to) : \E i \in OnRec(q, from) : Same(p[a], q[i])
      /\ \A i \in OnRec(q, from) : \E a \in OnRec(p, to) : Same(p[a], q[i])
  BY <1>3, <1>4 DEF Moves, OnRec
<1>8. Chain(p, {})
  <2>1. \A i \in DOMAIN p : p[i].on \cap {from} = {}
    BY <1>5, <1>6
  <2> QED
    BY <1>3, <2>1 DEF Moves, Chain, Reasoned
<1>9. \A i \in DOMAIN p : \A s : s \in p[i].on => s = to \/ (s # from /\ i \in DOMAIN q /\ s \in q[i].on)
  BY <1>5, <1>6
<1>10. ASSUME NEW s, NEW u, s \notin {to, from}, Implied(q, s, u)
       PROVE  Implied(p, s, u)
  <2> SUFFICES ASSUME NEW k \in DOMAIN p, Real(p[k], s)
               PROVE  p[k].trx = u \/ HasExpl(p, "X", s, u)
    BY DEF Implied
  <2>1. k \in DOMAIN q /\ Real(q[k], s) /\ p[k].trx = q[k].trx
    BY <1>5, <1>9, <1>10 DEF Real
  <2>2. CASE HasExpl(q, "X", s, u)
    <3>1. PICK j \in OnRec(q, s) : /\ q[j].trx = u /\ StrongerOrEq(q[j].mode, "X")
                                   /\ ~q[j].wait /\ ~q[j].gap /\ s # Supremum
      BY <2>2 DEF HasExpl
    <3>2. j \in OnRec(p, s) /\ p[j].trx = u /\ p[j].mode = q[j].mode /\ ~p[j].wait /\ ~p[j].gap
      BY <1>5, <1>10, <3>1 DEF OnRec
    <3> QED
      BY <3>1, <3>2 DEF HasExpl
  <2> QED
    BY <1>10, <2>1, <2>2 DEF Implied
<1>11. ASSUME NEW u, Implied(q, from, u)
       PROVE  Implied(p, to, u)
  <2> SUFFICES ASSUME NEW k \in DOMAIN p, Real(p[k], to)
               PROVE  p[k].trx = u \/ HasExpl(p, "X", to, u)
    BY DEF Implied
  <2>1. k \in OnRec(p, to)
    BY DEF Real, OnRec
  <2>2. PICK i \in OnRec(q, from) : Same(p[k], q[i])
    BY <1>7, <2>1
  <2>3. i \in DOMAIN q /\ Real(q[i], from)
    BY <2>2 DEF OnRec, Real, Same
  <2>4. CASE HasExpl(q, "X", from, u)
    <3>1. PICK j \in OnRec(q, from) : /\ q[j].trx = u /\ StrongerOrEq(q[j].mode, "X")
                                      /\ ~q[j].wait /\ ~q[j].gap
      BY <2>4 DEF HasExpl
    <3>2. PICK b \in OnRec(p, to) : Same(p[b], q[j])
      BY <1>7
    <3>3. to # Supremum
      OBVIOUS
    <3> QED
      BY <3>1, <3>2, <3>3 DEF HasExpl, Same
  <2> QED
    BY <1>11, <2>2, <2>3, <2>4 DEF Implied, Same
<1>12. \A u : Holds(q, u, from) => Holds(p, u, to)
  BY <1>7 DEF Holds, Same
<1>13. \A s, u : s \notin {to, from} /\ Holds(q, u, s) => Holds(p, u, s)
  <2> SUFFICES ASSUME NEW s, NEW u, s \notin {to, from}, NEW k \in OnRec(q, s), q[k].trx = u, ~q[k].wait
               PROVE  Holds(p, u, s)
    BY DEF Holds
  <2>1. k \in OnRec(p, s) /\ p[k].trx = u /\ ~p[k].wait
    BY <1>5 DEF OnRec
  <2> QED
    BY <2>1 DEF Holds
<1>14. \A u : (Waits(p, u) => Waits(q, u)) /\ (Waits(q, u) => Waits(p, u))
  BY <1>3 DEF Moves
<1>e. Eases(q, p)
  <2> SUFFICES ASSUME NEW k \in DOMAIN p, p[k].wait, NEW j \in Blockers(p, k)
               PROVE  WaitsFor(q, p[k].trx, p[j].trx)
    BY DEF Eases, WaitsFor
  <2>1. k \in Nat /\ j \in 1 .. k - 1 /\ j \in DOMAIN p /\ j < k
    BY <1>4 DEF Blockers
  <2>2. HasToWait(p[k], p[j]) /\ p[j].on \cap p[k].on # {}
    BY DEF Blockers
  <2>3. PICK s \in Heap : p[k].on = {s}
    BY <1>8 DEF Chain, OneRecord
  <2>4. s \in p[j].on
    BY <2>2, <2>3
  <2>5. CASE s = to
    <3>1. k \in OnRec(p, to) /\ j \in OnRec(p, to)
      BY <2>1, <2>3, <2>4, <2>5 DEF OnRec
    <3>2. PICK a, b \in OnRec(q, from) : b < a /\ Same(p[k], q[a]) /\ Same(p[j], q[b])
      BY <1>3, <2>1, <3>1 DEF Moves, InOrder
    <3>3. a \in DOMAIN q /\ from \in q[a].on /\ b \in DOMAIN q /\ from \in q[b].on /\ b \in 1 .. a - 1
      BY <1>4, <3>2 DEF OnRec
    <3>4. b \in Blockers(q, a)
      BY <2>2, <3>2, <3>3 DEF Blockers, HasToWait, Same
    <3> QED
      BY <3>2, <3>3, <3>4 DEF WaitsFor, Same
  <2>6. CASE s # to
    <3>1. k \in DOMAIN q /\ s \in q[k].on /\ s # from /\ j \in DOMAIN q /\ s \in q[j].on
      BY <1>9, <2>1, <2>3, <2>4, <2>6
    <3>2. q[k].wait /\ HasToWait(q[k], q[j])
      BY <1>5, <2>2, <3>1 DEF HasToWait
    <3>3. j \in Blockers(q, k)
      BY <2>1, <3>1, <3>2 DEF Blockers
    <3> QED
      BY <1>5, <3>1, <3>2, <3>3 DEF WaitsFor
  <2> QED
    BY <2>5, <2>6
<1>15. MovedTo(q, p, to, from)
  BY <1>5, <1>8, <1>9, <1>10, <1>11, <1>12, <1>13, <1>14, <1>e DEF MovedTo
<1> QED
  BY <1>1, <1>15

\* p is q after record r lost its locks.
Cleared(q, p, r) ==
  /\ Chain(p, {}) /\ DOMAIN p = DOMAIN q
  /\ \A i \in DOMAIN q : p[i].trx = q[i].trx /\ p[i].on = q[i].on \ {r}
  /\ \A u : Waits(p, u) => Waits(q, u)
  /\ Eases(q, p)
  /\ \A s, u : s # r /\ Implied(q, s, u) => Implied(p, s, u)
  /\ \A s, u : s # r /\ Holds(q, u, s) => Holds(p, u, s)

\* lock_rec_reset_and_release_wait keeps the chain in order.
LEMMA ResetKeeps ==
  ASSUME NEW q, Chain(q, {}), NEW r
  PROVE  Cleared(q, ResetAndRelease(q, r), r)
<1>1. PICK p : p = ResetAndRelease(q, r)
  OBVIOUS
<1>2. q \in Seq(Lock)
  BY DEF Chain
<1> DEFINE l(k) == IF r \in q[k].on THEN [q[k] EXCEPT !.on = @ \ {r}, !.wait = FALSE] ELSE q[k]
<1>3. ASSUME NEW k \in DOMAIN q
      PROVE  /\ l(k) \in Lock /\ l(k).trx = q[k].trx /\ l(k).mode = q[k].mode /\ l(k).gap = q[k].gap
             /\ l(k).on = q[k].on \ {r} /\ l(k).wait = (q[k].wait /\ r \notin q[k].on)
  <2>1. q[k] \in Lock
    BY <1>2
  <2>2. CASE r \in q[k].on
    BY <2>1, <2>2 DEF Lock
  <2>3. CASE r \notin q[k].on
    BY <2>1, <2>3 DEF Lock
  <2> QED
    BY <2>2, <2>3
<1>4. p = [k \in DOMAIN q |-> l(k)]
  BY <1>1 DEF ResetAndRelease
<1> HIDE DEF l
<1>5. p \in Seq(Lock) /\ DOMAIN p = DOMAIN q
  <2>1. DOMAIN q = 1..Len(q) /\ Len(q) \in Nat
    BY <1>2
  <2> QED
    BY <1>3, <1>4, <2>1
<1>6. \A k \in DOMAIN q : /\ p[k].trx = q[k].trx /\ p[k].mode = q[k].mode /\ p[k].gap = q[k].gap
                          /\ p[k].on = q[k].on \ {r} /\ p[k].wait = (q[k].wait /\ r \notin q[k].on)
  BY <1>3, <1>4
<1>7. ASSUME NEW k \in DOMAIN q, p[k].wait
      PROVE  q[k].wait /\ r \notin q[k].on /\ p[k].on = q[k].on
  <2>1. q[k].wait /\ r \notin q[k].on /\ p[k].on = q[k].on \ {r}
    BY <1>6, <1>7
  <2>2. q[k].on \ {r} = q[k].on
    BY <2>1
  <2> QED
    BY <2>1, <2>2
<1>8. OneRecord(p)
  BY <1>5, <1>7 DEF Chain, OneRecord
<1>9. OneWait(p)
  BY <1>5, <1>6, <1>7 DEF Chain, OneWait
<1>10. LaterWaits(p)
  <2> SUFFICES ASSUME NEW k \in DOMAIN p, NEW j \in 1 .. k - 1, NEW s \in Heap \ {Supremum},
                      Real(p[j], s), Real(p[k], s), HasToWait(p[k], p[j])
               PROVE  p[k].wait
    BY DEF LaterWaits
  <2>1. j \in DOMAIN q /\ k \in DOMAIN q
    BY <1>2, <1>5
  <2>2. s # r /\ Real(q[j], s) /\ Real(q[k], s) /\ HasToWait(q[k], q[j])
    BY <1>6, <2>1 DEF Real, HasToWait
  <2>3. q[k].wait
    BY <2>1, <2>2 DEF Chain, LaterWaits
  <2>4. r \notin q[k].on
    BY <2>1, <2>2, <2>3 DEF Chain, OneRecord, Real
  <2> QED
    BY <1>6, <2>1, <2>3, <2>4
<1>11. Reasoned(p, {})
  <2> SUFFICES ASSUME NEW k \in DOMAIN p, p[k].wait
               PROVE  Blockers(p, k) # {}
    BY DEF Reasoned
  <2>1. k \in DOMAIN q /\ q[k].wait /\ r \notin q[k].on /\ p[k].on = q[k].on
    BY <1>5, <1>7
  <2>2. PICK j \in Blockers(q, k) : TRUE
    BY <2>1 DEF Chain, Reasoned
  <2>3. j \in 1 .. k - 1 /\ j \in DOMAIN q /\ HasToWait(q[k], q[j])
    BY <1>2, <2>1, <2>2 DEF Blockers
  <2>4. q[j].on \cap q[k].on # {}
    BY <2>2 DEF Blockers
  <2>5. p[j].on \cap p[k].on # {} /\ HasToWait(p[k], p[j])
    BY <1>6, <2>1, <2>3, <2>4 DEF HasToWait
  <2> QED
    BY <2>3, <2>5 DEF Blockers
<1>12. \A u : Waits(p, u) => Waits(q, u)
  BY <1>5, <1>6, <1>7 DEF Waits
<1>13. ASSUME NEW s, NEW u, s # r, Implied(q, s, u)
       PROVE  Implied(p, s, u)
  <2> SUFFICES ASSUME NEW k \in DOMAIN p, Real(p[k], s)
               PROVE  p[k].trx = u \/ HasExpl(p, "X", s, u)
    BY DEF Implied
  <2>1. k \in DOMAIN q /\ Real(q[k], s) /\ p[k].trx = q[k].trx
    BY <1>5, <1>6 DEF Real
  <2>2. CASE HasExpl(q, "X", s, u)
    <3>1. PICK j \in OnRec(q, s) : /\ q[j].trx = u /\ StrongerOrEq(q[j].mode, "X")
                                   /\ ~q[j].wait /\ ~q[j].gap /\ s # Supremum
      BY <2>2 DEF HasExpl
    <3>2. j \in DOMAIN q /\ s \in q[j].on
      BY DEF OnRec
    <3>3. j \in OnRec(p, s) /\ p[j].trx = u /\ p[j].mode = q[j].mode /\ ~p[j].wait /\ ~p[j].gap
      BY <1>5, <1>6, <1>13, <3>1, <3>2 DEF OnRec
    <3> QED
      BY <3>1, <3>3 DEF HasExpl
  <2> QED
    BY <1>13, <2>1, <2>2 DEF Implied
<1>14. \A s, u : s # r /\ Holds(q, u, s) => Holds(p, u, s)
  BY <1>5, <1>6 DEF Holds, OnRec
<1>e. Eases(q, p)
  <2> SUFFICES ASSUME NEW k \in DOMAIN p, p[k].wait, NEW j \in Blockers(p, k)
               PROVE  WaitsFor(q, p[k].trx, p[j].trx)
    BY DEF Eases, WaitsFor
  <2>1. k \in DOMAIN q /\ q[k].wait /\ p[k].on = q[k].on
    BY <1>5, <1>7
  <2>2. j \in 1 .. k - 1 /\ j \in DOMAIN q /\ HasToWait(p[k], p[j]) /\ p[j].on \cap p[k].on # {}
    BY <1>2, <2>1 DEF Blockers
  <2>3. j \in Blockers(q, k)
    BY <1>6, <2>1, <2>2 DEF Blockers, HasToWait
  <2> QED
    BY <1>6, <2>1, <2>2, <2>3 DEF WaitsFor
<1>15. Cleared(q, p, r)
  BY <1>5, <1>6, <1>8, <1>9, <1>10, <1>11, <1>12, <1>13, <1>14, <1>e DEF Cleared, Chain
<1> QED
  BY <1>1, <1>15

---------------------------------------------------------------------------
(* Removing a lock from the chain                                          *)

\* The indices before and after a removed one.
LEMMA Shifted ==
  ASSUME NEW n \in Nat, NEW p \in 1 .. n, NEW k \in 1 .. n - 1
  PROVE  /\ (p - 1) + (n - p) = n - 1 /\ (k < p => k <= p - 1 /\ k \in 1 .. p - 1)
         /\ ~(k < p) => ~(k <= p - 1) /\ k - (p - 1) \in 1 .. n - p /\ p + 1 + (k - (p - 1)) - 1 = k + 1
OBVIOUS

\* What RemoveAt leaves.
LEMMA RemoveAtIs ==
  ASSUME NEW S, NEW s \in Seq(S), NEW p \in DOMAIN s, NEW r, r = RemoveAt(s, p)
  PROVE  /\ r \in Seq(S) /\ Len(r) = Len(s) - 1
         /\ \A k \in DOMAIN r : r[k] = s[IF k < p THEN k ELSE k + 1]
<1>1. p \in 1 .. Len(s) /\ Len(s) \in Nat /\ p \in Int /\ Len(s) \in Int /\ \A i \in 1 .. Len(s) : s[i] \in S
  BY LenProperties, ElementOfSeq
<1>2. PICK a : a = SubSeq(s, 1, p - 1)
  OBVIOUS
<1>3. PICK b : b = SubSeq(s, p + 1, Len(s))
  OBVIOUS
<1>4. a \in Seq(S) /\ Len(a) = p - 1 /\ \A i \in 1 .. p - 1 : a[i] = s[i]
  <2> DEFINE n == p - 1
  <2>0. 1 \in Int /\ n \in Int /\ \A i \in 1 .. n : s[i] \in S
    BY <1>1
  <2>1. \A i \in 1 .. p - 1 : 1 + i - 1 = i
    BY <1>1
  <2> HIDE DEF n
  <2>2. /\ SubSeq(s, 1, n) \in Seq(S) /\ Len(SubSeq(s, 1, n)) = IF 1 <= n THEN n - 1 + 1 ELSE 0
        /\ \A i \in 1 .. n - 1 + 1 : SubSeq(s, 1, n)[i] = s[1 + i - 1]
    BY <2>0, SubSeqProperties, SMTT(90)
  <2>3. (IF 1 <= n THEN n - 1 + 1 ELSE 0) = p - 1 /\ n - 1 + 1 = p - 1
    BY <1>1 DEF n
  <2>4. a = SubSeq(s, 1, n)
    BY <1>2 DEF n
  <2> QED
    BY <2>1, <2>2, <2>3, <2>4, Zenon
<1>5. b \in Seq(S) /\ Len(b) = Len(s) - p /\ \A i \in 1 .. Len(s) - p : b[i] = s[p + 1 + i - 1]
  <2> DEFINE m == p + 1
             n == Len(s)
  <2>1. m \in Int /\ n \in Int /\ \A i \in m .. n : s[i] \in S
    BY <1>1
  <2> HIDE DEF m, n
  <2>2. /\ SubSeq(s, m, n) \in Seq(S) /\ Len(SubSeq(s, m, n)) = IF m <= n THEN n - m + 1 ELSE 0
        /\ \A i \in 1 .. n - m + 1 : SubSeq(s, m, n)[i] = s[m + i - 1]
    BY <2>1, SubSeqProperties
  <2>3. (IF m <= n THEN n - m + 1 ELSE 0) = Len(s) - p /\ n - m + 1 = Len(s) - p
    BY <1>1 DEF m, n
  <2>4. b = SubSeq(s, m, n) /\ m = p + 1
    BY <1>3 DEF m, n
  <2> QED
    BY <2>2, <2>3, <2>4, Zenon
<1>6. r = a \o b
  BY <1>2, <1>3, Zenon DEF RemoveAt
<1>7. /\ r \in Seq(S) /\ Len(r) = Len(a) + Len(b) /\ DOMAIN r = 1 .. Len(r)
      /\ \A k \in 1 .. Len(a) + Len(b) : r[k] = IF k <= Len(a) THEN a[k] ELSE b[k - Len(a)]
  <2>1. /\ a \o b \in Seq(S) /\ Len(a \o b) = Len(a) + Len(b)
        /\ \A k \in 1 .. Len(a) + Len(b) : (a \o b)[k] = IF k <= Len(a) THEN a[k] ELSE b[k - Len(a)]
    BY <1>4, <1>5, ConcatProperties
  <2>2. DOMAIN r = 1 .. Len(r)
    BY <1>6, <2>1, LenProperties, Zenon
  <2> QED
    BY <1>6, <2>1, <2>2, Zenon
<1>8. p \in 1 .. Len(s) /\ Len(s) \in Nat /\ Len(a) = p - 1 /\ Len(b) = Len(s) - p
  BY ONLY <1>1, <1>4, <1>5
<1>9. Len(r) = Len(s) - 1 /\ DOMAIN r = 1 .. Len(s) - 1
  <2>1. Len(a) + Len(b) = Len(s) - 1
    BY ONLY <1>8
  <2> QED
    BY <1>7, <2>1, Zenon
<1>10. ASSUME NEW k \in 1 .. Len(s) - 1
       PROVE  r[k] = s[IF k < p THEN k ELSE k + 1]
  <2>1. Len(a) + Len(b) = Len(s) - 1
    BY <1>8, Shifted, Zenon
  <2>2. CASE k < p
    <3>1. k <= Len(a) /\ k \in 1 .. p - 1
      BY <1>8, <2>2, Shifted, ZenonT(90)
    <3> QED
      BY <1>4, <1>7, <2>1, <2>2, <3>1, Zenon
  <2>3. CASE ~(k < p)
    <3>1. PICK i : i = k - Len(a)
      OBVIOUS
    <3>2. ~(k <= Len(a)) /\ i \in 1 .. Len(s) - p /\ p + 1 + i - 1 = k + 1
      BY <1>8, <2>3, <3>1, Shifted, Zenon
    <3>3. r[k] = b[i]
      BY <1>7, <2>1, <3>1, <3>2, Zenon
    <3> QED
      BY <1>5, <2>3, <3>2, <3>3, Zenon
  <2> QED
    BY <2>2, <2>3
<1> QED
  BY <1>7, <1>9, <1>10, Zenon

\* p is q without lock k, and with the locks granted that nothing holds back.
Dequeued(q, p, k) ==
  /\ Chain(p, {})
  /\ \A i \in DOMAIN p : \E j \in DOMAIN q : j # k /\ p[i].trx = q[j].trx /\ p[i].on = q[j].on
  /\ \A j \in DOMAIN q : j # k => \E i \in DOMAIN p : p[i].trx = q[j].trx
  /\ \A u : Waits(p, u) => \E j \in DOMAIN q : j # k /\ q[j].trx = u /\ q[j].wait
  /\ Eases(q, p)
  /\ \A s, u : (q[k].trx # u \/ q[k].wait) /\ Implied(q, s, u) => Implied(p, s, u)
  /\ \A s, u : (q[k].trx # u \/ q[k].wait) /\ Holds(q, u, s) => Holds(p, u, s)

\* lock_rec_dequeue_from_page keeps the chain in order: no one who still has to
\* wait is granted, and no one is left waiting for nothing.
LEMMA DequeueKeeps ==
  ASSUME NEW q, Chain(q, {}), NEW k \in DOMAIN q
  PROVE  Dequeued(q, Dequeue(q, k), k)
<1>1. PICK r : r = RemoveAt(q, k)
  OBVIOUS
<1>2. PICK p : p = GrantAll(r)
  OBVIOUS
<1>3. PICK n \in Nat : n = Len(q)
  BY DEF Chain
<1>4. q \in Seq(Lock) /\ DOMAIN q = 1..n /\ k \in 1..n
  BY <1>3 DEF Chain
<1> DEFINE at == [i \in 1 .. n - 1 |-> IF i < k THEN i ELSE i + 1]
<1>5. r \in Seq(Lock) /\ DOMAIN r = 1 .. n - 1 /\ \A i \in 1 .. n - 1 : r[i] = q[at[i]]
  <2>1. r \in Seq(Lock) /\ Len(r) = Len(q) - 1 /\ \A i \in DOMAIN r : r[i] = q[IF i < k THEN i ELSE i + 1]
    BY <1>1, <1>4, RemoveAtIs, SMTT(90)
  <2>2. DOMAIN r = 1 .. n - 1
    BY <1>3, <2>1
  <2> QED
    BY <2>1, <2>2
<1>6. \A i \in 1 .. n - 1 : at[i] \in DOMAIN q /\ at[i] # k /\ at[i] \in Nat
  BY <1>4
<1>7. \A i, j \in 1 .. n - 1 : (i < j => at[i] < at[j]) /\ (at[i] = at[j] => i = j)
  BY <1>4
<1>8. \A j \in DOMAIN q : j # k => \E i \in 1 .. n - 1 : at[i] = j
  <2> TAKE j \in DOMAIN q
  <2>1. CASE j < k
    <3>1. j \in 1 .. n - 1 /\ at[j] = j
      BY <1>4, <2>1
    <3> QED
      BY <3>1
  <2>2. CASE k < j
    <3>1. j - 1 \in 1 .. n - 1 /\ at[j - 1] = j
      BY <1>4, <2>2
    <3> QED
      BY <3>1
  <2> QED
    BY <1>4, <2>1, <2>2
<1> HIDE DEF at
<1>9. /\ p \in Seq(Lock) /\ DOMAIN p = 1 .. n - 1
      /\ \A i \in 1 .. n - 1 :
           /\ p[i].trx = r[i].trx /\ p[i].mode = r[i].mode /\ p[i].gap = r[i].gap /\ p[i].on = r[i].on
           /\ p[i].wait = (r[i].wait /\ Blockers(r, i) # {})
  <2> DEFINE l == [i \in 1 .. n - 1 |-> [r[i] EXCEPT !.wait = @ /\ Blockers(r, i) # {}]]
  <2>1. p = l
    BY <1>2, <1>5 DEF GrantAll
  <2>2. ASSUME NEW i \in 1 .. n - 1
        PROVE  /\ l[i] \in Lock
               /\ l[i].trx = r[i].trx /\ l[i].mode = r[i].mode /\ l[i].gap = r[i].gap /\ l[i].on = r[i].on
               /\ l[i].wait = (r[i].wait /\ Blockers(r, i) # {})
    <3>1. r[i] \in Lock
      BY <1>5
    <3>2. PICK w \in BOOLEAN : w = (Blockers(r, i) # {})
      OBVIOUS
    <3>3. l[i] = [r[i] EXCEPT !.wait = @ /\ w]
      BY <3>2
    <3> HIDE DEF l
    <3> QED
      BY <3>1, <3>2, <3>3 DEF Lock
  <2>3. l \in Seq(Lock)
    <3> HIDE DEF l
    <3>1. DOMAIN l = 1 .. n - 1 /\ l = [i \in 1 .. n - 1 |-> l[i]]
      BY DEF l
    <3>2. n - 1 \in Nat
      BY <1>4
    <3> QED
      BY <2>2, <3>1, <3>2
  <2>4. DOMAIN l = 1 .. n - 1
    OBVIOUS
  <2> HIDE DEF l
  <2> QED
    BY <2>1, <2>2, <2>3, <2>4
<1>10. \A i \in 1 .. n - 1 :
         /\ at[i] \in DOMAIN q /\ at[i] # k
         /\ p[i].trx = q[at[i]].trx /\ p[i].mode = q[at[i]].mode /\ p[i].gap = q[at[i]].gap
         /\ p[i].on = q[at[i]].on /\ (p[i].wait => q[at[i]].wait)
  BY <1>5, <1>6, <1>9, ZenonT(90)
<1>11. OneRecord(p)
  <2> SUFFICES ASSUME NEW i \in DOMAIN p, p[i].wait
               PROVE  \E s \in Heap : p[i].on = {s}
    BY DEF OneRecord
  <2>1. at[i] \in DOMAIN q /\ q[at[i]].wait /\ p[i].on = q[at[i]].on
    BY <1>9, <1>10
  <2> QED
    BY <2>1 DEF Chain, OneRecord
<1>12. OneWait(p)
  <2> SUFFICES ASSUME NEW i \in DOMAIN p, NEW j \in DOMAIN p,
                      p[i].wait, p[j].wait, p[i].trx = p[j].trx
               PROVE  i = j
    BY DEF OneWait
  <2>1. i \in 1 .. n - 1 /\ j \in 1 .. n - 1
    BY <1>9
  <2>2. at[i] \in DOMAIN q /\ q[at[i]].wait /\ q[at[i]].trx = p[i].trx
    BY <1>10, <2>1
  <2>3. at[j] \in DOMAIN q /\ q[at[j]].wait /\ q[at[j]].trx = p[j].trx
    BY <1>10, <2>1
  <2>4. at[i] = at[j]
    BY <2>2, <2>3 DEF Chain, OneWait
  <2> QED
    BY <1>7, <2>1, <2>4
<1>13. LaterWaits(p)
  <2> SUFFICES ASSUME NEW i \in DOMAIN p, NEW j \in 1 .. i - 1, NEW s \in Heap \ {Supremum},
                      Real(p[j], s), Real(p[i], s), HasToWait(p[i], p[j])
               PROVE  p[i].wait
    BY DEF LaterWaits
  <2>1. i \in 1 .. n - 1 /\ j \in 1 .. n - 1 /\ j < i
    BY <1>4, <1>9
  <2>2. at[j] \in 1 .. at[i] - 1
    BY <1>4, <1>6, <1>7, <2>1, SMTT(90)
  <2>3. Real(q[at[j]], s) /\ Real(q[at[i]], s) /\ HasToWait(q[at[i]], q[at[j]])
    BY <1>10, <2>1 DEF Real, HasToWait
  <2>4. q[at[i]].wait
    BY <1>6, <2>1, <2>2, <2>3 DEF Chain, LaterWaits
  <2>5. HasToWait(r[i], r[j]) /\ s \in r[j].on \cap r[i].on
    BY <1>9, <2>1 DEF Real, HasToWait
  <2>6. j \in Blockers(r, i)
    BY <2>5 DEF Blockers
  <2>7. r[i].wait
    BY <1>5, <2>1, <2>4
  <2> QED
    BY <1>9, <2>1, <2>6, <2>7
<1>14. Reasoned(p, {})
  <2> SUFFICES ASSUME NEW i \in DOMAIN p, p[i].wait
               PROVE  Blockers(p, i) # {}
    BY DEF Reasoned
  <2>1. i \in 1 .. n - 1 /\ Blockers(r, i) # {}
    BY <1>9
  <2>2. PICK j \in 1 .. i - 1 : HasToWait(r[i], r[j]) /\ r[j].on \cap r[i].on # {}
    BY <2>1 DEF Blockers
  <2>3. j \in 1 .. n - 1
    BY <1>4, <2>1
  <2>4. HasToWait(p[i], p[j]) /\ p[j].on \cap p[i].on # {}
    BY <1>9, <2>1, <2>2, <2>3 DEF HasToWait
  <2> QED
    BY <2>4 DEF Blockers
<1>15. \A i \in DOMAIN p : \E j \in DOMAIN q : j # k /\ p[i].trx = q[j].trx /\ p[i].on = q[j].on
  BY <1>9, <1>10
<1>16. \A j \in DOMAIN q : j # k => \E i \in DOMAIN p : p[i].trx = q[j].trx
  BY <1>8, <1>9, <1>10, SMTT(90)
<1>17. \A u : Waits(p, u) => \E j \in DOMAIN q : j # k /\ q[j].trx = u /\ q[j].wait
  BY <1>9, <1>10 DEF Waits
<1>18. ASSUME NEW u, q[k].trx # u \/ q[k].wait, NEW j \in DOMAIN q, q[j].trx = u, ~q[j].wait
       PROVE  \E i \in DOMAIN p : /\ p[i].trx = u /\ p[i].mode = q[j].mode /\ p[i].gap = q[j].gap
                                  /\ ~p[i].wait /\ p[i].on = q[j].on
  <2>1. j # k
    BY <1>18
  <2>2. PICK i \in 1 .. n - 1 : at[i] = j
    BY <1>8, <2>1
  <2> QED
    BY <1>9, <1>10, <1>18, <2>2, ZenonT(90)
<1>19. ASSUME NEW s, NEW u, q[k].trx # u \/ q[k].wait, Implied(q, s, u)
       PROVE  Implied(p, s, u)
  <2> SUFFICES ASSUME NEW i \in DOMAIN p, Real(p[i], s)
               PROVE  p[i].trx = u \/ HasExpl(p, "X", s, u)
    BY DEF Implied
  <2>1. at[i] \in DOMAIN q /\ Real(q[at[i]], s) /\ p[i].trx = q[at[i]].trx
    BY <1>9, <1>10 DEF Real
  <2>2. CASE HasExpl(q, "X", s, u)
    <3>1. PICK j \in OnRec(q, s) : /\ q[j].trx = u /\ StrongerOrEq(q[j].mode, "X")
                                   /\ ~q[j].wait /\ ~q[j].gap /\ s # Supremum
      BY <2>2 DEF HasExpl
    <3>2. j \in DOMAIN q /\ s \in q[j].on
      BY DEF OnRec
    <3>3. PICK m \in DOMAIN p : /\ p[m].trx = u /\ p[m].mode = q[j].mode /\ p[m].gap = q[j].gap
                                /\ ~p[m].wait /\ p[m].on = q[j].on
      BY <1>18, <1>19, <3>1, <3>2
    <3>4. m \in OnRec(p, s)
      BY <3>2, <3>3 DEF OnRec
    <3> QED
      BY <3>1, <3>3, <3>4 DEF HasExpl
  <2> QED
    BY <1>19, <2>1, <2>2 DEF Implied
<1>20. ASSUME NEW s, NEW u, q[k].trx # u \/ q[k].wait, Holds(q, u, s)
       PROVE  Holds(p, u, s)
  <2>1. PICK j \in OnRec(q, s) : q[j].trx = u /\ ~q[j].wait
    BY <1>20 DEF Holds
  <2>2. j \in DOMAIN q /\ s \in q[j].on
    BY DEF OnRec
  <2>3. PICK m \in DOMAIN p : p[m].trx = u /\ ~p[m].wait /\ p[m].on = q[j].on
    BY <1>18, <1>20, <2>1, <2>2
  <2> QED
    BY <2>2, <2>3 DEF Holds, OnRec
<1>21. Chain(p, {})
  BY <1>9, <1>11, <1>12, <1>13, <1>14 DEF Chain
<1>e. Eases(q, p)
  <2> SUFFICES ASSUME NEW i \in DOMAIN p, p[i].wait, NEW j \in Blockers(p, i)
               PROVE  WaitsFor(q, p[i].trx, p[j].trx)
    BY DEF Eases, WaitsFor
  <2>1. i \in 1 .. n - 1
    BY <1>9
  <2>2. j \in 1 .. i - 1 /\ HasToWait(p[i], p[j]) /\ p[j].on \cap p[i].on # {}
    BY DEF Blockers
  <2>3. j \in 1 .. n - 1 /\ j < i
    BY <1>4, <2>1, <2>2
  <2>4. at[j] \in 1 .. at[i] - 1
    BY <1>4, <1>6, <1>7, <2>1, <2>3
  <2>5. at[j] \in Blockers(q, at[i])
    BY <1>10, <2>1, <2>2, <2>3, <2>4 DEF Blockers, HasToWait
  <2> QED
    BY <1>10, <2>1, <2>3, <2>5 DEF WaitsFor
<1>22. Dequeued(q, p, k)
  BY <1>15, <1>16, <1>17, <1>19, <1>20, <1>21, <1>e DEF Dequeued
<1> QED
  BY <1>1, <1>2, <1>22 DEF Dequeue

---------------------------------------------------------------------------
(* Growing the chain                                                       *)

\* The heap numbers.
LEMMA HeapFacts ==
  /\ Keys \subseteq Heap /\ Supremum \in Heap /\ Infimum \in Heap
  /\ Supremum \notin Keys /\ Infimum \notin Keys /\ Infimum # Supremum
  /\ Keys \subseteq Nat /\ Supremum \in Nat
BY PageAssumption DEF Keys, Heap, Supremum, Infimum

\* p is q with more locks on record r.
Grown(q, p, r) ==
  /\ Chain(p, {})
  /\ \A k \in DOMAIN q : k \in DOMAIN p /\ p[k].trx = q[k].trx
  /\ \A k \in DOMAIN p : \A s : s \in p[k].on => s = r \/ (k \in DOMAIN q /\ s \in q[k].on)
  /\ \A s, u : HasExpl(q, "X", s, u) => HasExpl(p, "X", s, u)
  /\ \A s, u : s # r /\ Implied(q, s, u) => Implied(p, s, u)
  /\ \A s, u : Holds(q, u, s) => Holds(p, u, s)

\* No growth.
LEMMA GrownSame ==
  ASSUME NEW q, Chain(q, {}), NEW r
  PROVE  Grown(q, q, r)
BY DEF Grown

\* Growing twice.
LEMMA GrownTwice ==
  ASSUME NEW q, NEW p, NEW m, NEW r, Grown(q, p, r), Grown(p, m, r)
  PROVE  Grown(q, m, r)
BY DEF Grown

\* A put grows the chain.
LEMMA GrownByPut ==
  ASSUME NEW q, NEW p, NEW a, NEW t, NEW mode, NEW g, NEW wait, NEW r,
         Chain(q, {}), PutAt(q, p, a, t, mode, g, wait, r), MayPut(q, t, mode, g, wait, r)
  PROVE  Grown(q, p, r)
<1>1. q \in Seq(Lock)
  BY DEF Chain
<1>2. Chain(p, {})
  BY PutKeepsChain
<1>3. /\ \A k \in DOMAIN q : k \in DOMAIN p /\ Same(p[k], q[k])
      /\ \A k \in DOMAIN p : \A s : s \in p[k].on => (s = r /\ k = a) \/ (k \in DOMAIN q /\ s \in q[k].on)
      /\ \A m, s, u : HasExpl(q, m, s, u) => HasExpl(p, m, s, u)
  BY <1>1, PutKeeps
<1>4. ASSUME NEW s, NEW u, s # r, Implied(q, s, u)
      PROVE  Implied(p, s, u)
  <2>1. Sides(q, t, g, r, s, u)
    BY <1>4 DEF Sides
  <2> QED
    BY <1>1, <1>4, <2>1, PutKeepsImplied
<1>5. \A k \in DOMAIN q : q[k].on \subseteq p[k].on
  BY DEF PutAt
<1>6. \A s, u : Holds(q, u, s) => Holds(p, u, s)
  BY <1>3, <1>5 DEF Holds, OnRec, Same
<1> QED
  BY <1>2, <1>3, <1>4, <1>6 DEF Grown, Same

\* A granted request grows the chain.
LEMMA GrownByAdd ==
  ASSUME NEW q, NEW t \in Trx, NEW mode \in {"S", "X"}, NEW r \in Heap, Chain(q, {}),
         MayPut(q, t, mode, FALSE, FALSE, r)
  PROVE  LET p == AddToQueue(q, t, mode, FALSE, FALSE, r)
         IN  /\ Grown(q, p, r)
             /\ \A u : (Waits(p, u) => Waits(q, u)) /\ (Waits(q, u) => Waits(p, u))
             /\ r # Supremum => HasExpl(p, mode, r, t)
             /\ Holds(p, t, r)
<1>1. PICK p : p = AddToQueue(q, t, mode, FALSE, FALSE, r)
  OBVIOUS
<1>2. PICK f : f = FALSE
  OBVIOUS
<1>3. f \in BOOLEAN /\ f = (f /\ r # Supremum) /\ q \in Seq(Lock)
  BY <1>2 DEF Chain
<1>4. p = AddToQueue(q, t, mode, f, f, r) /\ MayPut(q, t, mode, f, f, r)
  BY <1>1, <1>2
<1>5. PICK a : PutAt(q, p, a, t, mode, f, f, r)
  BY <1>3, <1>4, AddPuts
<1>6. Grown(q, p, r)
  BY <1>4, <1>5, GrownByPut
<1>7. \A u : (Waits(p, u) => Waits(q, u)) /\ (Waits(q, u) => Waits(p, u))
  <2>1. \A u : Waits(p, u) <=> Waits(q, u) \/ (f /\ u = t)
    BY <1>3, <1>5, PutKeeps
  <2> QED
    BY <1>2, <2>1
<1>8. a \in OnRec(p, r) /\ p[a].trx = t /\ p[a].mode = mode /\ ~p[a].wait /\ ~p[a].gap
  BY <1>2, <1>5 DEF PutAt, OnRec
<1>9. StrongerOrEq(mode, mode)
  BY DEF StrongerOrEq
<1> QED
  BY <1>1, <1>6, <1>7, <1>8, <1>9 DEF HasExpl, Holds

\* The lock of a deadlock's victim, on no record, changes nothing.
LEMMA GrownByIdle ==
  ASSUME NEW q, Chain(q, {}), NEW l \in Lock, l.wait = FALSE, l.on = {}, NEW r
  PROVE  /\ Grown(q, Append(q, l), r) /\ Eases(q, Append(q, l))
         /\ \A u : Waits(Append(q, l), u) <=> Waits(q, u)
<1>1. PICK p : p = Append(q, l)
  OBVIOUS
<1>2. PICK n \in Nat : n = Len(q)
  BY DEF Chain
<1>3. q \in Seq(Lock)
  BY DEF Chain
<1>4. /\ p \in Seq(Lock) /\ DOMAIN q = 1..n /\ DOMAIN p = 1 .. n + 1
      /\ p[n + 1] = l /\ \A k \in 1..n : p[k] = q[k]
  BY <1>1, <1>2, <1>3
<1>5. \A k \in DOMAIN p : (k \in DOMAIN q /\ p[k] = q[k]) \/ (p[k].wait = FALSE /\ p[k].on = {})
  BY <1>4
<1>6. \A k \in DOMAIN q : k \in DOMAIN p /\ p[k] = q[k]
  BY <1>4
<1>7. OneRecord(p)
  BY <1>5 DEF Chain, OneRecord
<1>8. OneWait(p)
  BY <1>5 DEF Chain, OneWait
<1>9. LaterWaits(p)
  <2> SUFFICES ASSUME NEW k \in DOMAIN p, NEW j \in 1 .. k - 1, NEW s \in Heap \ {Supremum},
                      Real(p[j], s), Real(p[k], s), HasToWait(p[k], p[j])
               PROVE  p[k].wait
    BY DEF LaterWaits
  <2>1. j \in DOMAIN p
    BY <1>4
  <2>2. k \in DOMAIN q /\ p[k] = q[k] /\ p[j] = q[j]
    BY <1>5, <2>1 DEF Real
  <2> QED
    BY <2>2 DEF Chain, LaterWaits
<1>10. Reasoned(p, {})
  <2> SUFFICES ASSUME NEW k \in DOMAIN p, p[k].wait
               PROVE  Blockers(p, k) # {}
    BY DEF Reasoned
  <2>1. k \in DOMAIN q /\ p[k] = q[k]
    BY <1>5
  <2>2. PICK j \in Blockers(q, k) : TRUE
    BY <2>1 DEF Chain, Reasoned
  <2>3. j \in 1 .. k - 1 /\ j \in DOMAIN q
    BY <1>4, <2>1, <2>2 DEF Blockers
  <2> QED
    BY <1>6, <2>1, <2>2, <2>3 DEF Blockers
<1>11. Chain(p, {})
  BY <1>4, <1>7, <1>8, <1>9, <1>10 DEF Chain
<1>12. \A u : Waits(p, u) <=> Waits(q, u)
  BY <1>5, <1>6 DEF Waits
<1>13. \A s, u : HasExpl(q, "X", s, u) => HasExpl(p, "X", s, u)
  BY <1>6 DEF HasExpl, OnRec
<1>14. \A s, u : Implied(q, s, u) => Implied(p, s, u)
  BY <1>5, <1>13 DEF Implied, Real
<1>15. \A s, u : Holds(q, u, s) => Holds(p, u, s)
  BY <1>6 DEF Holds, OnRec
<1>16. \A k \in DOMAIN p : \A s : s \in p[k].on => k \in DOMAIN q /\ s \in q[k].on
  BY <1>5
<1>17. Grown(q, p, r)
  BY <1>6, <1>11, <1>13, <1>14, <1>15, <1>16 DEF Grown
<1>18. Eases(q, p)
  <2> SUFFICES ASSUME NEW k \in DOMAIN p, p[k].wait, NEW j \in Blockers(p, k)
               PROVE  WaitsFor(q, p[k].trx, p[j].trx)
    BY DEF Eases, WaitsFor
  <2>1. k \in DOMAIN q /\ p[k] = q[k]
    BY <1>5
  <2>2. j \in DOMAIN q /\ p[j] = q[j]
    BY <1>4, <2>1 DEF Blockers
  <2>3. j \in Blockers(q, k)
    BY <2>1, <2>2 DEF Blockers
  <2> QED
    BY <2>1, <2>2, <2>3 DEF WaitsFor
<1> QED
  BY <1>1, <1>12, <1>17, <1>18

\* A request that has to wait.
LEMMA EnqueueKeeps ==
  ASSUME NEW q, NEW t \in Trx, NEW mode \in {"S", "X"}, NEW gap \in BOOLEAN, NEW r \in Heap,
         Chain(q, {}), ~Waits(q, t),
         \E k \in OnRec(q, r) : q[k].trx # t /\ ~Compatible(mode, q[k].mode),
         EnqueueWaiting(q, t, mode, gap, r)
  PROVE  /\ Grown(q, locks', r) /\ UNCHANGED <<recs, latch>>
         /\ gap /\ r # Supremum => \A u : Implied(q, r, u) => Implied(locks', r, u)
         /\ \/ /\ state' = [state EXCEPT ![t] = "LOCK_WAIT"]
               /\ \A u : Waits(locks', u) <=> Waits(q, u) \/ u = t
               /\ \E l \in Lock : l.trx = t /\ l.wait /\ locks' = Append(q, l)
               /\ ~DeadlockOccurs(locks', Len(q) + 1, Waiting)
            \/ /\ state' = [state EXCEPT ![t] = "ROLLBACK"]
               /\ \A u : Waits(locks', u) <=> Waits(q, u)
               /\ Eases(q, locks')
<1>1. PICK w : w = TRUE
  OBVIOUS
<1>2. PICK g : g = (gap /\ r # Supremum)
  OBVIOUS
<1>3. w \in BOOLEAN /\ g \in BOOLEAN /\ q \in Seq(Lock)
  BY <1>1, <1>2 DEF Chain
<1>4. PICK p : p = Create(q, t, mode, gap, w, r)
  OBVIOUS
<1>5. PICK k : k = Len(q) + 1
  OBVIOUS
<1>6. PutAt(q, p, k, t, mode, g, w, r)
  BY <1>2, <1>3, <1>4, <1>5, CreatePuts
<1>7. Len(p) = k
  <2>1. p = Append(q, [trx |-> t, mode |-> mode, gap |-> g, wait |-> w, on |-> {r}])
    BY <1>2, <1>4 DEF Create
  <2> QED
    BY <1>3, <1>5, <2>1
<1>8. PICK dead : dead = DeadlockOccurs(p, k, Waiting)
  OBVIOUS
<1>9. /\ locks' = IF dead THEN [p EXCEPT ![k].wait = FALSE, ![k].on = {}] ELSE p
      /\ state' = [state EXCEPT ![t] = IF dead THEN "ROLLBACK" ELSE "LOCK_WAIT"]
      /\ UNCHANGED <<recs, latch>>
  BY <1>1, <1>4, <1>7, <1>8 DEF EnqueueWaiting
<1>10. MayPut(q, t, mode, g, w, r)
  BY <1>1 DEF MayPut
<1>11. CASE ~dead
  <2>1. Grown(q, p, r)
    BY <1>6, <1>10, GrownByPut
  <2>2. \A u : Waits(p, u) <=> Waits(q, u) \/ (w /\ u = t)
    BY <1>3, <1>6, PutKeeps
  <2>3. ASSUME gap, r # Supremum, NEW u, Implied(q, r, u)
        PROVE  Implied(p, r, u)
    <3>1. g = TRUE
      BY <1>2, <2>3
    <3>2. Sides(q, t, g, r, r, u)
      BY <3>1 DEF Sides
    <3> QED
      BY <1>3, <1>6, <2>3, <3>2, PutKeepsImplied
  <2>4. \A u : Waits(p, u) <=> Waits(q, u) \/ u = t
    BY <1>1, <2>2
  <2>5. locks' = p /\ state' = [state EXCEPT ![t] = "LOCK_WAIT"]
    BY <1>9, <1>11
  <2>6. \E l \in Lock : l.trx = t /\ l.wait /\ p = Append(q, l)
    <3> DEFINE l == [trx |-> t, mode |-> mode, gap |-> g, wait |-> w, on |-> {r}]
    <3>1. l \in Lock
      BY <1>3 DEF Lock
    <3>2. p = Append(q, l)
      BY <1>2, <1>4 DEF Create
    <3>3. l.trx = t /\ l.wait = w
      OBVIOUS
    <3> HIDE DEF l
    <3> QED
      BY <1>1, <3>1, <3>2, <3>3
  <2>7. ~DeadlockOccurs(p, Len(q) + 1, Waiting)
    BY <1>5, <1>8, <1>11
  <2> QED
    BY <1>9, <2>1, <2>3, <2>4, <2>5, <2>6, <2>7, ZenonT(90)
<1>12. CASE dead
  <2> DEFINE l == [trx |-> t, mode |-> mode, gap |-> g, wait |-> FALSE, on |-> {}]
  <2>1. l \in Lock
    BY <1>3 DEF Lock
  <2>2. l.wait = FALSE /\ l.on = {}
    OBVIOUS
  <2>3. locks' = Append(q, l)
    <3> DEFINE a == [trx |-> t, mode |-> mode, gap |-> g, wait |-> w, on |-> {r}]
    <3>1. p = Append(q, a)
      BY <1>2, <1>4 DEF Create
    <3>2. [a EXCEPT !.wait = FALSE, !.on = {}] = l
      <4>1. a \in Lock /\ a.trx = l.trx /\ a.mode = l.mode /\ a.gap = l.gap
        BY <1>3 DEF Lock
      <4> HIDE DEF a, l
      <4> QED
        BY <2>1, <2>2, <4>1 DEF Lock
    <3>3. p[k] = a
      BY <1>3, <1>5, <3>1
    <3>4. locks' = [p EXCEPT ![k] = [p[k] EXCEPT !.wait = FALSE, !.on = {}]]
      BY <1>9, <1>12
    <3>5. locks' = [p EXCEPT ![k] = l]
      BY <3>2, <3>3, <3>4
    <3> HIDE DEF l, a
    <3>a. a \in Lock
      BY <1>3 DEF a, Lock
    <3>6. [Append(q, a) EXCEPT ![Len(q) + 1] = l] = Append(q, l)
      <4>1. PICK n \in Nat : n = Len(q)
        BY <1>3
      <4>2. PICK x : x = Append(q, a)
        OBVIOUS
      <4>3. PICK y : y = Append(q, l)
        OBVIOUS
      <4>4. x \in Seq(Lock) /\ Len(x) = n + 1 /\ \A i \in 1..n : x[i] = q[i]
        BY <1>3, <3>a, <4>1, <4>2
      <4>5. y \in Seq(Lock) /\ Len(y) = n + 1 /\ y[n + 1] = l /\ \A i \in 1..n : y[i] = q[i]
        BY <1>3, <2>1, <4>1, <4>3
      <4>6. DOMAIN x = 1 .. n + 1 /\ DOMAIN y = 1 .. n + 1
        BY <4>4, <4>5
      <4>7. \A i \in 1 .. n + 1 : [x EXCEPT ![n + 1] = l][i] = y[i]
        <5> TAKE i \in 1 .. n + 1
        <5>1. CASE i = n + 1
          BY <4>5, <4>6, <5>1
        <5>2. CASE i # n + 1
          BY <4>4, <4>5, <4>6, <5>2
        <5> QED
          BY <5>1, <5>2
      <4>8. y = [i \in 1 .. n + 1 |-> y[i]]
        BY <4>5, <4>6
      <4>9. [x EXCEPT ![n + 1] = l] = y
        BY <4>6, <4>7, <4>8
      <4> QED
        BY <4>1, <4>2, <4>3, <4>9
    <3> QED
      BY <1>5, <3>1, <3>5, <3>6
  <2>4. state' = [state EXCEPT ![t] = "ROLLBACK"]
    BY <1>9, <1>12
  <2> HIDE DEF l
  <2>5. Grown(q, locks', r) /\ Eases(q, locks') /\ \A u : Waits(locks', u) <=> Waits(q, u)
    BY <2>1, <2>2, <2>3, GrownByIdle
  <2>6. \A u : Implied(q, r, u) => Implied(locks', r, u)
    <3>1. PICK s : s # r
      BY HeapFacts
    <3>2. Grown(q, locks', s)
      BY <2>1, <2>2, <2>3, GrownByIdle
    <3> QED
      BY <3>1, <3>2 DEF Grown
  <2> QED
    BY <1>9, <2>4, <2>5, <2>6
<1> QED
  BY <1>11, <1>12

---------------------------------------------------------------------------
(* The inductive invariant, and requests                                   *)

\* Where the locks on key r are while the operation with latch L is under way.
Spot(L, r) == IF L.op = "UPDATE" /\ L.key = r THEN Infimum ELSE r

\* The records.  A transaction that gives its locks back is no writer any more.
RecsInv ==
  /\ recs \in [Keys -> Rec]
  /\ \A r \in Keys : /\ ~recs[r].here => recs[r].by = NoTrx
                     /\ recs[r].by # NoTrx => state[recs[r].by] # "RELEASE"

\* Who has the page latch is running.
LatchInv ==
  /\ latch \in Latch
  /\ latch.op = "NONE" => latch = NoLatch
  /\ latch.op # "NONE" => latch.trx \in Trx /\ latch.key \in Keys /\ state[latch.trx] = "RUNNING"
  /\ latch.op = "INSERT" => latch.key \notin Here
  /\ latch.op = "UPDATE" => recs[latch.key].by = latch.trx

\* A transaction is in LOCK_WAIT exactly if it has a waiting lock.
StateInv ==
  /\ state \in [Trx -> States]
  /\ \A t \in Trx : /\ state[t] = "LOCK_WAIT" => Waits(locks, t)
                    /\ Waits(locks, t) => state[t] = "LOCK_WAIT"
                    /\ state[t] = "RELEASE" => HasLocks(t, locks)

\* Locks are on records of the page only, or on the supremum.
OnInv ==
  \A k \in DOMAIN locks : \A s \in locks[k].on : s = Supremum \/ \E r \in Here : s = Spot(latch, r)

\* The implicit locks conflict with no one.
ImplicitInv ==
  \A r \in Keys : recs[r].by # NoTrx => Implied(locks, Spot(latch, r), recs[r].by)

\* The inductive invariant.
IInv == Chain(locks, {}) /\ RecsInv /\ LatchInv /\ StateInv /\ OnInv /\ ImplicitInv

\* Whom a request does not conflict with, and with whom it does.
LEMMA RefusedMeans ==
  ASSUME NEW q \in Seq(Lock), NEW mode \in {"S", "X"}, NEW r, NEW t
  PROVE  /\ Refused(q, mode, r, t) =>
              \E k \in OnRec(q, r) : q[k].trx # t /\ ~Compatible(mode, q[k].mode)
         /\ ~Refused(q, mode, r, t) /\ ~HasExpl(q, mode, r, t) /\ r # Supremum =>
              \A k \in DOMAIN q : Real(q[k], r) => q[k].trx = t \/ Compatible(mode, q[k].mode)
<1>1. \A k \in DOMAIN q : q[k].mode \in {"S", "X"} /\ q[k].gap \in BOOLEAN
  BY LockFields
<1>2. \A k \in DOMAIN q : StrongerOrEq(q[k].mode, ConflMode(mode)) <=> ~Compatible(mode, q[k].mode)
  BY <1>1 DEF StrongerOrEq, ConflMode, Compatible
<1>3. Refused(q, mode, r, t) =>
        \E k \in OnRec(q, r) : q[k].trx # t /\ ~Compatible(mode, q[k].mode)
  BY <1>2 DEF Refused, OtherHasExplReq, OnRec
<1>4. ~Refused(q, mode, r, t) /\ ~HasExpl(q, mode, r, t) /\ r # Supremum =>
        \A k \in DOMAIN q : Real(q[k], r) => q[k].trx = t \/ Compatible(mode, q[k].mode)
  BY <1>1, <1>2 DEF Refused, OtherHasExplReq, OnRec, Real
<1> QED
  BY <1>3, <1>4

\* While nothing has the latch, locks are on their records.
LEMMA FreeSpots ==
  ASSUME Free
  PROVE  \A r : Spot(latch, r) = r
BY DEF Free, Spot, NoLatch

\* lock_rec_convert_impl_to_expl only adds the lock the writer had anyway.
LEMMA ConvertKeeps ==
  ASSUME IInv, Free, NEW r \in Here \cup {Supremum}
  PROVE  LET q == ConvertImpl(locks, r)
         IN  /\ Grown(locks, q, r)
             /\ \A u : (Waits(q, u) => Waits(locks, u)) /\ (Waits(locks, u) => Waits(q, u))
             /\ r \in Keys /\ recs[r].by # NoTrx => HasExpl(q, "X", r, recs[r].by)
<1>1. r \in Heap /\ Here \subseteq Keys /\ Supremum \notin Keys
  BY HeapFacts DEF Here
<1>2. Chain(locks, {}) /\ locks \in Seq(Lock)
  BY DEF IInv, Chain
<1>3. CASE r \in Here /\ recs[r].by # NoTrx /\ ~HasExpl(locks, "X", r, recs[r].by)
  <2>1. PICK t \in Trx : t = recs[r].by
    BY <1>1, <1>3 DEF IInv, RecsInv, Rec
  <2>2. Implied(locks, r, t)
    BY <1>1, <1>3, <2>1, FreeSpots DEF IInv, ImplicitInv
  <2>3. MayPut(locks, t, "X", FALSE, FALSE, r)
    BY <1>3, <2>1, <2>2 DEF MayPut, Implied
  <2>4. ConvertImpl(locks, r) = AddToQueue(locks, t, "X", FALSE, FALSE, r)
    BY <1>3, <2>1 DEF ConvertImpl
  <2>5. PICK x \in {"S", "X"} : x = "X"
    OBVIOUS
  <2>6. LET p == AddToQueue(locks, t, x, FALSE, FALSE, r)
        IN  /\ Grown(locks, p, r)
            /\ \A u : (Waits(p, u) => Waits(locks, u)) /\ (Waits(locks, u) => Waits(p, u))
            /\ r # Supremum => HasExpl(p, x, r, t)
    <3>1. MayPut(locks, t, x, FALSE, FALSE, r)
      BY <2>3, <2>5
    <3> QED
      BY <1>1, <1>2, <3>1, GrownByAdd, ZenonT(90)
  <2> QED
    BY <1>1, <2>1, <2>4, <2>5, <2>6
<1>4. CASE ~(r \in Here /\ recs[r].by # NoTrx /\ ~HasExpl(locks, "X", r, recs[r].by))
  <2>1. ConvertImpl(locks, r) = locks
    BY <1>4 DEF ConvertImpl
  <2>2. r \in Keys => r \in Here
    BY <1>1
  <2> QED
    BY <1>2, <1>4, <2>1, <2>2, GrownSame
<1> QED
  BY <1>3, <1>4

\* What a request does to the chain and to the records keeps their part of the
\* invariant.
LEMMA RequestKeeps ==
  ASSUME IInv, Free, UNCHANGED latch, NEW r \in Here \cup {Supremum}, Grown(locks, locks', r),
         \A k \in Keys : (recs'[k].here <=> recs[k].here) /\ (k # r => recs'[k].by = recs[k].by),
         r \in Keys /\ recs'[r].by # NoTrx => Implied(locks', r, recs'[r].by)
  PROVE  /\ Chain(locks', {}) /\ OnInv' /\ ImplicitInv'
         /\ \A t : HasLocks(t, locks) => HasLocks(t, locks')
<1>1. Here' = Here
  BY DEF Here
<1>2. \A s : Spot(latch, s) = s /\ Spot(latch', s) = s
  BY FreeSpots
<1>3. OnInv'
  <2> SUFFICES ASSUME NEW k \in DOMAIN locks', NEW s \in locks'[k].on
               PROVE  s = Supremum \/ \E u \in Here' : s = Spot(latch', u)
    BY DEF OnInv
  <2>1. s = r \/ (k \in DOMAIN locks /\ s \in locks[k].on)
    BY DEF Grown
  <2>2. CASE s = r
    BY <1>1, <1>2, <2>2
  <2>3. CASE k \in DOMAIN locks /\ s \in locks[k].on
    BY <1>1, <1>2, <2>3 DEF IInv, OnInv
  <2> QED
    BY <2>1, <2>2, <2>3
<1>4. ImplicitInv'
  <2> SUFFICES ASSUME NEW k \in Keys, recs'[k].by # NoTrx
               PROVE  Implied(locks', k, recs'[k].by)
    BY <1>2 DEF ImplicitInv
  <2>1. CASE k = r
    BY <2>1
  <2>2. CASE k # r
    <3>1. recs'[k].by = recs[k].by /\ Implied(locks, k, recs[k].by)
      BY <1>2, <2>2 DEF IInv, ImplicitInv
    <3> QED
      BY <2>2, <3>1 DEF Grown
  <2> QED
    BY <2>1, <2>2
<1>5. \A t : HasLocks(t, locks) => HasLocks(t, locks')
  BY DEF HasLocks, Grown
<1> QED
  BY <1>3, <1>4, <1>5 DEF Grown

\* A request that succeeds: someone who runs may now be the writer of r.
LEMMA GrantKeeps ==
  ASSUME IInv, Free, UNCHANGED <<state, latch>>, NEW r \in Here \cup {Supremum},
         Grown(locks, locks', r),
         \A u : (Waits(locks', u) => Waits(locks, u)) /\ (Waits(locks, u) => Waits(locks', u)),
         recs' \in [Keys -> Rec],
         \A k \in Keys : (recs'[k].here <=> recs[k].here) /\ (k # r => recs'[k].by = recs[k].by),
         r \in Keys /\ recs'[r].by # NoTrx =>
           Implied(locks', r, recs'[r].by) /\ state[recs'[r].by] # "RELEASE"
  PROVE  IInv'
<1>1. /\ Chain(locks', {}) /\ OnInv' /\ ImplicitInv'
      /\ \A t : HasLocks(t, locks) => HasLocks(t, locks')
  BY RequestKeeps
<1>2. Here' = Here /\ Here \subseteq Keys
  BY DEF Here
<1>3. RecsInv'
  <2>1. ASSUME NEW k \in Keys, ~recs'[k].here
        PROVE  recs'[k].by = NoTrx
    <3>1. k # r
      BY <2>1, HeapFacts DEF Here
    <3> QED
      BY <2>1, <3>1 DEF IInv, RecsInv
  <2>2. ASSUME NEW k \in Keys, recs'[k].by # NoTrx
        PROVE  state'[recs'[k].by] # "RELEASE"
    BY <2>2 DEF IInv, RecsInv
  <2> QED
    BY <2>1, <2>2 DEF RecsInv
<1>4. LatchInv'
  BY <1>2 DEF IInv, LatchInv, Free, NoLatch
<1>5. StateInv'
  BY <1>1 DEF IInv, StateInv
<1> QED
  BY <1>1, <1>3, <1>4, <1>5 DEF IInv

\* A request that waits, or does not because of a deadlock.
LEMMA WaitKeeps ==
  ASSUME IInv, Free, NEW t \in Trx, state[t] = "RUNNING", NEW r \in Here \cup {Supremum},
         NEW mode \in {"S", "X"}, NEW gap \in BOOLEAN, NEW q, Grown(locks, q, r),
         \A u : (Waits(q, u) => Waits(locks, u)) /\ (Waits(locks, u) => Waits(q, u)),
         \E k \in OnRec(q, r) : q[k].trx # t /\ ~Compatible(mode, q[k].mode),
         r \in Keys /\ recs[r].by # NoTrx =>
           HasExpl(q, "X", r, recs[r].by) \/ (gap /\ Implied(q, r, recs[r].by)),
         EnqueueWaiting(q, t, mode, gap, r)
  PROVE  IInv'
<1>1. r \in Heap /\ Here \subseteq Keys /\ Supremum \notin Keys
  BY HeapFacts DEF Here
<1>2. Chain(q, {}) /\ ~Waits(q, t)
  BY DEF IInv, StateInv, Grown
<1>3. /\ Grown(q, locks', r) /\ UNCHANGED <<recs, latch>>
      /\ gap /\ r # Supremum => \A u : Implied(q, r, u) => Implied(locks', r, u)
      /\ \/ /\ state' = [state EXCEPT ![t] = "LOCK_WAIT"]
            /\ \A u : Waits(locks', u) <=> Waits(q, u) \/ u = t
         \/ /\ state' = [state EXCEPT ![t] = "ROLLBACK"]
            /\ \A u : Waits(locks', u) <=> Waits(q, u)
  BY <1>1, <1>2, EnqueueKeeps
<1>4. Grown(locks, locks', r)
  BY <1>3, GrownTwice
<1>5. r \in Keys /\ recs'[r].by # NoTrx => Implied(locks', r, recs'[r].by)
  <2> SUFFICES ASSUME r \in Keys, recs[r].by # NoTrx
               PROVE  Implied(locks', r, recs[r].by)
    BY <1>3
  <2>1. CASE HasExpl(q, "X", r, recs[r].by)
    BY <1>3, <2>1 DEF Grown, Implied
  <2>2. CASE gap /\ Implied(q, r, recs[r].by)
    BY <1>1, <1>3, <2>2
  <2> QED
    BY <2>1, <2>2
<1>6. /\ Chain(locks', {}) /\ OnInv' /\ ImplicitInv'
      /\ \A u : HasLocks(u, locks) => HasLocks(u, locks')
  <2>1. UNCHANGED <<recs, latch>>
    BY <1>3
  <2> QED
    BY <1>4, <1>5, <2>1, RequestKeeps
<1>7. state \in [Trx -> States]
  BY DEF IInv, StateInv
<1>8. PICK x \in {"LOCK_WAIT", "ROLLBACK"} : /\ state' = [state EXCEPT ![t] = x]
                                             /\ \A u : Waits(locks', u) <=> Waits(q, u) \/ (u = t /\ x = "LOCK_WAIT")
  BY <1>3
<1>9. StateInv'
  <2>1. state' \in [Trx -> States]
    BY <1>7, <1>8 DEF States
  <2>2. \A u \in Trx : /\ state'[u] = "LOCK_WAIT" => Waits(locks', u)
                       /\ Waits(locks', u) => state'[u] = "LOCK_WAIT"
                       /\ state'[u] = "RELEASE" => HasLocks(u, locks')
    BY <1>2, <1>6, <1>7, <1>8 DEF IInv, StateInv
  <2> QED
    BY <2>1, <2>2 DEF StateInv
<1>10. RecsInv'
  <2>1. \A u \in Trx : state[u] # "RELEASE" => state'[u] # "RELEASE"
    BY <1>7, <1>8
  <2>2. \A k \in Keys : recs[k].by \in Trx \/ recs[k].by = NoTrx
    BY DEF IInv, RecsInv, Rec
  <2> QED
    BY <1>3, <2>1, <2>2 DEF IInv, RecsInv
<1>11. LatchInv'
  BY <1>3 DEF IInv, LatchInv, Free, NoLatch, Here
<1> QED
  BY <1>6, <1>9, <1>10, <1>11 DEF IInv

\* The next record is one, and greater.
LEMMA NextRecIs ==
  ASSUME NEW r \in Keys
  PROVE  NextRec(r) \in Here \cup {Supremum} /\ NextRec(r) > r /\ NextRec(r) # r
<1> DEFINE S == {p \in Here \cup {Supremum} : p > r}
<1>1. S \in SUBSET Nat
  BY HeapFacts DEF Here
<1>2. r \in Nat /\ Supremum > r
  BY PageAssumption DEF Keys, Supremum
<1>3. Supremum \in S
  BY <1>2
<1>4. Min(S) \in S
  BY <1>1, <1>3, MinIs
<1>5. NextRec(r) = Min(S)
  BY DEF NextRec
<1> QED
  BY <1>1, <1>2, <1>4, <1>5

\* The actions, one by one.
LEMMA ReadKeeps ==
  ASSUME IInv, NEW t \in Trx, NEW r \in Keys \cup {Supremum}, NEW mode \in {"S", "X"}, Read(t, r, mode)
  PROVE  IInv'
<1>1. PICK q : q = ConvertImpl(locks, r)
  OBVIOUS
<1>2. /\ state[t] = "RUNNING" /\ Free /\ r \in Here \cup {Supremum}
      /\ \/ Refused(q, mode, r, t) /\ EnqueueWaiting(q, t, mode, FALSE, r)
         \/ /\ ~Refused(q, mode, r, t)
            /\ locks' = Granted(q, mode, r, t)
            /\ UNCHANGED <<recs, state, latch>>
  BY <1>1 DEF Read
<1>3. /\ Grown(locks, q, r)
      /\ \A u : (Waits(q, u) => Waits(locks, u)) /\ (Waits(locks, u) => Waits(q, u))
      /\ r \in Keys /\ recs[r].by # NoTrx => HasExpl(q, "X", r, recs[r].by)
  BY <1>1, <1>2, ConvertKeeps
<1>4. Chain(q, {}) /\ q \in Seq(Lock) /\ r \in Heap
  BY <1>3, HeapFacts DEF Grown, Chain
<1>5. CASE Refused(q, mode, r, t) /\ EnqueueWaiting(q, t, mode, FALSE, r)
  <2>1. \E k \in OnRec(q, r) : q[k].trx # t /\ ~Compatible(mode, q[k].mode)
    BY <1>4, <1>5, RefusedMeans
  <2>2. PICK gap \in BOOLEAN : gap = FALSE
    OBVIOUS
  <2>3. EnqueueWaiting(q, t, mode, gap, r)
    BY <1>5, <2>2
  <2> QED
    BY <1>2, <1>3, <2>1, <2>3, WaitKeeps
<1>6. CASE ~Refused(q, mode, r, t) /\ locks' = Granted(q, mode, r, t) /\ UNCHANGED <<recs, state, latch>>
  <2>1. /\ Grown(q, locks', r)
        /\ \A u : (Waits(locks', u) => Waits(q, u)) /\ (Waits(q, u) => Waits(locks', u))
    <3>1. CASE HasExpl(q, mode, r, t)
      <4>1. locks' = q
        BY <1>6, <3>1 DEF Granted
      <4> QED
        BY <1>4, <4>1, GrownSame
    <3>2. CASE ~HasExpl(q, mode, r, t)
      <4>1. locks' = AddToQueue(q, t, mode, FALSE, FALSE, r)
        BY <1>6, <3>2 DEF Granted
      <4>2. MayPut(q, t, mode, FALSE, FALSE, r)
        BY <1>4, <1>6, <3>2, RefusedMeans DEF MayPut
      <4> QED
        BY <1>4, <4>1, <4>2, GrownByAdd, ZenonT(120)
    <3> QED
      BY <3>1, <3>2
  <2>2. Grown(locks, locks', r)
    BY <1>3, <2>1, GrownTwice
  <2>3. \A u : (Waits(locks', u) => Waits(locks, u)) /\ (Waits(locks, u) => Waits(locks', u))
    BY <1>3, <2>1
  <2>4. r \in Keys /\ recs'[r].by # NoTrx =>
          Implied(locks', r, recs'[r].by) /\ state[recs'[r].by] # "RELEASE"
    BY <1>3, <1>6, <2>1 DEF Grown, Implied, IInv, RecsInv
  <2>5. /\ recs' \in [Keys -> Rec]
        /\ \A k \in Keys : (recs'[k].here <=> recs[k].here) /\ (k # r => recs'[k].by = recs[k].by)
    BY <1>6 DEF IInv, RecsInv
  <2> QED
    BY <1>2, <1>6, <2>2, <2>3, <2>4, <2>5, GrantKeeps
<1> QED
  BY <1>2, <1>5, <1>6

\* lock_rec_insert_check_and_lock.
LEMMA InsertCheckKeeps ==
  ASSUME IInv, NEW t \in Trx, NEW r \in Keys, InsertCheck(t, r)
  PROVE  IInv'
<1>1. PICK next : next = NextRec(r)
  OBVIOUS
<1>2. next \in Here \cup {Supremum} /\ next \in Heap
  BY <1>1, NextRecIs, HeapFacts DEF Here
<1>3. /\ state[t] = "RUNNING" /\ Free /\ r \notin Here
      /\ \/ /\ OtherHasExplReq(locks, "S", TRUE, next, t)
            /\ EnqueueWaiting(locks, t, "X", TRUE, next)
         \/ /\ latch' = [op |-> "INSERT", trx |-> t, key |-> r]
            /\ UNCHANGED <<locks, recs, state>>
  BY <1>1 DEF InsertCheck
<1>4. Chain(locks, {})
  BY DEF IInv
<1>5. CASE OtherHasExplReq(locks, "S", TRUE, next, t) /\ EnqueueWaiting(locks, t, "X", TRUE, next)
  <2>1. PICK gap \in BOOLEAN : gap = TRUE
    OBVIOUS
  <2>2. PICK mode \in {"S", "X"} : mode = "X"
    OBVIOUS
  <2>3. EnqueueWaiting(locks, t, mode, gap, next)
    BY <1>5, <2>1, <2>2
  <2>4. \E k \in OnRec(locks, next) : locks[k].trx # t /\ ~Compatible(mode, locks[k].mode)
    BY <1>5, <2>2 DEF OtherHasExplReq, Compatible
  <2>5. Grown(locks, locks, next)
    BY <1>4, GrownSame
  <2>6. next \in Keys /\ recs[next].by # NoTrx => gap /\ Implied(locks, next, recs[next].by)
    BY <1>3, <2>1, FreeSpots DEF IInv, ImplicitInv
  <2> QED
    BY <1>2, <1>3, <2>3, <2>4, <2>5, <2>6, WaitKeeps
<1>6. CASE latch' = [op |-> "INSERT", trx |-> t, key |-> r] /\ UNCHANGED <<locks, recs, state>>
  <2>1. latch'.op = "INSERT" /\ latch'.trx = t /\ latch'.key = r
    BY <1>6
  <2>2. \A k : Spot(latch', k) = k /\ Spot(latch, k) = k
    BY <1>3, <2>1, FreeSpots DEF Spot
  <2>3. Here' = Here
    BY <1>6 DEF Here
  <2>4. LatchInv'
    <3>1. latch' \in Latch
      BY <1>6 DEF Latch, Keys
    <3> QED
      BY <1>3, <1>6, <2>1, <2>3, <3>1 DEF LatchInv
  <2>5. RecsInv' /\ StateInv' /\ Chain(locks', {})
    BY <1>4, <1>6 DEF IInv, RecsInv, StateInv
  <2>6. OnInv' /\ ImplicitInv'
    BY <1>6, <2>2, <2>3 DEF IInv, OnInv, ImplicitInv
  <2> QED
    BY <2>4, <2>5, <2>6 DEF IInv
<1> QED
  BY <1>3, <1>5, <1>6

\* lock_clust_rec_modify_check_and_lock: a writer that is not refused conflicts
\* with no one, so its implicit lock does not.
LEMMA ModifyKeeps ==
  ASSUME IInv, NEW t \in Trx, NEW r \in Keys, Modify(t, r)
  PROVE  IInv'
<1>1. PICK q : q = ConvertImpl(locks, r)
  OBVIOUS
<1>2. /\ state[t] = "RUNNING" /\ Free /\ r \in Here
      /\ \/ Refused(q, "X", r, t) /\ EnqueueWaiting(q, t, "X", FALSE, r)
         \/ /\ ~Refused(q, "X", r, t)
            /\ \/ locks' = q /\ UNCHANGED latch
               \/ /\ locks' = Move(q, Infimum, r)
                  /\ latch' = [op |-> "UPDATE", trx |-> t, key |-> r]
            /\ recs' = [recs EXCEPT ![r].by = t, ![r].fresh = @ /\ recs[r].by = t]
            /\ UNCHANGED state
  BY <1>1 DEF Modify
<1>3. /\ Grown(locks, q, r)
      /\ \A u : (Waits(q, u) => Waits(locks, u)) /\ (Waits(locks, u) => Waits(q, u))
      /\ r \in Keys /\ recs[r].by # NoTrx => HasExpl(q, "X", r, recs[r].by)
  BY <1>1, <1>2, ConvertKeeps
<1>4. /\ Chain(q, {}) /\ q \in Seq(Lock)
      /\ r \in Heap \ {Supremum} /\ Infimum \in Heap \ {Supremum} /\ r # Infimum
  BY <1>3, HeapFacts DEF Grown, Chain
<1>5. PICK mode \in {"S", "X"} : mode = "X"
  OBVIOUS
<1>6. CASE Refused(q, "X", r, t) /\ EnqueueWaiting(q, t, "X", FALSE, r)
  <2>1. \E k \in OnRec(q, r) : q[k].trx # t /\ ~Compatible(mode, q[k].mode)
    BY <1>4, <1>5, <1>6, RefusedMeans
  <2>2. PICK gap \in BOOLEAN : gap = FALSE
    OBVIOUS
  <2>3. EnqueueWaiting(q, t, mode, gap, r)
    BY <1>5, <1>6, <2>2
  <2> QED
    BY <1>2, <1>3, <2>1, <2>3, WaitKeeps
<1>7. CASE /\ ~Refused(q, "X", r, t)
           /\ \/ locks' = q /\ UNCHANGED latch
              \/ /\ locks' = Move(q, Infimum, r)
                 /\ latch' = [op |-> "UPDATE", trx |-> t, key |-> r]
           /\ recs' = [recs EXCEPT ![r].by = t, ![r].fresh = @ /\ recs[r].by = t]
           /\ UNCHANGED state
  <2>1. recs \in [Keys -> Rec]
    BY DEF IInv, RecsInv
  <2>2. /\ recs' \in [Keys -> Rec] /\ recs'[r].by = t
        /\ \A k \in Keys : (recs'[k].here <=> recs[k].here) /\ (k # r => recs'[k].by = recs[k].by)
    <3>1. PICK b \in BOOLEAN : b = (recs[r].fresh /\ recs[r].by = t)
      BY <2>1 DEF Rec
    <3>2. recs' = [recs EXCEPT ![r] = [recs[r] EXCEPT !.by = t, !.fresh = b]]
      BY <1>7, <3>1
    <3> DEFINE n == [recs[r] EXCEPT !.by = t, !.fresh = b]
    <3>3. n \in Rec /\ n.by = t /\ n.here = recs[r].here
      BY <2>1, <3>1 DEF Rec
    <3> HIDE DEF n
    <3>4. recs' = [recs EXCEPT ![r] = n]
      BY <3>2 DEF n
    <3> QED
      BY <2>1, <3>3, <3>4
  <2>3. Implied(q, r, t)
    <3>1. CASE HasExpl(q, "X", r, t)
      BY <3>1 DEF Implied
    <3>2. CASE ~HasExpl(q, "X", r, t)
      <4>1. \A k \in DOMAIN q : Real(q[k], r) => q[k].trx = t \/ Compatible("X", q[k].mode)
        BY <1>4, <1>5, <1>7, <3>2, RefusedMeans
      <4> QED
        BY <4>1 DEF Implied, Compatible
    <3> QED
      BY <3>1, <3>2
  <2>4. CASE locks' = q /\ UNCHANGED latch
    <3>1. recs'[r].by # NoTrx => Implied(locks', r, recs'[r].by) /\ state[recs'[r].by] # "RELEASE"
      BY <1>2, <2>2, <2>3, <2>4
    <3>2. Grown(locks, locks', r)
          /\ \A u : (Waits(locks', u) => Waits(locks, u)) /\ (Waits(locks, u) => Waits(locks', u))
      BY <1>3, <2>4
    <3> QED
      BY <1>2, <1>7, <2>2, <2>4, <3>1, <3>2, GrantKeeps
  <2>5. CASE locks' = Move(q, Infimum, r) /\ latch' = [op |-> "UPDATE", trx |-> t, key |-> r]
    <3>1. latch'.op = "UPDATE" /\ latch'.trx = t /\ latch'.key = r
      BY <2>5
    <3>2. Here' = Here /\ Here \subseteq Keys
      BY <2>2 DEF Here
    <3>3. \A k \in DOMAIN q : \A s \in q[k].on : s = Supremum \/ s \in Here
      BY <1>2, <1>3, FreeSpots DEF IInv, OnInv, Grown
    <3>4. OnRec(q, Infimum) = {}
      BY <3>2, <3>3, HeapFacts DEF OnRec
    <3>5. MovedTo(q, locks', Infimum, r)
      BY <1>4, <2>5, <3>4, MoveKeeps
    <3>6. Chain(locks', {})
      BY <3>5 DEF MovedTo
    <3>7. OnInv'
      <4> SUFFICES ASSUME NEW k \in DOMAIN locks', NEW s \in locks'[k].on
                   PROVE  s = Supremum \/ \E u \in Here' : s = Spot(latch', u)
        BY DEF OnInv
      <4>1. s = Infimum \/ (s # r /\ k \in DOMAIN q /\ s \in q[k].on)
        BY <3>5 DEF MovedTo
      <4>2. CASE s = Infimum
        BY <1>2, <3>1, <3>2, <4>2 DEF Spot
      <4>3. CASE s # r /\ k \in DOMAIN q /\ s \in q[k].on
        BY <3>1, <3>2, <3>3, <4>3 DEF Spot
      <4> QED
        BY <4>1, <4>2, <4>3
    <3>8. ImplicitInv'
      <4> SUFFICES ASSUME NEW k \in Keys, recs'[k].by # NoTrx
                   PROVE  Implied(locks', Spot(latch', k), recs'[k].by)
        BY DEF ImplicitInv
      <4>1. CASE k = r
        BY <2>2, <2>3, <3>1, <3>5, <4>1 DEF MovedTo, Spot
      <4>2. CASE k # r
        <5>1. recs'[k].by = recs[k].by /\ Spot(latch', k) = k /\ Spot(latch, k) = k
          BY <1>2, <2>2, <3>1, <4>2, FreeSpots DEF Spot
        <5>2. Implied(q, k, recs[k].by)
          BY <1>3, <4>2, <5>1 DEF IInv, ImplicitInv, Grown
        <5>3. k \notin {Infimum, r}
          BY <4>2, HeapFacts
        <5> QED
          BY <3>5, <5>1, <5>2, <5>3 DEF MovedTo
      <4> QED
        BY <4>1, <4>2
    <3>9. StateInv'
      <4>1. \A u : (Waits(locks', u) => Waits(locks, u)) /\ (Waits(locks, u) => Waits(locks', u))
        BY <1>3, <3>5 DEF MovedTo
      <4>2. \A u : HasLocks(u, locks) => HasLocks(u, locks')
        BY <1>3, <3>5 DEF MovedTo, Grown, HasLocks
      <4> QED
        BY <1>7, <4>1, <4>2 DEF IInv, StateInv
    <3>10. LatchInv'
      <4>1. latch' \in Latch
        BY <2>5 DEF Latch, Keys
      <4> QED
        BY <1>2, <1>7, <2>2, <3>1, <4>1 DEF LatchInv
    <3>11. RecsInv'
      <4>1. ASSUME NEW k \in Keys, ~recs'[k].here
            PROVE  recs'[k].by = NoTrx
        BY <1>2, <2>2, <4>1 DEF IInv, RecsInv, Here
      <4>2. ASSUME NEW k \in Keys, recs'[k].by # NoTrx
            PROVE  state'[recs'[k].by] # "RELEASE"
        BY <1>2, <1>7, <2>2, <4>2 DEF IInv, RecsInv
      <4> QED
        BY <2>2, <4>1, <4>2 DEF RecsInv
    <3> QED
      BY <3>6, <3>7, <3>8, <3>9, <3>10, <3>11 DEF IInv
  <2> QED
    BY <1>7, <2>4, <2>5
<1> QED
  BY <1>2, <1>6, <1>7

\* lock_rec_restore_from_page_infimum brings the locks back to the record.
LEMMA RestoreKeeps ==
  ASSUME IInv, NEW t \in Trx, RestoreFromInfimum(t)
  PROVE  IInv'
<1>1. /\ latch.op = "UPDATE" /\ latch.trx = t
      /\ locks' = Move(locks, latch.key, Infimum) /\ latch' = NoLatch /\ UNCHANGED <<recs, state>>
  BY DEF RestoreFromInfimum
<1>2. PICK r \in Keys : r = latch.key
  BY <1>1 DEF IInv, LatchInv
<1>3. recs[r].by = t /\ t # NoTrx /\ r \in Here
  BY <1>1, <1>2, LockSysAssumption DEF IInv, LatchInv, RecsInv, Here
<1>4. r \in Heap \ {Supremum} /\ Infimum \in Heap \ {Supremum} /\ r # Infimum /\ Here \subseteq Keys
  BY HeapFacts DEF Here
<1>5. \A k : Spot(latch, k) = IF k = r THEN Infimum ELSE k
  BY <1>1, <1>2 DEF Spot
<1>6. \A k : Spot(latch', k) = k
  BY <1>1 DEF Spot, NoLatch
<1>7. OnRec(locks, r) = {}
  <2>1. \A k \in DOMAIN locks : r \notin locks[k].on
    <3> SUFFICES ASSUME NEW k \in DOMAIN locks, r \in locks[k].on
                 PROVE  FALSE
      OBVIOUS
    <3>1. r = Supremum \/ \E u \in Here : r = Spot(latch, u)
      BY DEF IInv, OnInv
    <3> QED
      BY <1>4, <1>5, <3>1, HeapFacts
  <2> QED
    BY <2>1 DEF OnRec
<1>8. MovedTo(locks, locks', r, Infimum)
  BY <1>1, <1>2, <1>4, <1>7, MoveKeeps DEF IInv
<1>9. Here' = Here
  BY <1>1 DEF Here
<1>10. OnInv'
  <2> SUFFICES ASSUME NEW k \in DOMAIN locks', NEW s \in locks'[k].on
               PROVE  s = Supremum \/ s \in Here
    BY <1>6, <1>9 DEF OnInv
  <2>1. s = r \/ (s # Infimum /\ k \in DOMAIN locks /\ s \in locks[k].on)
    BY <1>8 DEF MovedTo
  <2>2. CASE s # Infimum /\ k \in DOMAIN locks /\ s \in locks[k].on
    <3>1. s = Supremum \/ \E u \in Here : s = Spot(latch, u)
      BY <2>2 DEF IInv, OnInv
    <3> QED
      BY <1>5, <2>2, <3>1
  <2> QED
    BY <1>3, <2>1, <2>2
<1>11. ImplicitInv'
  <2> SUFFICES ASSUME NEW k \in Keys, recs[k].by # NoTrx
               PROVE  Implied(locks', k, recs[k].by)
    BY <1>1, <1>6 DEF ImplicitInv
  <2>1. Implied(locks, Spot(latch, k), recs[k].by)
    BY DEF IInv, ImplicitInv
  <2>2. CASE k = r
    BY <1>5, <1>8, <2>1, <2>2 DEF MovedTo
  <2>3. CASE k # r
    <3>1. k \notin {r, Infimum} /\ Implied(locks, k, recs[k].by)
      BY <1>5, <2>1, <2>3, HeapFacts
    <3> QED
      BY <1>8, <3>1 DEF MovedTo
  <2> QED
    BY <2>2, <2>3
<1>12. StateInv'
  <2>1. \A u : (Waits(locks', u) => Waits(locks, u)) /\ (Waits(locks, u) => Waits(locks', u))
    BY <1>8 DEF MovedTo
  <2>2. \A u : HasLocks(u, locks) => HasLocks(u, locks')
    BY <1>8 DEF MovedTo, HasLocks
  <2> QED
    BY <1>1, <2>1, <2>2 DEF IInv, StateInv
<1>13. LatchInv'
  <2>1. 0 \in 0..N
    BY PageAssumption
  <2>2. NoLatch \in Latch /\ NoLatch.op = "NONE"
    BY <2>1 DEF NoLatch, Latch
  <2> QED
    BY <1>1, <2>2 DEF LatchInv
<1>14. RecsInv'
  BY <1>1 DEF IInv, RecsInv
<1> QED
  BY <1>8, <1>10, <1>11, <1>12, <1>13, <1>14 DEF IInv, MovedTo

\* No operation under way.
LEMMA NoLatchIs ==
  NoLatch \in Latch /\ NoLatch.op = "NONE" /\ \A k : Spot(NoLatch, k) = k
<1>1. 0 \in 0..N
  BY PageAssumption
<1> QED
  BY <1>1 DEF NoLatch, Latch, Spot

\* An inserted record: its writer's implicit lock meets gap locks only.
LEMMA InsertKeeps ==
  ASSUME IInv, NEW t \in Trx, Insert(t)
  PROVE  IInv'
<1>1. PICK r \in Keys : r = latch.key
  BY DEF IInv, LatchInv, Insert
<1>2. PICK next : next = NextRec(r)
  OBVIOUS
<1>3. /\ latch.op = "INSERT" /\ latch.trx = t
      /\ recs' = [recs EXCEPT ![r] = [here |-> TRUE, by |-> t, fresh |-> TRUE]]
      /\ locks' = InheritToGap(locks, r, next) /\ latch' = NoLatch /\ UNCHANGED state
  BY <1>1, <1>2 DEF Insert
<1>4. r \notin Here /\ state[t] = "RUNNING"
  BY <1>1, <1>3 DEF IInv, LatchInv
<1>5. r \in Heap \ {Supremum} /\ Here \subseteq Keys
  BY HeapFacts DEF Here
<1>6. Inherits(locks, locks', r)
  BY <1>3, <1>5, InheritKeeps DEF IInv
<1>7. recs \in [Keys -> Rec]
  BY DEF IInv, RecsInv
<1>8. /\ recs' \in [Keys -> Rec] /\ recs'[r].here /\ recs'[r].by = t
      /\ \A k \in Keys : k # r => recs'[k] = recs[k]
  <2> DEFINE n == [here |-> TRUE, by |-> t, fresh |-> TRUE]
  <2>1. n \in Rec /\ n.here /\ n.by = t
    BY DEF Rec
  <2>2. recs' = [recs EXCEPT ![r] = n]
    BY <1>3
  <2> HIDE DEF n
  <2> QED
    BY <1>7, <2>1, <2>2
<1>9. Here' = Here \cup {r}
  BY <1>8 DEF Here
<1>10. \A k : Spot(latch, k) = k /\ Spot(latch', k) = k
  BY <1>3, NoLatchIs DEF Spot
<1>11. OnInv'
  <2> SUFFICES ASSUME NEW k \in DOMAIN locks', NEW s \in locks'[k].on
               PROVE  s = Supremum \/ s \in Here'
    BY <1>10 DEF OnInv
  <2>1. s = r \/ (k \in DOMAIN locks /\ s \in locks[k].on)
    BY <1>6 DEF Inherits
  <2>2. CASE k \in DOMAIN locks /\ s \in locks[k].on
    BY <1>9, <1>10, <2>2 DEF IInv, OnInv
  <2> QED
    BY <1>9, <2>1, <2>2
<1>12. ImplicitInv'
  <2> SUFFICES ASSUME NEW k \in Keys, recs'[k].by # NoTrx
               PROVE  Implied(locks', k, recs'[k].by)
    BY <1>10 DEF ImplicitInv
  <2>1. Implied(locks, k, recs'[k].by)
    <3>1. CASE k = r
      <4>1. \A j \in DOMAIN locks : r \notin locks[j].on
        BY <1>4, <1>5, <1>10 DEF IInv, OnInv
      <4> QED
        BY <3>1, <4>1 DEF Implied, Real
    <3>2. CASE k # r
      BY <1>8, <1>10, <3>2 DEF IInv, ImplicitInv
    <3> QED
      BY <3>1, <3>2
  <2>2. k \in Heap \ {Supremum}
    BY HeapFacts
  <2> QED
    BY <1>6, <2>1, <2>2 DEF Inherits
<1>13. StateInv'
  <2>1. \A u : (Waits(locks', u) => Waits(locks, u)) /\ (Waits(locks, u) => Waits(locks', u))
    BY <1>6 DEF Inherits
  <2>2. \A u : HasLocks(u, locks) => HasLocks(u, locks')
    BY <1>6 DEF Inherits, HasLocks, Same
  <2> QED
    BY <1>3, <2>1, <2>2 DEF IInv, StateInv
<1>14. LatchInv'
  BY <1>3, NoLatchIs DEF LatchInv
<1>15. RecsInv'
  BY <1>3, <1>4, <1>8 DEF IInv, RecsInv
<1>16. Chain(locks', {})
  BY <1>6 DEF Inherits
<1> QED
  BY <1>11, <1>12, <1>13, <1>14, <1>15, <1>16 DEF IInv

\* What ending waits makes of the states.
LEMMA ResumedIs ==
  ASSUME StateInv, NEW q
  PROVE  /\ Resumed(q) \in [Trx -> States]
         /\ \A u \in Trx :
              Resumed(q)[u] = IF state[u] = "LOCK_WAIT" /\ ~Waits(q, u) THEN "RUNNING" ELSE state[u]
<1>1. \A u \in Trx : Waits(q, u) <=> \E k \in DOMAIN q : q[k].trx = u /\ q[k].wait
  BY DEF Waits
<1>2. Resumed(q) =
        [u \in Trx |-> IF state[u] = "LOCK_WAIT" /\ ~Waits(q, u) THEN "RUNNING" ELSE state[u]]
  BY DEF Resumed, Waits
<1>3. state \in [Trx -> States] /\ "RUNNING" \in States
  BY DEF StateInv, States
<1> QED
  BY <1>2, <1>3

\* lock_update_delete: the waiting locks of the record end, their transactions go on.
LEMMA DeleteKeeps ==
  ASSUME IInv, NEW r \in Here, Free, Delete(r)
  PROVE  IInv'
<1>1. r \in Keys /\ r \in Heap /\ Here \subseteq Keys
  BY HeapFacts DEF Here
<1>2. PICK next : next = NextRec(r)
  OBVIOUS
<1>3. next \in Here \cup {Supremum} /\ next # r /\ next \in Heap
  BY <1>1, <1>2, NextRecIs, HeapFacts
<1>4. PICK p : p = InheritToGap(locks, next, r)
  OBVIOUS
<1>5. /\ locks' = ResetAndRelease(p, r) /\ state' = Resumed(locks')
      /\ recs' = [recs EXCEPT ![r] = Absent] /\ UNCHANGED latch
  BY <1>2, <1>4 DEF Delete
<1>6. Inherits(locks, p, next)
  BY <1>3, <1>4, InheritKeeps DEF IInv
<1>7. Cleared(p, locks', r)
  BY <1>5, <1>6, ResetKeeps DEF Inherits
<1>8. recs \in [Keys -> Rec]
  BY DEF IInv, RecsInv
<1>9. /\ recs' \in [Keys -> Rec] /\ ~recs'[r].here /\ recs'[r].by = NoTrx
      /\ \A k \in Keys : k # r => recs'[k] = recs[k]
  <2>1. Absent \in Rec /\ ~Absent.here /\ Absent.by = NoTrx
    BY DEF Absent, Rec
  <2> QED
    BY <1>1, <1>5, <1>8, <2>1
<1>10. Here' = Here \ {r}
  BY <1>9 DEF Here
<1>11. \A k : Spot(latch, k) = k /\ Spot(latch', k) = k
  BY <1>5, FreeSpots
<1>12. OnInv'
  <2> SUFFICES ASSUME NEW k \in DOMAIN locks', NEW s \in locks'[k].on
               PROVE  s = Supremum \/ s \in Here'
    BY <1>11 DEF OnInv
  <2>1. k \in DOMAIN p /\ s \in p[k].on /\ s # r
    BY <1>7 DEF Cleared
  <2>2. s = next \/ (k \in DOMAIN locks /\ s \in locks[k].on)
    BY <1>6, <2>1 DEF Inherits
  <2>3. s = Supremum \/ s \in Here
    BY <1>3, <1>11, <2>2 DEF IInv, OnInv
  <2> QED
    BY <1>10, <2>1, <2>3
<1>13. ImplicitInv'
  <2> SUFFICES ASSUME NEW k \in Keys, recs'[k].by # NoTrx
               PROVE  Implied(locks', k, recs'[k].by)
    BY <1>11 DEF ImplicitInv
  <2>1. k # r /\ recs'[k] = recs[k]
    BY <1>9
  <2>2. Implied(locks, k, recs[k].by)
    BY <1>11, <2>1 DEF IInv, ImplicitInv
  <2>3. k \in Heap \ {Supremum}
    BY HeapFacts
  <2>4. Implied(p, k, recs[k].by)
    BY <1>6, <2>2, <2>3 DEF Inherits
  <2> QED
    BY <1>7, <2>1, <2>4 DEF Cleared
<1>14. \A u : Waits(locks', u) => Waits(locks, u)
  BY <1>6, <1>7 DEF Inherits, Cleared
<1>15. \A u : HasLocks(u, locks) => HasLocks(u, locks')
  BY <1>6, <1>7 DEF Inherits, Cleared, HasLocks, Same
<1>16. /\ state' \in [Trx -> States]
       /\ \A u \in Trx :
            state'[u] = IF state[u] = "LOCK_WAIT" /\ ~Waits(locks', u) THEN "RUNNING" ELSE state[u]
  BY <1>5, ResumedIs DEF IInv
<1>17. StateInv'
  BY <1>14, <1>15, <1>16 DEF IInv, StateInv
<1>18. LatchInv'
  BY <1>5, NoLatchIs DEF Free, LatchInv
<1>19. RecsInv'
  <2>1. \A k \in Keys : recs[k].by \in Trx \cup {NoTrx}
    BY <1>8 DEF Rec
  <2> QED
    BY <1>9, <1>16, <2>1 DEF IInv, RecsInv
<1>20. Chain(locks', {})
  BY <1>7 DEF Cleared
<1> QED
  BY <1>12, <1>13, <1>17, <1>18, <1>19, <1>20 DEF IInv

\* Rollback of an update only ends an implicit lock.
LEMMA UndoKeeps ==
  ASSUME IInv, NEW t \in Trx, NEW r \in Keys, Undo(t, r)
  PROVE  IInv'
<1>1. CASE Delete(r)
  BY <1>1, DeleteKeeps DEF Undo
<1>2. CASE recs' = [recs EXCEPT ![r] = Old] /\ UNCHANGED <<locks, state, latch>>
  <2>1. recs \in [Keys -> Rec] /\ Chain(locks, {}) /\ Free /\ r \in Here
    BY DEF IInv, RecsInv, Undo
  <2>2. Old \in Rec /\ Old.here /\ Old.by = NoTrx
    BY DEF Old, Rec
  <2>3. /\ recs' \in [Keys -> Rec] /\ recs'[r].by = NoTrx /\ recs'[r].here
        /\ \A k \in Keys : k # r => recs'[k] = recs[k]
    BY <1>2, <2>1, <2>2
  <2>4. \A k \in Keys : (recs'[k].here <=> recs[k].here) /\ (k # r => recs'[k].by = recs[k].by)
    BY <2>1, <2>3 DEF Here
  <2>5. Grown(locks, locks', r)
    BY <1>2, <2>1, GrownSame
  <2> QED
    BY <1>2, <2>1, <2>3, <2>4, <2>5, GrantKeeps
<1> QED
  BY <1>1, <1>2 DEF Undo

\* The greatest of the indices of a chain that are in a set.
LEMMA MaxIs ==
  ASSUME NEW q \in Seq(Lock), NEW S \in SUBSET DOMAIN q, S # {}
  PROVE  Max(S) \in S
<1>1. PICK n \in Nat : DOMAIN q = 1..n
  <2>1. Len(q) \in Nat /\ DOMAIN q = 1 .. Len(q)
    OBVIOUS
  <2> QED
    BY <2>1
<1> DEFINE T == {n - i : i \in S}
<1>2. T \in SUBSET Nat /\ T # {}
  BY <1>1
<1>3. PICK m \in T : \A j \in T : m <= j
  BY <1>2, SmallestOf
<1>4. PICK k \in S : m = n - k
  BY <1>3
<1>5. \A i \in S : k >= i
  <2> TAKE i \in S
  <2>0. \A j \in T : m <= j
    BY <1>3
  <2>1. n - i \in T /\ i \in 1..n /\ k \in 1..n
    BY <1>1
  <2> QED
    <3>1. m <= n - i
      BY <2>0, <2>1
    <3> HIDE DEF T
    <3> QED
      BY <1>1, <1>4, <2>1, <3>1
<1> QED
  BY <1>5 DEF Max

\* A lock that leaves the chain while transaction t gives up its wait, or its
\* locks one by one.
LEMMA ExitKeeps ==
  ASSUME IInv, NEW t \in Trx, NEW k \in DOMAIN locks, locks[k].trx = t,
         NEW x \in States, x # "LOCK_WAIT",
         locks' = Dequeue(locks, k), state' = [Resumed(locks') EXCEPT ![t] = x],
         UNCHANGED <<recs, latch>>, ~Waits(locks', t),
         state[t] = "RELEASE" \/ (state[t] = "LOCK_WAIT" /\ locks[k].wait),
         x = "RELEASE" => HasLocks(t, locks') /\ state[t] = "RELEASE"
  PROVE  IInv'
<1>1. Dequeued(locks, locks', k)
  BY DequeueKeeps DEF IInv
<1>2. Chain(locks', {})
  BY <1>1 DEF Dequeued
<1>4. /\ state' \in [Trx -> States] /\ state'[t] = x
      /\ \A u \in Trx : u # t =>
           state'[u] = IF state[u] = "LOCK_WAIT" /\ ~Waits(locks', u) THEN "RUNNING" ELSE state[u]
  <2>1. PICK f : f = Resumed(locks')
    OBVIOUS
  <2>2. /\ f \in [Trx -> States]
        /\ \A u \in Trx :
             f[u] = IF state[u] = "LOCK_WAIT" /\ ~Waits(locks', u) THEN "RUNNING" ELSE state[u]
    BY <2>1, ResumedIs DEF IInv
  <2>3. state' = [f EXCEPT ![t] = x]
    BY <2>1
  <2>4. state' \in [Trx -> States] /\ state'[t] = x /\ \A u \in Trx : u # t => state'[u] = f[u]
    <3>1. f \in [Trx -> States]
      BY <2>2
    <3> QED
      BY ONLY <2>3, <3>1, t \in Trx, x \in States
  <2> QED
    BY <2>2, <2>4
<1>5. \A u : Waits(locks', u) => Waits(locks, u)
  <2>1. \A u : Waits(locks', u) => \E j \in DOMAIN locks : locks[j].trx = u /\ locks[j].wait
    BY <1>1 DEF Dequeued
  <2> QED
    BY <2>1 DEF Waits
<1>6. \A u : u # t /\ HasLocks(u, locks) => HasLocks(u, locks')
  BY <1>1 DEF Dequeued, HasLocks
<1>7. \A u \in Trx : /\ state[u] = "LOCK_WAIT" => Waits(locks, u)
                     /\ Waits(locks, u) => state[u] = "LOCK_WAIT"
                     /\ state[u] = "RELEASE" => HasLocks(u, locks)
  BY DEF IInv, StateInv
<1>8. StateInv'
  <2>1. ASSUME NEW u \in Trx
        PROVE  /\ state'[u] = "LOCK_WAIT" => Waits(locks', u)
               /\ Waits(locks', u) => state'[u] = "LOCK_WAIT"
               /\ state'[u] = "RELEASE" => HasLocks(u, locks')
    <3>1. CASE u = t
      BY <1>4, <3>1
    <3>2. CASE u # t
      BY <1>4, <1>5, <1>6, <1>7, <3>2
    <3> QED
      BY <3>1, <3>2
  <2> QED
    BY <1>4, <2>1 DEF StateInv
<1>9. \A u \in Trx : state[u] = "RUNNING" => u # t /\ state'[u] = "RUNNING"
  BY <1>4
<1>10. \A u \in Trx : state[u] # "RELEASE" => state'[u] # "RELEASE"
  BY <1>4
<1>11. LatchInv'
  BY <1>9 DEF IInv, LatchInv, Here
<1>12. RecsInv'
  <2>1. \A r \in Keys : recs[r].by \in Trx \cup {NoTrx}
    BY DEF IInv, RecsInv, Rec
  <2> QED
    BY <1>10, <2>1 DEF IInv, RecsInv
<1>13. OnInv'
  <2> SUFFICES ASSUME NEW i \in DOMAIN locks', NEW s \in locks'[i].on
               PROVE  s = Supremum \/ \E r \in Here' : s = Spot(latch', r)
    BY DEF OnInv
  <2>1. PICK j \in DOMAIN locks : locks'[i].on = locks[j].on
    BY <1>1 DEF Dequeued
  <2> QED
    BY <2>1 DEF IInv, OnInv, Here
<1>14. ImplicitInv'
  <2> SUFFICES ASSUME NEW r \in Keys, recs[r].by # NoTrx
               PROVE  Implied(locks', Spot(latch, r), recs[r].by)
    BY DEF ImplicitInv
  <2>1. Implied(locks, Spot(latch, r), recs[r].by) /\ state[recs[r].by] # "RELEASE"
    BY DEF IInv, ImplicitInv, RecsInv
  <2>2. locks[k].trx # recs[r].by \/ locks[k].wait
    BY <2>1
  <2> QED
    BY <1>1, <2>1, <2>2 DEF Dequeued
<1> QED
  BY <1>2, <1>8, <1>11, <1>12, <1>13, <1>14 DEF IInv

\* lock_release_off_kernel, one lock.
LEMMA ReleaseKeeps ==
  ASSUME IInv, NEW t \in Trx, Release(t)
  PROVE  IInv'
<1>1. PICK k : k = Max({i \in DOMAIN locks : locks[i].trx = t})
  OBVIOUS
<1>2. /\ state[t] = "RELEASE" /\ locks' = Dequeue(locks, k) /\ UNCHANGED <<recs, latch>>
      /\ state' = [Resumed(locks') EXCEPT ![t] = IF HasLocks(t, locks') THEN "RELEASE" ELSE "RUNNING"]
  BY <1>1 DEF Release
<1>3. HasLocks(t, locks) /\ ~Waits(locks, t) /\ locks \in Seq(Lock)
  BY <1>2 DEF IInv, StateInv, Chain
<1>4. k \in DOMAIN locks /\ locks[k].trx = t
  <2> DEFINE S == {i \in DOMAIN locks : locks[i].trx = t}
  <2>1. S \in SUBSET DOMAIN locks /\ S # {}
    BY <1>3 DEF HasLocks
  <2>2. k \in S
    BY <1>1, <1>3, <2>1, MaxIs
  <2> QED
    BY <2>2
<1>5. ~Waits(locks', t)
  <2>1. Dequeued(locks, locks', k)
    BY <1>2, <1>4, DequeueKeeps DEF IInv
  <2>2. \A u : Waits(locks', u) => \E j \in DOMAIN locks : locks[j].trx = u /\ locks[j].wait
    BY <2>1 DEF Dequeued
  <2> QED
    BY <1>3, <2>2 DEF Waits
<1>6. PICK x \in States : /\ state' = [Resumed(locks') EXCEPT ![t] = x] /\ x # "LOCK_WAIT"
                          /\ x = "RELEASE" => HasLocks(t, locks')
  BY <1>2 DEF States
<1> QED
  BY <1>2, <1>4, <1>5, <1>6, ExitKeeps

\* lock_cancel_waiting_and_release: the cancelled lock was the only one to wait.
LEMMA TimeoutKeeps ==
  ASSUME IInv, NEW t \in Trx, Timeout(t)
  PROVE  IInv'
<1>1. PICK k : k = WaitLock(locks, t)
  OBVIOUS
<1>2. /\ state[t] = "LOCK_WAIT" /\ locks' = Dequeue(locks, k) /\ UNCHANGED <<recs, latch>>
      /\ state' = [Resumed(locks') EXCEPT ![t] = "ROLLBACK"]
  BY <1>1 DEF Timeout
<1>3. \E i \in DOMAIN locks : locks[i].trx = t /\ locks[i].wait
  BY <1>2 DEF IInv, StateInv, Waits
<1>4. k \in DOMAIN locks /\ locks[k].trx = t /\ locks[k].wait
  BY <1>1, <1>3 DEF WaitLock
<1>5. ~Waits(locks', t)
  <2>1. Dequeued(locks, locks', k)
    BY <1>2, <1>4, DequeueKeeps DEF IInv
  <2> QED
    BY <1>4, <2>1, ZenonT(90) DEF Dequeued, IInv, Chain, OneWait
<1>6. PICK x \in States : x = "ROLLBACK"
  BY DEF States
<1>7. state' = [Resumed(locks') EXCEPT ![t] = x] /\ x # "RELEASE" /\ x # "LOCK_WAIT"
  BY <1>2, <1>6
<1> QED
  BY <1>2, <1>4, <1>5, <1>7, ExitKeeps

\* trx_commit_off_kernel ends the implicit locks.
LEMMA CommitKeeps ==
  ASSUME IInv, NEW t \in Trx, Commit(t)
  PROVE  IInv'
<1> DEFINE wrote == {r \in Here : recs[r].by = t}
<1>1. /\ (state[t] = "RUNNING" /\ latch.trx # t) \/ state[t] = "ROLLBACK"
      /\ recs' = [r \in Keys |-> IF r \in wrote THEN Old ELSE recs[r]]
      /\ state' = [state EXCEPT ![t] = IF HasLocks(t, locks) THEN "RELEASE" ELSE "RUNNING"]
      /\ UNCHANGED <<locks, latch>>
  BY DEF Commit
<1>2. recs \in [Keys -> Rec] /\ state \in [Trx -> States]
  BY DEF IInv, RecsInv, StateInv
<1>3. Old \in Rec /\ Old.here /\ Old.by = NoTrx
  BY DEF Old, Rec
<1>4. /\ recs' \in [Keys -> Rec]
      /\ \A r \in Keys : /\ r \in wrote => recs'[r] = Old
                         /\ r \notin wrote => recs'[r] = recs[r]
  <2> HIDE DEF wrote
  <2> QED
    BY <1>1, <1>2, <1>3
<1>5. \A r \in Keys : /\ recs'[r].here <=> recs[r].here
                      /\ recs'[r].by # NoTrx => recs'[r].by = recs[r].by /\ recs[r].by # t
                      /\ recs[r].by # t => recs'[r].by = recs[r].by
  <2> TAKE r \in Keys
  <2>1. CASE r \in wrote
    BY <1>3, <1>4, <2>1 DEF Here
  <2>2. CASE r \notin wrote
    <3>1. recs'[r] = recs[r]
      BY <1>4, <2>2
    <3>2. recs[r].by = t => recs[r].here
      BY LockSysAssumption DEF IInv, RecsInv
    <3> QED
      BY <2>2, <3>1, <3>2 DEF Here
  <2> QED
    BY <2>1, <2>2
<1>6. Here' = Here
  BY <1>5 DEF Here
<1>7. PICK x \in States : /\ state' = [state EXCEPT ![t] = x] /\ x \notin {"LOCK_WAIT", "ROLLBACK"}
                          /\ x = "RELEASE" => HasLocks(t, locks)
  BY <1>1 DEF States
<1>8. /\ state' \in [Trx -> States] /\ state'[t] = x /\ \A u \in Trx : u # t => state'[u] = state[u]
  BY <1>2, <1>7
<1>9. StateInv'
  <2>1. \A u \in Trx : /\ state[u] = "LOCK_WAIT" => Waits(locks, u)
                       /\ Waits(locks, u) => state[u] = "LOCK_WAIT"
                       /\ state[u] = "RELEASE" => HasLocks(u, locks)
    BY DEF IInv, StateInv
  <2>2. \A u \in Trx : /\ state'[u] = "LOCK_WAIT" => Waits(locks, u)
                       /\ Waits(locks, u) => state'[u] = "LOCK_WAIT"
                       /\ state'[u] = "RELEASE" => HasLocks(u, locks)
    BY <1>1, <1>7, <1>8, <2>1
  <2> QED
    BY <1>1, <1>8, <2>2 DEF StateInv
<1>10. RecsInv'
  <2>1. \A r \in Keys : recs[r].by \in Trx \cup {NoTrx}
    BY <1>2 DEF Rec
  <2>2. \A r \in Keys : ~recs'[r].here => recs'[r].by = NoTrx
    BY <1>5 DEF IInv, RecsInv
  <2>3. \A r \in Keys : recs'[r].by # NoTrx => state'[recs'[r].by] # "RELEASE"
    BY <1>5, <1>8, <2>1 DEF IInv, RecsInv
  <2> QED
    BY <1>4, <2>2, <2>3 DEF RecsInv
<1>11. LatchInv'
  <2>1. latch.op # "NONE" => latch.trx # t
    BY <1>1 DEF IInv, LatchInv
  <2> QED
    BY <1>1, <1>5, <1>6, <1>8, <2>1 DEF IInv, LatchInv
<1>12. OnInv'
  BY <1>1, <1>6 DEF IInv, OnInv
<1>13. ImplicitInv'
  BY <1>1, <1>5 DEF IInv, ImplicitInv
<1>14. Chain(locks', {})
  BY <1>1 DEF IInv
<1> QED
  BY <1>9, <1>10, <1>11, <1>12, <1>13, <1>14 DEF IInv

---------------------------------------------------------------------------
(* The theorems about states                                               *)

\* The page starts without locks.
LEMMA InitKeeps ==
  Init => IInv
<1> SUFFICES ASSUME Init
             PROVE  IInv
  OBVIOUS
<1>1. locks = << >> /\ locks \in Seq(Lock) /\ DOMAIN locks = {}
  BY DEF Init
<1>2. Absent \in Rec /\ Absent.by = NoTrx /\ Old \in Rec /\ Old.by = NoTrx
  BY DEF Absent, Old, Rec
<1>3. recs \in [Keys -> Rec] /\ \A r \in Keys : recs[r].by = NoTrx
  <2>1. recs \in [Keys -> {Absent, Old}]
    BY DEF Init
  <2>2. \A r \in Keys : recs[r] = Absent \/ recs[r] = Old
    BY <2>1
  <2>3. \A r \in Keys : recs[r] \in Rec
    BY <1>2, <2>2
  <2> QED
    BY <1>2, <2>1, <2>2, <2>3
<1>4. state \in [Trx -> States] /\ \A t \in Trx : state[t] = "RUNNING"
  BY DEF Init, States
<1>5. Chain(locks, {})
  BY <1>1 DEF Chain, OneRecord, LaterWaits, Reasoned, OneWait
<1>6. RecsInv
  BY <1>3 DEF RecsInv
<1>7. LatchInv
  BY NoLatchIs DEF Init, LatchInv
<1>8. StateInv
  BY <1>1, <1>4 DEF StateInv, Waits
<1>9. OnInv /\ ImplicitInv
  BY <1>1, <1>3 DEF OnInv, ImplicitInv
<1> QED
  BY <1>5, <1>6, <1>7, <1>8, <1>9 DEF IInv

\* The invariant is inductive.
LEMMA NextKeeps ==
  IInv /\ [Next]_vars => IInv'
<1> SUFFICES ASSUME IInv, [Next]_vars
             PROVE  IInv'
  OBVIOUS
<1>1. ASSUME NEW t \in Trx, NEW r \in Keys \cup {Supremum}, NEW mode \in {"S", "X"}, Read(t, r, mode)
      PROVE  IInv'
  BY <1>1, ReadKeeps
<1>2. ASSUME NEW t \in Trx, NEW r \in Keys, Modify(t, r)
      PROVE  IInv'
  BY <1>2, ModifyKeeps
<1>3. ASSUME NEW t \in Trx, NEW r \in Keys, InsertCheck(t, r)
      PROVE  IInv'
  BY <1>3, InsertCheckKeeps
<1>4. ASSUME NEW t \in Trx, NEW r \in Keys, Undo(t, r)
      PROVE  IInv'
  BY <1>4, UndoKeeps
<1>5. ASSUME NEW t \in Trx, RestoreFromInfimum(t)
      PROVE  IInv'
  BY <1>5, RestoreKeeps
<1>6. ASSUME NEW t \in Trx, Insert(t)
      PROVE  IInv'
  BY <1>6, InsertKeeps
<1>7. ASSUME NEW r \in Keys, Purge(r)
      PROVE  IInv'
  BY <1>7, DeleteKeeps DEF Purge
<1>8. ASSUME NEW t \in Trx, Commit(t)
      PROVE  IInv'
  BY <1>8, CommitKeeps
<1>9. ASSUME NEW t \in Trx, Release(t)
      PROVE  IInv'
  BY <1>9, ReleaseKeeps
<1>10. ASSUME NEW t \in Trx, Timeout(t)
       PROVE  IInv'
  BY <1>10, TimeoutKeeps
<1>11. CASE UNCHANGED vars
  <2>1. UNCHANGED <<locks, recs, state, latch>>
    BY <1>11 DEF vars
  <2>2. /\ Chain(locks', {}) <=> Chain(locks, {})
        /\ RecsInv' <=> RecsInv
        /\ LatchInv' <=> LatchInv
    BY <2>1 DEF RecsInv, LatchInv, Here
  <2>3. /\ StateInv' <=> StateInv
        /\ OnInv' <=> OnInv
        /\ ImplicitInv' <=> ImplicitInv
    BY <2>1 DEF StateInv, OnInv, ImplicitInv, Here
  <2> QED
    BY <2>2, <2>3 DEF IInv
<1> QED
  BY <1>1, <1>2, <1>3, <1>4, <1>5, <1>6, <1>7, <1>8, <1>9, <1>10, <1>11 DEF Next

\* So it holds always.
LEMMA IInvHolds ==
  Spec => []IInv
BY InitKeeps, NextKeeps, PTL DEF Spec

\* The state is of its types, and a waiting lock is on one record, as
\* lock_rec_find_set_bit has it.
THEOREM LockSysType ==
  Spec => []TypeOK
<1>1. IInv => TypeOK
  <2> SUFFICES ASSUME IInv
               PROVE  TypeOK
    OBVIOUS
  <2>1. ASSUME NEW k \in DOMAIN locks, locks[k].wait
        PROVE  Cardinality(locks[k].on) = 1
    <3>1. PICK r \in Heap : locks[k].on = {r}
      BY <2>1 DEF IInv, Chain, OneRecord
    <3> QED
      BY <3>1, FS_Singleton
  <2> QED
    BY <2>1 DEF TypeOK, IInv, Chain, RecsInv, LatchInv, StateInv
<1> QED
  BY <1>1, IInvHolds, PTL

\* What lock_rec_queue_validate asserts: two granted locks on a record never
\* conflict, and none conflicts with the transaction that wrote the record.
THEOREM GrantsAgree ==
  Spec => []NoConflictingGrants
<1>1. IInv => NoConflictingGrants
  <2> SUFFICES ASSUME IInv, NEW r \in Keys, NEW k \in OnRec(locks, r), ~locks[k].gap, ~locks[k].wait
               PROVE  /\ \A j \in OnRec(locks, r) :
                           ~locks[j].gap /\ ~locks[j].wait => ~HasToWait(locks[k], locks[j])
                      /\ recs[r].by \in {NoTrx, locks[k].trx} \/ HasExpl(locks, "X", r, recs[r].by)
    BY DEF NoConflictingGrants
  <2>1. PICK n \in Nat : DOMAIN locks = 1..n
    <3>1. Len(locks) \in Nat /\ DOMAIN locks = 1 .. Len(locks)
      BY DEF IInv, Chain
    <3> QED
      BY <3>1
  <2>2. r \in Heap \ {Supremum} /\ r # Supremum /\ r # Infimum
    BY HeapFacts DEF Keys, Infimum
  <2>3. \A i \in DOMAIN locks : locks[i].gap \in BOOLEAN
    BY LockFields DEF IInv, Chain
  <2>4. Real(locks[k], r) /\ k \in DOMAIN locks
    BY <2>3 DEF Real, OnRec
  <2>5. ASSUME NEW j \in OnRec(locks, r), ~locks[j].gap, ~locks[j].wait
        PROVE  ~HasToWait(locks[k], locks[j])
    <3>1. Real(locks[j], r) /\ j \in DOMAIN locks
      BY <2>3, <2>5 DEF Real, OnRec
    <3>2. HasToWait(locks[k], locks[j]) <=> HasToWait(locks[j], locks[k])
      BY DEF HasToWait, Compatible
    <3>3. CASE j \in 1 .. k - 1
      BY <2>2, <2>4, <3>1, <3>3 DEF IInv, Chain, LaterWaits
    <3>4. CASE k \in 1 .. j - 1
      BY <2>2, <2>4, <2>5, <3>1, <3>2, <3>4 DEF IInv, Chain, LaterWaits
    <3>5. CASE j = k
      BY <3>5 DEF HasToWait
    <3> QED
      BY <2>1, <2>4, <3>1, <3>3, <3>4, <3>5
  <2>6. Spot(latch, r) = r
    <3>1. \E u \in Here : r = Spot(latch, u)
      BY <2>2, <2>4 DEF IInv, OnInv, Real
    <3> QED
      BY <2>2, <3>1 DEF Spot
  <2>7. recs[r].by # NoTrx => Implied(locks, r, recs[r].by)
    BY <2>6 DEF IInv, ImplicitInv
  <2> QED
    BY <2>4, <2>5, <2>7 DEF Implied
<1> QED
  BY <1>1, IInvHolds, PTL

\* lock_grant is called for every lock that nothing holds back any more: a lock
\* waits for one in front of it, and a transaction in LOCK_WAIT has one such
\* lock, any other none.
THEOREM WaitsAreReasoned ==
  Spec => []WaitersHaveReason
<1>1. IInv => WaitersHaveReason
  <2> SUFFICES ASSUME IInv
               PROVE  WaitersHaveReason
    OBVIOUS
  <2>1. \A k \in DOMAIN locks : locks[k].wait => Blockers(locks, k) # {}
    BY DEF IInv, Chain, Reasoned
  <2>2. ASSUME NEW t \in Trx
        PROVE  Cardinality({k \in DOMAIN locks : locks[k].trx = t /\ locks[k].wait})
                 = (IF state[t] = "LOCK_WAIT" THEN 1 ELSE 0)
    <3> DEFINE W == {k \in DOMAIN locks : locks[k].trx = t /\ locks[k].wait}
    <3>1. CASE state[t] = "LOCK_WAIT"
      <4>1. PICK k : k \in W
        BY <3>1 DEF IInv, StateInv, Waits
      <4>2. W = {k}
        BY <4>1 DEF IInv, Chain, OneWait
      <4>3. Cardinality(W) = 1
        BY <4>2, FS_Singleton
      <4> QED
        BY <3>1, <4>3
    <3>2. CASE state[t] # "LOCK_WAIT"
      <4>1. W = {}
        BY <3>2 DEF IInv, StateInv, Waits
      <4>2. Cardinality(W) = 0
        BY <4>1, FS_EmptySet
      <4> QED
        BY <3>2, <4>2
    <3> QED
      BY <3>1, <3>2
  <2> QED
    BY <2>1, <2>2 DEF WaitersHaveReason
<1> QED
  BY <1>1, IInvHolds, PTL

---------------------------------------------------------------------------
(* No circle of waiters                                                    *)

\* Everybody in S waits for somebody in S.
Circle(q, S) == S # {} /\ \A u \in S : \E v \in S : WaitsFor(q, u, v)

NoCircle(q) == \A S \in SUBSET Trx : ~Circle(q, S)

\* Who waits for less closes no circle.
LEMMA EasesKeeps ==
  ASSUME NEW q, NEW p, NoCircle(q), Eases(q, p)
  PROVE  NoCircle(p)
BY DEF NoCircle, Circle, Eases

\* A lock that need not wait makes no one wait.
LEMMA AddEases ==
  ASSUME NEW q \in Seq(Lock), NEW t \in Trx, NEW mode \in {"S", "X"}, NEW r \in Heap
  PROVE  Eases(q, AddToQueue(q, t, mode, FALSE, FALSE, r))
<1>1. PICK f : f = FALSE
  OBVIOUS
<1>2. f \in BOOLEAN /\ f = (f /\ r # Supremum)
  BY <1>1
<1>3. PICK p : p = AddToQueue(q, t, mode, f, f, r)
  OBVIOUS
<1>4. PICK a : PutAt(q, p, a, t, mode, f, f, r)
  BY <1>2, <1>3, AddPuts
<1>5. Eases(q, p)
  BY <1>1, <1>4, PutEases
<1> QED
  BY <1>1, <1>3, <1>5

\* Nor does an implicit lock that becomes explicit.
LEMMA ConvertEases ==
  ASSUME IInv, NEW r \in Here \cup {Supremum}
  PROVE  Eases(locks, ConvertImpl(locks, r))
<1>1. r \in Heap /\ Here \subseteq Keys /\ locks \in Seq(Lock)
  BY HeapFacts DEF Here, IInv, Chain
<1>2. CASE r \in Here /\ recs[r].by # NoTrx /\ ~HasExpl(locks, "X", r, recs[r].by)
  <2>1. PICK t \in Trx : t = recs[r].by
    BY <1>1, <1>2 DEF IInv, RecsInv, Rec
  <2>2. PICK mode \in {"S", "X"} : mode = "X"
    OBVIOUS
  <2>3. ConvertImpl(locks, r) = AddToQueue(locks, t, mode, FALSE, FALSE, r)
    BY <1>2, <2>1, <2>2 DEF ConvertImpl
  <2> QED
    BY <1>1, <2>3, AddEases
<1>3. CASE ~(r \in Here /\ recs[r].by # NoTrx /\ ~HasExpl(locks, "X", r, recs[r].by))
  <2>1. ConvertImpl(locks, r) = locks
    BY <1>3 DEF ConvertImpl
  <2> QED
    BY <2>1 DEF Eases
<1> QED
  BY <1>2, <1>3

\* The search follows every lock in the way of one it looks at, and looks at
\* waiting locks only.
LEMMA SearchedClosed ==
  ASSUME NEW q, NEW k \in DOMAIN q, q[k].wait, NEW W, \A u \in W : Waits(q, u)
  PROVE  /\ k \in Searched(q, k, W)
         /\ \A i \in Searched(q, k, W) :
              /\ i \in DOMAIN q /\ q[i].wait
              /\ \A j \in Blockers(q, i) :
                   q[j].trx \in W => \E n \in Searched(q, k, W) : q[n].trx = q[j].trx
<1> DEFINE D == {i \in DOMAIN q : q[i].wait}
           Closed(S) == \A i \in S : \A j \in Blockers(q, i) : q[j].trx \in W => WaitLock(q, q[j].trx) \in S
           R == {i \in D : \A S \in SUBSET D : k \in S /\ Closed(S) => i \in S}
<1>1. Searched(q, k, W) = R
  BY DEF Searched
<1>2. k \in R
  OBVIOUS
<1>3. \A u \in W : WaitLock(q, u) \in D /\ q[WaitLock(q, u)].trx = u
  <2> TAKE u \in W
  <2>1. \E i \in DOMAIN q : q[i].trx = u /\ q[i].wait
    BY DEF Waits
  <2>2. /\ WaitLock(q, u) \in DOMAIN q
        /\ q[WaitLock(q, u)].trx = u /\ q[WaitLock(q, u)].wait
    BY <2>1 DEF WaitLock
  <2> QED
    BY <2>2
<1>4. ASSUME NEW i \in R, NEW j \in Blockers(q, i), q[j].trx \in W
      PROVE  \E n \in R : q[n].trx = q[j].trx
  <2>1. WaitLock(q, q[j].trx) \in R
    <3>1. WaitLock(q, q[j].trx) \in D
      BY <1>3, <1>4
    <3>2. ASSUME NEW S \in SUBSET D, k \in S, Closed(S)
          PROVE  WaitLock(q, q[j].trx) \in S
      BY <1>4, <3>2
    <3> QED
      BY <3>1, <3>2
  <2> QED
    BY <1>3, <1>4, <2>1
<1>5. \A i \in R : i \in DOMAIN q /\ q[i].wait
  OBVIOUS
<1> HIDE DEF R
<1> QED
  BY <1>1, <1>2, <1>4, <1>5

\* If the search finds nothing, nobody it met waits for who asked.
LEMMA SearchedInVain ==
  ASSUME NEW q \in Seq(Lock), NEW k, NEW W, ~DeadlockOccurs(q, k, W),
         NEW i \in Searched(q, k, W), i \in DOMAIN q, NEW j \in Blockers(q, i)
  PROVE  q[j].trx # q[k].trx
<1>1. PICK R : R = Searched(q, k, W)
  OBVIOUS
<1>2. ~ \E e \in {f \in R \X DOMAIN q : f[2] \in Blockers(q, f[1])} : q[e[2]].trx = q[k].trx
  BY <1>1 DEF DeadlockOccurs
<1>3. j \in DOMAIN q
  BY DEF Blockers
<1>4. <<i, j>> \in {f \in R \X DOMAIN q : f[2] \in Blockers(q, f[1])}
  BY <1>1, <1>3
<1> QED
  BY <1>2, <1>4

\* A request that waits closes no circle, or the search would have met it.
LEMMA WaitClosesNone ==
  ASSUME IInv, NEW t \in Trx, state[t] = "RUNNING", NEW r \in Heap,
         NEW mode \in {"S", "X"}, NEW gap \in BOOLEAN, NEW q, Chain(q, {}), NoCircle(q),
         \A u : (Waits(q, u) => Waits(locks, u)) /\ (Waits(locks, u) => Waits(q, u)),
         \E k \in OnRec(q, r) : q[k].trx # t /\ ~Compatible(mode, q[k].mode),
         EnqueueWaiting(q, t, mode, gap, r)
  PROVE  NoCircle(locks')
<1>1. \A u \in Trx : u \in Waiting <=> Waits(q, u)
  BY DEF IInv, StateInv, Waiting
<1>2. ~Waits(q, t) /\ t \notin Waiting
  BY <1>1 DEF Waiting
<1>3. CASE Eases(q, locks')
  BY <1>3, EasesKeeps
<1>4. ASSUME NEW l \in Lock, l.trx = t, l.wait, locks' = Append(q, l),
             ~DeadlockOccurs(locks', Len(q) + 1, Waiting)
      PROVE  NoCircle(locks')
  <2>1. PICK n \in Nat : n = Len(q)
    BY DEF Chain
  <2>2. PICK p : p = locks'
    OBVIOUS
  <2>3. PICK k : k = n + 1
    OBVIOUS
  <2>4. q \in Seq(Lock)
    BY DEF Chain
  <2>5. /\ p \in Seq(Lock) /\ DOMAIN q = 1..n /\ DOMAIN p = 1..k
        /\ p[k] = l /\ \A i \in 1..n : p[i] = q[i]
    BY <1>4, <2>1, <2>2, <2>3, <2>4
  <2>6. \A i \in DOMAIN p : i # k => i \in DOMAIN q /\ p[i] = q[i]
    BY <2>3, <2>5
  <2>7. \A i \in DOMAIN p : p[i].trx = t /\ p[i].wait => i = k
    BY <1>2, <2>6 DEF Waits
  <2>8. ASSUME NEW i \in DOMAIN q, NEW j \in Blockers(p, i)
        PROVE  j \in Blockers(q, i) /\ p[j] = q[j]
    <3>1. j \in 1..n /\ i \in 1..n
      BY <2>5 DEF Blockers
    <3>2. p[j] = q[j] /\ p[i] = q[i]
      BY <2>5, <3>1
    <3> QED
      BY <3>2 DEF Blockers
  <2>9. ASSUME NEW u, NEW v, u # t, WaitsFor(p, u, v)
        PROVE  WaitsFor(q, u, v)
    <3>1. PICK i \in DOMAIN p : p[i].trx = u /\ p[i].wait /\ \E j \in Blockers(p, i) : p[j].trx = v
      BY <2>9 DEF WaitsFor
    <3>2. i # k
      BY <1>4, <2>5, <2>9, <3>1
    <3>3. i \in DOMAIN q /\ p[i] = q[i]
      BY <2>6, <3>2
    <3> QED
      BY <2>8, <3>1, <3>3 DEF WaitsFor
  <2>10. \A u \in Waiting : Waits(p, u)
    <3>1. Waiting \subseteq Trx
      BY DEF Waiting
    <3>2. \A i \in DOMAIN q : i \in DOMAIN p /\ p[i] = q[i]
      BY <2>3, <2>5
    <3> QED
      BY <1>1, <3>1, <3>2 DEF Waits
  <2>11. PICK R : R = Searched(p, k, Waiting)
    OBVIOUS
  <2>12. /\ k \in R
         /\ \A i \in R : /\ i \in DOMAIN p /\ p[i].wait
                         /\ \A j \in Blockers(p, i) :
                              p[j].trx \in Waiting => \E m \in R : p[m].trx = p[j].trx
    <3>1. k \in DOMAIN p /\ p[k].wait
      BY <1>4, <2>3, <2>5
    <3> QED
      BY <2>10, <2>11, <3>1, SearchedClosed
  <2>13. \A i \in R : \A j \in Blockers(p, i) : p[j].trx # t
    <3>1. ~DeadlockOccurs(p, k, Waiting) /\ p[k].trx = t
      BY <1>4, <2>1, <2>2, <2>3, <2>5
    <3> QED
      BY <2>5, <2>11, <2>12, <3>1, SearchedInVain
  <2>14. SUFFICES ASSUME NEW S \in SUBSET Trx, Circle(p, S)
                  PROVE  FALSE
    BY <2>2 DEF NoCircle
  \* Who waits in the circle for somebody the search met was met himself.
  <2>15. ASSUME NEW i \in R, p[i].trx \in S
         PROVE  \E v \in S : /\ WaitsFor(p, p[i].trx, v) /\ v # t
                             /\ \E m \in R : p[m].trx = v
    <3>1. i \in DOMAIN p /\ p[i].wait
      BY <2>12
    <3>2. PICK v \in S : WaitsFor(p, p[i].trx, v)
      BY <2>14, <2>15 DEF Circle
    <3>3. PICK a \in DOMAIN p : p[a].trx = p[i].trx /\ p[a].wait /\ \E j \in Blockers(p, a) : p[j].trx = v
      BY <3>2 DEF WaitsFor
    <3>4. a = i
      <4>1. CASE i = k
        BY <1>4, <2>5, <2>7, <3>3, <4>1
      <4>2. CASE i # k
        <5>1. i \in DOMAIN q /\ p[i] = q[i] /\ q[i].trx # t
          BY <1>2, <2>6, <3>1, <4>2 DEF Waits
        <5>2. a \in DOMAIN q /\ p[a] = q[a]
          BY <1>4, <2>5, <2>6, <3>3, <5>1
        <5> QED
          BY <3>1, <3>3, <5>1, <5>2 DEF Chain, OneWait
      <4> QED
        BY <4>1, <4>2
    <3>5. PICK j \in Blockers(p, i) : p[j].trx = v
      BY <3>3, <3>4
    <3>6. v # t
      BY <2>13, <3>5
    <3>7. PICK w \in S : WaitsFor(p, v, w)
      BY <2>14 DEF Circle
    <3>8. Waits(q, v)
      BY <2>9, <3>6, <3>7 DEF WaitsFor, Waits
    <3>9. v \in Waiting
      BY <1>1, <3>8
    <3> QED
      BY <2>12, <3>2, <3>5, <3>6, <3>9
  <2> DEFINE T == {u \in S : u # t /\ \E i \in R : p[i].trx = u}
  <2>16. CASE t \in S
    <3>1. T # {}
      <4>1. p[k].trx = t
        BY <1>4, <2>5
      <4>2. \E v \in S : v # t /\ \E m \in R : p[m].trx = v
        BY <2>12, <2>15, <2>16, <4>1
      <4> QED
        BY <4>2
    <3>2. \A u \in T : \E v \in T : WaitsFor(q, u, v)
      <4> TAKE u \in T
      <4>1. PICK i \in R : p[i].trx = u
        OBVIOUS
      <4>2. PICK v \in S : WaitsFor(p, u, v) /\ v # t /\ \E m \in R : p[m].trx = v
        BY <2>15, <4>1
      <4>3. v \in T /\ WaitsFor(q, u, v)
        BY <2>9, <4>2
      <4> QED
        BY <4>3
    <3>3. T \in SUBSET Trx
      OBVIOUS
    <3> HIDE DEF T
    <3>4. Circle(q, T)
      BY <3>1, <3>2 DEF Circle
    <3> QED
      BY <3>3, <3>4 DEF NoCircle
  <2>17. CASE t \notin S
    <3>1. Circle(q, S)
      BY <2>9, <2>14, <2>17 DEF Circle
    <3> QED
      BY <3>1 DEF NoCircle
  <2> QED
    BY <2>16, <2>17
<1> QED
  BY <1>2, <1>3, <1>4, EnqueueKeeps

\* The actions once more.
LEMMA ReadNoCircle ==
  ASSUME IInv, NoCircle(locks), NEW t \in Trx, NEW r \in Keys \cup {Supremum}, NEW mode \in {"S", "X"},
         Read(t, r, mode)
  PROVE  NoCircle(locks')
<1>1. PICK q : q = ConvertImpl(locks, r)
  OBVIOUS
<1>2. /\ state[t] = "RUNNING" /\ Free /\ r \in Here \cup {Supremum}
      /\ \/ Refused(q, mode, r, t) /\ EnqueueWaiting(q, t, mode, FALSE, r)
         \/ ~Refused(q, mode, r, t) /\ locks' = Granted(q, mode, r, t)
  BY <1>1 DEF Read
<1>3. /\ Grown(locks, q, r) /\ NoCircle(q)
      /\ \A u : (Waits(q, u) => Waits(locks, u)) /\ (Waits(locks, u) => Waits(q, u))
  BY <1>1, <1>2, ConvertKeeps, ConvertEases, EasesKeeps
<1>4. Chain(q, {}) /\ q \in Seq(Lock) /\ r \in Heap
  BY <1>3, HeapFacts DEF Grown, Chain
<1>5. CASE Refused(q, mode, r, t) /\ EnqueueWaiting(q, t, mode, FALSE, r)
  <2>1. \E k \in OnRec(q, r) : q[k].trx # t /\ ~Compatible(mode, q[k].mode)
    BY <1>4, <1>5, RefusedMeans
  <2>2. PICK gap \in BOOLEAN : gap = FALSE
    OBVIOUS
  <2>3. EnqueueWaiting(q, t, mode, gap, r)
    BY <1>5, <2>2
  <2> QED
    BY <1>2, <1>3, <1>4, <2>1, <2>3, WaitClosesNone
<1>6. CASE ~Refused(q, mode, r, t) /\ locks' = Granted(q, mode, r, t)
  <2>1. Eases(q, locks')
    <3>1. CASE HasExpl(q, mode, r, t)
      BY <1>6, <3>1 DEF Granted, Eases
    <3>2. CASE ~HasExpl(q, mode, r, t)
      <4>1. locks' = AddToQueue(q, t, mode, FALSE, FALSE, r)
        BY <1>6, <3>2 DEF Granted
      <4> QED
        BY <1>4, <4>1, AddEases
    <3> QED
      BY <3>1, <3>2
  <2> QED
    BY <1>3, <2>1, EasesKeeps
<1> QED
  BY <1>2, <1>5, <1>6

LEMMA InsertCheckNoCircle ==
  ASSUME IInv, NoCircle(locks), NEW t \in Trx, NEW r \in Keys, InsertCheck(t, r)
  PROVE  NoCircle(locks')
<1>1. PICK next : next = NextRec(r)
  OBVIOUS
<1>2. next \in Heap
  BY <1>1, NextRecIs, HeapFacts DEF Here
<1>3. /\ state[t] = "RUNNING"
      /\ \/ OtherHasExplReq(locks, "S", TRUE, next, t) /\ EnqueueWaiting(locks, t, "X", TRUE, next)
         \/ locks' = locks
  BY <1>1 DEF InsertCheck
<1>4. Chain(locks, {})
  BY DEF IInv
<1>5. CASE OtherHasExplReq(locks, "S", TRUE, next, t) /\ EnqueueWaiting(locks, t, "X", TRUE, next)
  <2>1. PICK gap \in BOOLEAN : gap = TRUE
    OBVIOUS
  <2>2. PICK mode \in {"S", "X"} : mode = "X"
    OBVIOUS
  <2>3. EnqueueWaiting(locks, t, mode, gap, next)
    BY <1>5, <2>1, <2>2
  <2>4. \E k \in OnRec(locks, next) : locks[k].trx # t /\ ~Compatible(mode, locks[k].mode)
    BY <1>5, <2>2 DEF OtherHasExplReq, Compatible
  <2> QED
    BY <1>2, <1>3, <1>4, <2>3, <2>4, WaitClosesNone
<1>6. CASE locks' = locks
  BY <1>6
<1> QED
  BY <1>3, <1>5, <1>6

LEMMA ModifyNoCircle ==
  ASSUME IInv, NoCircle(locks), NEW t \in Trx, NEW r \in Keys, Modify(t, r)
  PROVE  NoCircle(locks')
<1>1. PICK q : q = ConvertImpl(locks, r)
  OBVIOUS
<1>2. /\ state[t] = "RUNNING" /\ Free /\ r \in Here
      /\ \/ Refused(q, "X", r, t) /\ EnqueueWaiting(q, t, "X", FALSE, r)
         \/ locks' = q
         \/ locks' = Move(q, Infimum, r)
  BY <1>1 DEF Modify
<1>3. /\ Grown(locks, q, r) /\ NoCircle(q)
      /\ \A u : (Waits(q, u) => Waits(locks, u)) /\ (Waits(locks, u) => Waits(q, u))
  BY <1>1, <1>2, ConvertKeeps, ConvertEases, EasesKeeps
<1>4. /\ Chain(q, {}) /\ q \in Seq(Lock) /\ r \in Heap
      /\ r \in Heap \ {Supremum} /\ Infimum \in Heap \ {Supremum} /\ r # Infimum
  BY <1>3, HeapFacts DEF Grown, Chain
<1>5. CASE Refused(q, "X", r, t) /\ EnqueueWaiting(q, t, "X", FALSE, r)
  <2>1. PICK mode \in {"S", "X"} : mode = "X"
    OBVIOUS
  <2>2. \E k \in OnRec(q, r) : q[k].trx # t /\ ~Compatible(mode, q[k].mode)
    BY <1>4, <1>5, <2>1, RefusedMeans
  <2>3. PICK gap \in BOOLEAN : gap = FALSE
    OBVIOUS
  <2>4. EnqueueWaiting(q, t, mode, gap, r)
    BY <1>5, <2>1, <2>3
  <2> QED
    BY <1>2, <1>3, <1>4, <2>2, <2>4, WaitClosesNone
<1>6. CASE locks' = q
  BY <1>3, <1>6
<1>7. CASE locks' = Move(q, Infimum, r)
  <2>1. \A k \in DOMAIN q : \A s \in q[k].on : s = Supremum \/ s \in Here
    BY <1>2, <1>3, FreeSpots DEF IInv, OnInv, Grown
  <2>2. OnRec(q, Infimum) = {}
    BY <2>1, HeapFacts DEF OnRec, Here
  <2>3. MovedTo(q, locks', Infimum, r)
    BY <1>4, <1>7, <2>2, MoveKeeps
  <2> QED
    BY <1>3, <2>3, EasesKeeps DEF MovedTo
<1> QED
  BY <1>2, <1>5, <1>6, <1>7

LEMMA RestoreNoCircle ==
  ASSUME IInv, NoCircle(locks), NEW t \in Trx, RestoreFromInfimum(t)
  PROVE  NoCircle(locks')
<1>1. latch.op = "UPDATE" /\ locks' = Move(locks, latch.key, Infimum)
  BY DEF RestoreFromInfimum
<1>2. PICK r \in Keys : r = latch.key
  BY <1>1 DEF IInv, LatchInv
<1>3. r \in Heap \ {Supremum} /\ Infimum \in Heap \ {Supremum} /\ r # Infimum /\ Here \subseteq Keys
  BY HeapFacts DEF Here
<1>4. \A k : Spot(latch, k) = IF k = r THEN Infimum ELSE k
  BY <1>1, <1>2 DEF Spot
<1>5. OnRec(locks, r) = {}
  <2>1. \A k \in DOMAIN locks : r \notin locks[k].on
    <3> SUFFICES ASSUME NEW k \in DOMAIN locks, r \in locks[k].on
                 PROVE  FALSE
      OBVIOUS
    <3>1. r = Supremum \/ \E u \in Here : r = Spot(latch, u)
      BY DEF IInv, OnInv
    <3> QED
      BY <1>3, <1>4, <3>1, HeapFacts
  <2> QED
    BY <2>1 DEF OnRec
<1>6. MovedTo(locks, locks', r, Infimum)
  BY <1>1, <1>2, <1>3, <1>5, MoveKeeps DEF IInv
<1> QED
  BY <1>6, EasesKeeps DEF MovedTo

LEMMA InsertNoCircle ==
  ASSUME IInv, NoCircle(locks), NEW t \in Trx, Insert(t)
  PROVE  NoCircle(locks')
<1>1. PICK r \in Keys : r = latch.key
  BY DEF IInv, LatchInv, Insert
<1>2. r \in Heap /\ locks' = InheritToGap(locks, r, NextRec(r))
  BY <1>1, HeapFacts DEF Insert
<1>3. Inherits(locks, locks', r)
  BY <1>2, InheritKeeps DEF IInv
<1> QED
  BY <1>3, EasesKeeps DEF Inherits

LEMMA DeleteNoCircle ==
  ASSUME IInv, NoCircle(locks), NEW r \in Here, Delete(r)
  PROVE  NoCircle(locks')
<1>1. PICK next : next = NextRec(r)
  OBVIOUS
<1>2. next \in Heap
  BY <1>1, NextRecIs, HeapFacts DEF Here
<1>3. PICK p : p = InheritToGap(locks, next, r)
  OBVIOUS
<1>4. locks' = ResetAndRelease(p, r)
  BY <1>1, <1>3 DEF Delete
<1>5. Inherits(locks, p, next)
  BY <1>2, <1>3, InheritKeeps DEF IInv
<1>6. Cleared(p, locks', r)
  BY <1>4, <1>5, ResetKeeps DEF Inherits
<1>7. NoCircle(p)
  BY <1>5, EasesKeeps DEF Inherits
<1> QED
  BY <1>6, <1>7, EasesKeeps DEF Cleared

LEMMA ReleaseNoCircle ==
  ASSUME IInv, NoCircle(locks), NEW t \in Trx, Release(t)
  PROVE  NoCircle(locks')
<1>1. PICK k : k = Max({i \in DOMAIN locks : locks[i].trx = t})
  OBVIOUS
<1>2. state[t] = "RELEASE" /\ locks' = Dequeue(locks, k)
  BY <1>1 DEF Release
<1>3. HasLocks(t, locks) /\ locks \in Seq(Lock)
  BY <1>2 DEF IInv, StateInv, Chain
<1>4. k \in DOMAIN locks
  <2> DEFINE S == {i \in DOMAIN locks : locks[i].trx = t}
  <2>1. S \in SUBSET DOMAIN locks /\ S # {}
    BY <1>3 DEF HasLocks
  <2>2. k \in S
    BY <1>1, <1>3, <2>1, MaxIs
  <2> QED
    BY <2>2
<1>5. Dequeued(locks, locks', k)
  BY <1>2, <1>4, DequeueKeeps DEF IInv
<1> QED
  BY <1>5, EasesKeeps DEF Dequeued

LEMMA TimeoutNoCircle ==
  ASSUME IInv, NoCircle(locks), NEW t \in Trx, Timeout(t)
  PROVE  NoCircle(locks')
<1>1. PICK k : k = WaitLock(locks, t)
  OBVIOUS
<1>2. state[t] = "LOCK_WAIT" /\ locks' = Dequeue(locks, k)
  BY <1>1 DEF Timeout
<1>3. \E i \in DOMAIN locks : locks[i].trx = t /\ locks[i].wait
  BY <1>2 DEF IInv, StateInv, Waits
<1>4. k \in DOMAIN locks
  BY <1>1, <1>3 DEF WaitLock
<1>5. Dequeued(locks, locks', k)
  BY <1>2, <1>4, DequeueKeeps DEF IInv
<1> QED
  BY <1>5, EasesKeeps DEF Dequeued

\* No step closes a circle.
LEMMA NextNoCircle ==
  IInv /\ NoCircle(locks) /\ [Next]_vars => NoCircle(locks)'
<1> SUFFICES ASSUME IInv, NoCircle(locks), [Next]_vars
             PROVE  NoCircle(locks')
  OBVIOUS
<1>1. ASSUME NEW t \in Trx, NEW r \in Keys \cup {Supremum}, NEW mode \in {"S", "X"}, Read(t, r, mode)
      PROVE  NoCircle(locks')
  BY <1>1, ReadNoCircle
<1>2. ASSUME NEW t \in Trx, NEW r \in Keys, Modify(t, r)
      PROVE  NoCircle(locks')
  BY <1>2, ModifyNoCircle
<1>3. ASSUME NEW t \in Trx, NEW r \in Keys, InsertCheck(t, r)
      PROVE  NoCircle(locks')
  BY <1>3, InsertCheckNoCircle
<1>4. ASSUME NEW t \in Trx, NEW r \in Keys, Undo(t, r)
      PROVE  NoCircle(locks')
  <2>1. r \in Here /\ (Delete(r) \/ locks' = locks)
    BY <1>4 DEF Undo
  <2>2. CASE Delete(r)
    BY <2>1, <2>2, DeleteNoCircle
  <2>3. CASE locks' = locks
    BY <2>3
  <2> QED
    BY <2>1, <2>2, <2>3
<1>5. ASSUME NEW t \in Trx, RestoreFromInfimum(t)
      PROVE  NoCircle(locks')
  BY <1>5, RestoreNoCircle
<1>6. ASSUME NEW t \in Trx, Insert(t)
      PROVE  NoCircle(locks')
  BY <1>6, InsertNoCircle
<1>7. ASSUME NEW r \in Keys, Purge(r)
      PROVE  NoCircle(locks')
  BY <1>7, DeleteNoCircle DEF Purge
<1>8. ASSUME NEW t \in Trx, Commit(t)
      PROVE  NoCircle(locks')
  BY <1>8 DEF Commit
<1>9. ASSUME NEW t \in Trx, Release(t)
      PROVE  NoCircle(locks')
  BY <1>9, ReleaseNoCircle
<1>10. ASSUME NEW t \in Trx, Timeout(t)
       PROVE  NoCircle(locks')
  BY <1>10, TimeoutNoCircle
<1>11. CASE UNCHANGED vars
  BY <1>11 DEF vars
<1> QED
  BY <1>1, <1>2, <1>3, <1>4, <1>5, <1>6, <1>7, <1>8, <1>9, <1>10, <1>11 DEF Next

\* Transactions never wait for one another in a circle: lock_deadlock_occurs
\* finds every deadlock when the last lock of the circle is asked for, and
\* locks that are released, inherited, moved or cancelled close none.
THEOREM NoCircles == Spec => []NoWaitCycle
<1>1. Init => NoCircle(locks)
  BY DEF Init, NoCircle, Circle, WaitsFor
<1>2. ASSUME IInv, NoCircle(locks)
      PROVE  NoWaitCycle
  <2> SUFFICES ASSUME NEW S \in SUBSET Waiting, S # {}
               PROVE  \E t \in S : \A j \in Blockers(locks, WaitLock(locks, t)) : locks[j].trx \notin S
    BY DEF NoWaitCycle
  <2>1. S \in SUBSET Trx
    BY DEF Waiting
  <2>2. PICK t \in S : \A v \in S : ~WaitsFor(locks, t, v)
    BY <1>2, <2>1 DEF NoCircle, Circle
  <2>3. PICK k : k = WaitLock(locks, t)
    OBVIOUS
  <2>4. \E i \in DOMAIN locks : locks[i].trx = t /\ locks[i].wait
    BY <1>2, <2>1 DEF IInv, StateInv, Waiting, Waits
  <2>5. k \in DOMAIN locks /\ locks[k].trx = t /\ locks[k].wait
    BY <2>3, <2>4 DEF WaitLock
  <2>6. \A j \in Blockers(locks, k) : locks[j].trx \notin S
    BY <2>2, <2>5 DEF WaitsFor
  <2> QED
    BY <2>3, <2>6
<1> QED
  BY <1>1, <1>2, IInvHolds, NextNoCircle, PTL DEF Spec

---------------------------------------------------------------------------
(* No phantoms                                                             *)

\* Who is about to insert has the gap for himself.
InsertInv ==
  latch.op = "INSERT" =>
    \A k \in DOMAIN locks : NextRec(latch.key) \in locks[k].on => locks[k].trx = latch.trx

\* The record after the gap of key r, in a page with the records S.
Following(S, r) == Min({p \in S \cup {Supremum} : p > r})

\* There is one, and none is between.
LEMMA FollowingIs ==
  ASSUME NEW S \in SUBSET Keys, NEW r \in Keys
  PROVE  /\ Following(S, r) \in S \cup {Supremum} /\ Following(S, r) > r
         /\ \A p \in S \cup {Supremum} : p > r => Following(S, r) <= p
<1> DEFINE T == {p \in S \cup {Supremum} : p > r}
<1>1. T \in SUBSET Nat
  BY HeapFacts
<1>2. r \in Nat /\ Supremum > r
  BY PageAssumption DEF Keys, Supremum
<1>3. Supremum \in T
  BY <1>2
<1>4. Min(T) \in T /\ \A y \in T : Min(T) <= y
  BY <1>1, <1>3, MinIs
<1> QED
  BY <1>4 DEF Following

\* The record that shows what happens to the gap of key r.
Shows(S, r) == IF r \in S THEN r ELSE Following(S, r)

\* A new record takes over the gaps that end at it, from the record after it.
LEMMA ShowsMore ==
  ASSUME NEW S \in SUBSET Keys, NEW n \in Keys \ S, NEW r \in Keys
  PROVE  \/ Shows(S \cup {n}, r) = Shows(S, r)
         \/ Shows(S \cup {n}, r) = n /\ Shows(S, r) = Following(S, n)
<1> DEFINE T == S \cup {n}
<1>1. T \in SUBSET Keys /\ r \in Nat /\ n \in Nat /\ \A p \in T \cup {Supremum} : p \in Nat
  BY HeapFacts
<1>2. PICK a : a = Following(S, r)
  OBVIOUS
<1>3. PICK b : b = Following(T, r)
  OBVIOUS
<1>4. PICK c : c = Following(S, n)
  OBVIOUS
<1>5. a \in S \cup {Supremum} /\ a > r /\ \A p \in S \cup {Supremum} : p > r => a <= p
  BY <1>2, FollowingIs
<1>6. b \in T \cup {Supremum} /\ b > r /\ \A p \in T \cup {Supremum} : p > r => b <= p
  BY <1>1, <1>3, FollowingIs
<1>7. c \in S \cup {Supremum} /\ c > n /\ \A p \in S \cup {Supremum} : p > n => c <= p
  BY <1>4, FollowingIs
<1>8. a \in Nat /\ b \in Nat /\ c \in Nat
  BY <1>1, <1>5, <1>6, <1>7
<1>9. CASE r = n
  BY <1>4, <1>9 DEF Shows
<1>10. CASE r # n
  <2>1. b = a \/ (b = n /\ a = c)
    <3>1. CASE b = n
      <4>1. c > r /\ a <= c
        BY <1>1, <1>5, <1>6, <1>7, <1>8, <3>1
      <4>2. a # n /\ a \in T \cup {Supremum}
        BY <1>5, HeapFacts
      <4>3. a > n
        BY <1>1, <1>5, <1>6, <1>8, <3>1, <4>2
      <4> QED
        BY <1>5, <1>7, <1>8, <3>1, <4>1, <4>3
    <3>2. CASE b # n
      <4>1. b \in S \cup {Supremum} /\ a \in T \cup {Supremum}
        BY <1>5, <1>6, <3>2
      <4> QED
        BY <1>5, <1>6, <1>8, <4>1
    <3> QED
      BY <3>1, <3>2
  <2> QED
    BY <1>2, <1>3, <1>4, <1>10, <2>1 DEF Shows
<1> QED
  BY <1>9, <1>10

\* A record that goes leaves its gaps to the one after it.
LEMMA ShowsFewer ==
  ASSUME NEW S \in SUBSET Keys, NEW n \in S, NEW r \in Keys
  PROVE  \/ Shows(S \ {n}, r) = Shows(S, r) /\ Shows(S, r) # n
         \/ Shows(S \ {n}, r) = Following(S, n) /\ Shows(S, r) = n
<1> DEFINE T == S \ {n}
<1>1. T \in SUBSET Keys /\ n \in Keys \ T /\ T \cup {n} = S
  OBVIOUS
<1>2. Following(T, n) = Following(S, n)
  <2>1. {p \in S \cup {Supremum} : p > n} = {p \in T \cup {Supremum} : p > n}
    BY HeapFacts
  <2> QED
    BY <2>1 DEF Following
<1>3. \/ Shows(S, r) = Shows(T, r)
      \/ Shows(S, r) = n /\ Shows(T, r) = Following(S, n)
  BY <1>1, <1>2, ShowsMore
<1>4. Shows(T, r) # n
  <2>1. Following(T, r) \in T \cup {Supremum}
    BY <1>1, FollowingIs
  <2> QED
    BY <2>1, HeapFacts DEF Shows
<1> QED
  BY <1>3, <1>4

\* Place in these words.
LEMMA PlaceIs ==
  /\ \A r : NextRec(r) = Following(Here, r) /\ NextRec(r)' = Following(Here', r)
  /\ \A r : Place(r) = Spot(latch, Shows(Here, r)) /\ Place(r)' = Spot(latch', Shows(Here', r))
BY DEF NextRec, Following, Place, Spot, Shows

\* What t has covered stays so in this step.
Stays(t) == \A r \in Covered(t) : r \in Covered(t)' /\ (r \in Here' \ Here => recs'[r].by = t)

\* Covered in these words.
LEMMA CoveredIs ==
  \A t, r : /\ r \in Covered(t) <=> r \in Keys /\ Holds(locks, t, Place(r))
            /\ r \in Covered(t)' <=> r \in Keys /\ Holds(locks', t, Place(r)')
BY DEF Covered, Holds

\* The common case: no record comes, goes or moves, and t loses no lock.
LEMMA StaysIf ==
  ASSUME NEW t, Here' = Here, \A r \in Heap : Spot(latch', r) = Spot(latch, r),
         \A s : Holds(locks, t, s) => Holds(locks', t, s)
  PROVE  Stays(t)
<1> SUFFICES ASSUME NEW r \in Covered(t)
             PROVE  r \in Covered(t)'
  BY DEF Stays
<1>1. r \in Keys /\ Holds(locks, t, Place(r))
  BY CoveredIs
<1>2. Shows(Here, r) \in Heap
  <2>1. Here \in SUBSET Keys
    BY DEF Here
  <2>2. Following(Here, r) \in Here \cup {Supremum}
    BY <1>1, <2>1, FollowingIs
  <2> QED
    BY <1>1, <2>1, <2>2, HeapFacts DEF Shows
<1>3. Place(r)' = Place(r)
  BY <1>2, PlaceIs
<1> QED
  BY <1>1, <1>3, CoveredIs

\* What a step does for the locks that are not given back.
Covers == InsertInv' /\ \A u \in Trx : state[u] # "RELEASE" => Stays(u)

\* Requests only add locks.
LEMMA GrowCovers ==
  ASSUME Free, NEW r, Grown(locks, locks', r), UNCHANGED latch, Here' = Here
  PROVE  Covers
<1>1. InsertInv'
  BY NoLatchIs DEF InsertInv, Free
<1>2. \A u, s : Holds(locks, u, s) => Holds(locks', u, s)
  BY DEF Grown
<1>3. \A s \in Heap : Spot(latch', s) = Spot(latch, s)
  OBVIOUS
<1>4. \A u : Stays(u)
  BY <1>2, <1>3, StaysIf
<1> QED
  BY <1>1, <1>4 DEF Covers

\* So does a request that has to wait.
LEMMA WaitCovers ==
  ASSUME IInv, Free, NEW t \in Trx, state[t] = "RUNNING", NEW r \in Heap,
         NEW mode \in {"S", "X"}, NEW gap \in BOOLEAN, NEW q, Grown(locks, q, r),
         \A u : (Waits(q, u) => Waits(locks, u)) /\ (Waits(locks, u) => Waits(q, u)),
         \E k \in OnRec(q, r) : q[k].trx # t /\ ~Compatible(mode, q[k].mode),
         EnqueueWaiting(q, t, mode, gap, r)
  PROVE  Covers
<1>1. Chain(q, {}) /\ ~Waits(q, t)
  BY DEF IInv, StateInv, Grown
<1>2. Grown(q, locks', r) /\ UNCHANGED <<recs, latch>>
  BY <1>1, EnqueueKeeps
<1>3. Grown(locks, locks', r) /\ Here' = Here
  BY <1>2, GrownTwice DEF Here
<1> QED
  BY <1>2, <1>3, GrowCovers

\* The actions again, one by one.
LEMMA ReadCovers ==
  ASSUME IInv, NEW t \in Trx, NEW r \in Keys \cup {Supremum}, NEW mode \in {"S", "X"}, Read(t, r, mode)
  PROVE  Covers
<1>1. PICK q : q = ConvertImpl(locks, r)
  OBVIOUS
<1>2. /\ state[t] = "RUNNING" /\ Free /\ r \in Here \cup {Supremum}
      /\ \/ Refused(q, mode, r, t) /\ EnqueueWaiting(q, t, mode, FALSE, r)
         \/ /\ ~Refused(q, mode, r, t)
            /\ locks' = Granted(q, mode, r, t)
            /\ UNCHANGED <<recs, state, latch>>
  BY <1>1 DEF Read
<1>3. /\ Grown(locks, q, r)
      /\ \A u : (Waits(q, u) => Waits(locks, u)) /\ (Waits(locks, u) => Waits(q, u))
  BY <1>1, <1>2, ConvertKeeps
<1>4. Chain(q, {}) /\ q \in Seq(Lock) /\ r \in Heap
  BY <1>3, HeapFacts DEF Grown, Chain
<1>5. CASE Refused(q, mode, r, t) /\ EnqueueWaiting(q, t, mode, FALSE, r)
  <2>1. \E k \in OnRec(q, r) : q[k].trx # t /\ ~Compatible(mode, q[k].mode)
    BY <1>4, <1>5, RefusedMeans
  <2>2. PICK gap \in BOOLEAN : gap = FALSE
    OBVIOUS
  <2>3. EnqueueWaiting(q, t, mode, gap, r)
    BY <1>5, <2>2
  <2> QED
    BY <1>2, <1>3, <1>4, <2>1, <2>3, WaitCovers
<1>6. CASE ~Refused(q, mode, r, t) /\ locks' = Granted(q, mode, r, t) /\ UNCHANGED <<recs, state, latch>>
  <2>1. Grown(q, locks', r)
    <3>1. CASE HasExpl(q, mode, r, t)
      <4>1. locks' = q
        BY <1>6, <3>1 DEF Granted
      <4> QED
        BY <1>4, <4>1, GrownSame
    <3>2. CASE ~HasExpl(q, mode, r, t)
      <4>1. locks' = AddToQueue(q, t, mode, FALSE, FALSE, r)
        BY <1>6, <3>2 DEF Granted
      <4>2. MayPut(q, t, mode, FALSE, FALSE, r)
        BY <1>4, <1>6, <3>2, RefusedMeans DEF MayPut
      <4> QED
        BY <1>4, <4>1, <4>2, GrownByAdd
    <3> QED
      BY <3>1, <3>2
  <2>2. Grown(locks, locks', r)
    BY <1>3, <2>1, GrownTwice
  <2> QED
    BY <1>2, <1>6, <2>2, GrowCovers DEF Here
<1> QED
  BY <1>2, <1>5, <1>6

\* After the check the gap has no lock of anyone else.
LEMMA InsertCheckCovers ==
  ASSUME IInv, NEW t \in Trx, NEW r \in Keys, InsertCheck(t, r)
  PROVE  Covers
<1>1. PICK next : next = NextRec(r)
  OBVIOUS
<1>2. next \in Heap
  BY <1>1, NextRecIs, HeapFacts DEF Here
<1>3. /\ state[t] = "RUNNING" /\ Free
      /\ \/ /\ OtherHasExplReq(locks, "S", TRUE, next, t)
            /\ EnqueueWaiting(locks, t, "X", TRUE, next)
         \/ /\ ~OtherHasExplReq(locks, "S", TRUE, next, t)
            /\ latch' = [op |-> "INSERT", trx |-> t, key |-> r]
            /\ UNCHANGED <<locks, recs, state>>
  BY <1>1 DEF InsertCheck
<1>4. Chain(locks, {})
  BY DEF IInv
<1>5. CASE OtherHasExplReq(locks, "S", TRUE, next, t) /\ EnqueueWaiting(locks, t, "X", TRUE, next)
  <2>1. PICK gap \in BOOLEAN : gap = TRUE
    OBVIOUS
  <2>2. PICK mode \in {"S", "X"} : mode = "X"
    OBVIOUS
  <2>3. EnqueueWaiting(locks, t, mode, gap, next)
    BY <1>5, <2>1, <2>2
  <2>4. \E k \in OnRec(locks, next) : locks[k].trx # t /\ ~Compatible(mode, locks[k].mode)
    BY <1>5, <2>2 DEF OtherHasExplReq, Compatible
  <2>5. Grown(locks, locks, next)
    BY <1>4, GrownSame
  <2> QED
    BY <1>2, <1>3, <2>3, <2>4, <2>5, WaitCovers
<1>6. CASE /\ ~OtherHasExplReq(locks, "S", TRUE, next, t)
           /\ latch' = [op |-> "INSERT", trx |-> t, key |-> r]
           /\ UNCHANGED <<locks, recs, state>>
  <2>1. latch'.op = "INSERT" /\ latch'.trx = t /\ latch'.key = r
    BY <1>6
  <2>2. Here' = Here /\ NextRec(r)' = next
    BY <1>1, <1>6 DEF Here, NextRec
  <2>3. \A s \in Heap : Spot(latch', s) = Spot(latch, s)
    BY <1>3, <2>1, FreeSpots DEF Spot
  <2>4. \A u : Stays(u)
    BY <1>6, <2>2, <2>3, StaysIf
  <2>5. \A k \in DOMAIN locks : next \in locks[k].on => locks[k].trx = t
    <3>1. locks \in Seq(Lock)
      BY <1>4 DEF Chain
    <3>2. \A k \in DOMAIN locks : locks[k].mode \in {"S", "X"}
      BY <3>1, LockFields
    <3> QED
      BY <1>6, <3>2 DEF OtherHasExplReq, OnRec, StrongerOrEq
  <2>6. InsertInv'
    BY <1>6, <2>1, <2>2, <2>5 DEF InsertInv
  <2> QED
    BY <2>4, <2>6 DEF Covers
<1> QED
  BY <1>3, <1>5, <1>6

\* The locks of a record that moves go to the infimum.
LEMMA ModifyCovers ==
  ASSUME IInv, NEW t \in Trx, NEW r \in Keys, Modify(t, r)
  PROVE  Covers
<1>1. PICK q : q = ConvertImpl(locks, r)
  OBVIOUS
<1>2. /\ state[t] = "RUNNING" /\ Free /\ r \in Here
      /\ \/ Refused(q, "X", r, t) /\ EnqueueWaiting(q, t, "X", FALSE, r)
         \/ /\ \/ locks' = q /\ UNCHANGED latch
               \/ /\ locks' = Move(q, Infimum, r)
                  /\ latch' = [op |-> "UPDATE", trx |-> t, key |-> r]
            /\ recs' = [recs EXCEPT ![r].by = t, ![r].fresh = @ /\ recs[r].by = t]
  BY <1>1 DEF Modify
<1>3. /\ Grown(locks, q, r)
      /\ \A u : (Waits(q, u) => Waits(locks, u)) /\ (Waits(locks, u) => Waits(q, u))
  BY <1>1, <1>2, ConvertKeeps
<1>4. /\ Chain(q, {}) /\ q \in Seq(Lock) /\ r \in Heap
      /\ r \in Heap \ {Supremum} /\ Infimum \in Heap \ {Supremum} /\ r # Infimum
  BY <1>3, HeapFacts DEF Grown, Chain
<1>5. PICK mode \in {"S", "X"} : mode = "X"
  OBVIOUS
<1>6. CASE Refused(q, "X", r, t) /\ EnqueueWaiting(q, t, "X", FALSE, r)
  <2>1. \E k \in OnRec(q, r) : q[k].trx # t /\ ~Compatible(mode, q[k].mode)
    BY <1>4, <1>5, <1>6, RefusedMeans
  <2>2. PICK gap \in BOOLEAN : gap = FALSE
    OBVIOUS
  <2>3. EnqueueWaiting(q, t, mode, gap, r)
    BY <1>5, <1>6, <2>2
  <2> QED
    BY <1>2, <1>3, <1>4, <2>1, <2>3, WaitCovers
<1>7. CASE recs' = [recs EXCEPT ![r].by = t, ![r].fresh = @ /\ recs[r].by = t]
           /\ \/ locks' = q /\ UNCHANGED latch
              \/ locks' = Move(q, Infimum, r) /\ latch' = [op |-> "UPDATE", trx |-> t, key |-> r]
  <2>1. recs \in [Keys -> Rec]
    BY DEF IInv, RecsInv
  <2>2. Here' = Here /\ Here \subseteq Keys
    <3> DEFINE n == [recs[r] EXCEPT !.by = t, !.fresh = recs[r].fresh /\ recs[r].by = t]
    <3>1. n.here = recs[r].here
      BY <2>1 DEF Rec
    <3>2. recs' = [recs EXCEPT ![r] = n]
      BY <1>7
    <3> HIDE DEF n
    <3>3. \A k \in Keys : recs'[k].here <=> recs[k].here
      BY <2>1, <3>1, <3>2
    <3> QED
      BY <3>3 DEF Here
  <2>3. CASE locks' = q /\ UNCHANGED latch
    BY <1>2, <1>3, <2>2, <2>3, GrowCovers
  <2>4. CASE locks' = Move(q, Infimum, r) /\ latch' = [op |-> "UPDATE", trx |-> t, key |-> r]
    <3>1. latch'.op = "UPDATE" /\ latch'.trx = t /\ latch'.key = r
      BY <2>4
    <3>2. \A k \in DOMAIN q : \A s \in q[k].on : s = Supremum \/ s \in Here
      BY <1>2, <1>3, FreeSpots DEF IInv, OnInv, Grown
    <3>3. OnRec(q, Infimum) = {}
      BY <2>2, <3>2, HeapFacts DEF OnRec
    <3>4. MovedTo(q, locks', Infimum, r)
      BY <1>4, <2>4, <3>3, MoveKeeps
    <3>5. ASSUME NEW u, NEW k \in Covered(u)
          PROVE  k \in Covered(u)'
      <4>1. PICK s : s = Shows(Here, k)
        OBVIOUS
      <4>2. k \in Keys /\ Holds(locks, u, s)
        BY <1>2, <4>1, CoveredIs, PlaceIs, FreeSpots
      <4>3. s \in Here \cup {Supremum}
        BY <2>2, <4>1, <4>2, FollowingIs DEF Shows
      <4>4. Holds(q, u, s)
        BY <1>3, <4>2 DEF Grown
      <4>5. Place(k)' = IF s = r THEN Infimum ELSE s
        BY <2>2, <3>1, <4>1, PlaceIs DEF Spot
      <4>6. s # Infimum
        BY <2>2, <4>3, HeapFacts
      <4>7. Holds(locks', u, Place(k)')
        BY <3>4, <4>4, <4>5, <4>6 DEF MovedTo
      <4> QED
        BY <4>2, <4>7, CoveredIs
    <3>6. \A u : Stays(u)
      BY <2>2, <3>5 DEF Stays
    <3>7. InsertInv'
      BY <3>1 DEF InsertInv
    <3> QED
      BY <3>6, <3>7 DEF Covers
  <2> QED
    BY <1>7, <2>3, <2>4
<1> QED
  BY <1>2, <1>6, <1>7

\* And come back.
LEMMA RestoreCovers ==
  ASSUME IInv, NEW t \in Trx, RestoreFromInfimum(t)
  PROVE  Covers
<1>1. /\ latch.op = "UPDATE"
      /\ locks' = Move(locks, latch.key, Infimum) /\ latch' = NoLatch /\ UNCHANGED <<recs, state>>
  BY DEF RestoreFromInfimum
<1>2. PICK r \in Keys : r = latch.key
  BY <1>1 DEF IInv, LatchInv
<1>3. r \in Heap \ {Supremum} /\ Infimum \in Heap \ {Supremum} /\ r # Infimum /\ Here \subseteq Keys
  BY HeapFacts DEF Here
<1>4. \A k : Spot(latch, k) = IF k = r THEN Infimum ELSE k
  BY <1>1, <1>2 DEF Spot
<1>5. OnRec(locks, r) = {}
  <2>1. \A k \in DOMAIN locks : r \notin locks[k].on
    <3> SUFFICES ASSUME NEW k \in DOMAIN locks, r \in locks[k].on
                 PROVE  FALSE
      OBVIOUS
    <3>1. r = Supremum \/ \E u \in Here : r = Spot(latch, u)
      BY DEF IInv, OnInv
    <3> QED
      BY <1>3, <1>4, <3>1, HeapFacts
  <2> QED
    BY <2>1 DEF OnRec
<1>6. MovedTo(locks, locks', r, Infimum)
  BY <1>1, <1>2, <1>3, <1>5, MoveKeeps DEF IInv
<1>7. Here' = Here
  BY <1>1 DEF Here
<1>8. ASSUME NEW u, NEW k \in Covered(u)
      PROVE  k \in Covered(u)'
  <2>1. PICK s : s = Shows(Here, k)
    OBVIOUS
  <2>2. k \in Keys /\ Holds(locks, u, IF s = r THEN Infimum ELSE s)
    BY <1>4, <2>1, CoveredIs, PlaceIs
  <2>3. s \in Here \cup {Supremum}
    BY <1>3, <2>1, <2>2, FollowingIs DEF Shows
  <2>4. s # Infimum
    BY <1>3, <2>3, HeapFacts
  <2>5. Place(k)' = s
    BY <1>1, <1>7, <2>1, PlaceIs, NoLatchIs
  <2>6. Holds(locks', u, s)
    BY <1>6, <2>2, <2>4 DEF MovedTo
  <2> QED
    BY <2>2, <2>5, <2>6, CoveredIs
<1>9. \A u : Stays(u)
  BY <1>7, <1>8 DEF Stays
<1>10. InsertInv'
  BY <1>1, NoLatchIs DEF InsertInv
<1> QED
  BY <1>9, <1>10 DEF Covers

\* The new record inherits the locks of the gap it splits.
LEMMA InsertCovers ==
  ASSUME IInv, InsertInv, NEW t \in Trx, Insert(t)
  PROVE  Covers
<1>1. PICK r \in Keys : r = latch.key
  BY DEF IInv, LatchInv, Insert
<1>2. PICK next : next = NextRec(r)
  OBVIOUS
<1>3. /\ latch.op = "INSERT" /\ latch.trx = t
      /\ recs' = [recs EXCEPT ![r] = [here |-> TRUE, by |-> t, fresh |-> TRUE]]
      /\ locks' = InheritToGap(locks, r, next) /\ latch' = NoLatch
  BY <1>1, <1>2 DEF Insert
<1>4. r \in Keys \ Here /\ r \in Heap /\ Here \in SUBSET Keys
  BY <1>1, <1>3, HeapFacts DEF IInv, LatchInv, Here
<1>5. /\ Inherits(locks, locks', r)
      /\ \A k \in OnRec(locks, next) : Holds(locks', locks[k].trx, r)
  BY <1>3, <1>4, InheritKeeps DEF IInv
<1>6. Here' = Here \cup {r} /\ recs'[r].by = t
  <2> DEFINE n == [here |-> TRUE, by |-> t, fresh |-> TRUE]
  <2>1. n.here /\ n.by = t
    OBVIOUS
  <2>2. recs' = [recs EXCEPT ![r] = n] /\ recs \in [Keys -> Rec]
    BY <1>3 DEF IInv, RecsInv
  <2> HIDE DEF n
  <2>3. recs'[r] = n /\ \A k \in Keys : k # r => recs'[k] = recs[k]
    BY <2>2
  <2> QED
    BY <2>1, <2>3 DEF Here
<1>7. \A k : Spot(latch, k) = k /\ Spot(latch', k) = k
  BY <1>3, NoLatchIs DEF Spot
<1>8. ASSUME NEW u, NEW k \in Covered(u)
      PROVE  k \in Covered(u)' /\ (k = r => u = t)
  <2>1. k \in Keys /\ Holds(locks, u, Shows(Here, k)) /\ Place(k)' = Shows(Here', k)
    BY <1>7, CoveredIs, PlaceIs
  <2>2. next = Following(Here, r)
    BY <1>2, PlaceIs
  <2>3. \/ Shows(Here', k) = Shows(Here, k)
        \/ Shows(Here', k) = r /\ Shows(Here, k) = next
    BY <1>4, <1>6, <2>1, <2>2, ShowsMore
  <2>4. \A s : Holds(locks, u, s) => Holds(locks', u, s)
    BY <1>5 DEF Inherits, Holds, OnRec, Same
  <2>5. Holds(locks, u, next) => Holds(locks', u, r)
    BY <1>5 DEF Holds
  <2>6. k \in Covered(u)'
    BY <2>1, <2>3, <2>4, <2>5, CoveredIs
  <2>7. ASSUME k = r
        PROVE  u = t
    <3>1. Shows(Here, k) = next
      BY <1>4, <2>2, <2>7 DEF Shows
    <3>2. PICK i \in OnRec(locks, next) : locks[i].trx = u
      BY <2>1, <3>1 DEF Holds
    <3> QED
      BY <1>1, <1>2, <1>3, <3>2 DEF InsertInv, OnRec
  <2> QED
    BY <2>6, <2>7
<1>9. \A u : Stays(u)
  BY <1>6, <1>8 DEF Stays
<1>10. InsertInv'
  BY <1>3, NoLatchIs DEF InsertInv
<1> QED
  BY <1>9, <1>10 DEF Covers

\* The next record inherits the locks of the one that goes.
LEMMA DeleteCovers ==
  ASSUME IInv, NEW r \in Here, Free, Delete(r)
  PROVE  Covers
<1>1. r \in Keys /\ Here \in SUBSET Keys
  BY DEF Here
<1>2. PICK next : next = NextRec(r)
  OBVIOUS
<1>3. next = Following(Here, r) /\ next # r /\ next \in Heap
  BY <1>1, <1>2, NextRecIs, PlaceIs, HeapFacts
<1>4. PICK p : p = InheritToGap(locks, next, r)
  OBVIOUS
<1>5. locks' = ResetAndRelease(p, r) /\ recs' = [recs EXCEPT ![r] = Absent] /\ UNCHANGED latch
  BY <1>2, <1>4 DEF Delete
<1>6. /\ Inherits(locks, p, next)
      /\ \A k \in OnRec(locks, r) : Holds(p, locks[k].trx, next)
  BY <1>3, <1>4, InheritKeeps DEF IInv
<1>7. Cleared(p, locks', r)
  BY <1>5, <1>6, ResetKeeps DEF Inherits
<1>8. Here' = Here \ {r}
  <2>1. recs \in [Keys -> Rec] /\ ~Absent.here
    BY DEF IInv, RecsInv, Absent
  <2>2. recs'[r] = Absent /\ \A k \in Keys : k # r => recs'[k] = recs[k]
    BY <1>1, <1>5, <2>1
  <2> QED
    BY <2>1, <2>2 DEF Here
<1>9. \A k : Spot(latch, k) = k /\ Spot(latch', k) = k
  BY <1>5, FreeSpots
<1>10. ASSUME NEW u, NEW k \in Covered(u)
       PROVE  k \in Covered(u)'
  <2>1. k \in Keys /\ Holds(locks, u, Shows(Here, k)) /\ Place(k)' = Shows(Here', k)
    BY <1>9, CoveredIs, PlaceIs
  <2>2. \/ Shows(Here', k) = Shows(Here, k) /\ Shows(Here, k) # r
        \/ Shows(Here', k) = next /\ Shows(Here, k) = r
    BY <1>1, <1>3, <1>8, <2>1, ShowsFewer
  <2>3. \A s : Holds(locks, u, s) => Holds(p, u, s)
    BY <1>6 DEF Inherits, Holds, OnRec, Same
  <2>4. Holds(locks, u, r) => Holds(p, u, next)
    BY <1>6 DEF Holds
  <2>5. \A s : s # r /\ Holds(p, u, s) => Holds(locks', u, s)
    BY <1>7 DEF Cleared
  <2> QED
    BY <1>3, <2>1, <2>2, <2>3, <2>4, <2>5, CoveredIs
<1>11. \A u : Stays(u)
  BY <1>8, <1>10 DEF Stays
<1>12. InsertInv'
  BY <1>5, NoLatchIs DEF InsertInv, Free
<1> QED
  BY <1>11, <1>12 DEF Covers

\* A step that gives locks back takes no one else's, and adds none.
LEMMA LeaveCovers ==
  ASSUME IInv, InsertInv, Here' = Here, UNCHANGED latch,
         \A i \in DOMAIN locks' : \E j \in DOMAIN locks :
           locks'[i].trx = locks[j].trx /\ locks'[i].on = locks[j].on,
         \A u \in Trx : state[u] # "RELEASE" =>
           \A s : Holds(locks, u, s) => Holds(locks', u, s)
  PROVE  Covers
<1>1. InsertInv'
  <2>1. \A r : NextRec(r)' = NextRec(r)
    BY PlaceIs
  <2> QED
    BY <2>1 DEF InsertInv
<1>2. \A s \in Heap : Spot(latch', s) = Spot(latch, s)
  OBVIOUS
<1>3. ASSUME NEW u \in Trx, state[u] # "RELEASE"
      PROVE  Stays(u)
  <2>1. \A s : Holds(locks, u, s) => Holds(locks', u, s)
    BY <1>3
  <2> QED
    BY <1>2, <2>1, StaysIf
<1> QED
  BY <1>1, <1>3 DEF Covers

\* Locks are given back by those in RELEASE only.
LEMMA ReleaseCovers ==
  ASSUME IInv, InsertInv, NEW t \in Trx, Release(t)
  PROVE  Covers
<1>1. PICK k : k = Max({i \in DOMAIN locks : locks[i].trx = t})
  OBVIOUS
<1>2. state[t] = "RELEASE" /\ locks' = Dequeue(locks, k) /\ UNCHANGED <<recs, latch>>
  BY <1>1 DEF Release
<1>3. HasLocks(t, locks) /\ locks \in Seq(Lock)
  BY <1>2 DEF IInv, StateInv, Chain
<1>4. k \in DOMAIN locks /\ locks[k].trx = t
  <2> DEFINE S == {i \in DOMAIN locks : locks[i].trx = t}
  <2>1. S \in SUBSET DOMAIN locks /\ S # {}
    BY <1>3 DEF HasLocks
  <2>2. k \in S
    BY <1>1, <1>3, <2>1, MaxIs
  <2> QED
    BY <2>2
<1>5. Dequeued(locks, locks', k)
  BY <1>2, <1>4, DequeueKeeps DEF IInv
<1>6. \A u \in Trx : state[u] # "RELEASE" => \A s : Holds(locks, u, s) => Holds(locks', u, s)
  BY <1>2, <1>4, <1>5 DEF Dequeued
<1>7. \A i \in DOMAIN locks' : \E j \in DOMAIN locks :
        locks'[i].trx = locks[j].trx /\ locks'[i].on = locks[j].on
  BY <1>5 DEF Dequeued
<1> QED
  BY <1>2, <1>6, <1>7, LeaveCovers DEF Here

\* A timeout takes a lock that was not granted.
LEMMA TimeoutCovers ==
  ASSUME IInv, InsertInv, NEW t \in Trx, Timeout(t)
  PROVE  Covers
<1>1. PICK k : k = WaitLock(locks, t)
  OBVIOUS
<1>2. state[t] = "LOCK_WAIT" /\ locks' = Dequeue(locks, k) /\ UNCHANGED <<recs, latch>>
  BY <1>1 DEF Timeout
<1>3. \E i \in DOMAIN locks : locks[i].trx = t /\ locks[i].wait
  BY <1>2 DEF IInv, StateInv, Waits
<1>4. k \in DOMAIN locks /\ locks[k].trx = t /\ locks[k].wait
  BY <1>1, <1>3 DEF WaitLock
<1>5. Dequeued(locks, locks', k)
  BY <1>2, <1>4, DequeueKeeps DEF IInv
<1>6. \A u \in Trx : state[u] # "RELEASE" => \A s : Holds(locks, u, s) => Holds(locks', u, s)
  BY <1>4, <1>5 DEF Dequeued
<1>7. \A i \in DOMAIN locks' : \E j \in DOMAIN locks :
        locks'[i].trx = locks[j].trx /\ locks'[i].on = locks[j].on
  BY <1>5 DEF Dequeued
<1> QED
  BY <1>2, <1>6, <1>7, LeaveCovers DEF Here

\* A step that leaves the chain alone.
LEMMA QuietCovers ==
  ASSUME IInv, InsertInv, Here' = Here, UNCHANGED <<locks, latch>>
  PROVE  Covers
BY LeaveCovers

\* A commit leaves the chain alone.
LEMMA CommitCovers ==
  ASSUME IInv, InsertInv, NEW t \in Trx, Commit(t)
  PROVE  Covers
<1>1. Old.here
  BY DEF Old
<1>2. /\ recs' = [r \in Keys |-> IF r \in {k \in Here : recs[k].by = t} THEN Old ELSE recs[r]]
      /\ UNCHANGED <<locks, latch>>
  BY DEF Commit
<1>3. \A r \in Keys : recs'[r].here <=> recs[r].here
  BY <1>1, <1>2 DEF Here
<1>4. Here' = Here
  BY <1>3 DEF Here
<1> QED
  BY <1>2, <1>4, QuietCovers

\* Rollback removes the record it inserted, or leaves the chain alone.
LEMMA UndoCovers ==
  ASSUME IInv, InsertInv, NEW t \in Trx, NEW r \in Keys, Undo(t, r)
  PROVE  Covers
<1>1. CASE Delete(r)
  BY <1>1, DeleteCovers DEF Undo
<1>2. CASE recs' = [recs EXCEPT ![r] = Old] /\ UNCHANGED <<locks, state, latch>>
  <2>1. recs \in [Keys -> Rec] /\ r \in Here
    BY DEF IInv, RecsInv, Undo
  <2>2. Old.here
    BY DEF Old
  <2>3. \A k \in Keys : recs'[k].here <=> recs[k].here
    BY <1>2, <2>1, <2>2 DEF Here
  <2> QED
    BY <1>2, <2>3, QuietCovers DEF Here
<1> QED
  BY <1>1, <1>2 DEF Undo

\* Every step covers.
LEMMA NextCovers ==
  IInv /\ InsertInv /\ [Next]_vars => Covers
<1> SUFFICES ASSUME IInv, InsertInv, [Next]_vars
             PROVE  Covers
  OBVIOUS
<1>1. ASSUME NEW t \in Trx, NEW r \in Keys \cup {Supremum}, NEW mode \in {"S", "X"}, Read(t, r, mode)
      PROVE  Covers
  BY <1>1, ReadCovers
<1>2. ASSUME NEW t \in Trx, NEW r \in Keys, Modify(t, r)
      PROVE  Covers
  BY <1>2, ModifyCovers
<1>3. ASSUME NEW t \in Trx, NEW r \in Keys, InsertCheck(t, r)
      PROVE  Covers
  BY <1>3, InsertCheckCovers
<1>4. ASSUME NEW t \in Trx, NEW r \in Keys, Undo(t, r)
      PROVE  Covers
  BY <1>4, UndoCovers
<1>5. ASSUME NEW t \in Trx, RestoreFromInfimum(t)
      PROVE  Covers
  BY <1>5, RestoreCovers
<1>6. ASSUME NEW t \in Trx, Insert(t)
      PROVE  Covers
  BY <1>6, InsertCovers
<1>7. ASSUME NEW r \in Keys, Purge(r)
      PROVE  Covers
  BY <1>7, DeleteCovers DEF Purge
<1>8. ASSUME NEW t \in Trx, Commit(t)
      PROVE  Covers
  BY <1>8, CommitCovers
<1>9. ASSUME NEW t \in Trx, Release(t)
      PROVE  Covers
  BY <1>9, ReleaseCovers
<1>10. ASSUME NEW t \in Trx, Timeout(t)
       PROVE  Covers
  BY <1>10, TimeoutCovers
<1>11. CASE UNCHANGED vars
  BY <1>11, QuietCovers DEF vars, Here
<1> QED
  BY <1>1, <1>2, <1>3, <1>4, <1>5, <1>6, <1>7, <1>8, <1>9, <1>10, <1>11 DEF Next

\* No phantoms: what a transaction has covered stays covered until it releases
\* its locks, and only itself inserts there.
THEOREM NoPhantoms ==
  Spec => CoveredStaysLocked
<1> DEFINE Step == \A t \in Trx : state[t] # "RELEASE" =>
                     \A r \in Covered(t) :
                       r \in Covered(t)' /\ (r \in Here' \ Here => recs'[r].by = t)
<1>1. Init => InsertInv
  BY NoLatchIs DEF Init, InsertInv
<1>2. IInv /\ InsertInv /\ [Next]_vars => InsertInv'
  BY NextCovers DEF Covers
<1>3. IInv /\ InsertInv /\ [Next]_vars => Step
  BY NextCovers DEF Covers, Stays
<1>4. Spec => []InsertInv
  BY <1>1, <1>2, IInvHolds, PTL DEF Spec
<1>5. IInv /\ InsertInv /\ [Next]_vars => [Step]_vars
  BY <1>3
<1> HIDE DEF Step
<1>6. Spec => [][Step]_vars
  BY <1>4, <1>5, IInvHolds, PTL DEF Spec
<1> QED
  BY <1>6 DEF Step, CoveredStaysLocked
===========================================================================
