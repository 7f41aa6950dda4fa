------------------------------ MODULE TimerWheel ------------------------------
(***************************************************************************)
(* The timer queue of the reactor: CTimerQueue_T                           *)
(* (common/revolver/timer_queue_t.inl) over the rings of CTimerRing        *)
(* (common/revolver/timer_ring.cpp).  A timer is stamped with its due time *)
(* in ticks since start_time_; ring r holds it under digit r of the stamp, *)
(* in base RingSize, and r is the highest ring whose digit differs from    *)
(* the ring's position.  A scan turns ring 0 one slot per tick; a ring     *)
(* that comes round turns the next one by one slot, which deals the timers *)
(* of that slot out to the lower rings.  Slots are std::set<uint32_t>: a   *)
(* scan visits them in increasing order while callbacks change them.       *)
(*                                                                         *)
(* The queue is a record and the methods are operators on it.  A scan runs *)
(* under the queue's mutex, which is recursive: between two callbacks      *)
(* nothing else touches the queue, so Settle takes the scan to the next    *)
(* callback at once, and `scan' says where it stands while one runs.       *)
(***************************************************************************)
EXTENDS Naturals, Sequences, FiniteSetsExt, SequencesExt

CONSTANTS RingSize,   \* RING_MAX_SIZE, 256 in the code
          Rings,      \* RINGS_SIZE, 4 in the code
          HeapSize,   \* heap_size of the constructor, TIMER_POOL_SIZE
          ScanSteps   \* bound on the silent steps between two callbacks

ASSUME WheelAssumption ==
    /\ RingSize \in Nat \ {0, 1}
    /\ Rings \in Nat \ {0, 1}
    /\ HeapSize \in Nat \ {0}
    /\ ScanSteps \in Nat

RingIds == 0 .. Rings - 1
Cells   == 0 .. RingSize - 1

\* One lap of the last ring: UNINT32_MAX, which is 2^32 = 256^4.
Lap == RingSize ^ Rings

\* What a power is.
ASSUME PowerAssumption ==
    /\ RingSize ^ 0 = 1
    /\ \A r \in RingIds : /\ RingSize ^ r \in Nat \ {0}
                          /\ RingSize ^ (r + 1) = RingSize ^ r * RingSize

\* BaseTimerNode_T::get_revolver_pos: the position of a stamp on each ring.
Digit(stamp, r) == (stamp \div (RingSize ^ r)) % RingSize

\* heap_[id] == NULL; a stamp in the heap is at least 1.
NoNode == [stamp |-> 0, act |-> <<>>]

NoScan == [on |-> FALSE, at |-> 0, left |-> 0, ring |-> 0, todo |-> 0,
           wrap |-> FALSE, half |-> "old", last |-> 0]

\* The constructor: slot 0 of the heap is never handed out, so that 0 is no
\* timer's number.
NewWheel ==
    [pos   |-> [r \in RingIds |-> 0],
     slot  |-> [r \in RingIds |-> [c \in Cells |-> {}]],
     heap  |-> [i \in 1 .. HeapSize - 1 |-> NoNode],
     free  |-> [i \in 1 .. HeapSize - 1 |-> i],
     start |-> 0,
     prev  |-> 0,
     scan  |-> NoScan]

\* The queue after scans without a timer until time t, less than a lap.
IdleWheel(t) == [NewWheel EXCEPT !.pos = [r \in RingIds |-> Digit(t, r)], !.prev = t]

HeapLen(w)  == Len(w.heap) + 1
Live(w, id) == id \in DOMAIN w.heap /\ w.heap[id].stamp # 0
LiveIds(w)  == {id \in DOMAIN w.heap : w.heap[id].stamp # 0}
Used(w)     == Cardinality(LiveIds(w))

-----------------------------------------------------------------------------
\* alloc_heap, called by get_free_node when full(): the heap more than doubles
\* and the new numbers join the tail of the free list.
Grown(w) ==
    LET n   == HeapLen(w)
        new == [i \in 1 .. n + 1 |-> n + i - 1]
    IN  IF Used(w) >= n - 1
        THEN [w EXCEPT !.heap = @ \o [i \in 1 .. n + 1 |-> NoNode],
                       !.free = @ \o new]
        ELSE w

\* The ring insert_node settles on: from the last ring down, the first whose
\* position differs from the timer's; ring 0 refuses nothing.
RingOf(w, stamp) ==
    Max({0} \cup {r \in RingIds : r # 0 /\ Digit(stamp, r) # w.pos[r]})

Insert(w, id) ==
    LET stamp == w.heap[id].stamp
        r     == RingOf(w, stamp)
    IN  [w EXCEPT !.slot[r][Digit(stamp, r)] = @ \cup {id}]

\* Mutation: delete_node looks on ring 0 only.
Delete_Ring0(w, id) ==
    [w EXCEPT !.slot[0] = [@ EXCEPT ![Digit(w.heap[id].stamp, 0)] = @ \ {id}]]

\* delete_node looks on every ring.
Delete(w, id) ==
    [w EXCEPT !.slot = [r \in RingIds |->
        [w.slot[r] EXCEPT ![Digit(w.heap[id].stamp, r)] = @ \ {id}]]]

\* The number schedule is about to hand out.
NextId(w) == Head(Grown(w).free)

Stamp(w, delay, now) ==
    LET distance == (IF now > w.start THEN now - w.start + delay ELSE delay) % Lap
    IN  Max({distance, 1})

Schedule(w, act, delay, now) ==
    LET g == Grown(w)
    IN  Insert([g EXCEPT !.heap[NextId(w)] = [stamp |-> Stamp(w, delay, now), act |-> act],
                         !.free = Tail(@)],
               NextId(w))

\* heap_[timer_id] = NULL; freeTimers_.push_back(timer_id)
Freed(w, id) ==
    [w EXCEPT !.heap[id] = NoNode, !.free = Append(@, id)]

Cancel(w, id) == IF Live(w, id) THEN Freed(Delete(w, id), id) ELSE w

-----------------------------------------------------------------------------
\* Mutation: what is left of the scale after a turn is forgotten.
Turn_NoRest(w) ==
    LET p    == w.pos[0]
        wrap == w.scan.left + p >= RingSize
    IN  [w EXCEPT !.scan.ring = 0,
                  !.scan.wrap = wrap,
                  !.scan.todo = IF wrap THEN RingSize - p ELSE w.scan.left,
                  !.scan.left = 0,
                  !.scan.half = "old",
                  !.scan.last = 0]

\* CTimerRing::cycle on ring 0 by what is left of the scale: it stops where
\* the ring comes round and leaves the rest for the next call.
Turn(w) ==
    LET p    == w.pos[0]
        wrap == w.scan.left + p >= RingSize
    IN  [w EXCEPT !.scan.ring = 0,
                  !.scan.wrap = wrap,
                  !.scan.todo = IF wrap THEN RingSize - p ELSE w.scan.left,
                  !.scan.left = IF wrap THEN w.scan.left + p - RingSize ELSE 0,
                  !.scan.half = "old",
                  !.scan.last = 0]

\* cycle on a ring above, always by one.
TurnUpper(w, r) ==
    [w EXCEPT !.scan.ring = r,
              !.scan.todo = 1,
              !.scan.wrap = w.pos[r] + 1 >= RingSize]

\* Mutation: the origin moves ahead by what is left of the scale.
AfterTurn_Ahead(w, now) ==
    LET up   == w.scan.ring + 1
        lap  == w.scan.wrap /\ up = Rings
        next == IF lap THEN [w EXCEPT !.start = now + w.scan.left] ELSE w
    IN  IF w.scan.wrap /\ ~lap THEN TurnUpper(w, up)
        ELSE IF next.scan.left > 0 THEN Turn(next)
        ELSE [next EXCEPT !.prev = w.scan.at, !.scan = NoScan]

\* The loop of revolver() once a ring has turned: a ring that came round turns
\* the next, and after the last one the origin moves to the current time.
AfterTurn(w, now) ==
    LET up   == w.scan.ring + 1
        lap  == w.scan.wrap /\ up = Rings
        next == IF lap THEN [w EXCEPT !.start = now] ELSE w
    IN  IF w.scan.wrap /\ ~lap THEN TurnUpper(w, up)
        ELSE IF next.scan.left > 0 THEN Turn(next)
        ELSE [next EXCEPT !.prev = w.scan.at, !.scan = NoScan]

\* The numbers of the slot under the scan it has not visited yet.
Ahead(w) ==
    LET r == w.scan.ring
    IN  {id \in w.slot[r][w.pos[r]] : id > w.scan.last}

\* The slot is done: it is cleared, and the ring moves on (timer_ring.cpp:78)
\* or, if it has already moved, ends this tick (timer_ring.cpp:91).
SlotDone(w, now) ==
    LET r       == w.scan.ring
        cleared == [w EXCEPT !.slot[r][w.pos[r]] = {}, !.scan.last = 0]
    IN  IF w.scan.half = "old"
        THEN [cleared EXCEPT !.pos[r] = (@ + 1) % RingSize, !.scan.half = "new"]
        ELSE LET ticked == [cleared EXCEPT !.scan.todo = @ - 1, !.scan.half = "old"]
             IN  IF ticked.scan.todo > 0 THEN ticked ELSE AfterTurn(ticked, now)

\* The timer whose owner the scan is to call now (ring_event on ring 0).
Firing(w) ==
    /\ w.scan.on
    /\ w.scan.ring = 0
    /\ Ahead(w) # {}
    /\ Live(w, Min(Ahead(w)))

FiringId(w) == Min(Ahead(w))

\* A step of the scan that calls nobody.
Silent(w, now) ==
    IF Ahead(w) = {} THEN SlotDone(w, now)
    ELSE LET id == Min(Ahead(w))
         IN  [(IF Live(w, id) THEN Insert(w, id) ELSE w) EXCEPT !.scan.last = id]

Advance(w, now) == IF w.scan.on /\ ~Firing(w) THEN Silent(w, now) ELSE w

Settle(w, now) ==
    LET after[k \in 0 .. ScanSteps] ==
            IF k = 0 THEN w
            ELSE CHOOSE v \in {Advance(u, now) : u \in {after[k - 1]}} : TRUE
    IN  after[ScanSteps]

\* expire: scan the ticks since the last scan.
Expire(w, now) ==
    IF now > w.prev
    THEN Settle(Turn([w EXCEPT !.scan = [NoScan EXCEPT !.on = TRUE, !.at = now,
                                                       !.left = now - w.prev]]), now)
    ELSE w

\* Mutation: the scan does not go on after a callback.
Fired_Stops(w, id, now) == [Freed(w, id) EXCEPT !.scan.last = id]

\* The end of ring_event on ring 0, after the owner of the timer has run.
Fired(w, id, now) ==
    Settle([Freed(w, id) EXCEPT !.scan.last = id], now)

-----------------------------------------------------------------------------
\* What the queue owes its users.

\* Every number is free or names a timer, never both and never twice.
NumbersPartitioned(w) ==
    /\ IsInjective(w.free)
    /\ ToSet(w.free) \cap LiveIds(w) = {}
    /\ ToSet(w.free) \cup LiveIds(w) = DOMAIN w.heap

\* The timer whose owner runs and the ones before it in the slot under the scan.
Visited(w) ==
    IF w.scan.on
    THEN {id \in w.slot[w.scan.ring][w.pos[w.scan.ring]] : id <= Max({w.scan.last} \cup
            (IF Firing(w) THEN {FiringId(w)} ELSE {}))}
    ELSE {}

\* The slots that hold a timer.
Places(w, id) == {at \in RingIds \X Cells : id \in w.slot[at[1]][at[2]]}

\* A timer stands in one slot, the one the scan deals out or visits when the
\* rings reach its stamp, and a slot holds no number but those of live timers
\* and of the ones the scan has just visited.
InPlace(w) ==
    /\ \A id \in LiveIds(w) \ Visited(w) :
          LET stamp == w.heap[id].stamp
              r     == RingOf(w, stamp)
          IN  Places(w, id) = {<<r, Digit(stamp, r)>>}
    /\ \A r \in RingIds, c \in Cells : w.slot[r][c] \subseteq LiveIds(w) \cup Visited(w)
=============================================================================
