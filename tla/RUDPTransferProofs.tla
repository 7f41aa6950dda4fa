------------------------ MODULE RUDPTransferProofs ------------------------
(***************************************************************************)
(* Theorems about RUDPTransfer, for every number of bytes, every size of   *)
(* segment, window and interval, and any network that loses, repeats and   *)
(* reorders packets.                                                       *)
(*                                                                         *)
(* The inductive invariant says of each direction: the sender has a run of *)
(* consecutive segments, and every segment in front of it has reached the  *)
(* peer's in-order prefix; what is on the wire or waits in the peer's      *)
(* recv_window_ is a segment as the sender holds it, and not an unsent one;*)
(* no acknowledgement in flight is ahead of its sender's prefix, which     *)
(* never shrinks; what the peer's application has read, followed by what   *)
(* it may read, is the stream up to the end of that prefix; and            *)
(* buffer_data_size_ counts the bytes of the sender's last segments.       *)
(*                                                                         *)
(* The first part says once what the methods of the two buffers preserve.  *)
(* RUDPSendBuffer: the sender holds a run of consecutive segments, sent    *)
(* ones first, each at most SegSize bytes long, that cut the stream        *)
(* without gap or overlap, and counts their bytes rightly.  RUDPRecvBuffer:*)
(* the in-order prefix never gets shorter, recv_window_ holds what arrived *)
(* beyond the gap, and consecutive segments joined are a run of the        *)
(* stream.                                                                 *)
(***************************************************************************)
EXTENDS RUDPTransfer, FiniteSetTheorems, SequenceTheorems, WellFoundedInduction, TLAPS

-----------------------------------------------------------------------------
(* The methods of the two buffers                                          *)

Held(s) == s.window \cup s.send_data

\* The invariant of one send buffer.
SendInv(s) ==
  /\ s \in SendBuffer
  /\ Held(s) \subseteq 1..Len(s.seg)
  /\ \A i \in 1..Len(s.seg) : Size(s.seg[i]) <= SegSize
  /\ \A q \in Held(s) : q..Len(s.seg) \subseteq Held(s)
  /\ \A q \in s.window, p \in s.send_data : q < p

---------------------------------------------------------------------------
\* A finite set of naturals that is not empty has a largest element, Max: one
\* above which the set has the fewest elements.
LEMMA MaxIsLargest ==
  ASSUME NEW S \in SUBSET Nat, S # {}, IsFiniteSet(S)
  PROVE  Max(S) \in S /\ \A x \in S : x <= Max(S)
<1> DEFINE Above(x) == {y \in S : y > x}
           T == {Above(x) : x \in S}
<1>1. T \subseteq FiniteSubsetsOf(S)
  <2>1. \A x \in S : Above(x) \in FiniteSubsetsOf(S)
    BY FS_Subset DEF FiniteSubsetsOf
  <2> QED
    BY <2>1
<1>2. PICK A \in T : \A B \in T : ~ (<<B, A>> \in StrictSubsetOrdering(S))
  <2>1. T # {}
    OBVIOUS
  <2>2. IsWellFoundedOn(StrictSubsetOrdering(S), FiniteSubsetsOf(S))
    BY FS_StrictSubsetOrderingWellFounded
  <2> QED
    BY <1>1, <2>1, <2>2, WFMin
<1>3. PICK m \in S : A = Above(m)
  OBVIOUS
<1>4. \A x \in S : ~(x > m)
  <2>1. SUFFICES ASSUME NEW x \in S, x > m
                 PROVE  FALSE
    OBVIOUS
  <2>2. Above(x) \subseteq Above(m)
    <3>1. \A y \in S : y > x => y > m
      BY <2>1
    <3> QED
      BY <3>1
  <2>3. x \in Above(m) /\ x \notin Above(x)
    BY <2>1
  <2>4. Above(x) \in T
    OBVIOUS
  <2>5. <<Above(x), A>> \in StrictSubsetOrdering(S)
    BY <1>3, <2>2, <2>3 DEF StrictSubsetOrdering
  <2> QED
    BY <1>2, <2>4, <2>5
<1>5. \A x \in S : m >= x
  BY <1>4
<1>6. \E z \in S : \A x \in S : z >= x
  BY <1>5
<1> QED
  BY <1>6 DEF Max

\* The sets attempt_send computes.
LEMMA SentSets ==
  ASSUME NEW s, NEW cwnd, NEW due, NEW young
  PROVE  /\ Resent(s, cwnd, due) \subseteq s.window
         /\ Fresh(s, cwnd, young) \subseteq s.send_data
         /\ FreshAfter(s, cwnd, due, young) \subseteq s.send_data
         /\ Sent(s, cwnd, due, young) \subseteq Held(s)
BY DEF Resent, Resendable, Fresh, FreshAfter, Sent, Held

\* attempt_send takes its new segments from the front of send_data_.
LEMMA FreshIsFront ==
  ASSUME NEW s \in SendBuffer, NEW cwnd, NEW due, NEW young,
         NEW q \in FreshAfter(s, cwnd, due, young),
         NEW p \in s.send_data \ FreshAfter(s, cwnd, due, young)
  PROVE  q < p
<1>1. /\ FreshAfter(s, cwnd, due, young) = Fresh(s, cwnd, young)
      /\ q \in Fresh(s, cwnd, young) /\ p \notin Fresh(s, cwnd, young)
  BY DEF FreshAfter
<1>2. p \in Nat /\ q \in Nat /\ s.send_data \subseteq Nat
  BY <1>1 DEF Fresh, SendBuffer
<1>3. CASE p <= q
  <2>1. \A r \in s.send_data : r <= p => r <= q
    BY <1>2, <1>3
  <2> QED
    BY <1>1, <2>1 DEF Fresh
<1> QED
  BY <1>2, <1>3

---------------------------------------------------------------------------
\* What the set of held segments is made of.
LEMMA HeldIsFinite ==
  ASSUME NEW s, SendInv(s), NEW S \in SUBSET Held(s)
  PROVE  /\ S \subseteq Nat
         /\ IsFiniteSet(S)
         /\ Cardinality(S) \in Nat
<1>1. Len(s.seg) \in Nat
  BY DEF SendInv, SendBuffer
<1>2. S \subseteq 1..Len(s.seg)
  BY DEF SendInv
<1>3. IsFiniteSet(1..Len(s.seg))
  BY <1>1, FS_Interval
<1>4. IsFiniteSet(S)
  BY <1>2, <1>3, FS_Subset
<1>5. S \subseteq Nat
  BY <1>1, <1>2
<1> QED
  BY <1>4, <1>5, FS_CardinalityType

\* attempt_send moves segments from send_data_ to send_window_ and nothing
\* else; whatever it puts on the wire is in send_window_ afterwards.
LEMMA AttemptSendKeeps ==
  ASSUME NEW s, SendInv(s), NEW cwnd, NEW due, NEW young
  PROVE  LET t == AttemptSend(s, cwnd, due, young)
         IN  /\ SendInv(t)
             /\ t.seg = s.seg
             /\ Held(t) = Held(s)
             /\ t.send_data \subseteq s.send_data
             /\ s.window \subseteq t.window
             /\ Sent(s, cwnd, due, young) \subseteq t.window
<1> DEFINE new == FreshAfter(s, cwnd, due, young)
           sent == Sent(s, cwnd, due, young)
           t == AttemptSend(s, cwnd, due, young)
<1>1. s \in SendBuffer
  BY DEF SendInv
<1>2. new \subseteq s.send_data /\ sent \subseteq Held(s) /\ Resent(s, cwnd, due) \subseteq s.window
  BY SentSets
<1>3. (\E q \in sent : s.cwnd_max < q) => Max(sent) \in Nat
  BY <1>2, HeldIsFinite, MaxIsLargest
<1>4. /\ t.seg = s.seg
      /\ t.window = s.window \cup new
      /\ t.send_data = s.send_data \ new
  BY <1>1 DEF AttemptSend, SendBuffer
<1>5. t \in SendBuffer
  <2> HIDE DEF new, sent
  <2>1. s.window \cup new \in SUBSET Nat /\ s.send_data \ new \in SUBSET Nat
    BY <1>1, <1>2 DEF SendBuffer
  <2>2. (IF \E q \in sent : s.cwnd_max < q THEN Max(sent) ELSE s.cwnd_max) \in Nat
    BY <1>1, <1>3 DEF SendBuffer
  <2>3. (IF s.loss_set # {} THEN s.loss_set \ Resent(s, cwnd, due) ELSE s.loss_set) \in SUBSET Nat
    BY <1>1 DEF SendBuffer
  <2>4. t = [s EXCEPT !.window = s.window \cup new,
                      !.send_data = s.send_data \ new,
                      !.loss_set = IF s.loss_set # {} THEN s.loss_set \ Resent(s, cwnd, due) ELSE s.loss_set,
                      !.cwnd_max = IF \E q \in sent : s.cwnd_max < q THEN Max(sent) ELSE s.cwnd_max]
    BY DEF AttemptSend, new, sent
  <2> HIDE DEF t
  <2> QED
    BY <1>1, <2>1, <2>2, <2>3, <2>4, ZenonT(90) DEF SendBuffer
<1>6. Held(t) = Held(s)
  BY <1>2, <1>4 DEF Held
<1>7. \A q \in t.window, p \in t.send_data : q < p
  BY <1>1, <1>2, <1>4, FreshIsFront DEF SendInv
<1>8. sent \subseteq t.window
  BY <1>2, <1>4 DEF Sent
<1> HIDE DEF t, new, sent
<1>9. SendInv(t)
  BY <1>4, <1>5, <1>6, <1>7 DEF SendInv
<1> QED
  BY <1>2, <1>4, <1>6, <1>8, <1>9 DEF t, sent

---------------------------------------------------------------------------
\* on_ack takes segments up to seq out of send_window_.
LEMMA AckKeeps ==
  ASSUME NEW s, SendInv(s), NEW seq \in Nat
  PROVE  LET t == Ack(s, seq)
         IN  /\ SendInv(t)
             /\ t.seg = s.seg
             /\ t.window \subseteq s.window
             /\ t.send_data = s.send_data
             /\ \A q \in Held(s) \ Held(t) : q <= seq
<1> DEFINE t == Ack(s, seq)
<1>1. s \in SendBuffer
  BY DEF SendInv
<1>2. /\ t.seg = s.seg
      /\ t.window = s.window \ Acked(s, seq)
      /\ t.send_data = s.send_data
  BY <1>1 DEF Ack, SendBuffer
<1>3. t \in SendBuffer
  BY <1>1 DEF Ack, SendBuffer
<1> HIDE DEF t
<1>4. \A q \in Held(s) \ Held(t) : q <= seq
  BY <1>2 DEF Held, Acked
<1>5. ASSUME NEW q \in Held(t)
      PROVE  q..Len(s.seg) \subseteq Held(t)
  <2>1. q \in Held(s) /\ q..Len(s.seg) \subseteq Held(s) /\ q \in Nat
    BY <1>1, <1>2 DEF Held, SendInv, SendBuffer
  <2>2. SUFFICES ASSUME NEW z \in q..Len(s.seg), z \notin Held(t)
                 PROVE  FALSE
    OBVIOUS
  <2>3. z \in s.window /\ z <= seq /\ q <= z
    BY <1>2, <2>1, <2>2 DEF Held, Acked
  <2>4. CASE q \in s.window
    <3>1. q <= seq
      BY <2>1, <2>3
    <3>2. q \notin t.window /\ q \notin s.send_data
      BY <1>2, <2>1, <2>4, <3>1 DEF Acked, SendInv
    <3> QED
      BY <1>2, <3>2 DEF Held
  <2>5. CASE q \in s.send_data
    BY <2>1, <2>3, <2>5 DEF SendInv
  <2> QED
    BY <2>1, <2>4, <2>5 DEF Held
<1>6. SendInv(t)
  BY <1>2, <1>3, <1>5 DEF SendInv, Held
<1> QED
  BY <1>2, <1>4, <1>6 DEF t

\* on_nack only adds to loss_set_.
LEMMA ReportLossKeeps ==
  ASSUME NEW s, SendInv(s), NEW base \in Nat, NEW ids \in SUBSET Nat
  PROVE  LET t == ReportLoss(s, base, ids)
         IN  /\ SendInv(t)
             /\ t.seg = s.seg
             /\ t.window = s.window
             /\ t.send_data = s.send_data
<1> DEFINE t == ReportLoss(s, base, ids)
           more == {base + i : i \in {j \in ids : base + j < s.cwnd_max}}
<1>1. s \in SendBuffer
  BY DEF SendInv
<1>2. more \in SUBSET Nat
  <2>1. \A i \in ids : base + i \in Nat
    OBVIOUS
  <2> QED
    BY <2>1
<1>3. t = [s EXCEPT !.loss_set = s.loss_set \cup more]
  BY DEF ReportLoss
<1> HIDE DEF t, more
<1>4. /\ t \in SendBuffer
      /\ t.seg = s.seg
      /\ t.window = s.window
      /\ t.send_data = s.send_data
  BY <1>1, <1>2, <1>3 DEF SendBuffer
<1> QED
  BY <1>4 DEF SendInv, Held, t

---------------------------------------------------------------------------
(* send(): the arithmetic of cutting r bytes into segments.                *)

\* A chunk built from two byte numbers is one, and this is its size.
LEMMA ChunkOf ==
  ASSUME NEW lo \in Nat, NEW hi \in Nat
  PROVE  /\ [lo |-> lo, hi |-> hi] \in Chunk
         /\ Size([lo |-> lo, hi |-> hi]) = (hi + 1) - lo
BY DEF Chunk, Size

\* The number of segments send() cuts from r bytes is a natural number.
LEMMA CutCount ==
  ASSUME NEW r \in Nat
  PROVE  (r + SegSize - 1) \div SegSize \in Nat
<1>1. SegSize \in Nat /\ SegSize > 0
  BY SegmentAssumption
<1>2. r + SegSize - 1 \in Nat
  BY <1>1
<1> QED
  BY <1>1, <1>2

\* Two neighbouring cut points of send() are at most one segment apart.
LEMMA CutEndBounds ==
  ASSUME NEW w \in Nat, NEW r \in Nat, NEW k \in Nat
  PROVE  /\ CutEnd(w, r, k) \in Nat
         /\ CutEnd(w, r, k + 1) \in Nat
         /\ CutEnd(w, r, k + 1) - CutEnd(w, r, k) <= SegSize
<1>1. SegSize \in Nat /\ SegSize > 0
  BY SegmentAssumption
<1>2. PICK p \in Nat : p = k * SegSize
  BY <1>1
<1>3. (k + 1) * SegSize = p + SegSize
  BY <1>1, <1>2
<1>4. /\ CutEnd(w, r, k) = IF p < r THEN w + p ELSE w + r
      /\ CutEnd(w, r, k + 1) = IF p + SegSize < r THEN w + (p + SegSize) ELSE w + r
  BY <1>2, <1>3 DEF CutEnd
<1> QED
  BY <1>1, <1>4

\* send() glues onto the last segment only what fits, and only while that
\* segment is unsent.
LEMMA GluedIs ==
  ASSUME NEW s, SendInv(s), NEW n \in Nat
  PROVE  /\ s.send_data # {} => Len(s.seg) \in s.send_data /\ Len(s.seg) \in 1..Len(s.seg)
         /\ Glued(s, n) \in Nat /\ Glued(s, n) <= n
         /\ s.send_data = {} => Glued(s, n) = 0
         /\ s.send_data # {} => Glued(s, n) + Size(s.seg[Len(s.seg)]) <= SegSize
<1> DEFINE old == Len(s.seg)
           g == Glued(s, n)
<1>1. /\ s \in SendBuffer
      /\ s.seg \in Seq(Chunk)
      /\ old \in Nat
      /\ \A i \in 1..old : s.seg[i] \in Chunk
  BY DEF SendInv, SendBuffer
<1>2. SegSize \in Nat /\ SegSize > 0
  BY SegmentAssumption
<1>3. s.send_data # {} => old \in s.send_data /\ old \in 1..old
  <2>1. ASSUME NEW q \in s.send_data
        PROVE  old \in s.send_data /\ old \in 1..old
    <3>1. q \in 1..old /\ q..old \subseteq Held(s)
      BY <2>1 DEF SendInv, Held
    <3>2. old \in Held(s) /\ q <= old
      BY <1>1, <3>1
    <3>3. old \notin s.window
      BY <1>1, <2>1, <3>1, <3>2 DEF SendInv
    <3> QED
      BY <1>1, <3>1, <3>2, <3>3 DEF Held
  <2> QED
    BY <2>1
<1>4. /\ g \in Nat /\ g <= n
      /\ s.send_data = {} => g = 0
      /\ s.send_data # {} => g + Size(s.seg[old]) <= SegSize
  <2>1. CASE s.send_data = {}
    BY <2>1 DEF Glued
  <2>2. CASE s.send_data # {}
    <3>1. s.seg[old] \in Chunk /\ Size(s.seg[old]) <= SegSize
      BY <1>1, <1>3, <2>2 DEF SendInv
    <3>2. Size(s.seg[old]) \in Int
      BY <3>1 DEF Chunk, Size
    <3>3. g = IF SegSize - Size(s.seg[old]) < n THEN SegSize - Size(s.seg[old]) ELSE n
      BY <2>2 DEF Glued
    <3> QED
      BY <1>2, <2>2, <3>1, <3>2, <3>3
  <2> QED
    BY <2>1, <2>2
<1> QED
  BY <1>3, <1>4

\* send glues onto the last segment only while it is unsent, and cuts the rest
\* into new segments that wait behind the old ones.
LEMMA QueueKeeps ==
  ASSUME NEW s, SendInv(s), NEW n \in Nat
  PROVE  LET t == Queue(s, n)
         IN  /\ SendInv(t)
             /\ Len(t.seg) \in Nat
             /\ Len(s.seg) <= Len(t.seg)
             /\ t.window = s.window
             /\ t.send_data \cap 1..Len(s.seg) = s.send_data
             /\ \A q \in (Len(s.seg) + 1)..Len(t.seg) : q \in t.send_data
             /\ \A q \in 1..Len(s.seg) : q \notin s.send_data => t.seg[q] = s.seg[q]
<1> DEFINE old == Len(s.seg)
           g == Glued(s, n)
           w == Written(s) + g
           r == n - g
           cut == (r + SegSize - 1) \div SegSize
           seg == [i \in 1..(old + cut) |->
                     IF i < old THEN s.seg[i]
                     ELSE IF i = old THEN [lo |-> s.seg[i].lo, hi |-> s.seg[i].hi + g]
                     ELSE [lo |-> CutEnd(w, r, i - old - 1) + 1, hi |-> CutEnd(w, r, i - old)]]
           t == Queue(s, n)
<1>1. /\ s \in SendBuffer
      /\ s.seg \in Seq(Chunk)
      /\ old \in Nat
      /\ \A i \in 1..old : s.seg[i] \in Chunk
  BY DEF SendInv, SendBuffer
<1>2. SegSize \in Nat /\ SegSize > 0
  BY SegmentAssumption
<1>3. s.send_data # {} => old \in s.send_data /\ old \in 1..old
  BY GluedIs
<1>4. /\ g \in Nat /\ g <= n
      /\ s.send_data = {} => g = 0
      /\ s.send_data # {} => g + Size(s.seg[old]) <= SegSize
  BY GluedIs
<1>5. r \in Nat /\ w \in Nat
  <2>1. Written(s) \in Nat
    <3>1. CASE s.seg = << >>
      BY <3>1 DEF Written
    <3>2. CASE s.seg # << >>
      <4>1. old \in 1..old
        BY <1>1, <3>2
      <4> QED
        BY <1>1, <3>2, <4>1 DEF Written, Chunk
    <3> QED
      BY <3>1, <3>2
  <2> QED
    BY <1>4, <2>1
<1>6. cut \in Nat
  BY <1>5, CutCount
<1>7. t = [s EXCEPT !.seg = seg, !.send_data = s.send_data \cup (old + 1)..(old + cut)]
  BY DEF Queue
<1> HIDE DEF g, w, r, cut, t
<1>8. ASSUME NEW i \in 1..(old + cut)
      PROVE  seg[i] \in Chunk /\ Size(seg[i]) <= SegSize
  <2>1. CASE i < old
    <3>1. i \in 1..old /\ seg[i] = s.seg[i]
      BY <1>1, <1>6, <2>1
    <3> QED
      BY <1>1, <3>1 DEF SendInv
  <2>2. CASE i = old
    <3>1. s.seg[i] \in Chunk /\ Size(s.seg[i]) <= SegSize
      BY <1>1, <2>2 DEF SendInv
    <3>2. seg[i] = [lo |-> s.seg[i].lo, hi |-> s.seg[i].hi + g]
      BY <1>1, <2>2
    <3>3. g + Size(s.seg[i]) <= SegSize
      BY <1>4, <2>2, <3>1 DEF Chunk, Size
    <3>4. /\ s.seg[i].lo \in Nat /\ s.seg[i].hi \in Nat
          /\ Size(s.seg[i]) = (s.seg[i].hi + 1) - s.seg[i].lo
      BY <3>1 DEF Chunk, Size
    <3>5. s.seg[i].hi + g \in Nat
      BY ONLY <1>4, <3>4, SMTT(90)
    <3>6. /\ seg[i] \in Chunk
          /\ Size(seg[i]) = (s.seg[i].hi + g + 1) - s.seg[i].lo
      BY <3>2, <3>4, <3>5, ChunkOf, ZenonT(90)
    <3> HIDE DEF seg
    <3>7. ASSUME NEW lo \in Nat, NEW hi \in Nat, NEW k \in Nat, NEW l \in Nat,
                 k + ((hi + 1) - lo) <= l
          PROVE  (hi + k + 1) - lo <= l
      BY ONLY <3>7
    <3>8. g + ((s.seg[i].hi + 1) - s.seg[i].lo) <= SegSize
      BY <3>3, <3>4, Zenon
    <3>9. (s.seg[i].hi + g + 1) - s.seg[i].lo <= SegSize
      BY <1>2, <1>4, <3>4, <3>7, <3>8, Zenon
    <3> QED
      BY <3>6, <3>9
  <2>3. CASE i > old
    <3> DEFINE k == i - old - 1
    <3>1. k \in Nat /\ i - old = k + 1
      BY <1>1, <1>6, <2>3
    <3>2. seg[i] = [lo |-> CutEnd(w, r, k) + 1, hi |-> CutEnd(w, r, k + 1)]
      BY <1>1, <2>3, <3>1
    <3> HIDE DEF k, seg
    <3>3. /\ CutEnd(w, r, k) \in Nat /\ CutEnd(w, r, k + 1) \in Nat
          /\ CutEnd(w, r, k + 1) - CutEnd(w, r, k) <= SegSize
      BY <1>5, <3>1, CutEndBounds
    <3>4. CutEnd(w, r, k) + 1 \in Nat
      BY <3>3
    <3>5. /\ seg[i] \in Chunk
          /\ Size(seg[i]) = (CutEnd(w, r, k + 1) + 1) - (CutEnd(w, r, k) + 1)
      BY <3>2, <3>3, <3>4, ChunkOf
    <3> QED
      BY <1>2, <3>3, <3>5
  <2> QED
    BY <1>1, <1>6, <2>1, <2>2, <2>3
<1>9. seg \in Seq(Chunk) /\ Len(seg) = old + cut
  <2>1. seg \in [1..(old + cut) -> Chunk]
    BY <1>8
  <2> HIDE DEF seg
  <2> QED
    BY <1>1, <1>6, <2>1
<1>10. /\ t \in SendBuffer /\ t.seg = seg /\ t.window = s.window
       /\ t.send_data = s.send_data \cup (old + 1)..(old + cut)
  <2>1. s.send_data \cup (old + 1)..(old + cut) \in SUBSET Nat
    BY <1>1, <1>6 DEF SendBuffer
  <2> HIDE DEF seg, old
  <2> QED
    BY <1>1, <1>7, <1>9, <2>1 DEF SendBuffer
<1>11. Held(t) = Held(s) \cup (old + 1)..(old + cut)
  BY <1>10 DEF Held
<1>12. Held(s) \subseteq 1..old
  BY DEF SendInv
<1>13. \A q \in 1..old : q \notin s.send_data => seg[q] = s.seg[q]
  <2>1. SUFFICES ASSUME NEW q \in 1..old, q \notin s.send_data
                 PROVE  seg[q] = s.seg[q]
    OBVIOUS
  <2>2. CASE q < old
    BY <1>1, <1>6, <2>2
  <2>3. CASE q = old
    <3>1. g = 0
      BY <1>3, <1>4, <2>1, <2>3
    <3>2. seg[q] = [lo |-> s.seg[q].lo, hi |-> s.seg[q].hi + g]
      BY <1>1, <1>6, <2>3
    <3>3. s.seg[q] = [lo |-> s.seg[q].lo, hi |-> s.seg[q].hi] /\ s.seg[q].hi \in Nat
      BY <1>1 DEF Chunk
    <3> QED
      BY <3>1, <3>2, <3>3
  <2> HIDE DEF seg
  <2> QED
    BY <1>1, <2>2, <2>3
<1>14. \A i \in 1..Len(t.seg) : Size(t.seg[i]) <= SegSize
  BY <1>8, <1>9, <1>10
<1> HIDE DEF seg
<1>15. \A q \in Held(t) : q..Len(t.seg) \subseteq Held(t)
  <2>1. SUFFICES ASSUME NEW q \in Held(t), NEW z \in q..(old + cut)
                 PROVE  z \in Held(t)
    BY <1>9, <1>10
  <2>2. q \in Nat /\ z \in Int /\ q <= z /\ z <= old + cut
    BY <1>1, <1>6, <1>11, <1>12, <2>1
  <2>3. CASE z > old
    BY <1>1, <1>6, <1>11, <2>2, <2>3
  <2>4. CASE z <= old
    <3>1. q \in Held(s)
      BY <1>1, <1>6, <1>11, <2>1, <2>2, <2>4
    <3>2. z \in q..old
      BY <1>1, <2>2, <2>4
    <3> QED
      BY <1>11, <3>1, <3>2 DEF SendInv
  <2> QED
    BY <1>1, <2>2, <2>3, <2>4
<1>16. \A q \in t.window, p \in t.send_data : q < p
  <2>1. SUFFICES ASSUME NEW q \in s.window, NEW p \in t.send_data
                 PROVE  q < p
    BY <1>10
  <2>2. q \in 1..old
    BY <1>12 DEF Held
  <2>3. p \in s.send_data \/ p \in (old + 1)..(old + cut)
    BY <1>10
  <2> QED
    BY <1>1, <1>6, <2>2, <2>3 DEF SendInv
<1>17. Held(t) \subseteq 1..Len(t.seg)
  BY <1>1, <1>6, <1>9, <1>10, <1>11, <1>12
<1>18. SendInv(t)
  BY <1>10, <1>14, <1>15, <1>16, <1>17 DEF SendInv
<1>19. t.send_data \cap 1..old = s.send_data
  BY <1>1, <1>6, <1>10, <1>12 DEF Held
<1>20. /\ Len(t.seg) = old + cut /\ old <= old + cut /\ old + cut \in Nat
       /\ \A q \in (old + 1)..(old + cut) : q \in t.send_data
  BY <1>1, <1>6, <1>9, <1>10
<1> QED
  BY <1>10, <1>13, <1>18, <1>19, <1>20 DEF t

---------------------------------------------------------------------------
\* attempt_send fills send_window_ up to the congestion window, no further.
LEMMA AttemptSendBound ==
  ASSUME NEW s, SendInv(s), NEW cwnd \in Nat, NEW due, NEW young,
         NEW limit \in Nat, cwnd <= limit, Cardinality(s.window) <= limit
  PROVE  Cardinality(AttemptSend(s, cwnd, due, young).window) <= limit
<1> DEFINE new == FreshAfter(s, cwnd, due, young)
<1>1. s \in SendBuffer
  BY DEF SendInv
<1>2. new \subseteq s.send_data /\ AttemptSend(s, cwnd, due, young).window = s.window \cup new
  BY <1>1, SentSets DEF AttemptSend, SendBuffer
<1>3. CASE new = {}
  BY <1>2, <1>3
<1>4. CASE new # {}
  <2>1. /\ new \subseteq Nat /\ IsFiniteSet(new)
        /\ IsFiniteSet(s.window) /\ Cardinality(s.window) \in Nat
    BY <1>2, HeldIsFinite DEF Held
  <2>2. Max(new) \in new /\ \A x \in new : x <= Max(new)
    <3> HIDE DEF new
    <3> QED
      BY <1>4, <2>1, MaxIsLargest
  <2> DEFINE m == Max(new)
             below == {p \in s.send_data : p < m}
  <2> HIDE DEF m
  <2>3. m \in new /\ \A x \in new : x <= m
    BY <2>2 DEF m
  <2>4. Cardinality(s.window) + Cardinality(below) < cwnd
    BY <1>2, <2>1, <2>3 DEF FreshAfter, Fresh, InFlight
  <2>5. IsFiniteSet(below) /\ Cardinality(below) \in Nat
    BY HeldIsFinite DEF Held
  <2>6. new \subseteq below \cup {m}
    <3>1. \A x \in new : x = m \/ x < m
      BY <2>1, <2>3
    <3> QED
      BY <1>2, <3>1
  <2> HIDE DEF new, below
  <2>7. IsFiniteSet(below \cup {m}) /\ Cardinality(below \cup {m}) <= Cardinality(below) + 1
    BY <2>5, FS_AddElement, SMTT(90)
  <2>8. Cardinality(new) <= Cardinality(below \cup {m})
    BY <2>6, <2>7, FS_Subset
  <2>9. /\ Cardinality(new) \in Nat
        /\ Cardinality(below \cup {m}) \in Nat
        /\ Cardinality(s.window \cap new) \in Nat
    BY <2>1, <2>7, FS_CardinalityType, FS_Intersection
  <2>10. Cardinality(s.window \cup new) =
           Cardinality(s.window) + Cardinality(new) - Cardinality(s.window \cap new)
    BY <2>1, FS_Union
  <2>11. Cardinality(s.window \cup new) <= limit
    BY <2>1, <2>4, <2>5, <2>7, <2>8, <2>9, <2>10
  <2> QED
    BY <1>2, <2>11
<1> QED
  BY <1>3, <1>4

---------------------------------------------------------------------------
(* The receive buffer.                                                     *)

\* A receive buffer with this recv_window_ and recv_data_.
RecvBuffer(window, data) ==
  [ first_seq : Nat, max_seq : Nat, recv_window : {window}, recv_data : {data},
    loss_map : SUBSET Nat, recv_new : BOOLEAN ]

\* The invariant of one receive buffer.
RecvInv(r) ==
  /\ r \in RecvBuffer(r.recv_window, r.recv_data)
  /\ DOMAIN r.recv_window \subseteq (r.first_seq + 2)..r.max_seq
  /\ r.max_seq <= r.first_seq + MaxSeqInterval
  /\ \A q \in r.loss_map : q <= r.max_seq

\* Nothing arrives and nothing is given up: r2 reports or reads what r holds.
SameWindow(r, r2) ==
  /\ RecvInv(r2)
  /\ r2.first_seq = r.first_seq
  /\ r2.recv_window = r.recv_window

---------------------------------------------------------------------------
\* recv_window_ is finite: it lies between the gap and max_seq_.
LEMMA WindowIsFinite ==
  ASSUME NEW r, RecvInv(r)
  PROVE  IsFiniteSet(DOMAIN r.recv_window) /\ Cardinality(DOMAIN r.recv_window) \in Nat
<1>1. r.first_seq + 2 \in Int /\ r.max_seq \in Int
  BY DEF RecvInv, RecvBuffer
<1>2. IsFiniteSet((r.first_seq + 2)..r.max_seq)
  BY <1>1, FS_Interval
<1>3. IsFiniteSet(DOMAIN r.recv_window)
  BY <1>2, FS_Subset DEF RecvInv, RecvBuffer
<1> QED
  BY <1>3, FS_CardinalityType

\* on_data moves the in-order prefix forward, and what it keeps in
\* recv_window_ was there before or is the segment that arrived.
LEMMA OnDataKeeps ==
  ASSUME NEW r, RecvInv(r), NEW seq \in Nat, NEW data, NEW r2 \in OnData(r, seq, data)
  PROVE  /\ RecvInv(r2)
         /\ r.first_seq <= r2.first_seq
         /\ \A q \in DOMAIN r2.recv_window :
              \/ q \in DOMAIN r.recv_window /\ r2.recv_window[q] = r.recv_window[q]
              \/ q = seq /\ r2.recv_window[q] = data
<1>1. CASE OutOfRange(r, seq)
  BY <1>1 DEF OnData, RecvInv, RecvBuffer
<1>2. ASSUME r2 = Old(r)
      PROVE  SameWindow(r, r2)
  BY <1>2 DEF Old, SameWindow, RecvInv, RecvBuffer
<1>3. ASSUME seq = r.first_seq + 1, NEW f \in ContiguousUpTo(r, seq),
             r2 = NextInOrder(r, seq, data, f)
      PROVE  /\ RecvInv(r2)
             /\ r.first_seq <= r2.first_seq
             /\ \A q \in DOMAIN r2.recv_window :
                  q \in DOMAIN r.recv_window /\ r2.recv_window[q] = r.recv_window[q]
  <2>1. /\ f \in Nat /\ seq <= f
        /\ f + 1 \notin DOMAIN r.recv_window
    BY WindowIsFinite DEF ContiguousUpTo
  <2> DEFINE left == DOMAIN r.recv_window \ (seq + 1)..f
  <2>2. /\ r2.first_seq = f
        /\ r2.recv_window = [q \in left |-> r.recv_window[q]]
        /\ r2.max_seq = IF r.max_seq < seq THEN seq ELSE r.max_seq
        /\ r2.loss_map = r.loss_map \ {seq}
        /\ r2.recv_new = TRUE
    BY <1>3 DEF NextInOrder, RecvInv, RecvBuffer
  <2>3. ASSUME NEW q \in left
        PROVE  q \in (f + 2)..r2.max_seq
    <3>1. q \in Nat /\ r.first_seq + 2 <= q /\ q <= r.max_seq /\ ~(q \in (seq + 1)..f)
      BY DEF RecvInv, RecvBuffer
    <3>2. q > f /\ q # f + 1
      BY <1>3, <2>1, <3>1 DEF RecvInv, RecvBuffer
    <3> QED
      BY <2>1, <2>2, <3>1, <3>2 DEF RecvInv, RecvBuffer
  <2>4. r2 \in RecvBuffer(r2.recv_window, r2.recv_data)
    <3>1. r2.max_seq \in Nat /\ r2.loss_map \in SUBSET Nat
      BY <2>2 DEF RecvInv, RecvBuffer
    <3>2. r2 = [r EXCEPT !.first_seq = f, !.recv_window = r2.recv_window,
                         !.recv_data = r2.recv_data, !.loss_map = r2.loss_map,
                         !.recv_new = TRUE, !.max_seq = r2.max_seq]
      BY <1>3, <2>2 DEF NextInOrder, RecvInv, RecvBuffer
    <3> QED
      BY <2>1, <3>1, <3>2 DEF RecvInv, RecvBuffer
  <2> HIDE DEF left
  <2>5. DOMAIN r2.recv_window = left
    BY <2>2
  <2>6. /\ r2.max_seq <= r2.first_seq + MaxSeqInterval
        /\ \A q \in r2.loss_map : q <= r2.max_seq
    BY <1>3, <2>1, <2>2, IntervalAssumption DEF RecvInv, RecvBuffer
  <2>7. RecvInv(r2)
    BY <2>1, <2>2, <2>3, <2>4, <2>5, <2>6 DEF RecvInv, RecvBuffer
  <2> QED
    BY <1>3, <2>1, <2>2, <2>5, <2>7 DEF RecvInv, RecvBuffer, left
<1>4. ASSUME ~OutOfRange(r, seq), seq > r.first_seq + 1, r2 = Ahead(r, seq, data)
      PROVE  /\ RecvInv(r2)
             /\ r.first_seq <= r2.first_seq
             /\ \A q \in DOMAIN r2.recv_window :
                  \/ q \in DOMAIN r.recv_window /\ r2.recv_window[q] = r.recv_window[q]
                  \/ q = seq /\ r2.recv_window[q] = data
  <2> DEFINE window == IF seq \in DOMAIN r.recv_window THEN r.recv_window
                       ELSE [q \in DOMAIN r.recv_window \cup {seq} |->
                               IF q = seq THEN data ELSE r.recv_window[q]]
  <2>1. /\ r2.first_seq = r.first_seq
        /\ r2.recv_window = window
        /\ r2.max_seq = IF r.max_seq < seq THEN seq ELSE r.max_seq
        /\ r2.loss_map = IF seq > r.max_seq + 1 THEN r.loss_map \cup (r.max_seq + 1)..(seq - 1)
                         ELSE r.loss_map \ {seq}
    BY <1>4 DEF Ahead, RecvInv, RecvBuffer
  <2>2. DOMAIN window = DOMAIN r.recv_window \cup {seq}
    OBVIOUS
  <2>3. \A q \in DOMAIN window :
          \/ q \in DOMAIN r.recv_window /\ window[q] = r.recv_window[q]
          \/ q = seq /\ window[q] = data
    OBVIOUS
  <2> HIDE DEF window
  <2>4. r2.max_seq \in Nat /\ r2.max_seq >= r.max_seq /\ r2.max_seq >= seq
    BY <2>1 DEF RecvInv, RecvBuffer
  <2>5. r2.loss_map \subseteq Nat
    <3>1. (r.max_seq + 1)..(seq - 1) \subseteq Nat
      BY DEF RecvInv, RecvBuffer
    <3> QED
      BY <2>1, <3>1 DEF RecvInv, RecvBuffer
  <2>6. DOMAIN window \subseteq (r.first_seq + 2)..r2.max_seq
    <3>1. \A q \in DOMAIN r.recv_window : q \in (r.first_seq + 2)..r2.max_seq
      BY <2>4 DEF RecvInv, RecvBuffer
    <3>2. seq \in (r.first_seq + 2)..r2.max_seq
      BY <1>4, <2>4 DEF RecvInv, RecvBuffer
    <3> QED
      BY <2>2, <3>1, <3>2
  <2>7. r2 \in RecvBuffer(r2.recv_window, r2.recv_data)
    <3>1. r2.loss_map \in SUBSET Nat
      BY <2>5
    <3>2. r2 = [r EXCEPT !.recv_window = r2.recv_window, !.loss_map = r2.loss_map,
                         !.max_seq = r2.max_seq]
      BY <1>4, <2>1 DEF Ahead, window
    <3> QED
      BY <2>4, <3>1, <3>2 DEF RecvInv, RecvBuffer
  <2>9. r2.max_seq <= r2.first_seq + MaxSeqInterval
    BY <1>4, <2>1, IntervalAssumption DEF OutOfRange, RecvInv, RecvBuffer
  <2>10. \A q \in r2.loss_map : q <= r2.max_seq
    <3>1. SUFFICES ASSUME NEW q \in r2.loss_map
                   PROVE  q <= r2.max_seq
      OBVIOUS
    <3>2. q \in r.loss_map \/ q \in (r.max_seq + 1)..(seq - 1)
      BY <2>1
    <3>3. r.max_seq \in Nat /\ (q \in r.loss_map => q \in Nat /\ q <= r.max_seq)
      BY DEF RecvInv, RecvBuffer
    <3> QED
      BY <2>4, <3>2, <3>3
  <2>8. RecvInv(r2)
    BY <2>1, <2>6, <2>7, <2>9, <2>10 DEF RecvInv, RecvBuffer
  <2> QED
    BY <2>1, <2>3, <2>8 DEF RecvInv, RecvBuffer
<1> QED
  BY <1>1, <1>2, <1>3, <1>4 DEF OnData, SameWindow, RecvInv, RecvBuffer

\* The timer, an acknowledgement on its way and a read leave the prefix and
\* recv_window_ alone.
LEMMA OthersKeep ==
  ASSUME NEW r, RecvInv(r), NEW expired, NEW late \in BOOLEAN, NEW n
  PROVE  /\ SameWindow(r, AckSent(r))
         /\ SameWindow(r, OnTimer(r, expired, late))
         /\ SameWindow(r, Read(r, n))
         /\ Reported(r, expired) \subseteq {q \in Nat : q > r.first_seq}
<1>1. /\ SameWindow(r, AckSent(r))
      /\ SameWindow(r, Read(r, n))
      /\ Reported(r, expired) \subseteq {q \in Nat : q > r.first_seq}
  BY DEF AckSent, Read, Reported, SameWindow, RecvInv, RecvBuffer
<1>2. SameWindow(r, CheckLoss(r, expired))
  BY DEF CheckLoss, SameWindow, RecvInv, RecvBuffer
<1>3. SameWindow(r, AckSent(CheckLoss(r, expired)))
  BY <1>2 DEF AckSent, SameWindow, RecvInv, RecvBuffer
<1> QED
  BY <1>1, <1>2, <1>3 DEF OnTimer

\* An acknowledgement on its way, and the timer, read nothing.
LEMMA OthersSameData ==
  ASSUME NEW r, RecvInv(r), NEW expired, NEW late \in BOOLEAN
  PROVE  /\ AckSent(r).recv_data = r.recv_data
         /\ OnTimer(r, expired, late).recv_data = r.recv_data
<1>1. /\ AckSent(r).recv_data = r.recv_data
      /\ CheckLoss(r, expired).recv_data = r.recv_data
  BY DEF AckSent, CheckLoss, RecvInv, RecvBuffer
<1>2. RecvInv(CheckLoss(r, expired))
  BY DEF CheckLoss, RecvInv, RecvBuffer
<1>3. AckSent(CheckLoss(r, expired)).recv_data = CheckLoss(r, expired).recv_data
  BY <1>2 DEF AckSent, RecvInv, RecvBuffer
<1> QED
  BY <1>1, <1>3 DEF OnTimer

---------------------------------------------------------------------------
\* What is missing when r becomes r2: a gap that is new is in loss_map_, and
\* one that goes is filled.
GapsNoticed(r, r2) ==
  LET has(q) == q <= r2.first_seq \/ q \in DOMAIN r2.recv_window
  IN /\ \A q \in r.max_seq + 1 .. r2.max_seq : has(q) \/ q \in r2.loss_map
     /\ \A q \in r.loss_map \ r2.loss_map : has(q)

\* on_data sets recv_new_packet_ when the prefix grows, and never clears it; it
\* notices every new gap, and forgets only what arrived.
LEMMA OnDataNotices ==
  ASSUME NEW r, RecvInv(r), NEW seq \in Nat, NEW data, NEW r2 \in OnData(r, seq, data)
  PROVE  /\ ~r2.recv_new => ~r.recv_new /\ r2.first_seq = r.first_seq
         /\ GapsNoticed(r, r2)
<1>1. CASE r2 = r \/ r2 = Old(r)
  <2>1. /\ r2.max_seq = r.max_seq /\ r2.loss_map = r.loss_map /\ r.max_seq \in Nat
        /\ ~r2.recv_new => ~r.recv_new /\ r2.first_seq = r.first_seq
    BY <1>1 DEF Old, RecvInv, RecvBuffer
  <2> QED
    BY <2>1 DEF GapsNoticed
<1>2. ASSUME seq = r.first_seq + 1, NEW f \in ContiguousUpTo(r, seq),
             r2 = NextInOrder(r, seq, data, f)
      PROVE  r2.recv_new /\ GapsNoticed(r, r2)
  <2>1. f \in Nat /\ seq <= f /\ r.max_seq \in Nat
    BY WindowIsFinite DEF ContiguousUpTo, RecvInv, RecvBuffer
  <2>2. /\ r2.first_seq = f
        /\ r2.max_seq = IF r.max_seq < seq THEN seq ELSE r.max_seq
        /\ r2.loss_map = r.loss_map \ {seq}
        /\ r2.recv_new = TRUE
    BY <1>2 DEF NextInOrder, RecvInv, RecvBuffer
  <2>3. \A q \in r.max_seq + 1 .. r2.max_seq : q <= f
    BY <2>1, <2>2
  <2> QED
    BY <2>1, <2>2, <2>3 DEF GapsNoticed
<1>3. ASSUME seq > r.first_seq + 1, r2 = Ahead(r, seq, data)
      PROVE  r2.recv_new = r.recv_new /\ r2.first_seq = r.first_seq /\ GapsNoticed(r, r2)
  <2>1. /\ r2.first_seq = r.first_seq /\ r2.recv_new = r.recv_new
        /\ r2.recv_window = IF seq \in DOMAIN r.recv_window THEN r.recv_window
                            ELSE [q \in DOMAIN r.recv_window \cup {seq} |->
                                    IF q = seq THEN data ELSE r.recv_window[q]]
        /\ r2.max_seq = IF r.max_seq < seq THEN seq ELSE r.max_seq
        /\ r2.loss_map = IF seq > r.max_seq + 1 THEN r.loss_map \cup (r.max_seq + 1)..(seq - 1)
                         ELSE r.loss_map \ {seq}
    BY <1>3 DEF Ahead, RecvInv, RecvBuffer
  <2>2. seq \in DOMAIN r2.recv_window
    BY <2>1
  <2>3. ASSUME NEW q \in r.max_seq + 1 .. r2.max_seq, q # seq
        PROVE  q \in r2.loss_map
    <3>1. r.max_seq \in Nat
      BY DEF RecvInv, RecvBuffer
    <3>2. seq > r.max_seq + 1 /\ q \in (r.max_seq + 1)..(seq - 1)
      BY <2>1, <2>3, <3>1
    <3> QED
      BY <2>1, <3>2
  <2>4. \A q \in r.loss_map \ r2.loss_map : q = seq
    BY <2>1
  <2> QED
    BY <2>1, <2>2, <2>3, <2>4 DEF GapsNoticed
<1> QED
  BY <1>1, <1>2, <1>3 DEF OnData

---------------------------------------------------------------------------
(* The stream: where its segments lie in it, and how many bytes they hold. *)

\* The bytes a + 1 .. a + n of a stream, in order.
Run(a, n) == [i \in 1..n |-> a + i]

\* The last byte of the first i segments of s.
End(s, i) == IF i = 0 THEN 0 ELSE s.seg[i].hi

\* The segments of s are the stream cut into pieces: each starts where the one
\* before it ends.
Contiguous(s) ==
  \A i \in 1..Len(s.seg) : s.seg[i].lo = End(s, i - 1) + 1 /\ End(s, i - 1) <= End(s, i)

\* The segments s holds are the last ones, and z is the number of their bytes.
Accounted(s, z) ==
  \E p \in 0..Len(s.seg) : Held(s) = (p + 1)..Len(s.seg) /\ z = Written(s) - End(s, p)

---------------------------------------------------------------------------
\* A set of naturals that is not empty has a smallest element: what a proof by
\* induction on the number of a segment starts from.
LEMMA SmallestOf ==
  ASSUME NEW S \in SUBSET Nat, S # {}
  PROVE  \E m \in S : \A y \in S : m <= y
<1> DEFINE R == OpToRel(<, Nat)
<1>1. IsWellFoundedOn(R, Nat)
  BY NatLessThanWellFounded, Zenon
<1>2. PICK x \in S : \A y \in S : ~ (<<y, x>> \in R)
  <2> HIDE DEF R
  <2> QED
    BY <1>1, WFMin
<1>3. \A y \in S : ~(y < x)
  BY <1>2 DEF OpToRel
<1>4. \A y \in S : x <= y
  BY <1>3
<1> QED
  BY <1>4

\* FlattenSeq is the last of the sequences that are built up one by one.
LEMMA FlattenIs ==
  ASSUME NEW n \in Nat, n > 0, NEW ss, ss \in [1..n -> Seq(Nat)],
         NEW g, g \in [1..n -> Seq(Nat)],
         \A k \in 1..n : g[k] = IF k = 1 THEN ss[k] ELSE g[k - 1] \o ss[k]
  PROVE  FlattenSeq(ss) = g[n]
<1> DEFINE Def(h) == h = [k \in 1..n |-> IF k = 1 THEN ss[k] ELSE h[k - 1] \o ss[k]]
<1>1. Len(ss) = n
  OBVIOUS
<1>2. Def(g)
  OBVIOUS
<1>3. FlattenSeq(ss) = (CHOOSE h : Def(h))[n]
  BY <1>1 DEF FlattenSeq
<1>4. PICK h : h = CHOOSE x : Def(x)
  OBVIOUS
<1>5. Def(h)
  BY <1>2, <1>4
<1>6. \A k \in 1..n : h[k] = g[k]
  <2> DEFINE Bad == {k \in 1..n : h[k] # g[k]}
  <2>1. SUFFICES ASSUME Bad # {} PROVE FALSE
    OBVIOUS
  <2>2. Bad \in SUBSET Nat
    OBVIOUS
  <2>3. PICK k \in Bad : \A j \in Bad : k <= j
    BY <2>1, <2>2, SmallestOf
  <2>4. k # 1 => k - 1 \in 1..n /\ h[k - 1] = g[k - 1]
    BY <2>3, SMTT(90)
  <2>5. h[k] = IF k = 1 THEN ss[k] ELSE h[k - 1] \o ss[k]
    BY <1>5
  <2> QED
    BY <2>3, <2>4, <2>5
<1>7. FlattenSeq(ss) = h[n]
  BY <1>3, <1>4
<1>8. n \in 1..n
  OBVIOUS
<1> QED
  BY <1>6, <1>7, <1>8

\* g gives the empty set 0, and adds an element's size whenever one is put in.
AddsSizes(s, S, g) ==
  /\ g \in [SUBSET S -> Nat]
  /\ g[{}] = 0
  /\ \A T \in SUBSET S : \A x \in T : g[T] = Size(s.seg[x]) + g[T \ {x}]

\* A sum over the elements of a finite set is what adds one element's size
\* for every element put in, whatever order they come in.
LEMMA SumIs ==
  ASSUME NEW s, NEW S, IsFiniteSet(S), NEW g, AddsSizes(s, S, g)
  PROVE  TotalSize(s, S) = g[S]
<1> USE DEF AddsSizes
<1> DEFINE Def(h) == h = [T \in SUBSET S |->
              IF T = {} THEN 0
              ELSE LET x == CHOOSE x \in T : TRUE IN Size(s.seg[x]) + h[T \ {x}]]
<1>1. TotalSize(s, S) = (CHOOSE h : Def(h))[S]
  BY DEF TotalSize, MapThenSumSet, MapThenFoldSet
<1>2. Def(g)
  <2>1. ASSUME NEW T \in SUBSET S
        PROVE g[T] = IF T = {} THEN 0 ELSE LET x == CHOOSE x \in T : TRUE IN Size(s.seg[x]) + g[T \ {x}]
    <3>1. CASE T = {}
      BY <3>1
    <3>2. CASE T # {}
      <4>1. (CHOOSE x \in T : TRUE) \in T
        BY <3>2
      <4> QED
        BY <3>2, <4>1
    <3> QED
      BY <3>1, <3>2
  <2> QED
    BY <2>1
<1>3. PICK h : h = CHOOSE x : Def(x)
  OBVIOUS
<1>4. Def(h)
  <2> HIDE DEF Def
  <2> QED
    BY <1>2, <1>3
<1>5. \A T \in SUBSET S : h[T] = g[T]
  <2> DEFINE Bad == {T \in SUBSET S : h[T] # g[T]}
  <2>1. SUFFICES ASSUME Bad # {} PROVE FALSE
    OBVIOUS
  <2>2. Bad \subseteq FiniteSubsetsOf(S)
    BY FS_Subset DEF FiniteSubsetsOf
  <2>3. PICK T \in Bad : \A U \in Bad : ~ (<<U, T>> \in StrictSubsetOrdering(S))
    <3>1. IsWellFoundedOn(StrictSubsetOrdering(S), FiniteSubsetsOf(S))
      BY FS_StrictSubsetOrderingWellFounded
    <3> HIDE DEF Bad
    <3> QED
      BY <2>1, <2>2, <3>1, WFMin
  <2>4. T \in SUBSET S /\ h[T] # g[T]
    OBVIOUS
  <2>5. CASE T = {}
    BY <1>4, <2>4, <2>5
  <2>6. CASE T # {}
    <3>1. PICK x : x = CHOOSE z \in T : TRUE
      OBVIOUS
    <3>2. x \in T
      BY <2>6, <3>1
    <3>3. h[T] = Size(s.seg[x]) + h[T \ {x}]
      BY <1>4, <2>4, <2>6, <3>1
    <3>4. <<T \ {x}, T>> \in StrictSubsetOrdering(S)
      BY <2>4, <3>2 DEF StrictSubsetOrdering
    <3>5. h[T \ {x}] = g[T \ {x}]
      BY <2>3, <2>4, <3>4
    <3> QED
      BY <2>4, <3>2, <3>3, <3>5
  <2> QED
    BY <2>5, <2>6
<1> HIDE DEF Def
<1>6. S \in SUBSET S
  OBVIOUS
<1> QED
  BY <1>1, <1>3, <1>5, <1>6

---------------------------------------------------------------------------
\* Where the segments of a stream end.
LEMMA EndType ==
  ASSUME NEW s \in SendBuffer
  PROVE  /\ Len(s.seg) \in Nat
         /\ \A i \in 0..Len(s.seg) : End(s, i) \in Nat
         /\ Written(s) = End(s, Len(s.seg))
         /\ \A i \in 1..Len(s.seg) : s.seg[i] \in Chunk /\ s.seg[i].hi = End(s, i)
<1>1. s.seg \in Seq(Chunk)
  BY DEF SendBuffer
<1>2. Len(s.seg) \in Nat /\ \A i \in 1..Len(s.seg) : s.seg[i] \in Chunk /\ s.seg[i].hi \in Nat
  <2>1. Len(s.seg) \in Nat /\ \A i \in 1..Len(s.seg) : s.seg[i] \in Chunk
    BY <1>1
  <2>2. \A c \in Chunk : c.hi \in Nat
    BY DEF Chunk
  <2> QED
    BY <2>1, <2>2
<1>3. \A i \in 0..Len(s.seg) : i = 0 \/ i \in 1..Len(s.seg)
  BY <1>2
<1>4. s.seg = << >> <=> Len(s.seg) = 0
  BY <1>1
<1>5. \A i \in 1..Len(s.seg) : i # 0
  OBVIOUS
<1> QED
  BY <1>2, <1>3, <1>4, <1>5 DEF End, Written

\* How many numbers there are between two others.
LEMMA IntervalSize ==
  ASSUME NEW a \in Nat, NEW b \in Nat, a <= b
  PROVE  IsFiniteSet((a + 1)..b) /\ Cardinality((a + 1)..b) = b - a
<1>1. a + 1 \in Int /\ b \in Int
  OBVIOUS
<1>2. /\ IsFiniteSet((a + 1)..b)
      /\ Cardinality((a + 1)..b) = IF a + 1 > b THEN 0 ELSE b - (a + 1) + 1
  BY <1>1, FS_Interval
<1> QED
  BY <1>2

\* A later segment ends later.
LEMMA EndGrows ==
  ASSUME NEW s \in SendBuffer, Contiguous(s), NEW i \in 0..Len(s.seg), NEW j \in i..Len(s.seg)
  PROVE  End(s, i) <= End(s, j)
<1> DEFINE Bad == {k \in i..Len(s.seg) : ~(End(s, i) <= End(s, k))}
<1>1. SUFFICES ASSUME Bad # {}
               PROVE  FALSE
  OBVIOUS
<1>2. Len(s.seg) \in Nat
  BY EndType
<1>3. Bad \in SUBSET Nat
  BY <1>2
<1>4. PICK k \in Bad : \A x \in Bad : k <= x
  BY <1>1, <1>3, SmallestOf
<1>5. k \in i..Len(s.seg) /\ ~(End(s, i) <= End(s, k)) /\ End(s, i) \in Nat
  BY EndType
<1>6. k # i
  BY <1>5
<1>7. k - 1 \in i..Len(s.seg) /\ k \in 1..Len(s.seg) /\ k - 1 \in 0..Len(s.seg) /\ ~(k <= k - 1)
      /\ k \in 0..Len(s.seg)
  BY <1>2, <1>5, <1>6
<1>8. End(s, i) <= End(s, k - 1)
  BY <1>4, <1>7
<1>9. End(s, k - 1) <= End(s, k)
  BY <1>7 DEF Contiguous
<1>10. End(s, k) \in Nat /\ End(s, k - 1) \in Nat
  BY <1>7, EndType
<1> QED
  BY <1>5, <1>8, <1>9, <1>10

\* Every byte written is in some segment.
LEMMA SegmentOf ==
  ASSUME NEW s \in SendBuffer, NEW p \in 0..Len(s.seg), NEW k \in p..Len(s.seg), NEW b \in Nat,
         End(s, p) < b, b <= End(s, k)
  PROVE  \E i \in (p + 1)..k : End(s, i - 1) < b /\ b <= End(s, i)
<1> DEFINE S == {i \in p..k : b <= End(s, i)}
<1>1. Len(s.seg) \in Nat /\ p \in Nat /\ k \in Nat /\ p <= k
  BY EndType
<1>2. S \in SUBSET Nat
  BY <1>1
<1>3. k \in S
  BY <1>1
<1>4. PICK i \in S : \A x \in S : i <= x
  BY <1>2, <1>3, SmallestOf
<1>5. i \in p..k /\ b <= End(s, i)
  OBVIOUS
<1>6. End(s, p) \in Nat
  BY EndType
<1>7. i # p
  BY <1>5, <1>6
<1>8. i \in (p + 1)..k /\ i - 1 \in p..k /\ ~(i <= i - 1) /\ i - 1 \in 0..Len(s.seg)
  BY <1>1, <1>5, <1>7
<1>9. ~(b <= End(s, i - 1)) /\ End(s, i - 1) \in Nat
  BY <1>4, <1>8, EndType
<1> QED
  BY <1>5, <1>8, <1>9

\* The sizes of the segments p + 1 .. k add up to the bytes between their ends.
LEMMA SizesAddUp ==
  ASSUME NEW s \in SendBuffer, Contiguous(s), NEW p \in 0..Len(s.seg), NEW k \in p..Len(s.seg)
  PROVE  TotalSize(s, (p + 1)..k) = End(s, k) - End(s, p)
<1> DEFINE S == (p + 1)..k
           In(q) == (End(s, q - 1) + 1)..End(s, q)
           Cover(T) == UNION {In(q) : q \in T}
           g == [T \in SUBSET S |-> Cardinality(Cover(T))]
<1>1. /\ Len(s.seg) \in Nat /\ p \in Nat /\ k \in Nat /\ p <= k
      /\ k \in 0..Len(s.seg)
      /\ End(s, p) \in Nat /\ End(s, k) \in Nat
  BY EndType
<1>2. IsFiniteSet(S)
  BY <1>1, FS_Interval
<1>3. ASSUME NEW q \in S
      PROVE  /\ q \in 1..Len(s.seg) /\ q - 1 \in 0..Len(s.seg)
             /\ End(s, q - 1) \in Nat /\ End(s, q) \in Nat
             /\ End(s, q - 1) <= End(s, q)
             /\ Size(s.seg[q]) = End(s, q) - End(s, q - 1)
             /\ End(s, p) <= End(s, q - 1) /\ End(s, q) <= End(s, k)
  <2>1. /\ q \in 1..Len(s.seg) /\ q - 1 \in 0..Len(s.seg) /\ q \in 0..Len(s.seg)
        /\ q - 1 \in p..Len(s.seg) /\ k \in q..Len(s.seg)
    BY <1>1
  <2>2. /\ End(s, q - 1) \in Nat /\ End(s, q) \in Nat
        /\ s.seg[q].hi = End(s, q)
    BY <2>1, EndType
  <2>3. s.seg[q].lo = End(s, q - 1) + 1 /\ End(s, q - 1) <= End(s, q)
    BY <2>1 DEF Contiguous
  <2>4. End(s, p) <= End(s, q - 1) /\ End(s, q) <= End(s, k)
    BY <2>1, EndGrows
  <2>5. Size(s.seg[q]) = (End(s, q) + 1) - (End(s, q - 1) + 1)
    BY <2>2, <2>3 DEF Size
  <2> QED
    BY <2>1, <2>2, <2>3, <2>4, <2>5
<1>4. \A q \in S : IsFiniteSet(In(q)) /\ Cardinality(In(q)) = Size(s.seg[q])
  <2>1. SUFFICES ASSUME NEW q \in S
                 PROVE  IsFiniteSet(In(q)) /\ Cardinality(In(q)) = Size(s.seg[q])
    OBVIOUS
  <2>2. IsFiniteSet(In(q)) /\ Cardinality(In(q)) = End(s, q) - End(s, q - 1)
    BY <1>3, IntervalSize
  <2> QED
    BY <1>3, <2>2
<1>5. \A T \in SUBSET S : Cover(T) \subseteq (End(s, p) + 1)..End(s, k)
  <2>1. SUFFICES ASSUME NEW q \in S, NEW b \in In(q)
                 PROVE  b \in (End(s, p) + 1)..End(s, k)
    BY Zenon
  <2> QED
    BY ONLY <1>1, <1>3, SMTT(90)
<1>6. /\ IsFiniteSet((End(s, p) + 1)..End(s, k))
      /\ Cardinality((End(s, p) + 1)..End(s, k)) = End(s, k) - End(s, p)
  <2>1. End(s, p) <= End(s, k)
    BY EndGrows
  <2> QED
    BY <1>1, <2>1, IntervalSize
<1> HIDE DEF Cover
<1>7. \A T \in SUBSET S : IsFiniteSet(Cover(T)) /\ Cardinality(Cover(T)) \in Nat
  BY <1>5, <1>6, FS_Subset, FS_CardinalityType
<1>8. g[{}] = 0
  <2>1. Cover({}) = {}
    BY DEF Cover
  <2>2. {} \in SUBSET S
    OBVIOUS
  <2> QED
    BY <2>1, <2>2, FS_EmptySet
<1>9. ASSUME NEW T \in SUBSET S, NEW x \in T
      PROVE  g[T] = Size(s.seg[x]) + g[T \ {x}]
  <2>1. Cover(T) = In(x) \cup Cover(T \ {x})
    BY Zenon DEF Cover
  <2>2. In(x) \cap Cover(T \ {x}) = {}
    <3>1. SUFFICES ASSUME NEW y \in T, y # x, NEW b \in In(x), b \in In(y)
                   PROVE  FALSE
      BY Zenon DEF Cover
    <3>2. /\ x \in S /\ y \in S
          /\ End(s, x - 1) < b /\ b <= End(s, x)
          /\ End(s, y - 1) < b /\ b <= End(s, y)
      BY ONLY <1>3, <3>1, SMTT(90)
    <3>3. CASE x < y
      <4>1. x \in 0..Len(s.seg) /\ y - 1 \in x..Len(s.seg)
        BY <1>1, <3>2, <3>3, SMTT(90)
      <4>2. End(s, x) <= End(s, y - 1)
        BY <4>1, EndGrows
      <4> QED
        BY <1>3, <3>1, <3>2, <4>2, SMTT(90)
    <3>4. CASE y < x
      <4>1. y \in 0..Len(s.seg) /\ x - 1 \in y..Len(s.seg)
        BY <1>1, <3>2, <3>4, SMTT(90)
      <4>2. End(s, y) <= End(s, x - 1)
        BY <4>1, EndGrows
      <4> QED
        BY <1>3, <3>1, <3>2, <4>2, SMTT(90)
    <3>5. x \in Int /\ y \in Int
      BY <1>1, <3>2
    <3> QED
      BY <3>1, <3>3, <3>4, <3>5
  <2>3. T \ {x} \in SUBSET S /\ x \in S
    OBVIOUS
  <2>4. /\ IsFiniteSet(In(x)) /\ IsFiniteSet(Cover(T \ {x}))
        /\ Cardinality(In(x)) = Size(s.seg[x])
        /\ Cardinality(Cover(T \ {x})) \in Nat
    BY <1>4, <1>7, <2>3
  <2> HIDE DEF In
  <2>5. Size(s.seg[x]) \in Nat
    BY <1>3, <2>3
  <2>6. Cardinality(Cover(T)) = Cardinality(In(x)) + Cardinality(Cover(T \ {x}))
    <3>1. Cardinality(In(x) \cup Cover(T \ {x})) =
            Cardinality(In(x)) + Cardinality(Cover(T \ {x})) - Cardinality(In(x) \cap Cover(T \ {x}))
      BY <2>4, FS_Union
    <3>2. Cardinality(In(x) \cap Cover(T \ {x})) = 0
      BY <2>2, FS_EmptySet
    <3> QED
      BY <2>1, <2>4, <2>5, <3>1, <3>2
  <2>7. g[T] = Cardinality(Cover(T)) /\ g[T \ {x}] = Cardinality(Cover(T \ {x}))
    BY <2>3
  <2> QED
    BY <2>4, <2>6, <2>7
<1>10. g \in [SUBSET S -> Nat]
  BY <1>7
<1>11. g[S] = End(s, k) - End(s, p)
  <2>1. Cover(S) = (End(s, p) + 1)..End(s, k)
    <3>1. ASSUME NEW b \in (End(s, p) + 1)..End(s, k)
          PROVE  b \in Cover(S)
      <4>1. b \in Nat /\ End(s, p) < b /\ b <= End(s, k)
        BY <1>1
      <4>2. PICK i \in S : End(s, i - 1) < b /\ b <= End(s, i)
        BY <4>1, SegmentOf
      <4>3. b \in In(i)
        BY <1>3, <4>1, <4>2
      <4> QED
        BY <4>3 DEF Cover
    <3> QED
      BY <1>5, <3>1
  <2> QED
    BY <1>6, <2>1
<1> HIDE DEF g, S
<1>12. AddsSizes(s, S, g)
  BY <1>8, <1>9, <1>10 DEF AddsSizes
<1>13. TotalSize(s, S) = g[S]
  BY <1>2, <1>12, SumIs
<1> QED
  BY <1>11, <1>13 DEF S

---------------------------------------------------------------------------
(* The bytes of segments, in order.                                        *)

\* A run of a stream, as a sequence.
LEMMA RunType ==
  ASSUME NEW a \in Nat, NEW n \in Nat
  PROVE  Run(a, n) \in Seq(Nat) /\ Len(Run(a, n)) = n /\ \A i \in 1..n : Run(a, n)[i] = a + i
<1>1. Run(a, n) \in [1..n -> Nat]
  BY DEF Run
<1>2. \A i \in 1..n : Run(a, n)[i] = a + i
  BY DEF Run
<1> HIDE DEF Run
<1> QED
  BY <1>1, <1>2

\* Sequences of bytes are joined from the front or from the end.
LEMMA JoinAssoc ==
  ASSUME NEW u \in Seq(Nat), NEW v \in Seq(Nat), NEW w \in Seq(Nat)
  PROVE  (u \o v) \o w = u \o (v \o w)
BY SMTT(90)

\* Two runs, one behind the other.
LEMMA RunJoin ==
  ASSUME NEW a \in Nat, NEW n \in Nat, NEW m \in Nat
  PROVE  Run(a, n) \o Run(a + n, m) = Run(a, n + m)
<1> DEFINE u == Run(a, n)
           v == Run(a + n, m)
<1>1. /\ u \in Seq(Nat) /\ Len(u) = n /\ \A i \in 1..n : u[i] = a + i
      /\ v \in Seq(Nat) /\ Len(v) = m /\ \A i \in 1..m : v[i] = a + n + i
  <2>1. a + n \in Nat
    OBVIOUS
  <2> HIDE DEF Run
  <2> QED
    BY <2>1, RunType
<1> HIDE DEF u, v
<1>2. u \o v \in Seq(Nat) /\ Len(u \o v) = n + m
  <2>1. u \in Seq(Nat) /\ v \in Seq(Nat) /\ Len(u) = n /\ Len(v) = m
    BY <1>1
  <2> QED
    BY <2>1, ConcatProperties
<1>3. \A i \in 1..(n + m) : (u \o v)[i] = a + i
  <2>1. SUFFICES ASSUME NEW i \in 1..(n + m)
                 PROVE  (u \o v)[i] = a + i
    OBVIOUS
  <2>2. CASE i <= n
    <3>1. i \in 1..n
      BY <2>2
    <3>2. (u \o v)[i] = u[i]
      BY <1>1, <3>1
    <3> QED
      BY <1>1, <3>1, <3>2
  <2>3. CASE i > n
    <3>1. i - n \in 1..m
      BY <2>3
    <3>2. (u \o v)[i] = v[i - n]
      BY <1>1, <2>3, SMTT(90)
    <3> QED
      BY <1>1, <3>1, <3>2
  <2>4. i <= n \/ i > n
    BY <2>1
  <2> QED
    BY <2>2, <2>3, <2>4
<1>4. /\ Run(a, n + m) \in Seq(Nat) /\ Len(Run(a, n + m)) = n + m
      /\ \A i \in 1..(n + m) : Run(a, n + m)[i] = a + i
  <2>1. n + m \in Nat
    OBVIOUS
  <2> QED
    BY <2>1, RunType
<1>5. u \o v = Run(a, n + m)
  <2> HIDE DEF Run
  <2>1. \A i \in 1..(n + m) : (u \o v)[i] = Run(a, n + m)[i]
    BY <1>3, <1>4
  <2> QED
    BY <1>2, <1>4, <2>1, SeqEqual
<1> QED
  BY <1>5 DEF u, v

\* The bytes of a segment are the next ones of the stream.
LEMMA BytesIs ==
  ASSUME NEW s \in SendBuffer, Contiguous(s), NEW i \in 1..Len(s.seg)
  PROVE  Bytes(s.seg[i]) = Run(End(s, i - 1), End(s, i) - End(s, i - 1))
<1>1. i - 1 \in 0..Len(s.seg) /\ i \in 0..Len(s.seg)
  BY EndType
<1>2. End(s, i - 1) \in Nat /\ End(s, i) \in Nat /\ s.seg[i].hi = End(s, i)
  BY <1>1, EndType
<1>3. s.seg[i].lo = End(s, i - 1) + 1
  BY DEF Contiguous
<1>4. PICK a \in Nat, b \in Nat : a = End(s, i - 1) /\ b = End(s, i)
  BY <1>2
<1>5. Bytes(s.seg[i]) = [j \in 1..(b + 1 - (a + 1)) |-> a + 1 + j - 1]
  BY <1>2, <1>3, <1>4 DEF Bytes
<1>6. b + 1 - (a + 1) = b - a /\ \A j \in 1..(b - a) : a + 1 + j - 1 = a + j
  OBVIOUS
<1>7. [j \in 1..(b + 1 - (a + 1)) |-> a + 1 + j - 1] = [j \in 1..(b - a) |-> a + j]
  BY <1>6
<1> QED
  BY <1>4, <1>5, <1>7 DEF Run

\* The bytes of consecutive segments are one run of the stream.
LEMMA AllBytesIs ==
  ASSUME NEW s \in SendBuffer, Contiguous(s),
         NEW p \in 0..Len(s.seg), NEW k \in (p + 1)..Len(s.seg),
         NEW cs, cs = [i \in 1..(k - p) |-> s.seg[p + i]]
  PROVE  AllBytes(cs) = Run(End(s, p), End(s, k) - End(s, p))
<1> DEFINE n == k - p
           ss == [i \in DOMAIN cs |-> Bytes(cs[i])]
           g == [i \in 1..n |-> Run(End(s, p), End(s, p + i) - End(s, p))]
<1>1. /\ Len(s.seg) \in Nat /\ p \in Nat /\ k \in Nat /\ p < k /\ k <= Len(s.seg)
      /\ n \in Nat /\ n > 0
  BY EndType
<1>2. End(s, p) \in Nat
  BY EndType
<1>3. ASSUME NEW i \in 1..n
      PROVE  /\ p + i \in 1..Len(s.seg) /\ p + i \in p..Len(s.seg)
             /\ p + i - 1 \in p..Len(s.seg)
             /\ End(s, p + i) \in Nat /\ End(s, p + i - 1) \in Nat
             /\ End(s, p) <= End(s, p + i - 1) /\ End(s, p + i - 1) <= End(s, p + i)
             /\ ss[i] = Run(End(s, p + i - 1), End(s, p + i) - End(s, p + i - 1))
             /\ End(s, p + i) - End(s, p) \in Nat
             /\ End(s, p + i - 1) - End(s, p) \in Nat
             /\ End(s, p + i) - End(s, p + i - 1) \in Nat
  <2>1. /\ p + i \in 1..Len(s.seg) /\ p + i \in p..Len(s.seg) /\ p + i - 1 \in p..Len(s.seg)
        /\ p + i \in 0..Len(s.seg) /\ p + i - 1 \in 0..Len(s.seg) /\ p + i \in (p + i - 1)..Len(s.seg)
    BY ONLY <1>1
  <2>2. End(s, p + i) \in Nat /\ End(s, p + i - 1) \in Nat
    BY <2>1, EndType
  <2>3. End(s, p) <= End(s, p + i - 1) /\ End(s, p + i - 1) <= End(s, p + i)
    BY <2>1, EndGrows
  <2>4. ss[i] = Bytes(s.seg[p + i])
    OBVIOUS
  <2>5. Bytes(s.seg[p + i]) = Run(End(s, p + i - 1), End(s, p + i) - End(s, p + i - 1))
    BY <2>1, BytesIs
  <2>6. /\ End(s, p + i) - End(s, p) \in Nat
        /\ End(s, p + i - 1) - End(s, p) \in Nat
        /\ End(s, p + i) - End(s, p + i - 1) \in Nat
    <3> HIDE DEF ss
    <3> QED
      BY ONLY <1>2, <2>2, <2>3, SMTT(90)
  <2> QED
    BY <2>1, <2>2, <2>3, <2>4, <2>5, <2>6
<1>4. ss = [i \in 1..n |-> ss[i]]
  OBVIOUS
<1>5. ss \in [1..n -> Seq(Nat)]
  <2>1. \A i \in 1..n : ss[i] \in Seq(Nat)
    <3>1. SUFFICES ASSUME NEW i \in 1..n
                   PROVE  ss[i] \in Seq(Nat)
      OBVIOUS
    <3>2. End(s, p + i) - End(s, p + i - 1) \in Nat
      BY <1>3
    <3> HIDE DEF ss
    <3> QED
      BY <1>3, <3>2, RunType, ZenonT(90)
  <2> HIDE DEF ss
  <2> QED
    BY <1>4, <2>1
<1>6. g \in [1..n -> Seq(Nat)]
  <2>1. SUFFICES ASSUME NEW i \in 1..n
                 PROVE  Run(End(s, p), End(s, p + i) - End(s, p)) \in Seq(Nat)
    OBVIOUS
  <2>2. End(s, p + i) - End(s, p) \in Nat
    BY <1>3
  <2> QED
    BY <1>2, <2>2, RunType
<1>7. \A i \in 1..n : g[i] = IF i = 1 THEN ss[i] ELSE g[i - 1] \o ss[i]
  <2>1. SUFFICES ASSUME NEW i \in 1..n
                 PROVE  g[i] = IF i = 1 THEN ss[i] ELSE g[i - 1] \o ss[i]
    OBVIOUS
  <2> HIDE DEF ss
  <2>2. g[i] = Run(End(s, p), End(s, p + i) - End(s, p))
    OBVIOUS
  <2>3. CASE i = 1
    BY <1>1, <1>3, <2>2, <2>3
  <2>4. CASE i # 1
    <3>1. i - 1 \in 1..n /\ p + (i - 1) = p + i - 1
      BY <1>1, <2>4
    <3>2. g[i - 1] = Run(End(s, p), End(s, p + i - 1) - End(s, p))
      BY <3>1
    <3> DEFINE x == End(s, p + i - 1) - End(s, p)
               y == End(s, p + i) - End(s, p + i - 1)
    <3>3. x \in Nat /\ y \in Nat /\ End(s, p) + x = End(s, p + i - 1) /\ x + y = End(s, p + i) - End(s, p)
      <4>1. x \in Nat /\ y \in Nat
        BY <1>3
      <4>2. End(s, p) \in Nat /\ End(s, p + i - 1) \in Nat /\ End(s, p + i) \in Nat
        BY <1>2, <1>3
      <4> QED
        BY ONLY <4>1, <4>2, SMTT(90)
    <3> HIDE DEF x, y
    <3>4. Run(End(s, p), x) \o Run(End(s, p) + x, y) = Run(End(s, p), x + y)
      BY <1>2, <3>3, RunJoin
    <3> HIDE DEF g
    <3> QED
      BY <1>3, <2>2, <2>4, <3>2, <3>3, <3>4 DEF x, y
  <2> QED
    BY <2>3, <2>4
<1>8. g[n] = Run(End(s, p), End(s, k) - End(s, p))
  <2>1. n \in 1..n /\ p + n = k
    BY <1>1
  <2> QED
    BY <2>1
<1>9. AllBytes(cs) = FlattenSeq(ss)
  BY DEF AllBytes
<1> HIDE DEF ss, g, n
<1>10. FlattenSeq(ss) = g[n]
  BY <1>1, <1>5, <1>6, <1>7, FlattenIs, ZenonT(120)
<1> QED
  BY <1>8, <1>9, <1>10

---------------------------------------------------------------------------
(* send() continues the stream, and the bytes held are counted.            *)

\* What send() cuts covers the r bytes, and nothing is cut from no bytes.
LEMMA CutCovers ==
  ASSUME NEW r \in Nat, NEW w \in Nat
  PROVE  LET cut == (r + SegSize - 1) \div SegSize
         IN  /\ CutEnd(w, r, 0) = w
             /\ CutEnd(w, r, cut) = w + r
<1> DEFINE cut == (r + SegSize - 1) \div SegSize
<1>1. SegSize \in Nat /\ SegSize > 0
  BY SegmentAssumption
<1>2. cut \in Nat
  BY CutCount
<1>3. r <= cut * SegSize
  <2>1. PICK x \in Nat : x = r + SegSize - 1
    BY <1>1
  <2>2. x < ((x \div SegSize) + 1) * SegSize
    BY <1>1, Z3
  <2>3. cut = x \div SegSize
    BY <2>1
  <2> HIDE DEF cut
  <2>4. (cut + 1) * SegSize = cut * SegSize + SegSize /\ cut * SegSize \in Nat
    BY <1>1, <1>2
  <2> QED
    BY <1>1, <2>1, <2>2, <2>3, <2>4
<1> HIDE DEF cut
<1>4. CutEnd(w, r, 0) = w
  <2>1. 0 * SegSize = 0
    BY <1>1
  <2> QED
    BY <2>1 DEF CutEnd
<1>5. CutEnd(w, r, cut) = w + r
  <2>1. ~(cut * SegSize < r)
    BY <1>1, <1>2, <1>3
  <2> QED
    BY <2>1 DEF CutEnd
<1> QED
  BY <1>4, <1>5 DEF cut

\* Cut points never go back.
LEMMA CutEndGrows ==
  ASSUME NEW w \in Nat, NEW r \in Nat, NEW k \in Nat
  PROVE  CutEnd(w, r, k) <= CutEnd(w, r, k + 1)
<1>1. SegSize \in Nat /\ SegSize > 0
  BY SegmentAssumption
<1>2. PICK p \in Nat : p = k * SegSize
  BY <1>1
<1>3. (k + 1) * SegSize = p + SegSize
  BY <1>1, <1>2
<1>4. /\ CutEnd(w, r, k) = IF p < r THEN w + p ELSE w + r
      /\ CutEnd(w, r, k + 1) = IF p + SegSize < r THEN w + (p + SegSize) ELSE w + r
  BY <1>2, <1>3 DEF CutEnd
<1> QED
  BY <1>1, <1>4

\* send() of n bytes: the stream goes on by n bytes where it ended, and no
\* segment in front of the last unsent one is touched.
LEMMA QueueStream ==
  ASSUME NEW s, SendInv(s), Contiguous(s), NEW n \in Nat
  PROVE  LET t == Queue(s, n)
         IN  /\ Contiguous(t)
             /\ Written(t) = Written(s) + n
             /\ \A i \in 0..Len(s.seg) : (i = Len(s.seg) => s.send_data = {}) => End(t, i) = End(s, i)
<1> DEFINE old == Len(s.seg)
           g == Glued(s, n)
           w == Written(s) + g
           r == n - g
           cut == (r + SegSize - 1) \div SegSize
           t == Queue(s, n)
<1>1. s \in SendBuffer /\ old \in Nat
  BY EndType DEF SendInv
<1>2. Written(s) \in Nat /\ Written(s) = End(s, old)
  <2>1. old \in 0..old
    BY <1>1
  <2> QED
    BY <1>1, <2>1, EndType
<1>3. /\ g \in Nat /\ g <= n
      /\ s.send_data = {} => g = 0
      /\ s.send_data # {} => old # 0
  BY <1>1, GluedIs, SMTT(90)
<1>4. w \in Nat /\ r \in Nat
  BY <1>2, <1>3
<1>5. cut \in Nat /\ CutEnd(w, r, 0) = w /\ CutEnd(w, r, cut) = w + r
  BY <1>4, CutCount, CutCovers
<1>6. t.seg = [i \in 1..(old + cut) |->
                 IF i < old THEN s.seg[i]
                 ELSE IF i = old THEN [lo |-> s.seg[i].lo, hi |-> s.seg[i].hi + g]
                 ELSE [lo |-> CutEnd(w, r, i - old - 1) + 1, hi |-> CutEnd(w, r, i - old)]]
  BY <1>1 DEF Queue, SendBuffer
<1> HIDE DEF g, w, r, cut, t
<1>7. t \in SendBuffer /\ Len(t.seg) = old + cut
  <2>1. SendInv(t) /\ Len(t.seg) \in Nat
    BY QueueKeeps DEF t
  <2>2. t.seg \in Seq(Chunk) /\ t \in SendBuffer
    BY <2>1 DEF SendInv, SendBuffer
  <2>3. DOMAIN t.seg = 1..(old + cut)
    BY <1>6
  <2>4. DOMAIN t.seg = 1..Len(t.seg)
    BY <2>2
  <2> QED
    BY <1>1, <1>5, <2>1, <2>2, <2>3, <2>4
<1>8. \A i \in 1..(old - 1) : t.seg[i] = s.seg[i]
  <2>1. \A i \in 1..(old - 1) : i \in 1..(old + cut) /\ i < old
    BY <1>1, <1>5
  <2> QED
    BY <1>6, <2>1
<1>9. old # 0 => t.seg[old].lo = s.seg[old].lo /\ t.seg[old].hi = s.seg[old].hi + g
  <2>1. old # 0 => old \in 1..(old + cut) /\ ~(old < old)
    BY <1>1, <1>5
  <2> QED
    BY <1>6, <2>1
<1>10. \A k \in 1..cut : /\ t.seg[old + k].lo = CutEnd(w, r, k - 1) + 1
                         /\ t.seg[old + k].hi = CutEnd(w, r, k)
  <2>1. \A k \in 1..cut : /\ old + k \in 1..(old + cut) /\ ~(old + k < old) /\ old + k # old
                          /\ (old + k) - old = k /\ (old + k) - old - 1 = k - 1
    BY <1>1, <1>5
  <2> QED
    BY <1>6, <2>1
<1>11. \A i \in 0..(old - 1) : End(t, i) = End(s, i)
  <2>1. \A i \in 0..(old - 1) : i = 0 \/ i \in 1..(old - 1)
    BY <1>1
  <2> QED
    BY <1>8, <2>1 DEF End
<1>12. End(t, old) = w
  <2>1. CASE old = 0
    BY <1>2, <1>3, <2>1 DEF End, w
  <2>2. CASE old # 0
    BY <1>2, <1>9, <2>2 DEF End, w
  <2> QED
    BY <2>1, <2>2
<1>13. \A k \in 0..cut : End(t, old + k) = CutEnd(w, r, k)
  <2>1. \A k \in 1..cut : old + k # 0
    BY <1>1
  <2>2. \A k \in 1..cut : End(t, old + k) = CutEnd(w, r, k)
    BY <1>10, <2>1 DEF End
  <2>3. End(t, old + 0) = CutEnd(w, r, 0)
    BY <1>1, <1>5, <1>12
  <2>4. \A k \in 0..cut : k = 0 \/ k \in 1..cut
    BY <1>5
  <2> QED
    BY <2>2, <2>3, <2>4
<1>14. Written(t) = Written(s) + n
  <2>1. Written(t) = End(t, old + cut)
    BY <1>7, EndType
  <2>2. cut \in 0..cut
    BY <1>5
  <2>3. Written(t) = w + r
    BY <1>5, <1>13, <2>1, <2>2
  <2> QED
    BY <1>2, <1>3, <2>3 DEF w, r
<1>15. ASSUME NEW i \in 1..(old + cut)
       PROVE  t.seg[i].lo = End(t, i - 1) + 1 /\ End(t, i - 1) <= End(t, i)
  <2>1. CASE i < old
    <3>1. i \in 1..(old - 1) /\ i \in 1..old /\ i - 1 \in 0..(old - 1) /\ i \in 0..(old - 1)
      BY <1>1, <2>1
    <3>2. s.seg[i].lo = End(s, i - 1) + 1 /\ End(s, i - 1) <= End(s, i)
      BY <3>1 DEF Contiguous
    <3> QED
      BY <1>8, <1>11, <3>1, <3>2
  <2>2. CASE i = old
    <3>1. old \in 1..old /\ i - 1 \in 0..(old - 1) /\ old # 0 /\ old - 1 \in 0..old
      BY <1>1, <2>2
    <3>2. s.seg[old].lo = End(s, old - 1) + 1 /\ End(s, old - 1) <= End(s, old)
      BY <3>1 DEF Contiguous
    <3>3. End(s, old - 1) \in Nat
      BY <1>1, <3>1, EndType
    <3>4. End(t, i - 1) = End(s, old - 1) /\ t.seg[i].lo = s.seg[old].lo
      BY <1>9, <1>11, <2>2, <3>1
    <3>5. End(t, i) = End(s, old) + g
      BY <1>2, <1>12, <2>2 DEF w
    <3> QED
      BY <1>2, <1>3, <3>2, <3>3, <3>4, <3>5
  <2>3. CASE i > old
    <3>1. PICK k \in 1..cut : i = old + k
      <4>1. i - old \in 1..cut /\ i = old + (i - old)
        BY <1>1, <1>5, <2>3
      <4> QED
        BY <4>1
    <3>2. k - 1 \in 0..cut /\ k \in 0..cut /\ i - 1 = old + (k - 1) /\ k - 1 \in Nat /\ k = (k - 1) + 1
      BY <1>1, <1>5, <3>1
    <3>3. End(t, i - 1) = CutEnd(w, r, k - 1) /\ End(t, i) = CutEnd(w, r, k)
      BY <1>13, <3>1, <3>2
    <3>4. CutEnd(w, r, k - 1) <= CutEnd(w, r, k)
      BY <1>4, <3>2, CutEndGrows
    <3> QED
      BY <1>10, <3>1, <3>3, <3>4
  <2> QED
    BY <1>1, <1>5, <2>1, <2>2, <2>3
<1>16. Contiguous(t)
  BY <1>7, <1>15 DEF Contiguous
<1>17. ASSUME NEW i \in 0..old, i = old => s.send_data = {}
       PROVE  End(t, i) = End(s, i)
  <2>1. CASE i = old
    BY <1>2, <1>3, <1>12, <1>17, <2>1 DEF w
  <2>2. CASE i # old
    <3>1. i \in 0..(old - 1)
      BY <1>1, <2>2
    <3> QED
      BY <1>11, <3>1
  <2> QED
    BY <2>1, <2>2
<1> QED
  BY <1>14, <1>16, <1>17 DEF t

\* The segments a sender holds are the last ones it has cut.
LEMMA HeldIsSuffix ==
  ASSUME NEW s, SendInv(s)
  PROVE  \E p \in 0..Len(s.seg) : Held(s) = (p + 1)..Len(s.seg)
<1> DEFINE L == Len(s.seg)
<1>1. s \in SendBuffer /\ L \in Nat /\ Held(s) \subseteq 1..L
  BY EndType DEF SendInv
<1>2. CASE Held(s) = {}
  <2>1. L \in 0..L /\ (L + 1)..L = {}
    BY <1>1
  <2> QED
    BY <1>2, <2>1
<1>3. CASE Held(s) # {}
  <2>1. Held(s) \in SUBSET Nat
    BY <1>1
  <2>2. PICK q \in Held(s) : \A x \in Held(s) : q <= x
    BY <1>3, <2>1, SmallestOf
  <2>3. q \in 1..L /\ q..L \subseteq Held(s)
    BY <1>1 DEF SendInv
  <2>4. Held(s) \subseteq q..L
    BY <1>1, <2>2
  <2>5. q - 1 \in 0..L /\ (q - 1) + 1 = q
    BY <1>1, <2>3
  <2> QED
    BY <2>3, <2>4, <2>5
<1> QED
  BY <1>2, <1>3

\* What the number of held bytes is, as the code counts it and as the sum.
LEMMA AccountedIs ==
  ASSUME NEW s, SendInv(s), Contiguous(s), NEW z, Accounted(s, z)
  PROVE  z \in Nat /\ z = TotalSize(s, Held(s))
<1>1. s \in SendBuffer /\ Len(s.seg) \in Nat
  BY EndType DEF SendInv
<1>2. PICK p \in 0..Len(s.seg) : Held(s) = (p + 1)..Len(s.seg) /\ z = Written(s) - End(s, p)
  BY DEF Accounted
<1>3. Len(s.seg) \in p..Len(s.seg) /\ Len(s.seg) \in 0..Len(s.seg)
  BY <1>1
<1>4. End(s, p) <= End(s, Len(s.seg)) /\ End(s, p) \in Nat /\ End(s, Len(s.seg)) \in Nat
  BY <1>1, <1>3, EndGrows, EndType
<1>5. Written(s) = End(s, Len(s.seg))
  BY <1>1, EndType
<1>6. TotalSize(s, (p + 1)..Len(s.seg)) = End(s, Len(s.seg)) - End(s, p)
  BY <1>1, <1>3, SizesAddUp
<1> QED
  BY <1>2, <1>4, <1>5, <1>6

\* attempt_send and on_nack free nothing.
LEMMA SameAccounted ==
  ASSUME NEW s, NEW t, t.seg = s.seg, Held(t) = Held(s), NEW z, Accounted(s, z)
  PROVE  Accounted(t, z)
<1>1. \A i : End(t, i) = End(s, i)
  BY DEF End
<1>2. Written(t) = Written(s)
  BY DEF Written
<1> QED
  BY <1>1, <1>2 DEF Accounted

\* on_ack subtracts what it frees, and never hits the floor of zero early.
LEMMA AckAccounted ==
  ASSUME NEW s, SendInv(s), Contiguous(s), NEW z, Accounted(s, z), NEW seq \in Nat
  PROVE  Accounted(Ack(s, seq), FreedSize(s, seq, z))
<1> DEFINE t == Ack(s, seq)
           L == Len(s.seg)
<1>1. s \in SendBuffer /\ L \in Nat
  BY EndType DEF SendInv
<1>2. SendInv(t) /\ t.seg = s.seg
  BY AckKeeps
<1>3. Held(t) = Held(s) \ Acked(s, seq) /\ Acked(s, seq) \subseteq Held(s)
  <2>1. /\ t.window = s.window \ Acked(s, seq)
        /\ t.send_data = s.send_data
    BY <1>1 DEF Ack, SendBuffer
  <2>2. \A q \in s.send_data : q \notin s.window
    <3>1. \A q \in s.send_data : ~(q < q)
      BY <1>1 DEF SendBuffer
    <3> QED
      BY <3>1 DEF SendInv
  <2> QED
    BY <2>1, <2>2 DEF Held, Acked
<1> HIDE DEF t
<1>4. PICK p \in 0..L : Held(s) = (p + 1)..L /\ z = Written(s) - End(s, p)
  BY DEF Accounted
<1>5. PICK k \in 0..L : Held(t) = (k + 1)..L
  BY <1>2, HeldIsSuffix
<1>6. k \in p..L
  <2>1. CASE k = L
    BY <1>1, <2>1
  <2>2. CASE k # L
    <3>1. k + 1 \in Held(t)
      BY <1>1, <1>5, <2>2
    <3>2. k + 1 \in (p + 1)..L
      BY <1>3, <1>4, <3>1
    <3> QED
      BY <1>1, <3>2
  <2> QED
    BY <2>1, <2>2
<1>7. Acked(s, seq) = (p + 1)..k
  <2>1. Acked(s, seq) = Held(s) \ Held(t)
    BY <1>3
  <2>2. \A q : q \in (p + 1)..L /\ q \notin (k + 1)..L <=> q \in (p + 1)..k
    BY <1>1, <1>6
  <2> QED
    BY <1>4, <1>5, <2>1, <2>2
<1>8. TotalSize(s, Acked(s, seq)) = End(s, k) - End(s, p)
  BY <1>1, <1>6, <1>7, SizesAddUp
<1>9. /\ End(s, p) \in Nat /\ End(s, k) \in Nat /\ End(s, L) \in Nat
      /\ End(s, p) <= End(s, k) /\ End(s, k) <= End(s, L)
      /\ Written(s) = End(s, L)
  <2>1. L \in k..L /\ L \in 0..L
    BY <1>1
  <2> QED
    BY <1>1, <1>6, <2>1, EndGrows, EndType
<1>10. FreedSize(s, seq, z) = Written(s) - End(s, k)
  <2>1. PICK freed \in Nat : freed = End(s, k) - End(s, p)
    BY <1>9
  <2>2. FreedSize(s, seq, z) = IF z > freed THEN z - freed ELSE 0
    BY <1>8, <2>1 DEF FreedSize
  <2> QED
    BY <1>4, <1>9, <2>1, <2>2, SMTT(90)
<1>11. Accounted(t, FreedSize(s, seq, z))
  <2>1. Written(t) = Written(s) /\ End(t, k) = End(s, k)
    BY <1>2 DEF Written, End
  <2> QED
    BY <1>2, <1>5, <1>10, <2>1 DEF Accounted
<1> QED
  BY <1>11 DEF t

\* send() adds the n bytes it queues.
LEMMA QueueAccounted ==
  ASSUME NEW s, SendInv(s), Contiguous(s), NEW z, Accounted(s, z), NEW n \in Nat
  PROVE  Accounted(Queue(s, n), z + n)
<1> DEFINE t == Queue(s, n)
           L == Len(s.seg)
<1>1. s \in SendBuffer /\ L \in Nat
  BY EndType DEF SendInv
<1>2. /\ SendInv(t) /\ Len(t.seg) \in Nat /\ L <= Len(t.seg)
      /\ t.window = s.window
      /\ t.send_data \cap 1..L = s.send_data
      /\ \A q \in (L + 1)..Len(t.seg) : q \in t.send_data
  BY QueueKeeps
<1>3. /\ Written(t) = Written(s) + n
      /\ \A i \in 0..L : (i = L => s.send_data = {}) => End(t, i) = End(s, i)
  BY QueueStream
<1> HIDE DEF t
<1>4. PICK p \in 0..L : Held(s) = (p + 1)..L /\ z = Written(s) - End(s, p)
  BY DEF Accounted
<1>5. Held(t) = (p + 1)..Len(t.seg)
  <2>1. ASSUME NEW q \in Held(t)
        PROVE  q \in (p + 1)..Len(t.seg)
    <3>1. q \in 1..Len(t.seg)
      BY <1>2 DEF SendInv
    <3>2. CASE q <= L
      <4>1. q \in 1..L
        BY <1>1, <1>2, <3>1, <3>2
      <4>2. q \in Held(s)
        BY <1>2, <2>1, <4>1 DEF Held
      <4> QED
        BY <1>1, <1>2, <1>4, <3>1, <4>2
    <3>3. CASE q > L
      BY <1>1, <1>2, <3>1, <3>3
    <3> QED
      BY <1>1, <1>2, <3>1, <3>2, <3>3
  <2>2. ASSUME NEW q \in (p + 1)..Len(t.seg)
        PROVE  q \in Held(t)
    <3>1. CASE q <= L
      <4>1. q \in Held(s)
        BY <1>1, <1>2, <1>4, <2>2, <3>1
      <4> QED
        BY <1>2, <4>1 DEF Held
    <3>2. CASE q > L
      <4>1. q \in (L + 1)..Len(t.seg)
        BY <1>1, <1>2, <2>2, <3>2
      <4> QED
        BY <1>2, <4>1 DEF Held
    <3> QED
      BY <1>1, <1>2, <2>2, <3>1, <3>2
  <2> QED
    BY <2>1, <2>2
<1>6. p = L => s.send_data = {}
  <2>1. ASSUME p = L
        PROVE  s.send_data = {}
    <3>1. (L + 1)..L = {}
      BY <1>1
    <3> QED
      BY <1>4, <2>1, <3>1 DEF Held
  <2> QED
    BY <2>1
<1>7. End(t, p) = End(s, p)
  BY <1>3, <1>6
<1>8. p \in 0..Len(t.seg)
  BY <1>1, <1>2
<1>9. z + n = Written(t) - End(t, p)
  <2>1. Written(s) \in Nat /\ End(s, p) \in Nat
    <3>1. L \in 0..L
      BY <1>1
    <3> QED
      BY <1>1, <3>1, EndType
  <2> QED
    BY <1>3, <1>4, <1>7, <2>1
<1>10. Accounted(t, z + n)
  BY <1>5, <1>8, <1>9 DEF Accounted
<1> QED
  BY <1>10 DEF t

-----------------------------------------------------------------------------
(* The exchange                                                            *)

\* The largest congestion window.
Limit == IF CwndSizes = {} THEN 0 ELSE Max(CwndSizes)

\* A sender that counts z bytes and whose peer has a prefix of f segments.
SenderOK(s, z, f) ==
  /\ SendInv(s)
  /\ Contiguous(s)
  /\ Accounted(s, z)
  /\ Cardinality(s.window) <= Limit
  /\ \A q \in 1..Len(s.seg) : q \in Held(s) \/ q <= f

\* Chunk c is segment q of s, and s has sent it.
IsSent(s, q, c) ==
  q \in 1..Len(s.seg) /\ q \notin s.send_data /\ c = s.seg[q]

\* A receiver whose peer is the sender s.
ReceiverOK(r, s) ==
  /\ RecvInv(r)
  /\ \A q \in DOMAIN r.recv_window : IsSent(s, q, r.recv_window[q])
  /\ \A q \in 1..r.first_seq : IsSent(s, q, s.seg[q])

\* The application behind r has read d: the stream of s goes on from there.
ReaderOK(s, r, d) ==
  /\ d \in Seq(Nat) /\ r.recv_data \in Seq(Nat)
  /\ d \o r.recv_data = Run(0, End(s, r.first_seq))

\* A packet from a socket with buffers s and r to one whose prefix is f.
PacketOK(m, s, r, f) ==
  \/ /\ m \in Data
     /\ m.ack <= r.first_seq
     /\ IsSent(s, m.seq, m.data)
     /\ m.seq <= f + MaxSeqInterval
  \/ m \in DataAck /\ m.ack <= r.first_seq
  \/ m \in DataNack /\ m.base <= r.first_seq

IInv ==
  /\ snd \in [Ends -> SendBuffer]
  /\ rcv \in [Ends -> {rcv[e] : e \in Ends}]
  /\ \A e \in Ends : SenderOK(snd[e], size[e], rcv[Other[e]].first_seq)
  /\ \A e \in Ends : ReceiverOK(rcv[e], snd[Other[e]])
  /\ delivered \in [Ends -> Seq(Nat)]
  /\ \A e \in Ends : ReaderOK(snd[Other[e]], rcv[e], delivered[e])
  /\ size \in [Ends -> Nat]
  /\ \A m \in net : /\ m.to \in Ends
                    /\ PacketOK(m, snd[Other[m.to]], rcv[Other[m.to]], rcv[m.to].first_seq)

\* What a sender may do to its buffer: what is sent stays as it is, and the
\* stream only gets longer.
SendStep(s, t) ==
  /\ \A q, c : IsSent(s, q, c) => IsSent(t, q, c)
  /\ Written(s) \in Nat /\ Written(t) \in Nat /\ Written(s) <= Written(t)

\* A step of the two byte streams, or none.
StreamStep == [Stream!Next]_<<[e \in Ends |-> Written(snd[e])], delivered>>

---------------------------------------------------------------------------
\* No congestion window is longer than the interval on_data accepts.
LEMMA LimitBounds ==
  /\ Limit \in Nat /\ Limit <= MaxSeqInterval /\ MaxSeqInterval \in Nat
  /\ \A cwnd \in CwndSizes : cwnd \in Nat /\ cwnd <= Limit
<1>1. /\ MaxSeqInterval \in Nat
      /\ CwndSizes \subseteq 1..MaxSeqInterval
  BY IntervalAssumption, TransferAssumption
<1>2. CASE CwndSizes = {}
  BY <1>1, <1>2 DEF Limit
<1>3. CASE CwndSizes # {}
  <2>1. IsFiniteSet(CwndSizes)
    <3>1. IsFiniteSet(1..MaxSeqInterval)
      BY <1>1, FS_Interval
    <3> QED
      BY <1>1, <3>1, FS_Subset
  <2>2. CwndSizes \in SUBSET Nat
    BY <1>1
  <2>3. Max(CwndSizes) \in CwndSizes /\ \A x \in CwndSizes : x <= Max(CwndSizes)
    BY <1>3, <2>1, <2>2, MaxIsLargest
  <2>4. Limit \in CwndSizes /\ \A x \in CwndSizes : x <= Limit
    BY <1>3, <2>3 DEF Limit
  <2>5. \A x \in CwndSizes : x \in Nat /\ x <= MaxSeqInterval
    BY <1>1
  <2> QED
    BY <1>1, <2>4, <2>5
<1> QED
  BY <1>2, <1>3

\* Two changes of a send buffer that keep what is sent are one.
LEMMA SendStepTrans ==
  ASSUME NEW s, NEW t, NEW u, SendStep(s, t), SendStep(t, u)
  PROVE  SendStep(s, u)
<1>1. /\ Written(s) \in Nat /\ Written(t) \in Nat /\ Written(u) \in Nat
      /\ Written(s) <= Written(t) /\ Written(t) <= Written(u)
  BY DEF SendStep
<1>2. Written(s) <= Written(u)
  BY <1>1
<1> QED
  BY <1>1, <1>2 DEF SendStep

\* A send buffer that keeps its segments, and sends more of them or none.
LEMMA SameSegments ==
  ASSUME NEW s, SendInv(s), NEW t, t.seg = s.seg, t.send_data \subseteq s.send_data
  PROVE  SendStep(s, t)
<1>1. Written(t) = Written(s) /\ Written(s) \in Nat
  <2>1. Len(s.seg) \in 0..Len(s.seg) /\ s \in SendBuffer
    BY EndType DEF SendInv
  <2> QED
    BY <2>1, EndType DEF Written
<1>2. Written(s) <= Written(t)
  BY <1>1
<1> QED
  BY <1>1, <1>2 DEF SendStep, IsSent

\* The end of a prefix that is sent stays where it is.
LEMMA SentEnd ==
  ASSUME NEW s, NEW t, SendStep(s, t), NEW f \in Nat,
         \A q \in 1..f : IsSent(s, q, s.seg[q])
  PROVE  /\ End(t, f) = End(s, f)
         /\ \A q \in 1..f : IsSent(t, q, t.seg[q]) /\ t.seg[q] = s.seg[q]
<1>1. \A q \in 1..f : IsSent(t, q, t.seg[q]) /\ t.seg[q] = s.seg[q]
  BY DEF SendStep, IsSent
<1>2. f # 0 => f \in 1..f
  OBVIOUS
<1> QED
  BY <1>1, <1>2 DEF End

\* What the reader at the other end has is not disturbed by the sender.
LEMMA ReaderStays ==
  ASSUME NEW s, NEW t, SendStep(s, t), NEW r, ReceiverOK(r, s), NEW d, ReaderOK(s, r, d)
  PROVE  ReceiverOK(r, t) /\ ReaderOK(t, r, d)
<1>1. r.first_seq \in Nat
  BY DEF ReceiverOK, RecvInv, RecvBuffer
<1>2. End(t, r.first_seq) = End(s, r.first_seq)
  BY <1>1, SentEnd DEF ReceiverOK
<1>3. \A q \in 1..r.first_seq : IsSent(t, q, t.seg[q])
  BY <1>1, SentEnd DEF ReceiverOK
<1>4. \A q \in DOMAIN r.recv_window : IsSent(t, q, r.recv_window[q])
  BY DEF ReceiverOK, SendStep
<1> QED
  BY <1>2, <1>3, <1>4 DEF ReceiverOK, ReaderOK

\* The segments of a window are the next ones the peer expects, so none is
\* further ahead of its prefix than the window is long.
LEMMA WindowIsNear ==
  ASSUME NEW s, NEW z, NEW f \in Nat, SenderOK(s, z, f), NEW q \in s.window
  PROVE  q <= f + MaxSeqInterval
<1>1. SendInv(s) /\ q \in 1..Len(s.seg) /\ Len(s.seg) \in Nat
  BY DEF SenderOK, SendInv, SendBuffer, Held
<1>2. SUFFICES ASSUME q > f + MaxSeqInterval
               PROVE  FALSE
  BY <1>1, LimitBounds
<1>3. (f + 1)..q \subseteq s.window
  <2>1. SUFFICES ASSUME NEW p \in (f + 1)..q
                 PROVE  p \in s.window
    OBVIOUS
  <2>2. p \in 1..Len(s.seg) /\ ~(p <= f)
    BY <1>1, <2>1
  <2>3. p \in Held(s)
    BY <2>2 DEF SenderOK
  <2>4. p \notin s.send_data
    BY <1>1, <2>1 DEF SendInv
  <2> QED
    BY <2>3, <2>4 DEF Held
<1>4. IsFiniteSet(s.window) /\ Cardinality(s.window) \in Nat
  BY <1>1, HeldIsFinite DEF Held
<1>5. Cardinality((f + 1)..q) = q - f
  BY <1>1, <1>2, LimitBounds, FS_Interval
<1>6. Cardinality((f + 1)..q) <= Cardinality(s.window)
  BY <1>3, <1>4, FS_Subset
<1> QED
  BY <1>1, <1>2, <1>4, <1>5, <1>6, LimitBounds DEF SenderOK

---------------------------------------------------------------------------
(* The methods of the send buffer, as steps of a sender.                   *)

\* attempt_send puts segments on the wire only within the congestion window,
\* and changes none.
LEMMA AttemptSendOK ==
  ASSUME NEW s, NEW z, NEW f \in Nat, SenderOK(s, z, f), NEW cwnd \in CwndSizes, NEW due, NEW young
  PROVE  LET t == AttemptSend(s, cwnd, due, young)
         IN  /\ SenderOK(t, z, f)
             /\ SendStep(s, t)
             /\ t.seg = s.seg
             /\ s.window \subseteq t.window
             /\ Sent(s, cwnd, due, young) \subseteq t.window
<1> DEFINE t == AttemptSend(s, cwnd, due, young)
<1>1. SendInv(s) /\ cwnd \in Nat /\ cwnd <= Limit /\ Limit \in Nat /\ Cardinality(s.window) <= Limit
  BY LimitBounds DEF SenderOK
<1>2. /\ SendInv(t) /\ t.seg = s.seg /\ Held(t) = Held(s)
      /\ t.send_data \subseteq s.send_data
      /\ s.window \subseteq t.window
      /\ Sent(s, cwnd, due, young) \subseteq t.window
  BY <1>1, AttemptSendKeeps
<1>3. Cardinality(t.window) <= Limit
  BY <1>1, AttemptSendBound
<1> HIDE DEF t
<1>4. Contiguous(t) /\ Accounted(t, z)
  <2>1. Accounted(t, z)
    BY <1>2, SameAccounted DEF SenderOK
  <2> QED
    BY <1>2, <2>1 DEF SenderOK, Contiguous, End
<1>5. SenderOK(t, z, f)
  BY <1>2, <1>3, <1>4 DEF SenderOK
<1>6. SendStep(s, t)
  BY <1>1, <1>2, SameSegments
<1> QED
  BY <1>2, <1>5, <1>6 DEF t

\* send() queues bytes without touching what is sent.
LEMMA QueueOK ==
  ASSUME NEW s, NEW z, NEW f \in Nat, SenderOK(s, z, f), NEW n \in Nat
  PROVE  /\ SenderOK(Queue(s, n), z + n, f)
         /\ SendStep(s, Queue(s, n))
         /\ Queue(s, n).window = s.window
<1> DEFINE t == Queue(s, n)
<1>1. SendInv(s) /\ Contiguous(s) /\ Accounted(s, z)
  BY DEF SenderOK
<1>2. /\ SendInv(t) /\ Len(t.seg) \in Nat
      /\ Len(s.seg) <= Len(t.seg)
      /\ t.window = s.window
      /\ t.send_data \cap 1..Len(s.seg) = s.send_data
      /\ \A q \in (Len(s.seg) + 1)..Len(t.seg) : q \in t.send_data
      /\ \A q \in 1..Len(s.seg) : q \notin s.send_data => t.seg[q] = s.seg[q]
  BY <1>1, QueueKeeps
<1>3. /\ Len(s.seg) \in Nat
      /\ Contiguous(t) /\ Accounted(t, z + n)
      /\ Written(t) = Written(s) + n
      /\ Written(s) \in Nat
  <2>1. Contiguous(t) /\ Written(t) = Written(s) + n
    BY <1>1, QueueStream
  <2>2. Accounted(t, z + n)
    BY <1>1, QueueAccounted
  <2>3. s \in SendBuffer /\ Len(s.seg) \in Nat /\ Len(s.seg) \in 0..Len(s.seg)
    BY <1>1, EndType DEF SendInv
  <2> QED
    BY <2>1, <2>2, <2>3, EndType
<1> HIDE DEF t
<1>4. \A q \in 1..Len(t.seg) : q \in Held(t) \/ q <= f
  <2>1. SUFFICES ASSUME NEW q \in 1..Len(t.seg)
                 PROVE  q \in Held(t) \/ q <= f
    OBVIOUS
  <2>2. CASE q <= Len(s.seg)
    <3>1. q \in 1..Len(s.seg)
      BY <1>2, <1>3, <2>1, <2>2
    <3> QED
      BY <1>2, <3>1 DEF SenderOK, Held
  <2>3. CASE q > Len(s.seg)
    <3>1. q \in (Len(s.seg) + 1)..Len(t.seg)
      BY <1>2, <1>3, <2>1, <2>3
    <3> QED
      BY <1>2, <3>1 DEF Held
  <2> QED
    BY <1>2, <1>3, <2>1, <2>2, <2>3
<1>5. SendStep(s, t)
  <2>1. ASSUME NEW q \in 1..Len(s.seg), q \notin s.send_data
        PROVE  q \in 1..Len(t.seg) /\ q \notin t.send_data /\ t.seg[q] = s.seg[q]
    BY <1>2, <1>3, <2>1, SMTT(90)
  <2>2. \A q, c : IsSent(s, q, c) => IsSent(t, q, c)
    BY <2>1 DEF IsSent
  <2>3. Written(t) \in Nat /\ Written(s) <= Written(t)
    BY <1>3
  <2> QED
    BY <1>3, <2>2, <2>3 DEF SendStep
<1>6. SenderOK(t, z + n, f)
  BY <1>2, <1>3, <1>4 DEF SenderOK
<1> QED
  BY <1>2, <1>5, <1>6 DEF t

\* The acknowledgement is not ahead of the peer's prefix.
LEMMA AckOK ==
  ASSUME NEW s, NEW z, NEW f \in Nat, SenderOK(s, z, f), NEW seq \in Nat, seq <= f
  PROVE  SenderOK(Ack(s, seq), FreedSize(s, seq, z), f) /\ SendStep(s, Ack(s, seq))
<1> DEFINE t == Ack(s, seq)
           z2 == FreedSize(s, seq, z)
<1>1. SendInv(s) /\ Contiguous(s) /\ Accounted(s, z)
  BY DEF SenderOK
<1>2. /\ SendInv(t) /\ t.seg = s.seg
      /\ t.window \subseteq s.window
      /\ t.send_data = s.send_data
      /\ \A q \in Held(s) \ Held(t) : q <= seq
  BY <1>1, AckKeeps
<1>3. Accounted(t, z2)
  BY <1>1, AckAccounted
<1> HIDE DEF t, z2
<1>4. Contiguous(t)
  BY <1>1, <1>2 DEF Contiguous, End
<1>5. Cardinality(t.window) <= Limit
  <2>1. /\ IsFiniteSet(s.window) /\ Cardinality(s.window) \in Nat
        /\ IsFiniteSet(t.window) /\ Cardinality(t.window) \in Nat
    BY <1>1, <1>2, HeldIsFinite DEF Held
  <2>2. Cardinality(t.window) <= Cardinality(s.window)
    BY <1>2, <2>1, FS_Subset
  <2> QED
    BY <2>1, <2>2, LimitBounds DEF SenderOK
<1>6. \A q \in 1..Len(t.seg) : q \in Held(t) \/ q <= f
  <2>1. SUFFICES ASSUME NEW q \in 1..Len(s.seg), q \notin Held(t)
                 PROVE  q <= f
    BY <1>2
  <2>2. q \in Held(s) => q <= seq
    BY <1>2, <2>1
  <2> QED
    BY <2>1, <2>2 DEF SenderOK
<1>7. SendStep(s, t)
  BY <1>1, <1>2, SameSegments
<1>8. SenderOK(t, z2, f)
  BY <1>2, <1>3, <1>4, <1>5, <1>6 DEF SenderOK
<1> QED
  BY <1>7, <1>8 DEF t, z2

\* on_nack changes loss_set_ only.
LEMMA ReportLossOK ==
  ASSUME NEW s, NEW z, NEW f \in Nat, SenderOK(s, z, f), NEW base \in Nat, NEW ids \in SUBSET Nat
  PROVE  SenderOK(ReportLoss(s, base, ids), z, f) /\ SendStep(s, ReportLoss(s, base, ids))
<1> DEFINE t == ReportLoss(s, base, ids)
<1>1. /\ SendInv(t) /\ t.seg = s.seg
      /\ t.window = s.window
      /\ t.send_data = s.send_data
  BY ReportLossKeeps DEF SenderOK
<1> HIDE DEF t
<1>2. Contiguous(t)
  BY <1>1 DEF SenderOK, Contiguous, End
<1>3. Held(t) = Held(s)
  BY <1>1 DEF Held
<1>4. Accounted(t, z)
  BY <1>1, <1>3, SameAccounted DEF SenderOK
<1>5. SendStep(s, t)
  BY <1>1, SameSegments DEF SenderOK
<1>6. SenderOK(t, z, f)
  BY <1>1, <1>2, <1>3, <1>4 DEF SenderOK
<1> QED
  BY <1>5, <1>6 DEF t

---------------------------------------------------------------------------
(* What every handler has in common: the buffers of one socket change, and *)
(* it puts packets on the wire.                                            *)

\* A packet that a socket e with buffers s and r may send.
OutOK(m, e, s, r) ==
  /\ m.to = Other[e]
  /\ \/ m \in Data /\ m.ack <= r.first_seq /\ m.seq \in s.window /\ m.data = s.seg[m.seq]
     \/ m \in DataAck /\ m.ack <= r.first_seq
     \/ m \in DataNack /\ m.base <= r.first_seq

\* A packet in flight stays right while its sender goes on and the prefixes
\* of the two receivers grow.
LEMMA PacketStays ==
  ASSUME NEW m, NEW s, NEW s2, NEW r, NEW r2, NEW f \in Nat, NEW f2 \in Nat,
         PacketOK(m, s, r, f), SendStep(s, s2), f <= f2,
         r.first_seq \in Nat, r2.first_seq \in Nat, r.first_seq <= r2.first_seq
  PROVE  PacketOK(m, s2, r2, f2)
<1>1. CASE m \in Data /\ m.ack <= r.first_seq /\ IsSent(s, m.seq, m.data) /\ m.seq <= f + MaxSeqInterval
  <2>1. m.ack \in Nat /\ m.seq \in Nat
    BY <1>1 DEF Data
  <2>2. m.ack <= r2.first_seq /\ m.seq <= f2 + MaxSeqInterval
    BY <1>1, <2>1, LimitBounds
  <2>3. IsSent(s2, m.seq, m.data)
    BY <1>1 DEF SendStep
  <2> QED
    BY <1>1, <2>2, <2>3 DEF PacketOK
<1>2. CASE m \in DataAck /\ m.ack <= r.first_seq
  <2>1. m.ack \in Nat
    BY <1>2 DEF DataAck
  <2> QED
    BY <1>2, <2>1 DEF PacketOK
<1>3. CASE m \in DataNack /\ m.base <= r.first_seq
  <2>1. m.base \in Nat
    BY <1>3 DEF DataNack
  <2> QED
    BY <1>3, <2>1 DEF PacketOK
<1> QED
  BY <1>1, <1>2, <1>3 DEF PacketOK

\* What a reader has read is a prefix of the stream.
LEMMA ReadIsRun ==
  ASSUME NEW s \in SendBuffer, Contiguous(s), NEW r, ReceiverOK(r, s), NEW d, ReaderOK(s, r, d)
  PROVE  /\ d = [i \in 1..Len(d) |-> i]
         /\ Len(d) \in Nat /\ Len(d) <= Written(s)
<1> DEFINE f == r.first_seq
           n == End(s, f)
<1>1. f \in 0..Len(s.seg)
  <2>1. f \in Nat
    BY DEF ReceiverOK, RecvInv, RecvBuffer
  <2>2. f # 0 => f \in 1..Len(s.seg)
    BY <2>1 DEF ReceiverOK, IsSent
  <2> QED
    BY <2>1, <2>2, EndType
<1>2. n \in Nat /\ Written(s) \in Nat /\ n <= Written(s)
  <2>1. Len(s.seg) \in f..Len(s.seg) /\ Len(s.seg) \in 0..Len(s.seg)
    BY <1>1, EndType
  <2> QED
    BY <1>1, <2>1, EndType, EndGrows
<1>3. /\ d \in Seq(Nat) /\ r.recv_data \in Seq(Nat)
      /\ d \o r.recv_data = Run(0, n)
  BY DEF ReaderOK
<1> HIDE DEF n
<1>4. Len(Run(0, n)) = n /\ \A i \in 1..n : Run(0, n)[i] = 0 + i
  BY <1>2, RunType
<1>5. Len(d) \in Nat /\ Len(r.recv_data) \in Nat /\ Len(d) + Len(r.recv_data) = n
  <2>1. Len(d) \in Nat /\ Len(r.recv_data) \in Nat
    BY <1>3, LenProperties, Zenon
  <2>2. Len(d \o r.recv_data) = Len(d) + Len(r.recv_data)
    BY <1>3, ConcatProperties, Zenon
  <2> QED
    BY <1>3, <1>4, <2>1, <2>2, Zenon
<1>6. \A i \in 1..Len(d) : (d \o r.recv_data)[i] = d[i]
  BY <1>3, <1>5, ConcatProperties
<1>7. \A i \in 1..Len(d) : d[i] = i
  BY <1>3, <1>4, <1>5, <1>6, SMTT(90)
<1>8. d = [i \in 1..Len(d) |-> d[i]]
  BY <1>3, LenProperties
<1>9. d = [i \in 1..Len(d) |-> i]
  BY <1>7, <1>8
<1> QED
  BY <1>2, <1>5, <1>9

\* A handler at e whose application writes, or reads, or neither, is a step of
\* the two byte streams.
LEMMA StreamKeeps ==
  ASSUME IInv, NEW e \in Ends, NEW s2, NEW r2, NEW d2,
         snd' = [snd EXCEPT ![e] = s2], delivered' = [delivered EXCEPT ![e] = d2],
         SendStep(snd[e], s2),
         ReceiverOK(r2, snd[Other[e]]), ReaderOK(snd[Other[e]], r2, d2),
         d2 = delivered[e] \/ (s2 = snd[e] /\ Len(d2) > Len(delivered[e]))
  PROVE  StreamStep
<1> DEFINE written == [x \in Ends |-> Written(snd[x])]
<1>1. /\ Other[e] \in Ends
      /\ snd \in [Ends -> SendBuffer] /\ DOMAIN delivered = Ends
      /\ delivered = [x \in Ends |-> delivered[x]]
      /\ SenderOK(snd[Other[e]], size[Other[e]], rcv[Other[Other[e]]].first_seq)
  <2>1. delivered \in [Ends -> Seq(Nat)]
    BY DEF IInv
  <2> QED
    BY <2>1, TransferAssumption DEF IInv
<1>2. snd'[e] = s2 /\ \A x \in Ends : x # e => snd'[x] = snd[x]
  BY <1>1
<1>3. /\ Written(snd[e]) \in Nat /\ Written(s2) \in Nat /\ Written(snd[e]) <= Written(s2)
  BY DEF SendStep
<1>4. written' = [written EXCEPT ![e] = Written(s2)]
  BY <1>1, <1>2
<1>5. CASE d2 = delivered[e] /\ Written(s2) = Written(snd[e])
  BY <1>1, <1>4, <1>5, ZenonT(90) DEF StreamStep
<1>6. CASE d2 = delivered[e] /\ Written(s2) # Written(snd[e])
  <2>1. delivered' = delivered
    BY <1>1, <1>6
  <2>2. written'[e] = Written(s2) /\ written[e] = Written(snd[e])
    BY <1>4
  <2>3. written'[e] > written[e]
    BY <1>3, <1>6, <2>2
  <2>4. Stream!Write(e)
    BY <1>4, <2>1, <2>2, <2>3 DEF Stream!Write
  <2> QED
    BY <2>4 DEF StreamStep, Stream!Next
<1>7. CASE s2 = snd[e] /\ Len(d2) > Len(delivered[e])
  <2>1. UNCHANGED written
    BY <1>1, <1>4, <1>7
  <2>2. delivered'[e] = d2
    BY <1>1
  <2>3. d2 = [i \in 1..Len(d2) |-> i] /\ Len(d2) \in Nat /\ Len(d2) <= Written(snd[Other[e]])
    BY <1>1, ReadIsRun DEF SenderOK
  <2>4. Len(delivered[e]) \in Nat /\ Written(snd[Other[e]]) \in Nat
    <3>1. delivered[e] \in Seq(Nat)
      BY DEF IInv, ReaderOK
    <3>2. Len(snd[Other[e]].seg) \in 0..Len(snd[Other[e]].seg)
      BY <1>1, EndType
    <3> QED
      BY <1>1, <3>1, <3>2, EndType, LenProperties, SMTT(90)
  <2>5. Len(delivered'[e]) \in (Len(delivered[e]) + 1)..written[Other[e]]
    BY <1>1, <1>7, <2>2, <2>3, <2>4
  <2>6. delivered' = [delivered EXCEPT ![e] = [i \in 1..Len(delivered'[e]) |-> i]]
    BY <2>2, <2>3
  <2>7. Stream!Read(e)
    BY <2>1, <2>5, <2>6 DEF Stream!Read
  <2> QED
    BY <2>7 DEF StreamStep, Stream!Next
<1> QED
  BY <1>5, <1>6, <1>7

\* A handler at e that changes its two buffers as described and emits packets
\* that fit them preserves the invariant of both directions.
LEMMA StepKeeps ==
  ASSUME IInv, NEW e \in Ends, NEW s2, NEW z2, NEW r2, NEW d2,
         NEW rest \in SUBSET net, NEW out,
         snd' = [snd EXCEPT ![e] = s2],
         size' = [size EXCEPT ![e] = z2],
         rcv' = [rcv EXCEPT ![e] = r2],
         delivered' = [delivered EXCEPT ![e] = d2],
         net' = rest \cup out,
         SenderOK(s2, z2, rcv[Other[e]].first_seq), SendStep(snd[e], s2),
         ReceiverOK(r2, snd[Other[e]]), rcv[e].first_seq <= r2.first_seq,
         ReaderOK(snd[Other[e]], r2, d2),
         d2 = delivered[e] \/ (s2 = snd[e] /\ Len(d2) > Len(delivered[e])),
         \A m \in out : OutOK(m, e, s2, r2)
  PROVE  IInv' /\ StreamStep
<1>1. /\ Other[e] \in Ends /\ Other[e] # e /\ Other[Other[e]] = e
      /\ \A x \in Ends : Other[x] \in Ends /\ Other[x] # x /\ Other[Other[x]] = x
  BY TransferAssumption
<1>2. /\ s2 \in SendBuffer
      /\ snd \in [Ends -> SendBuffer]
      /\ snd' \in [Ends -> SendBuffer]
      /\ snd'[e] = s2
      /\ \A x \in Ends : x # e => snd'[x] = snd[x]
  BY DEF IInv, SenderOK, SendInv
<1>3. /\ rcv' \in [Ends -> {rcv'[x] : x \in Ends}]
      /\ rcv'[e] = r2
      /\ \A x \in Ends : x # e => rcv'[x] = rcv[x]
  <2>1. DOMAIN rcv = Ends
    BY DEF IInv
  <2> QED
    BY <2>1
<1>9. /\ size' \in [Ends -> Nat] /\ size'[e] = z2
      /\ \A x \in Ends : x # e => size'[x] = size[x]
      /\ delivered' \in [Ends -> Seq(Nat)] /\ delivered'[e] = d2
      /\ \A x \in Ends : x # e => delivered'[x] = delivered[x]
  <2>1. size \in [Ends -> Nat] /\ delivered \in [Ends -> Seq(Nat)] /\ d2 \in Seq(Nat)
    BY DEF IInv, ReaderOK
  <2>2. z2 \in Nat
    BY AccountedIs DEF SenderOK
  <2> QED
    BY <2>1, <2>2
<1>4. /\ \A x \in Ends : rcv[x].first_seq \in Nat
      /\ r2.first_seq \in Nat
  BY DEF IInv, ReceiverOK, RecvInv, RecvBuffer
<1>5. \A x \in Ends : /\ rcv'[x].first_seq \in Nat
                       /\ rcv[x].first_seq <= rcv'[x].first_seq
                       /\ SendStep(snd[x], snd'[x])
  <2>1. SUFFICES ASSUME NEW x \in Ends, x # e
                 PROVE  SendStep(snd[x], snd[x])
    BY <1>2, <1>3, <1>4
  <2> QED
    BY SameSegments DEF IInv, SenderOK
<1>6. ASSUME NEW x \in Ends
      PROVE  SenderOK(snd'[x], size'[x], rcv'[Other[x]].first_seq)
  <2>1. CASE x = e
    BY <1>1, <1>2, <1>3, <1>9, <2>1
  <2>2. CASE x # e
    <3>1. /\ SenderOK(snd[x], size[x], rcv[Other[x]].first_seq)
          /\ snd'[x] = snd[x] /\ size'[x] = size[x]
      BY <1>2, <1>9, <2>2 DEF IInv
    <3>2. /\ rcv[Other[x]].first_seq \in Nat /\ rcv'[Other[x]].first_seq \in Nat
          /\ rcv[Other[x]].first_seq <= rcv'[Other[x]].first_seq
      BY <1>1, <1>4, <1>5
    <3>3. \A q \in 1..Len(snd[x].seg) : q \in Held(snd[x]) \/ q <= rcv'[Other[x]].first_seq
      BY <3>1, <3>2 DEF SenderOK
    <3> QED
      BY <3>1, <3>3 DEF SenderOK
  <2> QED
    BY <2>1, <2>2
<1>7. ASSUME NEW x \in Ends
      PROVE  ReceiverOK(rcv'[x], snd'[Other[x]]) /\ ReaderOK(snd'[Other[x]], rcv'[x], delivered'[x])
  <2>1. CASE x = e
    BY <1>1, <1>2, <1>3, <1>9, <2>1
  <2>2. CASE x # e
    <3>1. /\ ReceiverOK(rcv[x], snd[Other[x]]) /\ rcv'[x] = rcv[x]
          /\ ReaderOK(snd[Other[x]], rcv[x], delivered[x]) /\ delivered'[x] = delivered[x]
      BY <1>3, <1>9, <2>2 DEF IInv
    <3>2. SendStep(snd[Other[x]], snd'[Other[x]])
      BY <1>1, <1>5
    <3> QED
      BY <3>1, <3>2, ReaderStays
  <2> QED
    BY <2>1, <2>2
<1>8. ASSUME NEW m \in net'
      PROVE  /\ m.to \in Ends
             /\ PacketOK(m, snd'[Other[m.to]], rcv'[Other[m.to]], rcv'[m.to].first_seq)
  <2>1. CASE m \in net
    <3>1. /\ m.to \in Ends
          /\ PacketOK(m, snd[Other[m.to]], rcv[Other[m.to]], rcv[m.to].first_seq)
      BY <2>1 DEF IInv
    <3> QED
      BY <1>1, <1>4, <1>5, <3>1, PacketStays, SMTT(90)
  <2>2. CASE m \in out
    <3>1. OutOK(m, e, s2, r2)
      BY <2>2
    <3>2. m.to \in Ends /\ m.to # e /\ Other[m.to] = e
      BY <1>1, <3>1 DEF OutOK
    <3>3. rcv'[m.to].first_seq = rcv[Other[e]].first_seq /\ rcv[Other[e]].first_seq \in Nat
      BY <1>1, <1>3, <1>4, <3>1, <3>2 DEF OutOK
    <3>4. PacketOK(m, s2, r2, rcv[Other[e]].first_seq)
      <4>1. CASE m \in Data /\ m.ack <= r2.first_seq /\ m.seq \in s2.window /\ m.data = s2.seg[m.seq]
        <5>1. m.seq <= rcv[Other[e]].first_seq + MaxSeqInterval
          BY <3>3, <4>1, WindowIsNear
        <5>2. m.seq \in 1..Len(s2.seg) /\ m.seq \notin s2.send_data
          <6>1. m.seq \in Nat /\ SendInv(s2)
            BY <4>1 DEF Data, SenderOK
          <6> QED
            BY <4>1, <6>1 DEF SendInv, Held
        <5> QED
          BY <4>1, <5>1, <5>2 DEF PacketOK, IsSent
      <4> QED
        BY <3>1, <4>1 DEF OutOK, PacketOK
    <3> QED
      BY <1>2, <1>3, <3>2, <3>3, <3>4
  <2> QED
    BY <2>1, <2>2
<1>10. IInv'
  BY <1>2, <1>3, <1>6, <1>7, <1>8, <1>9 DEF IInv
<1>11. StreamStep
  BY StreamKeeps
<1> QED
  BY <1>10, <1>11

---------------------------------------------------------------------------
(* The parts of the handlers.                                              *)

\* Data packets cut from s are good for s2 when what they carry was sent by a
\* buffer t between the two.
LEMMA PacketsOK ==
  ASSUME NEW e \in Ends, NEW s, NEW t, NEW s2, NEW seqs, NEW ack \in Nat, NEW r2,
         SendInv(t), t.seg = s.seg, seqs \subseteq t.window,
         SendStep(t, s2), t.window \subseteq s2.window, ack <= r2.first_seq
  PROVE  \A m \in DataPackets(e, s, seqs, ack) : OutOK(m, e, s2, r2)
<1>1. SUFFICES ASSUME NEW q \in seqs
               PROVE  OutOK([to |-> Other[e], type |-> "DATA", ack |-> ack,
                             seq |-> q, data |-> s.seg[q]], e, s2, r2)
  BY DEF DataPackets
<1>2. q \in 1..Len(t.seg) /\ q \notin t.send_data /\ q \in Nat /\ t.seg \in Seq(Chunk)
  <2>1. /\ q \in Held(t) /\ Held(t) \subseteq 1..Len(t.seg) /\ t.seg \in Seq(Chunk)
        /\ q \in t.window /\ \A p \in t.send_data : q < p
    BY <1>1 DEF SendInv, SendBuffer, Held
  <2> QED
    BY <2>1
<1>3. s2.seg[q] = s.seg[q] /\ s.seg[q] \in Chunk
  <2>1. IsSent(t, q, t.seg[q])
    BY <1>2 DEF IsSent
  <2>2. IsSent(s2, q, t.seg[q])
    BY <2>1 DEF SendStep
  <2> QED
    BY <1>2, <2>2 DEF IsSent
<1>4. Other[e] \in Ends
  BY TransferAssumption
<1> QED
  BY <1>2, <1>3, <1>4 DEF OutOK, Data

\* Clearing recv_new_packet_ after a data segment left keeps the receiver.
LEMMA PiggybackedOK ==
  ASSUME NEW r, NEW s, ReceiverOK(r, s), NEW d, ReaderOK(s, r, d), NEW sent
  PROVE  /\ ReceiverOK(Piggybacked(r, sent), s)
         /\ ReaderOK(s, Piggybacked(r, sent), d)
         /\ Piggybacked(r, sent).first_seq = r.first_seq
<1>1. /\ SameWindow(r, r) /\ SameWindow(r, AckSent(r))
      /\ AckSent(r).recv_data = r.recv_data
  BY OthersKeep, OthersSameData DEF ReceiverOK, SameWindow
<1>2. SameWindow(r, Piggybacked(r, sent)) /\ Piggybacked(r, sent).recv_data = r.recv_data
  BY <1>1 DEF Piggybacked
<1> QED
  BY <1>2 DEF ReceiverOK, ReaderOK, SameWindow

\* on_data appends to recv_data_ the segments that are now in order, and they
\* continue the stream.
LEMMA OnDataReads ==
  ASSUME NEW s \in SendBuffer, Contiguous(s), NEW r, ReceiverOK(r, s), NEW d, ReaderOK(s, r, d),
         NEW seq \in Nat, NEW data, IsSent(s, seq, data), NEW r2 \in OnData(r, seq, data)
  PROVE  ReceiverOK(r2, s) /\ ReaderOK(s, r2, d) /\ r.first_seq <= r2.first_seq
<1>1. /\ RecvInv(r2) /\ r.first_seq <= r2.first_seq
      /\ \A q \in DOMAIN r2.recv_window :
           \/ q \in DOMAIN r.recv_window /\ r2.recv_window[q] = r.recv_window[q]
           \/ q = seq /\ r2.recv_window[q] = data
  BY OnDataKeeps DEF ReceiverOK
<1>2. \A q \in DOMAIN r2.recv_window : IsSent(s, q, r2.recv_window[q])
  BY <1>1 DEF ReceiverOK
<1>3. CASE r2.first_seq = r.first_seq /\ r2.recv_data = r.recv_data
  BY <1>1, <1>2, <1>3 DEF ReceiverOK, ReaderOK
<1>4. ASSUME seq = r.first_seq + 1, NEW f \in ContiguousUpTo(r, seq),
             r2 = NextInOrder(r, seq, data, f)
      PROVE  ReceiverOK(r2, s) /\ ReaderOK(s, r2, d)
  <2> DEFINE p == r.first_seq
             moved == [i \in 1..(f + 1 - seq) |->
                         IF i = 1 THEN data ELSE r.recv_window[seq + i - 1]]
             cs == [i \in 1..(f - p) |-> s.seg[p + i]]
  <2>1. p \in Nat /\ f \in Nat /\ seq <= f /\ (seq + 1)..f \subseteq DOMAIN r.recv_window
    BY WindowIsFinite DEF ContiguousUpTo, ReceiverOK, RecvInv, RecvBuffer
  <2>2. r2.first_seq = f /\ r2.recv_data = r.recv_data \o AllBytes(moved)
    BY <1>4 DEF NextInOrder, ReceiverOK, RecvInv, RecvBuffer
  <2>3. \A q \in 1..f : IsSent(s, q, s.seg[q])
    <3>1. SUFFICES ASSUME NEW q \in 1..f
                   PROVE  IsSent(s, q, s.seg[q])
      OBVIOUS
    <3>2. CASE q <= p
      <4>1. q \in 1..p
        BY <2>1, <3>2
      <4> QED
        BY <4>1 DEF ReceiverOK
    <3>3. CASE q = seq
      BY <3>3 DEF IsSent
    <3>4. CASE q > seq
      <4>1. q \in (seq + 1)..f
        BY <2>1, <3>4
      <4>2. IsSent(s, q, r.recv_window[q])
        BY <2>1, <4>1 DEF ReceiverOK
      <4> QED
        BY <4>2 DEF IsSent
    <3> QED
      BY <1>4, <2>1, <3>2, <3>3, <3>4
  <2>4. moved = cs
    <3>1. f + 1 - seq = f - p
      BY <1>4, <2>1
    <3>2. ASSUME NEW i \in 1..(f - p)
          PROVE  (IF i = 1 THEN data ELSE r.recv_window[seq + i - 1]) = s.seg[p + i]
      <4>1. CASE i = 1
        BY <1>4, <2>1, <4>1 DEF IsSent
      <4>2. CASE i # 1
        <5>1. seq + i - 1 \in (seq + 1)..f /\ seq + i - 1 = p + i
          BY <1>4, <2>1, <4>2
        <5>2. IsSent(s, p + i, r.recv_window[p + i])
          BY <2>1, <5>1 DEF ReceiverOK
        <5> QED
          BY <4>2, <5>1, <5>2 DEF IsSent
      <4> QED
        BY <4>1, <4>2
    <3> QED
      BY <3>1, <3>2
  <2>5. /\ p \in 0..Len(s.seg) /\ f \in (p + 1)..Len(s.seg) /\ f \in p..Len(s.seg)
        /\ f \in 0..Len(s.seg) /\ Len(s.seg) \in Nat
    <3>1. f \in 1..Len(s.seg)
      <4>1. f \in 1..f
        BY <1>4, <2>1
      <4> QED
        BY <2>3, <4>1 DEF IsSent
    <3> QED
      BY <1>4, <2>1, <3>1, EndType
  <2> DEFINE a == End(s, p)
             n == End(s, f) - End(s, p)
  <2>6. AllBytes(cs) = Run(a, n)
    <3> HIDE DEF moved
    <3> QED
      BY <2>5, AllBytesIs
  <2>7. a \in Nat /\ n \in Nat /\ a + n = End(s, f)
    BY <2>5, EndType, EndGrows, SMTT(90)
  <2>8. /\ d \in Seq(Nat) /\ r.recv_data \in Seq(Nat) /\ d \o r.recv_data = Run(0, a)
    BY DEF ReaderOK
  <2> HIDE DEF moved, cs, a, n
  <2>9. Run(a, n) \in Seq(Nat) /\ Run(0, a) \o Run(0 + a, n) = Run(0, a + n) /\ 0 + a = a
    <3>1. 0 \in Nat /\ 0 + a = a
      BY <2>7
    <3>2. Run(0, a) \o Run(0 + a, n) = Run(0, a + n)
      BY <2>7, <3>1, RunJoin, Zenon
    <3> QED
      BY <2>7, <3>1, <3>2, RunType
  <2>10. r2.recv_data \in Seq(Nat) /\ d \o r2.recv_data = Run(0, End(s, f))
    <3>1. d \o (r.recv_data \o Run(a, n)) = (d \o r.recv_data) \o Run(a, n)
      BY <2>8, <2>9, JoinAssoc, ZenonT(90)
    <3>2. r.recv_data \o Run(a, n) \in Seq(Nat)
      BY <2>8, <2>9, ConcatProperties
    <3> QED
      BY <2>2, <2>4, <2>6, <2>7, <2>8, <2>9, <3>1, <3>2
  <2> QED
    BY <1>1, <1>2, <2>2, <2>3, <2>8, <2>10 DEF ReceiverOK, ReaderOK
<1>5. \/ r2.first_seq = r.first_seq /\ r2.recv_data = r.recv_data
      \/ seq = r.first_seq + 1 /\ \E f \in ContiguousUpTo(r, seq) : r2 = NextInOrder(r, seq, data, f)
  BY DEF OnData, Old, Ahead, ReceiverOK, RecvInv, RecvBuffer
<1> QED
  BY <1>1, <1>3, <1>4, <1>5

\* recv moves bytes from the front of recv_data_ to the end of what is read.
LEMMA ReadReads ==
  ASSUME NEW s, NEW r, ReceiverOK(r, s), NEW d, ReaderOK(s, r, d),
         r.recv_data # << >>, NEW n \in Nat \ {0}
  PROVE  LET d2 == d \o SubSeq(r.recv_data, 1, ReadSize(r, n))
         IN  /\ ReceiverOK(Read(r, n), s) /\ ReaderOK(s, Read(r, n), d2)
             /\ Len(d2) > Len(d)
             /\ Read(r, n).first_seq = r.first_seq
<1> DEFINE b == r.recv_data
           k == ReadSize(r, n)
           x == SubSeq(b, 1, k)
           y == SubSeq(b, k + 1, Len(b))
           r2 == Read(r, n)
<1>1. d \in Seq(Nat) /\ b \in Seq(Nat) /\ d \o b = Run(0, End(s, r.first_seq))
  BY DEF ReaderOK
<1>2. Len(b) \in Nat /\ Len(b) > 0
  BY <1>1, EmptySeq
<1>3. k \in 1..Len(b)
  BY <1>2 DEF ReadSize
<1>4. /\ SameWindow(r, r2)
      /\ r2.recv_data = y
  BY OthersKeep DEF ReceiverOK, Read, RecvInv, RecvBuffer
<1> HIDE DEF b, k, r2
<1>5. /\ x \in Seq(Nat) /\ Len(x) = k
      /\ y \in Seq(Nat) /\ Len(y) = Len(b) - k
      /\ \A i \in 1..Len(x) : x[i] = b[i]
      /\ \A i \in 1..Len(y) : y[i] = b[k + i]
  <2>1. /\ \A i \in 1..k : b[i] \in Nat
        /\ \A i \in (k + 1)..Len(b) : b[i] \in Nat
        /\ 1 \in Int /\ k \in Int /\ k + 1 \in Int /\ Len(b) \in Int
    BY ONLY <1>1, <1>2, <1>3, SMTT(90)
  <2>2. /\ x \in Seq(Nat) /\ Len(x) = IF 1 <= k THEN k - 1 + 1 ELSE 0
        /\ \A i \in 1..(k - 1 + 1) : x[i] = b[1 + i - 1]
    BY <2>1, SubSeqProperties
  <2>3. /\ y \in Seq(Nat) /\ Len(y) = IF k + 1 <= Len(b) THEN Len(b) - (k + 1) + 1 ELSE 0
        /\ \A i \in 1..(Len(b) - (k + 1) + 1) : y[i] = b[(k + 1) + i - 1]
    BY <2>1, SubSeqProperties
  <2>4. Len(x) = k /\ \A i \in 1..k : x[i] = b[i]
    BY <1>3, <2>2
  <2>5. Len(y) = Len(b) - k /\ \A i \in 1..(Len(b) - k) : y[i] = b[k + i]
    <3>1. Len(y) = Len(b) - k
      BY <1>2, <1>3, <2>3
    <3>2. \A i \in 1..(Len(b) - k) : i \in 1..(Len(b) - (k + 1) + 1) /\ (k + 1) + i - 1 = k + i
      BY <1>2, <1>3
    <3> QED
      BY <2>3, <3>1, <3>2
  <2> QED
    BY <2>2, <2>3, <2>4, <2>5
<1> HIDE DEF x, y
<1>6. x \o y = b
  <2>1. /\ x \o y \in Seq(Nat) /\ Len(x \o y) = Len(b)
        /\ \A i \in 1..Len(b) : (x \o y)[i] = IF i <= Len(x) THEN x[i] ELSE y[i - Len(x)]
    BY <1>2, <1>3, <1>5, ConcatProperties, SMTT(90)
  <2>2. \A i \in 1..Len(b) : (x \o y)[i] = b[i]
    <3>1. SUFFICES ASSUME NEW i \in 1..Len(b)
                   PROVE  (x \o y)[i] = b[i]
      OBVIOUS
    <3>2. CASE i <= k
      <4>1. i \in 1..Len(x)
        BY <1>3, <1>5, <3>2
      <4> QED
        BY <1>5, <2>1, <3>2, <4>1
    <3>3. CASE ~(i <= k)
      <4>1. i - k \in 1..Len(y) /\ k + (i - k) = i
        BY <1>2, <1>3, <1>5, <3>3
      <4> QED
        BY <1>5, <2>1, <3>3, <4>1
    <3> QED
      BY <3>2, <3>3
  <2> QED
    BY <1>1, <2>1, <2>2, SeqEqual
<1>7. d \o x \in Seq(Nat) /\ Len(d \o x) = Len(d) + k /\ Len(d) \in Nat
  BY <1>1, <1>5, ConcatProperties, LenProperties, ZenonT(120)
<1>8. (d \o x) \o y = d \o b
  <2>1. (d \o x) \o y = d \o (x \o y)
    BY <1>1, <1>5, JoinAssoc, ZenonT(90)
  <2> QED
    BY <1>6, <2>1
<1>9. ReaderOK(s, r2, d \o x)
  BY <1>1, <1>4, <1>5, <1>7, <1>8 DEF ReaderOK, SameWindow
<1>10. ReceiverOK(r2, s)
  BY <1>4 DEF ReceiverOK, SameWindow
<1>11. Len(d \o x) > Len(d)
  BY <1>3, <1>7
<1> QED
  BY <1>4, <1>9, <1>10, <1>11 DEF x, r2, k, b, SameWindow

\* on_ack with the segments it lets out, if the acknowledgement is accepted.
LEMMA AckSendOK ==
  ASSUME NEW s, NEW z, NEW f \in Nat, SenderOK(s, z, f), NEW seq \in Nat, seq <= f,
         NEW cwnd \in CwndSizes, NEW due, NEW young
  PROVE  LET acc == Accepts(s, seq)
             s1  == IF acc THEN Ack(s, seq) ELSE s
             out == IF acc THEN Sent(s1, cwnd, due, young) ELSE {}
             t   == IF acc THEN AttemptSend(s1, cwnd, due, young) ELSE s1
             b   == IF acc THEN FreedSize(s, seq, z) ELSE z
         IN  /\ SenderOK(t, b, f) /\ SendStep(s, t)
             /\ t.seg = s1.seg /\ out \subseteq t.window
<1> DEFINE a == Ack(s, seq)
           b == FreedSize(s, seq, z)
           t == AttemptSend(a, cwnd, due, young)
<1>1. SenderOK(a, b, f) /\ SendStep(s, a)
  BY AckOK
<1> HIDE DEF a, b
<1>2. /\ SenderOK(t, b, f) /\ SendStep(a, t)
      /\ t.seg = a.seg /\ Sent(a, cwnd, due, young) \subseteq t.window
  BY <1>1, AttemptSendOK
<1> HIDE DEF t
<1>3. SendStep(s, t) /\ SendStep(s, s)
  BY <1>1, <1>2, SendStepTrans, SameSegments DEF SenderOK
<1> QED
  BY <1>2, <1>3 DEF t, a, b

\* A write inside rudp_output_event, or none, is a step of the sender.
LEMMA WriteOK ==
  ASSUME NEW s, NEW z, NEW f \in Nat, SenderOK(s, z, f), NEW n \in Nat,
         NEW cwnd \in CwndSizes, NEW due, NEW young
  PROVE  LET t == Write(s, n, cwnd, due, young)
         IN  /\ SenderOK(t, z + n, f) /\ SendStep(s, t)
             /\ s.window \subseteq t.window
             /\ WriteSent(s, n, cwnd, due, young) \subseteq t.window
<1> DEFINE a == Queue(s, n)
           t == AttemptSend(a, cwnd, due, young)
<1>1. SenderOK(a, z + n, f) /\ SendStep(s, a) /\ a.window = s.window
  BY QueueOK
<1> HIDE DEF a
<1>2. /\ SenderOK(t, z + n, f) /\ SendStep(a, t)
      /\ a.window \subseteq t.window /\ Sent(a, cwnd, due, young) \subseteq t.window
  BY <1>1, AttemptSendOK
<1> HIDE DEF t
<1>3. SendStep(s, t) /\ SendStep(s, s)
  BY <1>1, <1>2, SendStepTrans, SameSegments DEF SenderOK
<1>4. CASE n = 0
  <2>1. z + 0 = z
    BY AccountedIs DEF SenderOK
  <2> QED
    BY <1>3, <1>4, <2>1 DEF Write, WriteSent
<1>5. CASE n # 0
  BY <1>1, <1>2, <1>3, <1>5 DEF Write, WriteSent, t, a
<1> QED
  BY <1>4, <1>5

\* What the invariant says to a socket about itself and its peer.
LEMMA EndOK ==
  ASSUME IInv, NEW e \in Ends
  PROVE  /\ Other[e] \in Ends
         /\ SenderOK(snd[e], size[e], rcv[Other[e]].first_seq)
         /\ ReceiverOK(rcv[e], snd[Other[e]])
         /\ ReaderOK(snd[Other[e]], rcv[e], delivered[e])
         /\ size = [size EXCEPT ![e] = size[e]]
         /\ delivered = [delivered EXCEPT ![e] = delivered[e]]
         /\ rcv[e].first_seq \in Nat /\ rcv[Other[e]].first_seq \in Nat
BY TransferAssumption DEF IInv, ReceiverOK, RecvInv, RecvBuffer

---------------------------------------------------------------------------
(* One lemma per action.                                                   *)

\* RUDPSocket::send
LEMMA AppSendKeeps ==
  ASSUME IInv, NEW e \in Ends, NEW n \in WriteSizes, NEW cwnd \in CwndSizes, NEW due, NEW young,
         AppSend(e, n, cwnd, due, young)
  PROVE  IInv' /\ StreamStep
<1> DEFINE s == Queue(snd[e], n)
           sent == Sent(s, cwnd, due, young)
           t == AttemptSend(s, cwnd, due, young)
           f == rcv[Other[e]].first_seq
           r2 == Piggybacked(rcv[e], sent)
           out == DataPackets(e, s, sent, rcv[e].first_seq)
           z2 == size[e] + n
<1>1. n \in Nat
  BY TransferAssumption
<1>2. SenderOK(s, z2, f) /\ SendStep(snd[e], s)
  BY <1>1, EndOK, QueueOK
<1>3. /\ snd' = [snd EXCEPT ![e] = t] /\ rcv' = [rcv EXCEPT ![e] = r2] /\ net' = net \cup out
      /\ size' = [size EXCEPT ![e] = z2] /\ delivered' = [delivered EXCEPT ![e] = delivered[e]]
  BY EndOK DEF AppSend, Emit
<1> HIDE DEF s, z2
<1>4. SenderOK(t, z2, f) /\ SendStep(s, t) /\ t.seg = s.seg /\ sent \subseteq t.window
  BY <1>2, EndOK, AttemptSendOK
<1>5. /\ ReceiverOK(r2, snd[Other[e]]) /\ rcv[e].first_seq <= r2.first_seq
      /\ ReaderOK(snd[Other[e]], r2, delivered[e])
  BY EndOK, PiggybackedOK
<1> HIDE DEF sent, t, r2
<1>6. SendStep(snd[e], t) /\ SendStep(t, t) /\ SendInv(t)
  BY <1>2, <1>4, SendStepTrans DEF SendStep, SenderOK
<1>7. \A m \in out : OutOK(m, e, t, r2)
  BY <1>4, <1>5, <1>6, EndOK, PacketsOK
<1> HIDE DEF out
<1> QED
  BY <1>3, <1>4, <1>5, <1>6, <1>7, StepKeeps

\* RUDPSocket::recv
LEMMA AppRecvKeeps ==
  ASSUME IInv, NEW e \in Ends, NEW n \in ReadSizes, AppRecv(e, n)
  PROVE  IInv' /\ StreamStep
<1> DEFINE r2 == Read(rcv[e], n)
           d2 == delivered[e] \o SubSeq(rcv[e].recv_data, 1, ReadSize(rcv[e], n))
           out == {}
<1>1. n \in Nat \ {0} /\ rcv[e].recv_data # << >>
  BY TransferAssumption DEF AppRecv
<1>2. /\ snd' = [snd EXCEPT ![e] = snd[e]] /\ rcv' = [rcv EXCEPT ![e] = r2] /\ net' = net \cup out
      /\ size' = [size EXCEPT ![e] = size[e]] /\ delivered' = [delivered EXCEPT ![e] = d2]
  BY EndOK DEF AppRecv, IInv
<1>3. /\ ReceiverOK(r2, snd[Other[e]]) /\ ReaderOK(snd[Other[e]], r2, d2)
      /\ Len(d2) > Len(delivered[e])
      /\ r2.first_seq = rcv[e].first_seq
  BY <1>1, EndOK, ReadReads, ZenonT(120)
<1> HIDE DEF r2, d2
<1>4. SendStep(snd[e], snd[e]) /\ rcv[e].first_seq <= r2.first_seq
  BY <1>3, EndOK, SameSegments DEF SenderOK
<1>5. \A m \in out : OutOK(m, e, snd[e], r2)
  OBVIOUS
<1> HIDE DEF out
<1>6. SenderOK(snd[e], size[e], rcv[Other[e]].first_seq)
  BY EndOK
<1>7. PICK s : s = snd[e]
  OBVIOUS
<1>8. /\ snd' = [snd EXCEPT ![e] = s] /\ SendStep(snd[e], s)
      /\ SenderOK(s, size[e], rcv[Other[e]].first_seq)
      /\ \A m \in out : OutOK(m, e, s, r2)
  BY <1>2, <1>4, <1>5, <1>6, <1>7
<1> QED
  BY <1>2, <1>3, <1>4, <1>7, <1>8, StepKeeps

\* process_data: the acknowledgement, the segments it lets out, the nested
\* write, then the data.
LEMMA ProcessDataKeeps ==
  ASSUME IInv, NEW m \in net, m.type = "DATA", NEW cwnd \in CwndSizes, NEW due, NEW young,
         ProcessData(m.to, m, cwnd, due, young)
  PROVE  IInv' /\ StreamStep
<1> DEFINE e == m.to
           f == rcv[Other[e]].first_seq
           acc == Accepts(snd[e], m.ack)
           s1  == IF acc THEN Ack(snd[e], m.ack) ELSE snd[e]
           out == IF acc THEN Sent(s1, cwnd, due, young) ELSE {}
           s2  == IF acc THEN AttemptSend(s1, cwnd, due, young) ELSE s1
           b   == IF acc THEN FreedSize(snd[e], m.ack, size[e]) ELSE size[e]
<1>1. /\ e \in Ends
      /\ m.ack \in Nat /\ m.ack <= f
      /\ m.seq \in Nat /\ IsSent(snd[Other[e]], m.seq, m.data)
  BY DEF IInv, PacketOK, Data, DataAck, DataNack
<1>2. PICK n \in (IF acc THEN OutputEvent(e, s2, b) ELSE {0}) :
        LET more == WriteSent(s2, n, cwnd, {}, young)
            s3   == Write(s2, n, cwnd, {}, young)
            r    == Piggybacked(rcv[e], out \cup more)
        IN /\ snd' = [snd EXCEPT ![e] = s3]
           /\ size' = [size EXCEPT ![e] = b + n]
           /\ \E r2 \in OnData(r, m.seq, m.data) : rcv' = [rcv EXCEPT ![e] = r2]
           /\ \E rest \in {net, net \ {m}} :
                net' = rest \cup (DataPackets(e, s2, out, r.first_seq)
                                    \cup DataPackets(e, s3, more, r.first_seq))
  BY ZenonT(90) DEF ProcessData, Emit
<1>3. n \in Nat
  <2>1. 0 \in Nat /\ WriteSizes \subseteq Nat
    BY TransferAssumption
  <2>2. n = 0 \/ n \in WriteSizes
    BY <1>2 DEF OutputEvent
  <2> QED
    BY <2>1, <2>2
<1> DEFINE more == WriteSent(s2, n, cwnd, {}, young)
           s3   == Write(s2, n, cwnd, {}, young)
           r    == Piggybacked(rcv[e], out \cup more)
           packets == DataPackets(e, s2, out, r.first_seq)
                        \cup DataPackets(e, s3, more, r.first_seq)
<1>4. PICK r2 \in OnData(r, m.seq, m.data) : rcv' = [rcv EXCEPT ![e] = r2]
  BY <1>2
<1>5. PICK rest \in {net, net \ {m}} : net' = rest \cup packets
  BY <1>2
<1>6. /\ snd' = [snd EXCEPT ![e] = s3] /\ size' = [size EXCEPT ![e] = b + n]
      /\ delivered' = [delivered EXCEPT ![e] = delivered[e]]
  BY <1>1, <1>2, EndOK DEF ProcessData
<1>7. /\ SenderOK(snd[e], size[e], f) /\ ReceiverOK(rcv[e], snd[Other[e]])
      /\ ReaderOK(snd[Other[e]], rcv[e], delivered[e])
      /\ f \in Nat /\ rcv[e].first_seq \in Nat
  BY <1>1, EndOK
<1>8. SenderOK(s2, b, f) /\ SendStep(snd[e], s2) /\ out \subseteq s2.window
  BY <1>1, <1>7, AckSendOK
<1> HIDE DEF s1, s2, out, b, acc
<1>9. /\ SenderOK(s3, b + n, f) /\ SendStep(s2, s3)
      /\ s2.window \subseteq s3.window /\ more \subseteq s3.window
  BY <1>3, <1>7, <1>8, WriteOK
<1>10. /\ ReceiverOK(r, snd[Other[e]]) /\ r.first_seq = rcv[e].first_seq
       /\ ReaderOK(snd[Other[e]], r, delivered[e])
  BY <1>7, PiggybackedOK
<1> HIDE DEF s3, more, r
<1>11. /\ ReceiverOK(r2, snd[Other[e]]) /\ r.first_seq <= r2.first_seq
       /\ ReaderOK(snd[Other[e]], r2, delivered[e])
  <2>1. snd[Other[e]] \in SendBuffer /\ Contiguous(snd[Other[e]])
    BY <1>1, EndOK DEF SenderOK, SendInv
  <2> QED
    BY <1>1, <1>10, <2>1, OnDataReads
<1>12. SendStep(snd[e], s3) /\ SendStep(s3, s3) /\ SendInv(s2) /\ SendInv(s3)
  BY <1>8, <1>9, SendStepTrans DEF SendStep, SenderOK
<1>13. \A p \in packets : OutOK(p, e, s3, r2)
  <2>1. \A p \in DataPackets(e, s2, out, r.first_seq) : OutOK(p, e, s3, r2)
    BY <1>1, <1>7, <1>8, <1>9, <1>10, <1>11, <1>12, PacketsOK
  <2>2. \A p \in DataPackets(e, s3, more, r.first_seq) : OutOK(p, e, s3, r2)
    BY <1>1, <1>7, <1>9, <1>10, <1>11, <1>12, PacketsOK
  <2> QED
    BY <2>1, <2>2
<1> HIDE DEF packets
<1>14. rest \in SUBSET net /\ rcv[e].first_seq <= r2.first_seq
  BY <1>10, <1>11
<1> QED
  BY <1>1, <1>4, <1>5, <1>6, <1>9, <1>11, <1>12, <1>13, <1>14, StepKeeps

\* process_data_ack
LEMMA ProcessDataAckKeeps ==
  ASSUME IInv, NEW m \in net, m.type = "DATA_ACK", NEW cwnd \in CwndSizes, NEW due, NEW young,
         ProcessDataAck(m.to, m, cwnd, due, young)
  PROVE  IInv' /\ StreamStep
<1> DEFINE e == m.to
           f == rcv[Other[e]].first_seq
           acc == Accepts(snd[e], m.ack)
           s1  == IF acc THEN Ack(snd[e], m.ack) ELSE snd[e]
           out == IF acc THEN Sent(s1, cwnd, due, young) ELSE {}
           t   == IF acc THEN AttemptSend(s1, cwnd, due, young) ELSE s1
           b   == IF acc THEN FreedSize(snd[e], m.ack, size[e]) ELSE size[e]
           r2  == Piggybacked(rcv[e], out)
           packets == DataPackets(e, s1, out, rcv[e].first_seq)
<1>1. e \in Ends /\ m.ack \in Nat /\ m.ack <= f
  BY DEF IInv, PacketOK, Data, DataAck, DataNack
<1>2. /\ snd' = [snd EXCEPT ![e] = t] /\ rcv' = [rcv EXCEPT ![e] = r2]
      /\ size' = [size EXCEPT ![e] = b] /\ delivered' = [delivered EXCEPT ![e] = delivered[e]]
  BY <1>1, EndOK DEF ProcessDataAck, IInv
<1>3. PICK rest \in SUBSET net : net' = rest \cup packets
  BY DEF ProcessDataAck, Emit
<1>4. /\ SenderOK(snd[e], size[e], f) /\ ReceiverOK(rcv[e], snd[Other[e]])
      /\ ReaderOK(snd[Other[e]], rcv[e], delivered[e])
      /\ f \in Nat /\ rcv[e].first_seq \in Nat
  BY <1>1, EndOK
<1>5. /\ SenderOK(t, b, f) /\ SendStep(snd[e], t)
      /\ t.seg = s1.seg /\ out \subseteq t.window
  BY <1>1, <1>4, AckSendOK
<1> HIDE DEF acc, s1, out, t, b
<1>6. /\ ReceiverOK(r2, snd[Other[e]]) /\ rcv[e].first_seq <= r2.first_seq
      /\ ReaderOK(snd[Other[e]], r2, delivered[e])
  BY <1>4, PiggybackedOK
<1> HIDE DEF r2
<1>7. SendStep(t, t) /\ SendInv(t)
  BY <1>5 DEF SendStep, SenderOK
<1>8. \A p \in packets : OutOK(p, e, t, r2)
  BY <1>1, <1>4, <1>5, <1>6, <1>7, PacketsOK
<1> HIDE DEF packets
<1> QED
  BY <1>1, <1>2, <1>3, <1>5, <1>6, <1>8, StepKeeps

\* process_data_nack: on_nack with its on_ack, then on_ack once more.
LEMMA ProcessDataNackKeeps ==
  ASSUME IInv, NEW m \in net, m.type = "DATA_NACK", NEW cwnd \in CwndSizes, NEW due, NEW young,
         ProcessDataNack(m.to, m, cwnd, due, young)
  PROVE  IInv' /\ StreamStep
<1> DEFINE e == m.to
           f == rcv[Other[e]].first_seq
           s0  == ReportLoss(snd[e], m.base, m.ids)
           acc == Accepts(s0, m.base)
           s1  == IF acc THEN Ack(s0, m.base) ELSE s0
           s2  == IF acc THEN AttemptSend(s1, cwnd, due, young) ELSE s1
           o1  == IF acc THEN Sent(s1, cwnd, due, young) ELSE {}
           due2 == due \ Sent(s1, cwnd, due, young)
           s3  == AttemptSend(s2, cwnd, due2, young)
           o2  == Sent(s2, cwnd, due2, young)
           t   == IF acc THEN s3 ELSE s2
           out == IF acc THEN o1 \cup o2 ELSE {}
           b   == IF acc THEN FreedSize(s0, m.base, size[e]) ELSE size[e]
           r2  == Piggybacked(rcv[e], out)
           packets == DataPackets(e, s2, out, rcv[e].first_seq)
<1>1. e \in Ends /\ m.base \in Nat /\ m.base <= f /\ m.ids \in SUBSET Nat
  BY DEF IInv, PacketOK, Data, DataAck, DataNack
<1>2. /\ snd' = [snd EXCEPT ![e] = t] /\ rcv' = [rcv EXCEPT ![e] = r2]
      /\ size' = [size EXCEPT ![e] = b] /\ delivered' = [delivered EXCEPT ![e] = delivered[e]]
  BY <1>1, EndOK DEF ProcessDataNack, IInv
<1>3. PICK rest \in SUBSET net : net' = rest \cup packets
  BY DEF ProcessDataNack, Emit
<1>4. /\ SenderOK(snd[e], size[e], f) /\ ReceiverOK(rcv[e], snd[Other[e]])
      /\ ReaderOK(snd[Other[e]], rcv[e], delivered[e])
      /\ f \in Nat /\ rcv[e].first_seq \in Nat
  BY <1>1, EndOK
<1>5. SenderOK(s0, size[e], f) /\ SendStep(snd[e], s0)
  BY <1>1, <1>4, ReportLossOK
<1> HIDE DEF s0
<1>6. SenderOK(s2, b, f) /\ SendStep(s0, s2) /\ o1 \subseteq s2.window
  BY <1>1, <1>4, <1>5, AckSendOK
<1> HIDE DEF acc, s1, s2, o1, due2, b
<1>7. /\ SenderOK(s3, b, f) /\ SendStep(s2, s3) /\ s3.seg = s2.seg
      /\ s2.window \subseteq s3.window /\ o2 \subseteq s3.window
  BY <1>4, <1>6, AttemptSendOK
<1> HIDE DEF s3, o2
<1>8. SenderOK(t, b, f) /\ SendStep(s2, t) /\ t.seg = s2.seg /\ out \subseteq t.window
  BY <1>6, <1>7 DEF SendStep
<1> HIDE DEF t, out
<1>9. /\ ReceiverOK(r2, snd[Other[e]]) /\ rcv[e].first_seq <= r2.first_seq
      /\ ReaderOK(snd[Other[e]], r2, delivered[e])
  BY <1>4, PiggybackedOK
<1> HIDE DEF r2
<1>10. SendStep(snd[e], t) /\ SendStep(t, t) /\ SendInv(t)
  BY <1>5, <1>6, <1>8, SendStepTrans DEF SendStep, SenderOK
<1>11. \A p \in packets : OutOK(p, e, t, r2)
  BY <1>1, <1>4, <1>8, <1>9, <1>10, PacketsOK
<1> HIDE DEF packets
<1> QED
  BY <1>1, <1>2, <1>3, <1>8, <1>9, <1>10, <1>11, StepKeeps

\* heartbeat: the loss report and the acknowledgement, then what is sent again.
LEMMA HeartbeatKeeps ==
  ASSUME IInv, NEW e \in Ends, NEW expired, NEW late \in BOOLEAN,
         NEW cwnd \in CwndSizes, NEW due, NEW young,
         Heartbeat(e, expired, late, cwnd, due, young)
  PROVE  IInv' /\ StreamStep
<1> DEFINE f    == rcv[Other[e]].first_seq
           r    == OnTimer(rcv[e], expired, late)
           lost == Reported(rcv[e], expired)
           sent == Sent(snd[e], cwnd, due, young)
           t    == AttemptSend(snd[e], cwnd, due, young)
           r2   == Piggybacked(r, sent)
           data == DataPackets(e, snd[e], sent, r.first_seq)
           nack == IF lost # {} THEN {NackPacket(e, r.first_seq, lost)} ELSE {}
           ack  == IF AckDue(rcv[e], expired, late) THEN {AckPacket(e, r.first_seq)} ELSE {}
           packets == data \cup nack \cup ack
<1>1. /\ SenderOK(snd[e], size[e], f) /\ ReceiverOK(rcv[e], snd[Other[e]])
      /\ ReaderOK(snd[Other[e]], rcv[e], delivered[e])
      /\ f \in Nat /\ rcv[e].first_seq \in Nat /\ Other[e] \in Ends
  BY EndOK
<1>2. /\ snd' = [snd EXCEPT ![e] = t] /\ rcv' = [rcv EXCEPT ![e] = r2] /\ net' = net \cup packets
      /\ size' = [size EXCEPT ![e] = size[e]] /\ delivered' = [delivered EXCEPT ![e] = delivered[e]]
  BY EndOK DEF Heartbeat, Emit
<1>3. /\ SameWindow(rcv[e], r) /\ r.recv_data = rcv[e].recv_data
      /\ lost \subseteq {q \in Nat : q > rcv[e].first_seq}
  BY <1>1, OthersKeep, OthersSameData DEF ReceiverOK
<1>4. /\ ReceiverOK(r, snd[Other[e]]) /\ r.first_seq = rcv[e].first_seq
      /\ ReaderOK(snd[Other[e]], r, delivered[e])
  BY <1>1, <1>3 DEF ReceiverOK, ReaderOK, SameWindow
<1> HIDE DEF r, lost
<1>5. /\ ReceiverOK(r2, snd[Other[e]]) /\ r2.first_seq = rcv[e].first_seq
      /\ ReaderOK(snd[Other[e]], r2, delivered[e])
  BY <1>1, <1>3, <1>4, PiggybackedOK
<1> HIDE DEF r2
<1>6. SenderOK(t, size[e], f) /\ SendStep(snd[e], t) /\ t.seg = snd[e].seg /\ sent \subseteq t.window
  BY <1>1, AttemptSendOK
<1> HIDE DEF sent, t
<1>7. SendStep(t, t) /\ SendInv(t) /\ rcv[e].first_seq <= r2.first_seq /\ r.first_seq <= r2.first_seq
  BY <1>1, <1>4, <1>5, <1>6 DEF SendStep, SenderOK
<1>8. \A p \in data : OutOK(p, e, t, r2)
  BY <1>1, <1>4, <1>6, <1>7, PacketsOK
<1>9. \A p \in nack : OutOK(p, e, t, r2)
  <2>1. SUFFICES ASSUME lost # {}
                 PROVE  OutOK(NackPacket(e, r.first_seq, lost), e, t, r2)
    OBVIOUS
  <2>2. \A q \in lost : (q - r.first_seq) % IdRange \in Nat
    <3>1. IdRange \in Nat /\ IdRange > 0
      BY TransferAssumption, IntervalAssumption
    <3>2. \A q \in lost : q - r.first_seq \in Nat
      BY <1>1, <1>3, <1>4
    <3> QED
      BY <3>1, <3>2
  <2>3. {(q - r.first_seq) % IdRange : q \in lost} \in SUBSET Nat
    BY <2>2
  <2>4. NackPacket(e, r.first_seq, lost) \in DataNack
    BY <1>1, <1>4, <2>3 DEF NackPacket, DataNack
  <2> QED
    BY <1>7, <2>4 DEF OutOK, NackPacket
<1>10. \A p \in ack : OutOK(p, e, t, r2)
  <2>1. AckPacket(e, r.first_seq) \in DataAck
    BY <1>1, <1>4 DEF AckPacket, DataAck
  <2>2. OutOK(AckPacket(e, r.first_seq), e, t, r2)
    BY <1>7, <2>1 DEF OutOK, AckPacket
  <2> QED
    BY <2>2
<1>11. \A p \in packets : OutOK(p, e, t, r2)
  BY <1>8, <1>9, <1>10
<1> HIDE DEF packets
<1> QED
  BY <1>1, <1>2, <1>5, <1>6, <1>7, <1>11, StepKeeps

\* A packet is lost, or nothing happens.
LEMMA RestKeeps ==
  ASSUME IInv, UNCHANGED <<snd, size, rcv, delivered>>, net' \subseteq net
  PROVE  IInv' /\ StreamStep
<1>1. snd' = snd /\ size' = size /\ rcv' = rcv /\ delivered' = delivered
  OBVIOUS
<1>2. IInv'
  BY <1>1 DEF IInv
<1> QED
  BY <1>1, <1>2 DEF StreamStep

---------------------------------------------------------------------------
(* The invariant is inductive.                                             *)

\* Two sockets that have just been connected satisfy the invariant.
LEMMA InitOK == Init => IInv
<1> SUFFICES ASSUME Init
             PROVE  IInv
  OBVIOUS
<1>1. /\ snd = [e \in Ends |-> ResetSendBuffer]
      /\ size = [e \in Ends |-> 0]
      /\ rcv = [e \in Ends |-> ResetRecvBuffer]
      /\ delivered = [e \in Ends |-> << >>]
      /\ net = {}
  BY DEF Init
<1>2. \A e \in Ends : Other[e] \in Ends
  BY TransferAssumption
<1>3. ResetSendBuffer \in SendBuffer
  BY DEF ResetSendBuffer, SendBuffer
<1>4. SenderOK(ResetSendBuffer, 0, ResetRecvBuffer.first_seq)
  <2>1. /\ Len(ResetSendBuffer.seg) = 0 /\ ResetSendBuffer.seg = << >>
        /\ Held(ResetSendBuffer) = {}
        /\ ResetSendBuffer.window = {} /\ ResetSendBuffer.send_data = {}
    BY DEF ResetSendBuffer, Held
  <2>2. SendInv(ResetSendBuffer)
    BY <1>3, <2>1 DEF SendInv
  <2>3. Cardinality(ResetSendBuffer.window) <= Limit
    BY <2>1, FS_EmptySet, LimitBounds
  <2>4. Contiguous(ResetSendBuffer)
    BY <2>1 DEF Contiguous
  <2>5. Accounted(ResetSendBuffer, 0)
    <3>1. Written(ResetSendBuffer) = 0 /\ End(ResetSendBuffer, 0) = 0
      BY <2>1 DEF Written, End
    <3>2. 0 \in 0..0 /\ (0 + 1)..0 = {}
      OBVIOUS
    <3> QED
      BY <2>1, <3>1, <3>2 DEF Accounted
  <2> QED
    BY <2>1, <2>2, <2>3, <2>4, <2>5 DEF SenderOK
<1>5. ReceiverOK(ResetRecvBuffer, ResetSendBuffer)
  <2>1. DOMAIN ResetRecvBuffer.recv_window = {}
    BY DEF ResetRecvBuffer
  <2>2. RecvInv(ResetRecvBuffer)
    BY <2>1, IntervalAssumption DEF RecvInv, RecvBuffer, ResetRecvBuffer
  <2>3. ResetRecvBuffer.first_seq = 0
    BY DEF ResetRecvBuffer
  <2> QED
    BY <2>1, <2>2, <2>3 DEF ReceiverOK
<1>8. ReaderOK(ResetSendBuffer, ResetRecvBuffer, << >>)
  <2>1. ResetRecvBuffer.recv_data = << >> /\ ResetRecvBuffer.first_seq = 0
    BY DEF ResetRecvBuffer
  <2>2. Run(0, 0) = << >>
    <3>1. Run(0, 0) \in Seq(Nat) /\ Len(Run(0, 0)) = 0
      BY RunType
    <3> QED
      BY <3>1, EmptySeq
  <2>3. End(ResetSendBuffer, 0) = 0
    BY DEF End
  <2>4. << >> \in Seq(Nat) /\ << >> \o << >> = << >>
    OBVIOUS
  <2> QED
    BY <2>1, <2>2, <2>3, <2>4 DEF ReaderOK
<1>6. /\ snd \in [Ends -> SendBuffer]
      /\ rcv \in [Ends -> {rcv[e] : e \in Ends}]
      /\ size \in [Ends -> Nat]
      /\ delivered \in [Ends -> Seq(Nat)]
  BY <1>1, <1>3
<1>7. \A e \in Ends : /\ snd[e] = ResetSendBuffer /\ rcv[e] = ResetRecvBuffer
                      /\ size[e] = 0 /\ delivered[e] = << >>
  BY <1>1
<1> QED
  BY <1>1, <1>2, <1>4, <1>5, <1>6, <1>7, <1>8 DEF IInv

\* Every handler, and the network, preserves the invariant, and is
\* a step of the two byte streams or none.
LEMMA NextOK == IInv /\ [Next]_vars => IInv' /\ StreamStep
<1> SUFFICES ASSUME IInv, [Next]_vars
             PROVE  IInv' /\ StreamStep
  OBVIOUS
<1>1. ASSUME NEW e \in Ends, Send(e)
      PROVE  IInv' /\ StreamStep
  BY <1>1, AppSendKeeps DEF Send
<1>2. ASSUME NEW e \in Ends, Recv(e)
      PROVE  IInv' /\ StreamStep
  BY <1>2, AppRecvKeeps DEF Recv
<1>3. ASSUME NEW e \in Ends, Timer(e)
      PROVE  IInv' /\ StreamStep
  BY <1>3, HeartbeatKeeps DEF Timer
<1>4. ASSUME NEW m \in net, Process(m.to, m)
      PROVE  IInv' /\ StreamStep
  BY <1>4, ProcessDataKeeps, ProcessDataAckKeeps, ProcessDataNackKeeps DEF Process
<1>5. ASSUME NEW m \in net, Lose(m)
      PROVE  IInv' /\ StreamStep
  BY <1>5, RestKeeps DEF Lose
<1>6. CASE UNCHANGED vars
  BY <1>6, RestKeeps DEF vars
<1> QED
  BY <1>1, <1>2, <1>3, <1>4, <1>5, <1>6 DEF Next

\* The inductive invariant holds in every reachable state: no handler, and
\* nothing the network does to packets, breaks it.
THEOREM Invariance == Spec => []IInv
<1> QED
  BY InitOK, NextOK, PTL DEF Spec

---------------------------------------------------------------------------
(* What follows from it.                                                   *)

\* The two buffers and the packets keep their types in every reachable state:
\* no handler of rudp_socket.cpp leaves a buffer with a segment, a window or a
\* packet of another shape.
THEOREM BuffersType == Spec => []BuffersTypeOK
<1>1. IInv => BuffersTypeOK
  <2>1. SUFFICES ASSUME IInv
                 PROVE  BuffersTypeOK
    OBVIOUS
  <2>2. ASSUME NEW e \in Ends
        PROVE  /\ rcv[e].first_seq \in Nat /\ rcv[e].max_seq \in Nat
               /\ DOMAIN rcv[e].recv_window \subseteq Nat
               /\ \A q \in DOMAIN rcv[e].recv_window : rcv[e].recv_window[q] \in Chunk
               /\ rcv[e].loss_map \subseteq Nat
               /\ rcv[e].recv_new \in BOOLEAN
    <3>1. ReceiverOK(rcv[e], snd[Other[e]]) /\ SenderOK(snd[Other[e]], size[Other[e]], rcv[e].first_seq)
      <4>1. Other[e] \in Ends /\ Other[Other[e]] = e
        BY TransferAssumption
      <4> QED
        BY <2>1, <4>1 DEF IInv
    <3>2. RecvInv(rcv[e]) /\ snd[Other[e]].seg \in Seq(Chunk)
      BY <3>1 DEF ReceiverOK, SenderOK, SendInv, SendBuffer
    <3>3. \A q \in DOMAIN rcv[e].recv_window : rcv[e].recv_window[q] \in Chunk
      BY <3>1, <3>2 DEF ReceiverOK, IsSent
    <3> QED
      BY <3>2, <3>3 DEF RecvInv, RecvBuffer
  <2>3. \A m \in net : m \in Data \/ m \in DataAck \/ m \in DataNack
    BY <2>1 DEF IInv, PacketOK
  <2>4. snd \in [Ends -> SendBuffer] /\ DOMAIN rcv = Ends
    BY <2>1 DEF IInv
  <2> QED
    BY <2>2, <2>3, <2>4 DEF BuffersTypeOK
<1> QED
  BY <1>1, Invariance, PTL

\* A segment on_ack has freed is in the in-order prefix of the peer's receive
\* buffer, for any loss, repetition and reordering of acknowledgements.
THEOREM AckedReceived == Spec => []AckedIsReceived
<1>1. IInv => AckedIsReceived
  BY DEF IInv, AckedIsReceived, SenderOK, Held
<1> QED
  BY <1>1, Invariance, PTL

\* send_window_ and send_data_ of a send buffer are one run of consecutive
\* segments, and attempt_send never lets more segments out than the largest
\* congestion window.
THEOREM WindowContiguous == Spec => []WindowIsContiguous
<1>1. ASSUME IInv, NEW e \in Ends
      PROVE  LET s == snd[e] IN
             /\ \A q \in s.window \cup s.send_data : q..Len(s.seg) \subseteq s.window \cup s.send_data
             /\ \A q \in s.window, p \in s.send_data : q < p
             /\ s.window # {} => Cardinality(s.window) <= Max(CwndSizes)
  <2>1. SenderOK(snd[e], size[e], rcv[Other[e]].first_seq)
    BY <1>1, EndOK
  <2>2. SendInv(snd[e]) /\ Cardinality(snd[e].window) <= Limit
    BY <2>1 DEF SenderOK
  <2>3. ASSUME snd[e].window # {}
        PROVE  Cardinality(snd[e].window) <= Max(CwndSizes)
    <3>1. IsFiniteSet(snd[e].window) /\ Cardinality(snd[e].window) \in Nat
      BY <2>2, HeldIsFinite DEF Held
    <3>2. Cardinality(snd[e].window) # 0
      BY <2>3, <3>1, FS_EmptySet
    <3> QED
      BY <2>2, <3>1, <3>2 DEF Limit
  <2> QED
    BY <2>2, <2>3 DEF SendInv, Held
<1>2. IInv => WindowIsContiguous
  BY <1>1 DEF WindowIsContiguous
<1> QED
  BY <1>2, Invariance, PTL

\* A data segment in flight to a receiver never makes on_data report an
\* exception, however large the intervals are.
THEOREM NoException == Spec => []NoSpuriousException
<1>1. ASSUME IInv, NEW m \in net, m.type = "DATA"
      PROVE  ~OutOfRange(rcv[m.to], m.seq)
  <2>1. m.to \in Ends /\ m \in Data /\ m.seq <= rcv[m.to].first_seq + MaxSeqInterval
    BY <1>1 DEF IInv, PacketOK, DataAck, DataNack
  <2>2. m.seq \in Nat /\ rcv[m.to].first_seq \in Nat /\ MaxSeqInterval \in Nat
    BY <1>1, <2>1, EndOK, LimitBounds DEF Data
  <2> QED
    BY <2>1, <2>2 DEF OutOfRange
<1>2. IInv => NoSpuriousException
  BY <1>1 DEF NoSpuriousException
<1> QED
  BY <1>2, Invariance, PTL

\* What is in flight or waits in recv_window_ under a sequence number is what
\* the sender holds under it: send never changes a segment that is out.
THEOREM SegmentsStable == Spec => []SegmentsAreStable
<1>1. ASSUME IInv, NEW m \in net, m.type = "DATA"
      PROVE  m.seq \in 1..Len(snd[Other[m.to]].seg) /\ m.data = snd[Other[m.to]].seg[m.seq]
  BY <1>1 DEF IInv, PacketOK, DataAck, DataNack, IsSent
<1>2. ASSUME IInv, NEW e \in Ends, NEW q \in DOMAIN rcv[e].recv_window
      PROVE  /\ q \in rcv[e].first_seq + 2 .. rcv[e].max_seq
             /\ q <= Len(snd[Other[e]].seg) /\ rcv[e].recv_window[q] = snd[Other[e]].seg[q]
  <2>1. ReceiverOK(rcv[e], snd[Other[e]])
    BY <1>2, EndOK
  <2>2. IsSent(snd[Other[e]], q, rcv[e].recv_window[q]) /\ q \in rcv[e].first_seq + 2 .. rcv[e].max_seq
    BY <1>2, <2>1 DEF ReceiverOK, RecvInv
  <2> QED
    BY <2>2 DEF IsSent
<1>3. IInv => SegmentsAreStable
  BY <1>1, <1>2 DEF SegmentsAreStable
<1> QED
  BY <1>3, Invariance, PTL

\* buffer_data_size_ is the number of bytes that send_data_ and send_window_
\* hold: on_ack never has to clamp it at zero, and the bytes send glues onto an
\* unsent segment are counted once.
THEOREM BufferAccounted == Spec => []BufferAccounting
<1>1. ASSUME IInv, NEW e \in Ends
      PROVE  size[e] = TotalSize(snd[e], snd[e].window \cup snd[e].send_data)
  <2>1. SendInv(snd[e]) /\ Contiguous(snd[e]) /\ Accounted(snd[e], size[e])
    BY <1>1, EndOK DEF SenderOK
  <2> QED
    BY <2>1, AccountedIs DEF Held
<1>2. IInv => BufferAccounting
  BY <1>1 DEF BufferAccounting
<1> QED
  BY <1>2, Invariance, PTL

\* The two applications see two byte streams: what recv returns is the next
\* bytes of what the peer gave to send, in order and once, whatever the network
\* does to the packets and wherever the segments were cut.
THEOREM ImplementsStream == Spec => ImplementsByteStream
<1>1. Init => Stream!Init
  <2>1. SUFFICES ASSUME Init
                 PROVE  Stream!Init
    OBVIOUS
  <2>2. Written(ResetSendBuffer) = 0
    BY DEF Written, ResetSendBuffer
  <2>3. \A e \in Ends : Written(snd[e]) = 0
    BY <2>1, <2>2 DEF Init
  <2>4. delivered = [e \in Ends |-> << >>]
    BY <2>1 DEF Init
  <2> QED
    BY <2>3, <2>4 DEF Stream!Init
<1>2. IInv /\ [Next]_vars => StreamStep
  BY NextOK
<1>3. StreamStep => [Stream!Next]_<<[e \in Ends |-> Written(snd[e])], delivered>>
  BY DEF StreamStep
<1> QED
  BY <1>1, <1>2, <1>3, Invariance, PTL DEF Spec, ImplementsByteStream, Stream!Spec

---------------------------------------------------------------------------
(* What a handler tells the peer of its receiver.                          *)

\* What the step that takes the receiver of e from r to r2, with the packets N
\* in flight after it, says of its progress and of its gaps.
Announced(e, r, r2, N) ==
  /\ r.recv_new /\ ~r2.recv_new =>
       \E m \in N : m.to = Other[e] /\ r2.first_seq =
                       (IF m.type = "DATA_NACK" THEN m.base ELSE m.ack)
  /\ r.first_seq < r2.first_seq => r2.recv_new

GapsKnown(e, r, r2, N) ==
  LET has(q) == q <= r2.first_seq \/ q \in DOMAIN r2.recv_window
  IN /\ \A q \in r.max_seq + 1 .. r2.max_seq : has(q) \/ q \in r2.loss_map
     /\ \A q \in r.loss_map \ r2.loss_map :
          has(q) \/ \E m \in N : m.to = Other[e] /\ m.type = "DATA_NACK"
                                 /\ q \in {m.base + i : i \in m.ids}

Told(e, r, r2, N) == Announced(e, r, r2, N) /\ GapsKnown(e, r, r2, N)

\* The step at e tells of its receiver, and the other one stays as it is.
ToldAt(e) == \E r2 : rcv' = [rcv EXCEPT ![e] = r2] /\ Told(e, rcv[e], r2, net')

\* A data segment in N tells the peer of e that the prefix of r ends here.
AckCarried(e, r, N) ==
  \E m \in N : m.to = Other[e] /\ m.type = "DATA" /\ m.ack = r.first_seq

\* A receiver that stays as it is has nothing to tell.
LEMMA SameTold ==
  ASSUME NEW r, RecvInv(r), NEW e, NEW N
  PROVE  Told(e, r, r, N)
<1>1. r.first_seq \in Nat /\ r.max_seq \in Nat
  BY DEF RecvInv, RecvBuffer
<1>2. r.max_seq + 1 .. r.max_seq = {}
  BY <1>1
<1> QED
  BY <1>1, <1>2 DEF Told, Announced, GapsKnown

\* Every data segment of attempt_send carries the acknowledgement, so one of
\* them is enough for recv_new_packet_ to be cleared.
LEMMA DataTells ==
  ASSUME NEW r, RecvInv(r), NEW e, NEW s, NEW sent, NEW N,
         DataPackets(e, s, sent, r.first_seq) \subseteq N
  PROVE  /\ Told(e, r, Piggybacked(r, sent), N)
         /\ sent # {} => AckCarried(e, r, N)
<1>1. sent # {} => AckCarried(e, r, N)
  <2>1. SUFFICES ASSUME NEW q \in sent
                 PROVE  AckCarried(e, r, N)
    OBVIOUS
  <2>2. PICK m \in N : m = [to |-> Other[e], type |-> "DATA", ack |-> r.first_seq,
                            seq |-> q, data |-> s.seg[q]]
    BY <2>1 DEF DataPackets
  <2>3. m.to = Other[e] /\ m.type = "DATA" /\ m.ack = r.first_seq
    BY <2>2
  <2> QED
    BY <2>3 DEF AckCarried
<1>2. /\ AckSent(r).first_seq = r.first_seq /\ AckSent(r).max_seq = r.max_seq
      /\ AckSent(r).loss_map = r.loss_map /\ AckSent(r).recv_new = FALSE
      /\ r.first_seq \in Nat /\ r.max_seq \in Nat
  BY DEF AckSent, RecvInv, RecvBuffer
<1>3. r.max_seq + 1 .. r.max_seq = {} /\ ~(r.first_seq < r.first_seq)
  BY <1>2
<1>4. CASE sent = {}
  BY <1>1, <1>4, SameTold DEF Piggybacked
<1>5. CASE sent # {}
  <2>1. Piggybacked(r, sent) = AckSent(r)
    BY <1>5 DEF Piggybacked
  <2> HIDE DEF AckSent
  <2>2. Announced(e, r, AckSent(r), N) /\ GapsKnown(e, r, AckSent(r), N)
    BY <1>1, <1>2, <1>3, <1>5 DEF Announced, GapsKnown, AckCarried
  <2> QED
    BY <1>1, <2>1, <2>2 DEF Told
<1> QED
  BY <1>4, <1>5

\* RUDPSocket::send and recv
LEMMA AppTells ==
  ASSUME IInv, NEW e \in Ends, Send(e) \/ Recv(e)
  PROVE  ToldAt(e)
<1>1. RecvInv(rcv[e])
  BY EndOK DEF ReceiverOK
<1>2. ASSUME NEW n, NEW cwnd, NEW due, NEW young, AppSend(e, n, cwnd, due, young)
      PROVE  ToldAt(e)
  <2> DEFINE s == Queue(snd[e], n)
             sent == Sent(s, cwnd, due, young)
             r2 == Piggybacked(rcv[e], sent)
  <2>1. /\ rcv' = [rcv EXCEPT ![e] = r2]
        /\ DataPackets(e, s, sent, rcv[e].first_seq) \subseteq net'
    BY <1>2 DEF AppSend, Emit
  <2> HIDE DEF s, sent
  <2> QED
    BY <1>1, <2>1, DataTells DEF ToldAt
<1>3. ASSUME NEW n, AppRecv(e, n)
      PROVE  ToldAt(e)
  <2> DEFINE r2 == Read(rcv[e], n)
  <2>1. rcv' = [rcv EXCEPT ![e] = r2]
    BY <1>3 DEF AppRecv
  <2>2. /\ r2.first_seq = rcv[e].first_seq /\ r2.max_seq = rcv[e].max_seq
        /\ r2.loss_map = rcv[e].loss_map /\ r2.recv_new = rcv[e].recv_new
        /\ rcv[e].first_seq \in Nat /\ rcv[e].max_seq \in Nat
    BY <1>1 DEF Read, RecvInv, RecvBuffer
  <2> HIDE DEF r2
  <2>3. rcv[e].max_seq + 1 .. rcv[e].max_seq = {} /\ ~(rcv[e].first_seq < rcv[e].first_seq)
    BY <2>2
  <2>4. Told(e, rcv[e], r2, net')
    BY <2>2, <2>3 DEF Told, Announced, GapsKnown
  <2> QED
    BY <2>1, <2>4 DEF ToldAt
<1> QED
  BY <1>2, <1>3 DEF Send, Recv

\* process_data: what leaves while the acknowledgement is processed tells how
\* far the receiver was; the data is noticed after that.
LEMMA ProcessDataTells ==
  ASSUME IInv, NEW m \in net, m.type = "DATA", NEW cwnd, NEW due, NEW young,
         ProcessData(m.to, m, cwnd, due, young)
  PROVE  ToldAt(m.to)
<1> DEFINE e == m.to
           acc == Accepts(snd[e], m.ack)
           s1  == IF acc THEN Ack(snd[e], m.ack) ELSE snd[e]
           out == IF acc THEN Sent(s1, cwnd, due, young) ELSE {}
           s2  == IF acc THEN AttemptSend(s1, cwnd, due, young) ELSE s1
           b   == IF acc THEN FreedSize(snd[e], m.ack, size[e]) ELSE size[e]
<1>1. e \in Ends /\ m.seq \in Nat
  BY DEF IInv, PacketOK, Data, DataAck, DataNack
<1>2. PICK n \in (IF acc THEN OutputEvent(e, s2, b) ELSE {0}) :
        LET more == WriteSent(s2, n, cwnd, {}, young)
            s3   == Write(s2, n, cwnd, {}, young)
            r    == Piggybacked(rcv[e], out \cup more)
        IN /\ \E r2 \in OnData(r, m.seq, m.data) : rcv' = [rcv EXCEPT ![e] = r2]
           /\ \E rest \in {net, net \ {m}} :
                net' = rest \cup (DataPackets(e, s2, out, r.first_seq)
                                    \cup DataPackets(e, s3, more, r.first_seq))
  BY ZenonT(120) DEF ProcessData, Emit
<1> DEFINE more == WriteSent(s2, n, cwnd, {}, young)
           s3   == Write(s2, n, cwnd, {}, young)
           r0   == rcv[e]
           r    == Piggybacked(r0, out \cup more)
<1>3. PICK r2 \in OnData(r, m.seq, m.data) : rcv' = [rcv EXCEPT ![e] = r2]
  BY <1>2
<1>4. /\ DataPackets(e, s2, out, r.first_seq) \subseteq net'
      /\ DataPackets(e, s3, more, r.first_seq) \subseteq net'
  BY <1>2
<1> HIDE DEF acc, s1, out, s2, b, more, s3
<1>5. /\ RecvInv(r0) /\ RecvInv(r)
      /\ r.first_seq = r0.first_seq /\ r0.first_seq \in Nat
      /\ r.max_seq = r0.max_seq /\ r.loss_map = r0.loss_map
      /\ r0.recv_new /\ out \cup more = {} => r.recv_new
  <2>1. RecvInv(r0)
    BY <1>1, EndOK DEF ReceiverOK
  <2> QED
    BY <2>1 DEF Piggybacked, AckSent, RecvInv, RecvBuffer
<1> HIDE DEF r0, r
<1>6. out \cup more # {} => AckCarried(e, r0, net')
  <2>1. /\ DataPackets(e, s2, out, r0.first_seq) \subseteq net'
        /\ DataPackets(e, s3, more, r0.first_seq) \subseteq net'
    BY <1>4, <1>5
  <2>2. out # {} => AckCarried(e, r0, net')
    BY <1>5, <2>1, DataTells
  <2>3. more # {} => AckCarried(e, r0, net')
    BY <1>5, <2>1, DataTells
  <2> QED
    BY <2>2, <2>3
<1>7. /\ ~r2.recv_new => ~r.recv_new /\ r2.first_seq = r.first_seq
      /\ GapsNoticed(r, r2)
  BY <1>1, <1>3, <1>5, OnDataNotices
<1>8. Announced(e, r0, r2, net')
  BY <1>5, <1>6, <1>7 DEF Announced, AckCarried
<1>9. GapsKnown(e, r0, r2, net')
  BY <1>5, <1>7 DEF GapsKnown, GapsNoticed
<1> QED
  BY <1>3, <1>8, <1>9 DEF Told, ToldAt, r0

\* process_data_ack and process_data_nack
LEMMA AcksTell ==
  ASSUME IInv, NEW m \in net, NEW cwnd, NEW due, NEW young,
         \/ m.type = "DATA_ACK" /\ ProcessDataAck(m.to, m, cwnd, due, young)
         \/ m.type = "DATA_NACK" /\ ProcessDataNack(m.to, m, cwnd, due, young)
  PROVE  ToldAt(m.to)
<1> DEFINE e == m.to
<1>1. e \in Ends /\ RecvInv(rcv[e])
  <2>1. e \in Ends
    BY DEF IInv
  <2> QED
    BY <2>1, EndOK DEF ReceiverOK
<1>2. PICK s, out : /\ rcv' = [rcv EXCEPT ![e] = Piggybacked(rcv[e], out)]
                    /\ DataPackets(e, s, out, rcv[e].first_seq) \subseteq net'
  <2>1. ASSUME m.type = "DATA_ACK", ProcessDataAck(m.to, m, cwnd, due, young)
        PROVE  \E s, out : /\ rcv' = [rcv EXCEPT ![e] = Piggybacked(rcv[e], out)]
                           /\ DataPackets(e, s, out, rcv[e].first_seq) \subseteq net'
    <3> DEFINE acc == Accepts(snd[e], m.ack)
               s1  == IF acc THEN Ack(snd[e], m.ack) ELSE snd[e]
               out == IF acc THEN Sent(s1, cwnd, due, young) ELSE {}
    <3>1. /\ rcv' = [rcv EXCEPT ![e] = Piggybacked(rcv[e], out)]
          /\ DataPackets(e, s1, out, rcv[e].first_seq) \subseteq net'
      BY <2>1 DEF ProcessDataAck, Emit
    <3> HIDE DEF acc, s1, out
    <3> QED
      BY <3>1
  <2>2. ASSUME m.type = "DATA_NACK", ProcessDataNack(m.to, m, cwnd, due, young)
        PROVE  \E s, out : /\ rcv' = [rcv EXCEPT ![e] = Piggybacked(rcv[e], out)]
                           /\ DataPackets(e, s, out, rcv[e].first_seq) \subseteq net'
    <3> DEFINE s0  == ReportLoss(snd[e], m.base, m.ids)
               acc == Accepts(s0, m.base)
               s1  == IF acc THEN Ack(s0, m.base) ELSE s0
               s2  == IF acc THEN AttemptSend(s1, cwnd, due, young) ELSE s1
               out == IF acc THEN Sent(s1, cwnd, due, young)
                                  \cup Sent(s2, cwnd, due \ Sent(s1, cwnd, due, young), young)
                      ELSE {}
    <3>1. /\ rcv' = [rcv EXCEPT ![e] = Piggybacked(rcv[e], out)]
          /\ DataPackets(e, s2, out, rcv[e].first_seq) \subseteq net'
      BY <2>2 DEF ProcessDataNack, Emit
    <3> HIDE DEF s0, acc, s1, s2, out
    <3> QED
      BY <3>1
  <2> QED
    BY <2>1, <2>2
<1> QED
  BY <1>1, <1>2, DataTells DEF ToldAt

\* heartbeat: a NACK names what check_loss takes out of loss_map_, and the
\* NACK, the acknowledgement or a data segment tells how far the receiver is.
LEMMA HeartbeatTells ==
  ASSUME IInv, NEW e \in Ends, NEW expired, NEW late \in BOOLEAN,
         NEW cwnd, NEW due, NEW young,
         Heartbeat(e, expired, late, cwnd, due, young)
  PROVE  ToldAt(e)
<1> DEFINE r0   == rcv[e]
           r    == OnTimer(r0, expired, late)
           lost == Reported(r0, expired)
           sent == Sent(snd[e], cwnd, due, young)
           r2   == Piggybacked(r, sent)
<1>1. /\ rcv' = [rcv EXCEPT ![e] = r2]
      /\ DataPackets(e, snd[e], sent, r.first_seq) \subseteq net'
      /\ lost # {} => NackPacket(e, r.first_seq, lost) \in net'
      /\ AckDue(r0, expired, late) => AckPacket(e, r.first_seq) \in net'
  BY DEF Heartbeat, Emit
<1>2. RecvInv(r0) /\ RecvInv(r)
  BY EndOK, OthersKeep DEF ReceiverOK, SameWindow
<1>3. /\ r.first_seq = r0.first_seq /\ r.max_seq = r0.max_seq
      /\ r.recv_window = r0.recv_window
      /\ r.loss_map = {q \in r0.loss_map : q > r0.first_seq} \ lost
      /\ r0.recv_new /\ ~r.recv_new => lost # {} \/ AckDue(r0, expired, late)
  BY <1>2 DEF OnTimer, AckDue, AckSent, CheckLoss, RecvInv, RecvBuffer
<1>4. r0.first_seq \in Nat /\ r0.max_seq \in Nat /\ r0.max_seq + 1 .. r0.max_seq = {}
  BY <1>2 DEF RecvInv, RecvBuffer
<1>5. /\ r2.first_seq = r.first_seq /\ r2.max_seq = r.max_seq
      /\ r2.recv_window = r.recv_window /\ r2.loss_map = r.loss_map
      /\ r.recv_new /\ sent = {} => r2.recv_new
  BY <1>2 DEF Piggybacked, AckSent, RecvInv, RecvBuffer
<1>6. sent # {} => AckCarried(e, r0, net')
  <2>1. DataPackets(e, snd[e], sent, r0.first_seq) \subseteq net'
    BY <1>1, <1>3
  <2> HIDE DEF r0, sent
  <2> QED
    BY <1>2, <2>1, DataTells
<1>7. \A q \in lost : q \in {r0.first_seq + i : i \in {(p - r0.first_seq) % IdRange : p \in lost}}
  <2>1. SUFFICES ASSUME NEW q \in lost
                 PROVE  \E p \in lost : q = r0.first_seq + ((p - r0.first_seq) % IdRange)
    OBVIOUS
  <2>2. q \in Nat /\ q > r0.first_seq /\ q <= r0.first_seq + MaxSeqInterval
    BY <1>2, <1>4, <2>1, IntervalAssumption DEF Reported, RecvInv, RecvBuffer
  <2>3. IdRange \in Nat /\ MaxSeqInterval \in Nat /\ MaxSeqInterval < IdRange
    BY TransferAssumption, IntervalAssumption
  <2>4. q - r0.first_seq \in 0..(IdRange - 1)
    BY <1>4, <2>2, <2>3
  <2>5. (q - r0.first_seq) % IdRange = q - r0.first_seq
    BY <2>3, <2>4
  <2>6. q = r0.first_seq + (q - r0.first_seq)
    BY <1>4, <2>2
  <2> HIDE DEF lost, r0
  <2> QED
    BY <2>1, <2>5, <2>6
<1> HIDE DEF r0, r, lost, sent, r2
<1>8. Announced(e, r0, r2, net')
  <2>1. ~(r0.first_seq < r2.first_seq)
    BY <1>3, <1>4, <1>5
  <2>2. ASSUME r0.recv_new, ~r2.recv_new
        PROVE  \E m \in net' : m.to = Other[e] /\ r2.first_seq =
                                 (IF m.type = "DATA_NACK" THEN m.base ELSE m.ack)
    <3>1. CASE sent # {}
      BY <1>3, <1>5, <1>6, <3>1 DEF AckCarried
    <3>2. CASE lost # {}
      BY <1>1, <1>3, <1>5, <3>2 DEF NackPacket
    <3>3. CASE AckDue(r0, expired, late)
      BY <1>1, <1>3, <1>5, <3>3 DEF AckPacket
    <3> QED
      BY <1>3, <1>5, <2>2, <3>1, <3>2, <3>3
  <2> QED
    BY <2>1, <2>2 DEF Announced
<1>9. GapsKnown(e, r0, r2, net')
  <2>1. ASSUME NEW q \in r0.loss_map \ r2.loss_map, q > r0.first_seq
        PROVE  \E m \in net' : m.to = Other[e] /\ m.type = "DATA_NACK"
                               /\ q \in {m.base + i : i \in m.ids}
    <3>1. q \in lost
      BY <1>3, <1>5, <2>1
    <3>2. NackPacket(e, r0.first_seq, lost) \in net'
      BY <1>1, <1>3, <3>1
    <3>3. q \in {NackPacket(e, r0.first_seq, lost).base + i : i \in NackPacket(e, r0.first_seq, lost).ids}
      BY <1>7, <3>1 DEF NackPacket
    <3>4. /\ NackPacket(e, r0.first_seq, lost).to = Other[e]
          /\ NackPacket(e, r0.first_seq, lost).type = "DATA_NACK"
      BY DEF NackPacket
    <3> QED
      BY <3>2, <3>3, <3>4
  <2>2. r0.loss_map \subseteq Nat
    BY <1>2 DEF RecvInv, RecvBuffer
  <2>3. \A q \in r0.loss_map \ r2.loss_map : q <= r2.first_seq \/ q > r0.first_seq
    BY <1>3, <1>4, <1>5, <2>2
  <2> QED
    BY <1>3, <1>4, <1>5, <2>1, <2>3 DEF GapsKnown
<1> QED
  BY <1>1, <1>8, <1>9 DEF Told, ToldAt, r0

\* Every step tells of every receiver.
LEMMA NextTells ==
  ASSUME IInv, [Next]_vars
  PROVE  \A e \in Ends : Told(e, rcv[e], rcv'[e], net')
<1>1. ASSUME NEW e \in Ends, ToldAt(e)
      PROVE  \A x \in Ends : Told(x, rcv[x], rcv'[x], net')
  <2>1. PICK r2 : rcv' = [rcv EXCEPT ![e] = r2] /\ Told(e, rcv[e], r2, net')
    BY <1>1 DEF ToldAt
  <2>2. DOMAIN rcv = Ends
    BY DEF IInv
  <2>3. ASSUME NEW x \in Ends, x # e
        PROVE  Told(x, rcv[x], rcv[x], net')
    BY EndOK, SameTold DEF ReceiverOK
  <2>4. rcv'[e] = r2 /\ \A x \in Ends : x # e => rcv'[x] = rcv[x]
    BY <2>1, <2>2
  <2> QED
    BY <2>1, <2>3, <2>4
<1>2. ASSUME rcv' = rcv
      PROVE  \A x \in Ends : Told(x, rcv[x], rcv'[x], net')
  <2>1. ASSUME NEW x \in Ends
        PROVE  Told(x, rcv[x], rcv[x], net')
    BY EndOK, SameTold DEF ReceiverOK
  <2> QED
    BY <1>2, <2>1
<1>3. ASSUME NEW e \in Ends, Send(e) \/ Recv(e) \/ Timer(e)
      PROVE  ToldAt(e)
  BY <1>3, AppTells, HeartbeatTells DEF Timer
<1>4. ASSUME NEW m \in net, Process(m.to, m)
      PROVE  m.to \in Ends /\ ToldAt(m.to)
  <2>1. m.to \in Ends
    BY DEF IInv
  <2> QED
    BY <1>4, <2>1, ProcessDataTells, AcksTell DEF Process
<1>5. ASSUME NEW m \in net, Lose(m)
      PROVE  rcv' = rcv
  BY <1>5 DEF Lose
<1>6. CASE UNCHANGED vars
  BY <1>2, <1>6 DEF vars
<1> QED
  BY <1>1, <1>2, <1>3, <1>4, <1>5, <1>6 DEF Next

\* recv_new_packet_ is cleared only by a step that tells the peer how far the
\* receiver got, and every step that gets it further sets it.
THEOREM AcksAnnounced == Spec => AcksAreAnnounced
<1>1. IInv /\ [Next]_vars => \A e \in Ends : Announced(e, rcv[e], rcv'[e], net')
  BY NextTells DEF Told
<1>2. IInv /\ [Next]_vars =>
        [\A e \in Ends :
           /\ rcv[e].recv_new /\ ~rcv'[e].recv_new =>
                \E m \in net' : m.to = Other[e] /\ rcv'[e].first_seq =
                                   (IF m.type = "DATA_NACK" THEN m.base ELSE m.ack)
           /\ rcv[e].first_seq < rcv'[e].first_seq => rcv'[e].recv_new]_vars
  BY <1>1 DEF Announced
<1> QED
  BY <1>2, Invariance, PTL DEF Spec, AcksAreAnnounced

\* A segment that on_data finds missing is in loss_map_, and leaves it only when
\* it has arrived or a NACK that names it is sent.
THEOREM GapsReported == Spec => GapsAreReported
<1>1. IInv /\ [Next]_vars => \A e \in Ends : GapsKnown(e, rcv[e], rcv'[e], net')
  BY NextTells DEF Told
<1>2. IInv /\ [Next]_vars =>
        [\A e \in Ends :
           LET r == rcv'[e]
               has(q) == q <= r.first_seq \/ q \in DOMAIN r.recv_window
           IN /\ \A q \in rcv[e].max_seq + 1 .. r.max_seq : has(q) \/ q \in r.loss_map
              /\ \A q \in rcv[e].loss_map \ r.loss_map :
                   has(q) \/ \E m \in net' : m.to = Other[e] /\ m.type = "DATA_NACK"
                                             /\ q \in {m.base + i : i \in m.ids}]_vars
  BY <1>1 DEF GapsKnown
<1> QED
  BY <1>2, Invariance, PTL DEF Spec, GapsAreReported
===========================================================================
