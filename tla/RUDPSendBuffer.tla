-------------------------- MODULE RUDPSendBuffer --------------------------
(***************************************************************************)
(* class RUDPSendBuffer (common/rudp/rudp_send_buffer.cpp): the segments   *)
(* an endpoint has cut from the stream its application writes, those it    *)
(* has sent and not seen acknowledged, and the set of sequence numbers the *)
(* peer reported lost.                                                     *)
(*                                                                         *)
(* The buffer is a record; a method is an operator from the record before  *)
(* the call to the record after it.  Sequence numbers are relative to the  *)
(* random start of reset(), so the first segment is number 1.  A segment   *)
(* carries bytes lo..hi of the stream.  Clocks are abstracted to what the  *)
(* comparisons with them select: "due" are the segments whose timestamps   *)
(* are old enough to be sent again; "young" says that the last segment cut *)
(* (the only one that is not full) is too new for NAGLE to let it go.      *)
(***************************************************************************)
EXTENDS Naturals, Sequences, FiniteSets, FiniteSetsExt

CONSTANTS
  SegSize,    \* MAX_SEGMENT_SIZE, in bytes
  NagleSize,  \* MAX_SEGMENT_SIZE - 256: a segment this long is never delayed
  Nagle       \* nagle_, set by setoption(RUDP_NAGLE)

ASSUME SegmentAssumption ==
  /\ SegSize \in Nat \ {0}
  /\ NagleSize \in 0..SegSize
  /\ Nagle \in BOOLEAN

Chunk == [lo : Nat, hi : Nat]
Size(c) == (c.hi + 1) - c.lo

SendBuffer ==
  [ seg       : Seq(Chunk),    \* every segment cut so far; Len(seg) + 1 = buffer_seq_
    window    : SUBSET Nat,    \* keys of send_window_: sent, not acknowledged
    send_data : SUBSET Nat,    \* send_data_: cut, not sent; the list is in seq order
    loss_set  : SUBSET Nat,    \* loss_set_
    cwnd_max  : Nat,           \* cwnd_max_seq_
    dest_max  : Nat ]          \* dest_max_seq_

ResetSendBuffer ==
  [ seg |-> << >>, window |-> {}, send_data |-> {}, loss_set |-> {},
    cwnd_max |-> 1, dest_max |-> 0 ]

\* The bytes of a set of segments.
TotalSize(s, S) == MapThenSumSet(LAMBDA q : Size(s.seg[q]), S)

Written(s) == IF s.seg = << >> THEN 0 ELSE s.seg[Len(s.seg)].hi

---------------------------------------------------------------------------
(* send(): glue onto the last unsent segment, cut the rest into segments.  *)

\* Fault: the last segment is extended although it may be on the wire.
Glued_SentToo(s, n) ==
  IF s.seg = << >> THEN 0
  ELSE LET room == SegSize - Size(s.seg[Len(s.seg)]) IN IF room < n THEN room ELSE n

Glued(s, n) ==
  IF s.send_data = {} THEN 0
  ELSE LET room == SegSize - Size(s.seg[Len(s.seg)]) IN IF room < n THEN room ELSE n

\* Last byte of the k-th segment cut from the r bytes that follow byte w.
CutEnd(w, r, k) == IF k * SegSize < r THEN w + k * SegSize ELSE w + r

Queue(s, n) ==
  LET old == Len(s.seg)
      g   == Glued(s, n)
      w   == Written(s) + g
      r   == n - g
      cut == (r + SegSize - 1) \div SegSize
  IN [s EXCEPT
        !.seg = [i \in 1..(old + cut) |->
                   IF i < old THEN s.seg[i]
                   ELSE IF i = old THEN [lo |-> s.seg[i].lo, hi |-> s.seg[i].hi + g]
                   ELSE [lo |-> CutEnd(w, r, i - old - 1) + 1,
                         hi |-> CutEnd(w, r, i - old)]],
        !.send_data = @ \cup (old + 1)..(old + cut)]

---------------------------------------------------------------------------
(* attempt_send(): resend what is lost or, when nothing is reported lost,  *)
(* what has timed out; then send new segments while the window of the      *)
(* congestion control has room.                                            *)

\* Fault: only reported segments are sent again, never those that time out.
Resendable_OnlyReported(s) == s.loss_set \cap s.window

Resendable(s) == IF s.loss_set # {} THEN s.loss_set \cap s.window ELSE s.window

Resent(s, cwnd, due) ==
  LET old == Resendable(s) \cap due
  IN {q \in old : Cardinality({p \in old : p < q}) < cwnd}

InFlight(s, q) == Cardinality(s.window) + Cardinality({p \in s.send_data : p < q})

NagleHolds(s, q, young) ==
  Nagle /\ young /\ InFlight(s, q) > 0 /\ Size(s.seg[q]) < NagleSize

\* Fault: one segment more than the congestion window allows.
Fresh_OneMore(s, cwnd, young) ==
  {q \in s.send_data : \A p \in s.send_data :
      p <= q => InFlight(s, p) <= cwnd /\ ~NagleHolds(s, p, young)}

Fresh(s, cwnd, young) ==
  {q \in s.send_data : \A p \in s.send_data :
      p <= q => InFlight(s, p) < cwnd /\ ~NagleHolds(s, p, young)}

FreshAfter(s, cwnd, due, young) ==
  IF Cardinality(Resent(s, cwnd, due)) < cwnd THEN Fresh(s, cwnd, young) ELSE {}

\* The segments one call of attempt_send puts on the wire.
Sent(s, cwnd, due, young) ==
  Resent(s, cwnd, due) \cup FreshAfter(s, cwnd, due, young)

AttemptSend(s, cwnd, due, young) ==
  LET new  == FreshAfter(s, cwnd, due, young)
      sent == Sent(s, cwnd, due, young)
  IN [s EXCEPT
        !.window    = @ \cup new,
        !.send_data = @ \ new,
        !.loss_set  = IF @ # {} THEN @ \ Resent(s, cwnd, due) ELSE @,
        !.cwnd_max  = IF \E q \in sent : @ < q THEN Max(sent) ELSE @]

---------------------------------------------------------------------------
(* on_ack() and on_nack(), up to their calls of attempt_send.              *)

Accepts(s, seq) == seq <= s.cwnd_max

\* Fault: the acknowledgement is taken for the next segment expected plus one.
Acked_OneMore(s, seq) == {q \in s.window : q <= seq + 1}

Acked(s, seq) == {q \in s.window : q <= seq}

\* The entries of loss_set_ go only with the segment they belong to.
Ack(s, seq) ==
  [s EXCEPT
     !.window   = @ \ Acked(s, seq),
     !.loss_set = @ \ Acked(s, seq),
     !.dest_max = IF s.window # {} /\ @ < seq THEN seq ELSE @]

\* Nothing checks that a reported segment is still in send_window_.
ReportLoss(s, base, ids) ==
  [s EXCEPT !.loss_set =
     @ \cup {base + i : i \in {j \in ids : base + j < s.cwnd_max}}]

\* Fault: every segment is taken to be full.
FreedSize_Full(s, seq, size) ==
  LET freed == SegSize * Cardinality(Acked(s, seq))
  IN IF size > freed THEN size - freed ELSE 0

\* buffer_data_size_ after Ack: never below zero.
FreedSize(s, seq, size) ==
  LET freed == TotalSize(s, Acked(s, seq))
  IN IF size > freed THEN size - freed ELSE 0
===========================================================================
