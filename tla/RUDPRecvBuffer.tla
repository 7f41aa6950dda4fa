-------------------------- MODULE RUDPRecvBuffer --------------------------
(***************************************************************************)
(* class RUDPRecvBuffer (common/rudp/rudp_recv_buffer.cpp): reassembly of  *)
(* the peer's segments, detection of the ones that are missing, and the    *)
(* acknowledgements and loss reports the timer sends.                      *)
(*                                                                         *)
(* As in RUDPSendBuffer, the buffer is a record, a method an operator, and *)
(* a timestamp is what its comparison selects: "expired" are the missing   *)
(* segments noticed long enough ago to be reported.                        *)
(***************************************************************************)
EXTENDS Naturals, Sequences, FiniteSets, SequencesExt

CONSTANT MaxSeqInterval   \* MAX_SEQ_INTNAL

ASSUME IntervalAssumption == MaxSeqInterval \in Nat

ResetRecvBuffer ==
  [ first_seq   |-> 0,        \* first_seq_: everything up to it has arrived
    max_seq     |-> 0,        \* max_seq_
    recv_window |-> << >>,    \* recv_window_: seq -> chunk, arrived out of order
    recv_data   |-> << >>,    \* recv_data_: bytes in order, not read yet
    loss_map    |-> {},       \* keys of loss_map_: missing, not reported yet
    recv_new    |-> FALSE ]   \* recv_new_packet_

\* The bytes of a chunk, and of a sequence of chunks.
Bytes(c) == [i \in 1..(c.hi + 1 - c.lo) |-> c.lo + i - 1]
AllBytes(cs) == FlattenSeq([i \in DOMAIN cs |-> Bytes(cs[i])])

---------------------------------------------------------------------------
(* on_data()                                                               *)

\* Fault: the last sequence number of the interval is refused.
OutOfRange_Tight(r, seq) == seq >= r.first_seq + MaxSeqInterval

OutOfRange(r, seq) == seq > r.first_seq + MaxSeqInterval

\* check_recv_window(): how far the segments reach without a gap once seq
\* has arrived.  A set with one element.
ContiguousUpTo(r, seq) ==
  {f \in seq..(seq + Cardinality(DOMAIN r.recv_window)) :
     /\ (seq + 1)..f \subseteq DOMAIN r.recv_window
     /\ f + 1 \notin DOMAIN r.recv_window}

NextInOrder(r, seq, data, f) ==
  LET moved == [i \in 1..(f + 1 - seq) |->
                  IF i = 1 THEN data ELSE r.recv_window[seq + i - 1]]
  IN [r EXCEPT
        !.first_seq   = f,
        !.recv_window = [q \in DOMAIN @ \ (seq + 1)..f |-> @[q]],
        !.recv_data   = @ \o AllBytes(moved),
        !.loss_map    = @ \ {seq},
        !.recv_new    = TRUE,
        !.max_seq     = IF @ < seq THEN seq ELSE @]

\* Fault: the gap just before the segment is not noticed.
Ahead_ShortGap(r, seq, data) ==
  [r EXCEPT
     !.recv_window = IF seq \in DOMAIN @ THEN @
                     ELSE [q \in DOMAIN @ \cup {seq} |-> IF q = seq THEN data ELSE @[q]],
     !.loss_map    = IF seq > r.max_seq + 1 THEN @ \cup (r.max_seq + 1)..(seq - 2)
                     ELSE @ \ {seq},
     !.max_seq     = IF @ < seq THEN seq ELSE @]

Ahead(r, seq, data) ==
  [r EXCEPT
     !.recv_window = IF seq \in DOMAIN @ THEN @
                     ELSE [q \in DOMAIN @ \cup {seq} |-> IF q = seq THEN data ELSE @[q]],
     !.loss_map    = IF seq > r.max_seq + 1 THEN @ \cup (r.max_seq + 1)..(seq - 1)
                     ELSE @ \ {seq},
     !.max_seq     = IF @ < seq THEN seq ELSE @]

\* Fault: a segment that came before is ignored.
Old_Ignored(r) == r

Old(r) == [r EXCEPT !.recv_new = TRUE]

\* The possible results of on_data(seq, data), one in every case.
OnData(r, seq, data) ==
  IF OutOfRange(r, seq) THEN {r}
  ELSE IF seq = r.first_seq + 1 THEN {NextInOrder(r, seq, data, f) : f \in ContiguousUpTo(r, seq)}
  ELSE IF seq > r.first_seq + 1 THEN {Ahead(r, seq, data)}
  ELSE {Old(r)}

---------------------------------------------------------------------------
(* on_timer(): check_loss, then the acknowledgement.                       *)

Reported(r, expired) == {q \in r.loss_map \cap expired : q > r.first_seq}

\* Fault: the timer forgets that an acknowledgement is due.
CheckLoss_Clears(r, expired) ==
  [r EXCEPT !.loss_map = {q \in @ : q > r.first_seq} \ Reported(r, expired),
            !.recv_new = FALSE]

CheckLoss(r, expired) ==
  [r EXCEPT
     !.loss_map = {q \in @ : q > r.first_seq} \ Reported(r, expired),
     !.recv_new = @ /\ Reported(r, expired) = {}]

AckDue(r, expired, late) == late /\ CheckLoss(r, expired).recv_new

\* set_send_last_ack_ts(): an acknowledgement left, alone or on a data segment.
AckSent(r) == [r EXCEPT !.recv_new = FALSE]

OnTimer(r, expired, late) ==
  IF AckDue(r, expired, late) THEN AckSent(CheckLoss(r, expired)) ELSE CheckLoss(r, expired)

---------------------------------------------------------------------------
(* read(): the first n bytes, across segments.                             *)

ReadSize(r, n) == IF n < Len(r.recv_data) THEN n ELSE Len(r.recv_data)

\* Fault: a read that ends inside a segment does not consume it.
Read_NoShift(r, n) ==
  [r EXCEPT !.recv_data = IF n < Len(@) THEN @ ELSE << >>]

Read(r, n) ==
  [r EXCEPT !.recv_data = SubSeq(@, ReadSize(r, n) + 1, Len(@))]
===========================================================================
