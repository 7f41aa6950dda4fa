------------------------------ MODULE RUDPCcc ------------------------------
(***************************************************************************)
(* class RUDPCCCObject (common/rudp/rudp_ccc.cpp): the congestion control  *)
(* of a connected socket, which decides how many segments RUDPSendBuffer   *)
(* may have in flight.  A method is an operator from the record before the *)
(* call to the record after it, a handler of RUDPSocket that calls it is   *)
(* an action.                                                              *)
(*                                                                         *)
(* Sequence numbers are relative to init(), so last_ack_id_ starts at 0.   *)
(* rtt_var_ only paces the receive buffer and is left out.  The period of  *)
(* on_timer is a choice of the clock: the timer action is the one call in  *)
(* ten round trips that decides, the others change nothing.                *)
(***************************************************************************)
EXTENDS Naturals

CONSTANTS
  MinCwnd,    \* MIN_CWND_SIZE = DEFAULT_CWND_SIZE
  Tolerance,  \* re-sent segments that are always tolerated (8)
  CapUnder10, CapUnder50, CapUnder100, CapAbove,   \* limits of set_max_cwnd
  DefaultRtt, \* DEFAULT_RTT
  Rtts,       \* measured round trips, in ms
  MaxAck,     \* bound: segments acknowledged or reported lost
  MaxResend   \* bound: segments sent again between two decisions

Caps == {CapUnder10, CapUnder50, CapUnder100, CapAbove}

ASSUME CccAssumption ==
  /\ MinCwnd \in Nat \ {0} /\ Tolerance \in Nat
  /\ \A c \in Caps : c \in Nat /\ MinCwnd < c
  /\ DefaultRtt \in Nat /\ DefaultRtt >= 5
  /\ Rtts \subseteq Nat /\ MaxAck \in Nat /\ MaxResend \in Nat

VARIABLE ccc

Ccc ==
  [ snd_cwnd   : Nat,
    max_cwnd   : Nat,
    rtt        : Nat,
    rtt_first  : BOOLEAN,
    last_ack   : Nat,        \* last_ack_id_
    slow_start : BOOLEAN,
    loss_flag  : BOOLEAN,
    resend     : Nat,        \* resend_count_
    prints     : 0..9 ]      \* print_count_ % 10; above 1 slow start is over

\* reset(), init()
Reset ==
  [ snd_cwnd |-> MinCwnd, max_cwnd |-> MinCwnd, rtt |-> DefaultRtt, rtt_first |-> TRUE,
    last_ack |-> 0, slow_start |-> TRUE, loss_flag |-> FALSE, resend |-> 0, prints |-> 0 ]

---------------------------------------------------------------------------
Smaller(a, b) == IF a < b THEN a ELSE b
Larger(a, b)  == IF a > b THEN a ELSE b

\* ceil(x / (n / d)), for the floating-point factors of the code
Shrunk(x, n, d) == (x * d + n - 1) \div n
Grown(x) == (3 * x + 1) \div 2   \* ceil(x * 1.5)

\* set_max_cwnd()
MaxCwnd(rtt) ==
  IF rtt < 10 THEN CapUnder10
  ELSE IF rtt < 50 THEN CapUnder50
  ELSE IF rtt < 100 THEN CapUnder100
  ELSE CapAbove

SlowStart(c, n) ==
  IF c.snd_cwnd + n >= c.max_cwnd
  THEN [c EXCEPT !.slow_start = FALSE, !.snd_cwnd = c.max_cwnd]
  ELSE [c EXCEPT !.snd_cwnd = @ + n]

\* Fault: the first acknowledgement after a loss speeds up as any other.
Recover_Always(c) ==
  [c EXCEPT !.loss_flag = FALSE, !.snd_cwnd = Smaller(c.max_cwnd, Grown(@))]

Recover(c) ==
  IF c.loss_flag THEN [c EXCEPT !.loss_flag = FALSE]
  ELSE [c EXCEPT !.snd_cwnd = Smaller(c.max_cwnd, Grown(@))]

OnAck(c, ack) ==
  IF ack <= c.last_ack THEN c
  ELSE [(IF c.slow_start THEN SlowStart(c, ack - c.last_ack) ELSE Recover(c))
          EXCEPT !.last_ack = ack]

\* Fault: the window may shrink below the minimum.
OnLoss_NoFloor(c, last) ==
  [c EXCEPT
     !.slow_start = FALSE,
     !.loss_flag = TRUE,
     !.snd_cwnd = IF c.last_ack < last THEN Shrunk(@, 9, 8) ELSE @]

\* last is the largest segment the report names.
OnLoss(c, last) ==
  [c EXCEPT
     !.slow_start = FALSE,
     !.loss_flag = TRUE,
     !.snd_cwnd = IF c.last_ack < last THEN Larger(MinCwnd, Shrunk(@, 9, 8)) ELSE @]

\* Fault: slow start goes on until the window reaches its limit.
OnTimer_SlowStart(c) ==
  LET n == (c.prints + 1) % 10 IN
  [c EXCEPT
     !.prints = n,
     !.max_cwnd = IF n = 0 THEN MaxCwnd(c.rtt) ELSE @,
     !.resend = IF c.slow_start THEN @ ELSE 0]

OnTimer(c) ==
  LET n == (c.prints + 1) % 10
      many == ~c.slow_start /\ c.resend > Larger(c.snd_cwnd \div 8, Tolerance)
  IN [c EXCEPT
        !.prints = n,
        !.max_cwnd = IF n = 0 THEN MaxCwnd(c.rtt) ELSE @,
        !.slow_start = @ /\ n <= 1,
        !.snd_cwnd = IF many THEN Larger(MinCwnd, Shrunk(@, 5, 4)) ELSE @,
        !.resend = IF c.slow_start THEN @ ELSE 0]

SetRtt(c, rtt) ==
  [c EXCEPT
     !.max_cwnd = IF @ = MinCwnd THEN MaxCwnd(rtt) ELSE @,
     !.rtt_first = FALSE,
     !.rtt = Larger(5, IF c.rtt_first THEN rtt ELSE (7 * @ + rtt) \div 8)]

---------------------------------------------------------------------------
Init == ccc = Reset

\* process_data and process_data_ack
ProcessAck(ack) == ccc' = OnAck(ccc, ack)

\* process_data_nack: on_loss, then on_ack of the base.
ProcessNack(base, last) ==
  /\ base < last
  /\ ccc' = OnAck(OnLoss(ccc, last), base)

\* heartbeat, when it decides
Heartbeat == ccc' = OnTimer(ccc)

\* process_syn2, process_syn_ack and process_keeplive_ack
MeasureRtt(rtt) == ccc' = SetRtt(ccc, rtt)

\* add_resend, called by attempt_send
Resend ==
  /\ ccc.resend < MaxResend
  /\ ccc' = [ccc EXCEPT !.resend = @ + 1]

Next ==
  \/ \E ack \in 0..MaxAck : ProcessAck(ack)
  \/ \E base, last \in 0..MaxAck : ProcessNack(base, last)
  \/ Heartbeat
  \/ \E rtt \in Rtts : MeasureRtt(rtt)
  \/ Resend

Spec == Init /\ [][Next]_ccc

---------------------------------------------------------------------------
\* The state is of the declared type; the average round trip, which paces the
\* timers of the socket, never drops below MIN_RTT.
TypeOK == ccc \in Ccc /\ ccc.rtt >= 5

\* However acknowledgements, reports, timers and measurements alternate, and
\* although the limit itself moves, the window stays between MIN_CWND_SIZE and
\* the largest limit: the sender never stops, and never runs so far ahead that
\* the receiver refuses a segment (RUDPTransfer assumes this of CwndSizes).
CwndWithinBounds ==
  /\ MinCwnd <= ccc.snd_cwnd
  /\ \E c \in Caps : ccc.snd_cwnd <= c

\* While slow start adds every acknowledged segment, the limit it runs towards
\* does not move below the window: the timer ends slow start before set_max_cwnd
\* can be called a second time.
SlowStartBelowLimit ==
  ccc.slow_start =>
    /\ ccc.prints <= 1
    /\ ccc.snd_cwnd < ccc.max_cwnd \/ ccc.snd_cwnd = MinCwnd

\* A loss report never enlarges the window, although its base acknowledges new
\* segments within the same handler; and what the handler of an acknowledgement
\* does right after a report is not to enlarge it either.
LossHoldsWindow ==
  [][/\ (\E base, last \in 0..MaxAck : ProcessNack(base, last)) => ccc'.snd_cwnd <= ccc.snd_cwnd
     /\ ccc.loss_flag => ccc'.snd_cwnd <= ccc.snd_cwnd]_ccc
===========================================================================
