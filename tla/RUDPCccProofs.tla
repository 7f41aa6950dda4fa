--------------------------- MODULE RUDPCccProofs ---------------------------
(***************************************************************************)
(* Theorems about RUDPCcc, for every minimum, every set of limits and any  *)
(* acknowledgements, loss reports and round trips.                         *)
(*                                                                         *)
(* The window alone is not inductive: it is clamped to max_cwnd_, so the   *)
(* invariant also says where that comes from, and that slow start is over  *)
(* before max_cwnd_ is set anew.                                           *)
(***************************************************************************)
EXTENDS RUDPCcc, TLAPS

\* max_cwnd_ is the default or one of the limits of set_max_cwnd.
LimitIsKnown == ccc.max_cwnd \in Caps \cup {MinCwnd}

\* on_loss ends slow start, and nothing starts it again.
LossEndsSlowStart == ccc.loss_flag => ~ccc.slow_start

IInv ==
  /\ TypeOK /\ CwndWithinBounds /\ SlowStartBelowLimit
  /\ LimitIsKnown /\ LossEndsSlowStart

\* The same of a record c.
Good(c) ==
  /\ c \in Ccc /\ c.rtt >= 5
  /\ MinCwnd <= c.snd_cwnd /\ \E cap \in Caps : c.snd_cwnd <= cap
  /\ c.slow_start => c.prints <= 1 /\ (c.snd_cwnd < c.max_cwnd \/ c.snd_cwnd = MinCwnd)
  /\ c.max_cwnd \in Caps \cup {MinCwnd}
  /\ c.loss_flag => ~c.slow_start

---------------------------------------------------------------------------
\* The roundings of on_ack, on_loss and on_timer: a window that shrinks does
\* not grow, and one that grows does not shrink.
LEMMA Rounding ==
  ASSUME NEW x \in Nat
  PROVE  /\ Shrunk(x, 9, 8) \in Nat /\ Shrunk(x, 9, 8) <= x
         /\ Shrunk(x, 5, 4) \in Nat /\ Shrunk(x, 5, 4) <= x
         /\ Grown(x) \in Nat /\ x <= Grown(x)
BY DEF Shrunk, Grown

\* set_max_cwnd chooses one of the four limits.
LEMMA MaxCwndIsCap ==
  /\ \A rtt : MaxCwnd(rtt) \in Caps
  /\ \A c \in Caps : c \in Nat /\ MinCwnd < c
  /\ MinCwnd \in Nat
BY CccAssumption DEF MaxCwnd, Caps

\* on_ack
LEMMA OnAckKeeps ==
  ASSUME NEW c, Good(c), NEW ack \in Nat
  PROVE  Good(OnAck(c, ack))
<1>1. CASE ack <= c.last_ack
  BY <1>1 DEF OnAck
<1>2. ASSUME ack > c.last_ack, c.slow_start, c.snd_cwnd + (ack - c.last_ack) >= c.max_cwnd
      PROVE  Good(OnAck(c, ack))
  <2>1. OnAck(c, ack) = [c EXCEPT !.slow_start = FALSE, !.snd_cwnd = c.max_cwnd, !.last_ack = ack]
    BY <1>2 DEF OnAck, SlowStart, Good, Ccc
  <2>2. MinCwnd <= c.max_cwnd /\ \E cap \in Caps : c.max_cwnd <= cap
    BY MaxCwndIsCap DEF Good, Ccc
  <2> QED
    BY <2>1, <2>2, MaxCwndIsCap DEF Good, Ccc
<1>3. ASSUME ack > c.last_ack, c.slow_start, ~(c.snd_cwnd + (ack - c.last_ack) >= c.max_cwnd)
      PROVE  Good(OnAck(c, ack))
  <2> DEFINE n == ack - c.last_ack
  <2>1. OnAck(c, ack) = [c EXCEPT !.snd_cwnd = @ + n, !.last_ack = ack]
    BY <1>3 DEF OnAck, SlowStart, Good, Ccc
  <2>2. /\ n \in Nat /\ c.snd_cwnd + n \in Nat /\ MinCwnd <= c.snd_cwnd + n
        /\ c.snd_cwnd + n < c.max_cwnd
    BY <1>3, MaxCwndIsCap DEF Good, Ccc
  <2>3. \E cap \in Caps : c.snd_cwnd + n <= cap
    BY <2>2, MaxCwndIsCap DEF Good, Ccc
  <2> HIDE DEF n
  <2> QED
    BY <2>1, <2>2, <2>3, ZenonT(120) DEF Good, Ccc
<1>4. ASSUME ack > c.last_ack, ~c.slow_start
      PROVE  Good(OnAck(c, ack))
  <2>1. CASE c.loss_flag
    <3>1. OnAck(c, ack) = [c EXCEPT !.loss_flag = FALSE, !.last_ack = ack]
      BY <1>4, <2>1 DEF OnAck, Recover, Good, Ccc
    <3> QED
      BY <3>1, <1>4, ZenonT(90) DEF Good, Ccc
  <2>2. CASE ~c.loss_flag
    <3> DEFINE w == Smaller(c.max_cwnd, Grown(c.snd_cwnd))
    <3>1. OnAck(c, ack) = [c EXCEPT !.snd_cwnd = w, !.last_ack = ack]
      BY <1>4, <2>2 DEF OnAck, Recover, Good, Ccc
    <3>2. w \in Nat /\ MinCwnd <= w /\ w <= c.max_cwnd
      BY Rounding, MaxCwndIsCap DEF Smaller, Good, Ccc
    <3>3. \E cap \in Caps : w <= cap
      BY <3>2, MaxCwndIsCap DEF Good, Ccc
    <3> HIDE DEF w
    <3> QED
      BY <3>1, <3>2, <3>3, <1>4, ZenonT(120) DEF Good, Ccc
  <2> QED
    BY <2>1, <2>2
<1> QED
  BY <1>1, <1>2, <1>3, <1>4 DEF Good, Ccc

\* on_ack does not enlarge the window after a loss report.
LEMMA OnAckHolds ==
  ASSUME NEW c, Good(c), c.loss_flag, NEW ack \in Nat
  PROVE  OnAck(c, ack).snd_cwnd = c.snd_cwnd
BY DEF OnAck, Recover, Good, Ccc

\* A window that shrinks by n/d, but not below the minimum, stays in bounds.
LEMMA FloorKeeps ==
  ASSUME NEW c, Good(c), NEW w \in Nat, w <= c.snd_cwnd
  PROVE  /\ Larger(MinCwnd, w) \in Nat
         /\ MinCwnd <= Larger(MinCwnd, w) /\ Larger(MinCwnd, w) <= c.snd_cwnd
         /\ \E cap \in Caps : Larger(MinCwnd, w) <= cap
BY MaxCwndIsCap DEF Larger, Good, Ccc

\* on_loss, which never enlarges the window
LEMMA OnLossKeeps ==
  ASSUME NEW c, Good(c), NEW last \in Nat
  PROVE  /\ Good(OnLoss(c, last))
         /\ OnLoss(c, last).snd_cwnd <= c.snd_cwnd
         /\ OnLoss(c, last).loss_flag /\ ~OnLoss(c, last).slow_start
<1> DEFINE w == Larger(MinCwnd, Shrunk(c.snd_cwnd, 9, 8))
<1>1. w \in Nat /\ MinCwnd <= w /\ w <= c.snd_cwnd /\ \E cap \in Caps : w <= cap
  BY Rounding, FloorKeeps DEF Good, Ccc
<1>2. OnLoss(c, last) = [c EXCEPT !.slow_start = FALSE, !.loss_flag = TRUE,
                                  !.snd_cwnd = IF c.last_ack < last THEN w ELSE c.snd_cwnd]
  BY DEF OnLoss, Good, Ccc
<1> HIDE DEF w
<1> DEFINE d == OnLoss(c, last)
           v == IF c.last_ack < last THEN w ELSE c.snd_cwnd
<1>3. v \in Nat /\ MinCwnd <= v /\ v <= c.snd_cwnd /\ \E cap \in Caps : v <= cap
  BY <1>1 DEF Good, Ccc
<1>4. d = [c EXCEPT !.slow_start = FALSE, !.loss_flag = TRUE, !.snd_cwnd = v]
  BY <1>2
<1> HIDE DEF d, v
<1>5. d \in Ccc
  BY <1>3, <1>4 DEF Good, Ccc
<1>6. /\ d.snd_cwnd = v /\ d.slow_start = FALSE /\ d.loss_flag = TRUE
      /\ d.rtt = c.rtt /\ d.max_cwnd = c.max_cwnd
  BY <1>4 DEF Good, Ccc
<1>7. Good(d) /\ d.snd_cwnd <= c.snd_cwnd /\ d.loss_flag /\ ~d.slow_start
  BY <1>3, <1>5, <1>6 DEF Good
<1> QED
  BY <1>7 DEF d

\* on_timer
LEMMA OnTimerKeeps ==
  ASSUME NEW c, Good(c)
  PROVE  Good(OnTimer(c)) /\ OnTimer(c).snd_cwnd <= c.snd_cwnd
<1> DEFINE n == (c.prints + 1) % 10
           many == ~c.slow_start /\ c.resend > Larger(c.snd_cwnd \div 8, Tolerance)
           w == IF many THEN Larger(MinCwnd, Shrunk(c.snd_cwnd, 5, 4)) ELSE c.snd_cwnd
           m == IF n = 0 THEN MaxCwnd(c.rtt) ELSE c.max_cwnd
           r == IF c.slow_start THEN c.resend ELSE 0
           s == c.slow_start /\ n <= 1
<1>1. OnTimer(c) = [c EXCEPT !.prints = n, !.max_cwnd = m, !.slow_start = s,
                             !.snd_cwnd = w, !.resend = r]
  BY DEF OnTimer, Good, Ccc
<1>2. /\ w \in Nat /\ MinCwnd <= w /\ w <= c.snd_cwnd /\ \E cap \in Caps : w <= cap
      /\ c.slow_start => w = c.snd_cwnd
  <2>1. c.snd_cwnd \in Nat
    BY DEF Good, Ccc
  <2>2. LET f == Larger(MinCwnd, Shrunk(c.snd_cwnd, 5, 4)) IN
        f \in Nat /\ MinCwnd <= f /\ f <= c.snd_cwnd /\ \E cap \in Caps : f <= cap
    BY <2>1, Rounding, FloorKeeps
  <2> QED
    BY <2>1, <2>2 DEF Good
<1>3. n \in 0..9 /\ r \in Nat /\ s \in BOOLEAN
  BY DEF Good, Ccc
<1>4. m \in Nat /\ m \in Caps \cup {MinCwnd}
  BY MaxCwndIsCap DEF Good, Ccc
<1>5. s => c.slow_start /\ n = 1 /\ m = c.max_cwnd
  BY DEF Good, Ccc
<1> HIDE DEF n, w, m, r, s
<1> DEFINE d == OnTimer(c)
<1>6. d \in Ccc
  BY <1>1, <1>2, <1>3, <1>4, ZenonT(90) DEF Good, Ccc
<1>7. /\ d.prints = n /\ d.max_cwnd = m /\ d.slow_start = s /\ d.snd_cwnd = w
      /\ d.rtt = c.rtt /\ d.loss_flag = c.loss_flag
  BY <1>1 DEF Good, Ccc
<1> HIDE DEF d
<1>8. d.slow_start => d.prints <= 1 /\ (d.snd_cwnd < d.max_cwnd \/ d.snd_cwnd = MinCwnd)
  BY <1>2, <1>5, <1>7 DEF Good, Ccc
<1>9. d.loss_flag => ~d.slow_start
  BY <1>5, <1>7 DEF Good
<1>10. Good(d) /\ d.snd_cwnd <= c.snd_cwnd
  BY <1>2, <1>4, <1>6, <1>7, <1>8, <1>9 DEF Good
<1> QED
  BY <1>10 DEF d

\* set_rtt, which leaves the window alone
LEMMA SetRttKeeps ==
  ASSUME NEW c, Good(c), NEW rtt \in Nat
  PROVE  Good(SetRtt(c, rtt)) /\ SetRtt(c, rtt).snd_cwnd = c.snd_cwnd
<1> DEFINE m == IF c.max_cwnd = MinCwnd THEN MaxCwnd(rtt) ELSE c.max_cwnd
           t == Larger(5, IF c.rtt_first THEN rtt ELSE (7 * c.rtt + rtt) \div 8)
<1>1. SetRtt(c, rtt) = [c EXCEPT !.max_cwnd = m, !.rtt_first = FALSE, !.rtt = t]
  BY DEF SetRtt, Good, Ccc
<1>2. t \in Nat /\ t >= 5
  BY DEF Larger, Good, Ccc
<1>3. /\ m \in Nat /\ m \in Caps \cup {MinCwnd}
      /\ m = c.max_cwnd \/ c.max_cwnd = MinCwnd
  BY MaxCwndIsCap DEF Good
<1>4. c.max_cwnd = MinCwnd /\ c.slow_start => c.snd_cwnd = MinCwnd
  BY MaxCwndIsCap DEF Good, Ccc
<1> HIDE DEF m, t
<1> QED
  BY <1>1, <1>2, <1>3, <1>4, ZenonT(90) DEF Good, Ccc

---------------------------------------------------------------------------
\* The invariant is what Good says of the state.
LEMMA IInvIsGood == IInv <=> Good(ccc)
BY DEF IInv, Good, TypeOK, CwndWithinBounds, SlowStartBelowLimit, LimitIsKnown,
         LossEndsSlowStart

\* process_data_nack: on_loss, then on_ack, which finds the loss reported.
LEMMA NackHolds ==
  ASSUME Good(ccc), NEW base \in 0..MaxAck, NEW last \in 0..MaxAck, ProcessNack(base, last)
  PROVE  Good(ccc') /\ ccc'.snd_cwnd <= ccc.snd_cwnd
<1> DEFINE c == OnLoss(ccc, last)
<1>1. base \in Nat /\ last \in Nat
  BY CccAssumption
<1>2. Good(c) /\ c.snd_cwnd <= ccc.snd_cwnd /\ c.loss_flag
  BY <1>1, OnLossKeeps
<1>3. ccc' = OnAck(c, base)
  BY DEF ProcessNack
<1> HIDE DEF c
<1>4. Good(OnAck(c, base)) /\ OnAck(c, base).snd_cwnd = c.snd_cwnd
  BY <1>1, <1>2, OnAckKeeps, OnAckHolds
<1> QED
  BY <1>2, <1>3, <1>4

\* A handler of the socket preserves the invariant, and enlarges the window
\* only for an acknowledgement that follows no unanswered loss report.
LEMMA StepOK ==
  ASSUME IInv, [Next]_ccc
  PROVE  /\ IInv'
         /\ ccc.loss_flag => ccc'.snd_cwnd <= ccc.snd_cwnd
<1>1. Good(ccc) /\ MaxAck \in Nat /\ Rtts \subseteq Nat
  BY IInvIsGood, CccAssumption
<1>2. SUFFICES Good(ccc') /\ (ccc.loss_flag => ccc'.snd_cwnd <= ccc.snd_cwnd)
  BY DEF IInv, Good, TypeOK, CwndWithinBounds, SlowStartBelowLimit, LimitIsKnown,
         LossEndsSlowStart
<1>3. ASSUME NEW ack \in 0..MaxAck, ProcessAck(ack)
      PROVE  Good(ccc') /\ (ccc.loss_flag => ccc'.snd_cwnd <= ccc.snd_cwnd)
  <2>1. ack \in Nat
    BY <1>1
  <2>2. ccc.loss_flag => OnAck(ccc, ack).snd_cwnd <= ccc.snd_cwnd
    BY <1>1, <2>1, OnAckHolds DEF Good, Ccc
  <2> QED
    BY <1>1, <1>3, <2>1, <2>2, OnAckKeeps DEF ProcessAck
<1>4. ASSUME NEW base \in 0..MaxAck, NEW last \in 0..MaxAck, ProcessNack(base, last)
      PROVE  Good(ccc') /\ ccc'.snd_cwnd <= ccc.snd_cwnd
  BY <1>1, <1>4, NackHolds
<1>5. ASSUME Heartbeat
      PROVE  Good(ccc') /\ ccc'.snd_cwnd <= ccc.snd_cwnd
  BY <1>1, <1>5, OnTimerKeeps DEF Heartbeat
<1>6. ASSUME NEW rtt \in Rtts, MeasureRtt(rtt)
      PROVE  Good(ccc') /\ ccc'.snd_cwnd <= ccc.snd_cwnd
  <2>1. Good(SetRtt(ccc, rtt)) /\ SetRtt(ccc, rtt).snd_cwnd = ccc.snd_cwnd
    BY <1>1, <1>6, SetRttKeeps
  <2>2. ccc' = SetRtt(ccc, rtt)
    BY <1>6 DEF MeasureRtt
  <2>3. ccc.snd_cwnd \in Nat
    BY <1>1 DEF Good, Ccc
  <2> QED
    BY <2>1, <2>2, <2>3
<1>7. ASSUME Resend
      PROVE  Good(ccc') /\ ccc'.snd_cwnd <= ccc.snd_cwnd
  BY <1>1, <1>7 DEF Resend, Good, Ccc
<1>8. ASSUME UNCHANGED ccc
      PROVE  Good(ccc') /\ ccc'.snd_cwnd <= ccc.snd_cwnd
  BY <1>1, <1>8 DEF Good, Ccc
<1> QED
  BY <1>3, <1>4, <1>5, <1>6, <1>7, <1>8 DEF Next

\* The window starts at its minimum.
LEMMA InitOK == Init => IInv
<1>1. Init => Good(ccc)
  BY MaxCwndIsCap, CccAssumption DEF Init, Reset, Good, Ccc, Caps
<1> QED
  BY <1>1, IInvIsGood

\* The invariant holds in every reachable state: each handler that calls a
\* method of RUDPCCCObject keeps it.
THEOREM Invariance == Spec => []IInv
<1> QED
  BY InitOK, StepOK, PTL DEF Spec

---------------------------------------------------------------------------
(* What follows from it.                                                   *)

\* The counters of RUDPCCCObject keep their types, and the round trip that
\* paces the timers stays above MIN_RTT.
THEOREM CccType == Spec => []TypeOK
<1>1. IInv => TypeOK
  BY DEF IInv
<1> QED
  BY <1>1, Invariance, PTL

\* The window that on_ack, on_loss and on_timer leave lies between the minimum
\* and the largest limit of set_max_cwnd.
THEOREM WindowBounds == Spec => []CwndWithinBounds
<1>1. IInv => CwndWithinBounds
  BY DEF IInv
<1> QED
  BY <1>1, Invariance, PTL

\* Slow start is over before set_max_cwnd lowers the limit it runs towards.
THEOREM SlowStartBounded == Spec => []SlowStartBelowLimit
<1>1. IInv => SlowStartBelowLimit
  BY DEF IInv
<1> QED
  BY <1>1, Invariance, PTL

\* process_data_nack never enlarges the window, nor does any handler between a
\* loss report and the first acknowledgement after it.
THEOREM LossHolds == Spec => LossHoldsWindow
<1>1. IInv /\ [Next]_ccc =>
        [/\ (\E base, last \in 0..MaxAck : ProcessNack(base, last)) => ccc'.snd_cwnd <= ccc.snd_cwnd
         /\ ccc.loss_flag => ccc'.snd_cwnd <= ccc.snd_cwnd]_ccc
  <2>1. SUFFICES ASSUME IInv, [Next]_ccc
                 PROVE  /\ (\E base, last \in 0..MaxAck : ProcessNack(base, last)) =>
                                ccc'.snd_cwnd <= ccc.snd_cwnd
                        /\ ccc.loss_flag => ccc'.snd_cwnd <= ccc.snd_cwnd
    OBVIOUS
  <2>2. ASSUME NEW base \in 0..MaxAck, NEW last \in 0..MaxAck, ProcessNack(base, last)
        PROVE  ccc'.snd_cwnd <= ccc.snd_cwnd
    BY <2>1, <2>2, NackHolds, IInvIsGood
  <2> QED
    BY <2>1, <2>2, StepOK
<1> QED
  BY <1>1, Invariance, PTL DEF Spec, LossHoldsWindow
===========================================================================
