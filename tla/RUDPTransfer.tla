--------------------------- MODULE RUDPTransfer ---------------------------
(***************************************************************************)
(* Two RUDPSockets in state RUDP_CONNECTED that exchange data over UDP:    *)
(* the process_data* handlers, send, recv and heartbeat of                 *)
(* common/rudp/rudp_socket.cpp, over the two buffers.                      *)
(*                                                                         *)
(* The process has one reactor thread, so a handler runs to its end before *)
(* the next one starts, and one handler is one action.  The event handlers *)
(* the application registers run inside the socket's handlers; they may    *)
(* call send and recv.  The network may lose, repeat and reorder packets.  *)
(***************************************************************************)
EXTENDS RUDPSendBuffer, RUDPRecvBuffer

CONSTANTS
  Ends,         \* the two sockets
  Other,        \* Other[e] is the socket e is connected to
  CwndSizes,    \* values of ccc_.get_send_window_size()
  BufferSize,   \* buffer_size_, in bytes
  IdRange,      \* a lost segment is reported as a uint16_t
  WriteSizes,   \* sizes of the application's send calls
  ReadSizes,    \* sizes of the application's recv calls
  AnyAge,       \* bound: may segments of one window differ in age?
  MaxBytes,     \* bound: bytes the application at each end writes
  MaxNet,       \* bound: distinct packets in flight
  MaxLosses,    \* bound: packets the network loses
  MaxDups       \* bound: packets the network delivers once more

ASSUME TransferAssumption ==
  /\ Other \in [Ends -> Ends]
  /\ \A e \in Ends : Other[e] # e /\ Other[Other[e]] = e
  /\ CwndSizes \subseteq 1..MaxSeqInterval
  /\ MaxSeqInterval < IdRange
  /\ BufferSize \in Nat /\ IdRange \in Nat
  /\ WriteSizes \subseteq Nat \ {0} /\ ReadSizes \subseteq Nat \ {0}
  /\ AnyAge \in BOOLEAN
  /\ MaxBytes \in [Ends -> Nat]
  /\ MaxNet \in Nat /\ MaxLosses \in Nat /\ MaxDups \in Nat

VARIABLES
  snd,        \* send_buffer_ of each socket
  size,       \* its buffer_data_size_
  rcv,        \* recv_buffer_ of each socket
  delivered,  \* the bytes each application has read, oldest first
  net,        \* packets in flight
  losses,     \* packets lost so far
  dups        \* packets repeated so far

vars == <<snd, size, rcv, delivered, net, losses, dups>>

Data == [to : Ends, type : {"DATA"}, ack : Nat, seq : Nat, data : Chunk]
DataAck == [to : Ends, type : {"DATA_ACK"}, ack : Nat]
DataNack == [to : Ends, type : {"DATA_NACK"}, base : Nat, ids : SUBSET Nat]

---------------------------------------------------------------------------
(* Packets                                                                 *)

\* send_data: every data segment carries the current acknowledgement.
DataPackets(e, s, seqs, ack) ==
  {[to |-> Other[e], type |-> "DATA", ack |-> ack, seq |-> q, data |-> s.seg[q]] : q \in seqs}

AckPacket(e, ack) == [to |-> Other[e], type |-> "DATA_ACK", ack |-> ack]

NackPacket(e, base, lost) ==
  [to |-> Other[e], type |-> "DATA_NACK", base |-> base,
   ids |-> {(q - base) % IdRange : q \in lost}]

\* rest is what is in flight once the packet being processed is taken out.
Emit(rest, out) ==
  net' = rest \cup out /\ Cardinality(net') <= MaxNet

\* The network delivers m, and may keep a copy of it for later.
Deliver(m, rest) ==
  \/ rest = net \ {m} /\ UNCHANGED dups
  \/ dups < MaxDups /\ rest = net /\ dups' = dups + 1

Piggybacked(r, sent) == IF sent # {} THEN AckSent(r) ELSE r

---------------------------------------------------------------------------
(* Calls of send inside rudp_output_event                                  *)

MayWrite(e, s, n) == Written(s) + n <= MaxBytes[e]

\* check_buffer(): the application may be told it can write.
OutputEvent(e, s, bytes) ==
  {0} \cup {n \in WriteSizes : bytes < BufferSize /\ MayWrite(e, s, n)}

\* RUDPSendBuffer::send() of n bytes; n = 0 is no call.
Write(s, n, cwnd, due, young) ==
  IF n = 0 THEN s ELSE AttemptSend(Queue(s, n), cwnd, due, young)

WriteSent(s, n, cwnd, due, young) ==
  IF n = 0 THEN {} ELSE Sent(Queue(s, n), cwnd, due, young)

\* The timestamps decide which segments of a set are old enough.
Aged(S) == IF AnyAge THEN SUBSET S ELSE {{}, S}
Young == IF Nagle THEN BOOLEAN ELSE {FALSE}

---------------------------------------------------------------------------
Init ==
  /\ snd = [e \in Ends |-> ResetSendBuffer]
  /\ size = [e \in Ends |-> 0]
  /\ rcv = [e \in Ends |-> ResetRecvBuffer]
  /\ delivered = [e \in Ends |-> << >>]
  /\ net = {} /\ losses = 0 /\ dups = 0

\* RUDPSocket::send, called by the application at e.
AppSend(e, n, cwnd, due, young) ==
  LET s == Queue(snd[e], n)
      sent == Sent(s, cwnd, due, young)
  IN /\ MayWrite(e, snd[e], n)
     /\ snd' = [snd EXCEPT ![e] = AttemptSend(s, cwnd, due, young)]
     /\ size' = [size EXCEPT ![e] = @ + n]
     /\ rcv' = [rcv EXCEPT ![e] = Piggybacked(@, sent)]
     /\ Emit(net, DataPackets(e, s, sent, rcv[e].first_seq))
     /\ UNCHANGED <<delivered, losses, dups>>

\* RUDPSocket::recv, called by the application at e.
AppRecv(e, n) ==
  /\ rcv[e].recv_data # << >>
  /\ delivered' = [delivered EXCEPT ![e] = @ \o SubSeq(rcv[e].recv_data, 1, ReadSize(rcv[e], n))]
  /\ rcv' = [rcv EXCEPT ![e] = Read(@, n)]
  /\ UNCHANGED <<snd, size, net, losses, dups>>

\* process_data: the acknowledgement first, with the segments it lets out and
\* the writes of rudp_output_event, then the data.
ProcessData(e, m, cwnd, due, young) ==
  LET acc == Accepts(snd[e], m.ack)
      s1  == IF acc THEN Ack(snd[e], m.ack) ELSE snd[e]
      out == IF acc THEN Sent(s1, cwnd, due, young) ELSE {}
      s2  == IF acc THEN AttemptSend(s1, cwnd, due, young) ELSE s1
      b   == IF acc THEN FreedSize(snd[e], m.ack, size[e]) ELSE size[e]
  IN \E n \in (IF acc THEN OutputEvent(e, s2, b) ELSE {0}) :
       LET more == WriteSent(s2, n, cwnd, {}, young)
           s3   == Write(s2, n, cwnd, {}, young)
           r    == Piggybacked(rcv[e], out \cup more)
       IN /\ snd' = [snd EXCEPT ![e] = s3]
          /\ size' = [size EXCEPT ![e] = b + n]
          /\ \E r2 \in OnData(r, m.seq, m.data) : rcv' = [rcv EXCEPT ![e] = r2]
          /\ \E rest \in {net, net \ {m}} :
               /\ Deliver(m, rest)
               /\ Emit(rest, DataPackets(e, s2, out, r.first_seq)
                             \cup DataPackets(e, s3, more, r.first_seq))
          /\ UNCHANGED <<delivered, losses>>

\* process_data_ack
ProcessDataAck(e, m, cwnd, due, young) ==
  LET acc == Accepts(snd[e], m.ack)
      s1  == IF acc THEN Ack(snd[e], m.ack) ELSE snd[e]
      out == IF acc THEN Sent(s1, cwnd, due, young) ELSE {}
  IN /\ snd' = [snd EXCEPT ![e] = IF acc THEN AttemptSend(s1, cwnd, due, young) ELSE s1]
     /\ size' = [size EXCEPT ![e] = IF acc THEN FreedSize(snd[e], m.ack, @) ELSE @]
     /\ rcv' = [rcv EXCEPT ![e] = Piggybacked(@, out)]
     /\ \E rest \in {net, net \ {m}} :
          /\ Deliver(m, rest)
          /\ Emit(rest, DataPackets(e, s1, out, rcv[e].first_seq))
     /\ UNCHANGED <<delivered, losses>>

\* process_data_nack: on_nack, whose last step is on_ack(base), then once
\* more on_ack(base), which finds nothing left to erase and only sends.  (A
\* congestion window changed in between is a Heartbeat right after.)
ProcessDataNack(e, m, cwnd, due, young) ==
  LET s0  == ReportLoss(snd[e], m.base, m.ids)
      acc == Accepts(s0, m.base)
      s1  == IF acc THEN Ack(s0, m.base) ELSE s0
      s2  == IF acc THEN AttemptSend(s1, cwnd, due, young) ELSE s1
      out == IF acc THEN Sent(s1, cwnd, due, young)
                         \cup Sent(s2, cwnd, due \ Sent(s1, cwnd, due, young), young)
             ELSE {}
  IN /\ snd' = [snd EXCEPT ![e] =
                  IF acc THEN AttemptSend(s2, cwnd, due \ Sent(s1, cwnd, due, young), young)
                  ELSE s1]
     /\ size' = [size EXCEPT ![e] = IF acc THEN FreedSize(s0, m.base, @) ELSE @]
     /\ rcv' = [rcv EXCEPT ![e] = Piggybacked(@, out)]
     /\ \E rest \in {net, net \ {m}} :
          /\ Deliver(m, rest)
          /\ Emit(rest, DataPackets(e, s2, out, rcv[e].first_seq))
     /\ UNCHANGED <<delivered, losses>>

\* heartbeat: recv_buffer_.on_timer, then send_buffer_.on_timer.
Heartbeat(e, expired, late, cwnd, due, young) ==
  LET r    == OnTimer(rcv[e], expired, late)
      lost == Reported(rcv[e], expired)
      sent == Sent(snd[e], cwnd, due, young)
  IN /\ snd' = [snd EXCEPT ![e] = AttemptSend(@, cwnd, due, young)]
     /\ rcv' = [rcv EXCEPT ![e] = Piggybacked(r, sent)]
     /\ Emit(net, DataPackets(e, snd[e], sent, r.first_seq)
                  \cup (IF lost # {} THEN {NackPacket(e, r.first_seq, lost)} ELSE {})
                  \cup (IF AckDue(rcv[e], expired, late) THEN {AckPacket(e, r.first_seq)} ELSE {}))
     /\ UNCHANGED <<size, delivered, losses, dups>>

\* The network loses a packet.
Lose(m) ==
  /\ losses < MaxLosses
  /\ net' = net \ {m}
  /\ losses' = losses + 1
  /\ UNCHANGED <<snd, size, rcv, delivered, dups>>

---------------------------------------------------------------------------
Send(e) ==
  \E n \in WriteSizes, cwnd \in CwndSizes, due \in Aged(snd[e].window), young \in Young :
    AppSend(e, n, cwnd, due, young)

Recv(e) == \E n \in ReadSizes : AppRecv(e, n)

Process(e, m) ==
  \E cwnd \in CwndSizes, due \in Aged(snd[e].window), young \in Young :
    \/ m.type = "DATA" /\ ProcessData(e, m, cwnd, due, young)
    \/ m.type = "DATA_ACK" /\ ProcessDataAck(e, m, cwnd, due, young)
    \/ m.type = "DATA_NACK" /\ ProcessDataNack(e, m, cwnd, due, young)

Timer(e) ==
  \E expired \in Aged(rcv[e].loss_map), late \in BOOLEAN, cwnd \in CwndSizes,
     due \in Aged(snd[e].window), young \in Young :
    Heartbeat(e, expired, late, cwnd, due, young)

Next ==
  \/ \E e \in Ends : Send(e) \/ Recv(e) \/ Timer(e)
  \/ \E m \in net : Process(m.to, m)
  \/ \E m \in net : Lose(m)

Spec == Init /\ [][Next]_vars

---------------------------------------------------------------------------
\* The buffers and the packets are of the declared types.
BuffersTypeOK ==
  /\ snd \in [Ends -> SendBuffer]
  /\ DOMAIN rcv = Ends
  /\ \A e \in Ends :
       /\ rcv[e].first_seq \in Nat /\ rcv[e].max_seq \in Nat
       /\ DOMAIN rcv[e].recv_window \subseteq Nat
       /\ \A q \in DOMAIN rcv[e].recv_window : rcv[e].recv_window[q] \in Chunk
       /\ rcv[e].loss_map \subseteq Nat
       /\ rcv[e].recv_new \in BOOLEAN
  /\ \A m \in net : m \in Data \/ m \in DataAck \/ m \in DataNack

\* on_ack frees a segment only when the peer has it and everything before it:
\* a segment that is in neither list of the sender has reached the receiver's
\* in-order prefix, whatever acknowledgement came late, twice or out of order.
AckedIsReceived ==
  \A e \in Ends : \A q \in 1..Len(snd[e].seg) :
    q \in snd[e].window \cup snd[e].send_data \/ q <= rcv[Other[e]].first_seq

\* The sender holds a run of consecutive segments, the sent ones first, so the
\* oldest of send_window_ is the one the receiver waits for; and the window
\* never outgrows the largest one the congestion control allowed.
WindowIsContiguous ==
  \A e \in Ends :
    LET s == snd[e] IN
    /\ \A q \in s.window \cup s.send_data : q..Len(s.seg) \subseteq s.window \cup s.send_data
    /\ \A q \in s.window, p \in s.send_data : q < p
    /\ s.window # {} => Cardinality(s.window) <= Max(CwndSizes)

\* on_data reports an exception for a segment too far ahead.  A peer that runs
\* this code never sends one: its window is shorter than MAX_SEQ_INTNAL.
NoSpuriousException ==
  \A m \in net : m.type = "DATA" => ~OutOfRange(rcv[m.to], m.seq)

\* buffer_data_size_ is the number of bytes held by send_data_ and
\* send_window_: on_ack never clamps it, and gluing is counted once.
BufferAccounting ==
  \A e \in Ends :
    size[e] = TotalSize(snd[e], snd[e].window \cup snd[e].send_data)

\* A segment the receiver holds, in order or not, is the one the sender cut
\* under that number: send never glues onto a segment that is already out.
SegmentsAreStable ==
  /\ \A m \in net : m.type = "DATA" =>
       m.seq \in 1..Len(snd[Other[m.to]].seg) /\ m.data = snd[Other[m.to]].seg[m.seq]
  /\ \A e \in Ends : \A q \in DOMAIN rcv[e].recv_window :
       /\ q \in rcv[e].first_seq + 2 .. rcv[e].max_seq
       /\ q <= Len(snd[Other[e]].seg) /\ rcv[e].recv_window[q] = snd[Other[e]].seg[q]

\* The exchange implements two byte streams, one in each direction.
Stream ==
  INSTANCE ByteStream WITH written <- [e \in Ends |-> Written(snd[e])], read <- delivered
ImplementsByteStream == Stream!Spec

\* recv_new_packet_ is cleared only when the peer is told how far the receiver
\* got (by an ACK, a NACK or a data segment), and set whenever it gets further:
\* no progress of the receiver is forgotten, whoever sends first.
AcksAreAnnounced ==
  [][\A e \in Ends :
       /\ rcv[e].recv_new /\ ~rcv'[e].recv_new =>
            \E m \in net' : m.to = Other[e] /\ rcv'[e].first_seq =
                               (IF m.type = "DATA_NACK" THEN m.base ELSE m.ack)
       /\ rcv[e].first_seq < rcv'[e].first_seq => rcv'[e].recv_new]_vars

\* A gap is noticed when a segment beyond it arrives, and forgotten only when
\* the segment arrived or a NACK that names it leaves.
GapsAreReported ==
  [][\A e \in Ends :
       LET r == rcv'[e]
           has(q) == q <= r.first_seq \/ q \in DOMAIN r.recv_window
       IN /\ \A q \in rcv[e].max_seq + 1 .. r.max_seq : has(q) \/ q \in r.loss_map
          /\ \A q \in rcv[e].loss_map \ r.loss_map :
               has(q) \/ \E m \in net' : m.to = Other[e] /\ m.type = "DATA_NACK"
                                         /\ q \in {m.base + i : i \in m.ids}]_vars

---------------------------------------------------------------------------
(* The reactor's 10 ms timer re-arms itself and clocks advance, so a       *)
(* heartbeat that finds every timestamp old enough comes again and again;  *)
(* a packet that stays in flight arrives; the application reads what is    *)
(* readable.                                                               *)

HeartbeatAllDue(e) ==
  \E cwnd \in CwndSizes :
    Heartbeat(e, rcv[e].loss_map, TRUE, cwnd, snd[e].window, FALSE)

\* Packets of one kind and number that are in flight to e.
DataInFlight(e, q) == \E m \in net : m.to = e /\ m.type = "DATA" /\ m.seq = q
AckInFlight(e, q)  == \E m \in net : m.to = e /\ m.type = "DATA_ACK" /\ m.ack = q
NackInFlight(e, q) == \E m \in net : m.to = e /\ m.type = "DATA_NACK" /\ m.base = q

Fairness ==
  \A e \in Ends :
    /\ WF_vars(HeartbeatAllDue(e))
    /\ []<>(rcv[e].recv_data = << >>)
    /\ \A q \in 1..MaxBytes[e] :
         /\ []<>~DataInFlight(Other[e], q)
         /\ []<>~AckInFlight(e, q)
         /\ []<>~NackInFlight(e, q - 1)

FairSpec == Spec /\ Fairness

\* Every byte written is read by the peer in the end, although the network
\* loses some packets ("RUDP_DATA: reliable data").
EventuallyDelivered ==
  \A e \in Ends : \A k \in 1..MaxBytes[e] :
    Written(snd[e]) >= k ~> Len(delivered[Other[e]]) >= k

\* The same, as long as loss_set_ names only segments that are still in
\* send_window_: the timeout of attempt_send, the NACK and the repeated
\* acknowledgement together repair every loss.
LossSetIsLive == \A e \in Ends : snd[e].loss_set \subseteq snd[e].window
DeliveredUnlessStaleLoss == []LossSetIsLive => EventuallyDelivered

\* Under the same condition the sender learns it: whatever acknowledgement is
\* lost, send_window_ empties again and again.
DrainedUnlessStaleLoss ==
  []LossSetIsLive => \A e \in Ends : []<>(snd[e].window \cup snd[e].send_data = {})
===========================================================================
