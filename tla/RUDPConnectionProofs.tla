----------------------- MODULE RUDPConnectionProofs -----------------------
(***************************************************************************)
(* Theorems about RUDPConnection, for any hosts, any of them clients, any  *)
(* number of socket ids and connects, and any network that loses, repeats  *)
(* and reorders packets.                                                   *)
(*                                                                         *)
(* A handshake is safe because of what the check sum stands for.  As long  *)
(* as the socket that drew a sum waits for its SYN2, every SYN of that sum *)
(* is its own and every accept of that sum is for it, at the host it       *)
(* called; a SYN2 answers an accept between the two sockets it names; and  *)
(* an entry of the half-open index is a live socket that was accepted for  *)
(* that peer.                                                              *)
(***************************************************************************)
EXTENDS RUDPConnection, WellFoundedInduction, TLAPS

\* Socket s at endpoint e is bound to its peer by one of the accepts A.
Bound(s, e, A) ==
  \E a \in A : a.sum = s.sum /\ {a.client, a.server} = {e, <<s.host, s.remote>>}

\* Packet m, when n sums were drawn.
PacketOK(m, n, A) ==
  /\ m.from \in Hosts /\ m.to \in Hosts /\ m.id \in 0..MaxSockets /\ m.sum \in 1..n
  /\ m.type = "SYN" => m.src \in Ids
  /\ m.type = "SYN2" =>
       /\ m.src \in Ids /\ m.start \in Nat \ {0}
       /\ \E a \in A : a.sum = m.sum /\ a.server = <<m.from, m.src>> /\ a.client = <<m.to, m.id>>

\* Socket s at endpoint e, when n sums were drawn.
SocketOK(s, e, n, A) ==
  /\ s \in Socket
  /\ s.state # "FREE" =>
       /\ s.host \in Hosts /\ s.sum \in 1..n
       /\ s.state = "CONNECTING" => s.remote = 0
       /\ s.remote # 0 => Bound(s, e, A)

\* While s waits for its SYN2, its sum is its own.
SumIsOwn(s, e, N, A) ==
  s.state = "CONNECTING" =>
    /\ \A m \in N : m.type = "SYN" /\ m.sum = s.sum => <<m.from, m.src>> = e /\ m.to = s.host
    /\ \A a \in A : a.sum = s.sum => a.client = e /\ a.server[1] = s.host

\* Entry i of the half-open index of host h for peer p.
EntryOK(i, h, p, S, A) ==
  i # 0 =>
    /\ S[h][i].state # "FREE"
    /\ <<S[h][i].host, S[h][i].remote>> = p
    /\ \E a \in A : a.sum = S[h][i].sum /\ a.server = <<h, i>> /\ a.client = p

SumsDiffer(S) ==
  \A h, g \in Hosts : \A i, j \in Ids :
    /\ S[h][i].state = "CONNECTING" /\ S[g][j].state = "CONNECTING"
    /\ S[h][i].sum = S[g][j].sum
    => h = g /\ i = j

IInv ==
  /\ sock \in [Hosts -> [Ids -> Socket]]
  /\ peers \in [Hosts -> [Hosts \X Ids -> 0..MaxSockets]]
  /\ sessions \in Nat /\ accepted \subseteq Session /\ dups \in Nat
  /\ \A a \in accepted : a.sum <= sessions
  /\ \A m \in net : PacketOK(m, sessions, accepted)
  /\ \A h \in Hosts : \A i \in Ids :
       SocketOK(sock[h][i], <<h, i>>, sessions, accepted) /\ SumIsOwn(sock[h][i], <<h, i>>, net, accepted)
  /\ SumsDiffer(sock)
  /\ \A h \in Hosts : \A p \in Hosts \X Ids : EntryOK(peers[h][p], h, p, sock, accepted)

---------------------------------------------------------------------------
\* A set of naturals that is not empty has a smallest element.
LEMMA SmallestOf ==
  ASSUME NEW S \in SUBSET Nat, S # {}
  PROVE  Min(S) \in S
<1> DEFINE R == OpToRel(<, Nat)
<1>1. IsWellFoundedOn(R, Nat)
  BY NatLessThanWellFounded, Zenon
<1>2. PICK x \in S : \A y \in S : ~ (<<y, x>> \in R)
  <2> HIDE DEF R
  <2> QED
    BY <1>1, WFMin
<1>3. \A y \in S : ~(y < x)
  BY <1>2 DEF OpToRel
<1>4. \A y \in S : x <= y
  BY <1>3
<1> QED
  BY <1>4 DEF Min

\* create_socket finds a free socket.
LEMMA NewIdIsFree ==
  ASSUME NEW h \in Hosts, FreeIds(h) # {}
  PROVE  NewId(h) \in Ids /\ NewId(h) # 0 /\ sock[h][NewId(h)].state = "FREE"
<1>1. MaxSockets \in Nat /\ FreeIds(h) \subseteq Ids
  BY ConnectionAssumption DEF FreeIds
<1>2. FreeIds(h) \in SUBSET Nat
  BY <1>1 DEF Ids
<1>3. NewId(h) \in FreeIds(h)
  BY <1>2, SmallestOf DEF NewId
<1> QED
  BY <1>1, <1>3 DEF FreeIds, Ids

LEMMA FreeSocketOK ==
  FreeSocket \in Socket /\ FreeSocket.state = "FREE" /\ \A e, n, A : SocketOK(FreeSocket, e, n, A)
<1>1. FreeSocket \in Socket /\ FreeSocket.state = "FREE"
  BY ConnectionAssumption DEF FreeSocket, Socket, States
<1> QED
  BY <1>1 DEF SocketOK

\* Accepts and sums that are added later leave packets, sockets and entries sound.
LEMMA PacketStays ==
  ASSUME NEW n \in Nat, NEW k \in Nat, n <= k, NEW A, NEW B, \A a \in A : a \in B,
         NEW m, PacketOK(m, n, A)
  PROVE  PacketOK(m, k, B)
<1>1. 1..n \subseteq 1..k
  OBVIOUS
<1> QED
  BY <1>1, Zenon DEF PacketOK

LEMMA SocketStays ==
  ASSUME NEW n \in Nat, NEW k \in Nat, n <= k, NEW A, NEW B, \A a \in A : a \in B,
         NEW s, NEW e, SocketOK(s, e, n, A)
  PROVE  SocketOK(s, e, k, B)
<1>1. 1..n \subseteq 1..k
  OBVIOUS
<1> QED
  BY <1>1, Zenon DEF SocketOK, Bound

LEMMA EntryStays ==
  ASSUME NEW A, NEW B, \A a \in A : a \in B,
         NEW i, NEW h, NEW p, NEW S, EntryOK(i, h, p, S, A)
  PROVE  EntryOK(i, h, p, S, B)
BY Zenon DEF EntryOK

\* The parts of the invariant after a step, put together.
LEMMA NextIInv ==
  ASSUME sock' \in [Hosts -> [Ids -> Socket]], peers' \in [Hosts -> [Hosts \X Ids -> 0..MaxSockets]],
         sessions' \in Nat, accepted' \subseteq Session, dups' \in Nat,
         \A a \in accepted' : a.sum <= sessions',
         \A m \in net' : PacketOK(m, sessions', accepted'),
         \A h \in Hosts : \A i \in Ids : SocketOK(sock'[h][i], <<h, i>>, sessions', accepted'),
         \A h \in Hosts : \A i \in Ids : SumIsOwn(sock'[h][i], <<h, i>>, net', accepted'),
         SumsDiffer(sock'),
         \A h \in Hosts : \A p \in Hosts \X Ids : EntryOK(peers'[h][p], h, p, sock', accepted')
  PROVE  IInv'
BY Zenon DEF IInv

---------------------------------------------------------------------------
\* What s may become in a step that accepts nobody: it is freed, or it lives
\* on with the same peer and sum; only a socket that waits for its SYN2 may
\* get a remote id.
SameConn(s, t) == t.host = s.host /\ t.remote = s.remote /\ t.sum = s.sum

\* The index P of host h after such a step of socket i from s to t: entries
\* only go, and those of i go if i is freed or gets another peer.
IndexShrinks(P, h, i, s, t) ==
  /\ P \in [Hosts -> [Hosts \X Ids -> 0..MaxSockets]]
  /\ \A g \in Hosts : \A p \in Hosts \X Ids : P[g][p] # 0 => P[g][p] = peers[g][p]
  /\ (\E p \in Hosts \X Ids : P[h][p] = i) => t.state # "FREE" /\ SameConn(s, t)

\* The packets that leave socket i of host h in such a step.
OutOK(m, h, i) ==
  /\ PacketOK(m, sessions, accepted)
  /\ m.type = "SYN" => sock[h][i].state = "CONNECTING" /\ m = Syn(h, i, sock[h][i])

\* A step of one socket that accepts nobody and draws no sum.
LEMMA SocketStep ==
  ASSUME IInv, NEW h \in Hosts, NEW i \in Ids, NEW t,
         SocketOK(t, <<h, i>>, sessions, accepted),
         t.state = "CONNECTING" => sock[h][i].state = "CONNECTING" /\ SameConn(sock[h][i], t),
         sock' = [sock EXCEPT ![h][i] = t],
         IndexShrinks(peers', h, i, sock[h][i], t),
         \A m \in net' : m \in net \/ OutOK(m, h, i),
         dups' \in Nat, UNCHANGED <<sessions, accepted>>
  PROVE  IInv'
<1>1. t \in Socket /\ sock' \in [Hosts -> [Ids -> Socket]]
  BY DEF IInv, SocketOK
<1>2. /\ sock'[h][i] = t
      /\ \A g \in Hosts, j \in Ids : <<g, j>> # <<h, i>> => sock'[g][j] = sock[g][j]
  BY DEF IInv
<1>3. \A m \in net' : PacketOK(m, sessions, accepted)
  BY Zenon DEF IInv, OutOK
<1>4. \A g \in Hosts, j \in Ids : SocketOK(sock'[g][j], <<g, j>>, sessions, accepted)
  BY <1>2, ZenonT(90) DEF IInv
<1>5. \A g \in Hosts, j \in Ids : sock'[g][j].state = "CONNECTING" =>
        sock[g][j].state = "CONNECTING" /\ SameConn(sock[g][j], sock'[g][j])
  BY <1>2 DEF SameConn
<1>6. SumsDiffer(sock')
  BY <1>5 DEF IInv, SumsDiffer, SameConn
<1>7. ASSUME NEW g \in Hosts, NEW j \in Ids
      PROVE  SumIsOwn(sock'[g][j], <<g, j>>, net', accepted)
  <2> SUFFICES ASSUME sock'[g][j].state = "CONNECTING"
               PROVE  SumIsOwn(sock'[g][j], <<g, j>>, net', accepted)
    BY DEF SumIsOwn
  <2>1. sock[g][j].state = "CONNECTING" /\ SameConn(sock[g][j], sock'[g][j])
    BY <1>5
  <2>2. SumIsOwn(sock[g][j], <<g, j>>, net, accepted)
    BY DEF IInv
  <2>3. ASSUME NEW m \in net', m.type = "SYN", m.sum = sock'[g][j].sum
        PROVE  <<m.from, m.src>> = <<g, j>> /\ m.to = sock'[g][j].host
    <3>1. CASE m \in net
      BY <2>1, <2>2, <2>3, <3>1 DEF SumIsOwn, SameConn
    <3>2. CASE OutOK(m, h, i)
      <4>1. sock[h][i].state = "CONNECTING" /\ m = Syn(h, i, sock[h][i])
        BY <2>3, <3>2 DEF OutOK
      <4>2. m.sum = sock[h][i].sum /\ m.from = h /\ m.src = i /\ m.to = sock[h][i].host
        BY <4>1 DEF Syn
      <4>3. h = g /\ i = j
        BY <2>1, <2>3, <4>1, <4>2 DEF IInv, SumsDiffer, SameConn
      <4> QED
        BY <2>1, <4>2, <4>3 DEF SameConn
    <3> QED
      BY <3>1, <3>2
  <2>4. \A a \in accepted : a.sum = sock'[g][j].sum => a.client = <<g, j>> /\ a.server[1] = sock'[g][j].host
    BY <2>1, <2>2 DEF SumIsOwn, SameConn
  <2> QED
    BY <2>3, <2>4 DEF SumIsOwn
<1>8. ASSUME NEW g \in Hosts, NEW p \in Hosts \X Ids
      PROVE  EntryOK(peers'[g][p], g, p, sock', accepted)
  <2> SUFFICES ASSUME peers'[g][p] # 0
               PROVE  EntryOK(peers'[g][p], g, p, sock', accepted)
    BY DEF EntryOK
  <2>1. peers'[g][p] = peers[g][p]
    BY DEF IndexShrinks
  <2>2. EntryOK(peers'[g][p], g, p, sock, accepted)
    BY <2>1 DEF IInv
  <2>3. peers'[g][p] \in Ids
    BY ConnectionAssumption DEF IndexShrinks, Ids
  <2>4. CASE g = h /\ peers'[g][p] = i
    <3>1. t.state # "FREE" /\ SameConn(sock[h][i], t)
      BY <2>4 DEF IndexShrinks
    <3> QED
      BY <1>2, <2>2, <2>4, <3>1 DEF EntryOK, SameConn
  <2>5. CASE ~(g = h /\ peers'[g][p] = i)
    <3>1. sock'[g][peers'[g][p]] = sock[g][peers'[g][p]]
      BY <1>2, <2>3, <2>5
    <3> QED
      BY <2>2, <3>1 DEF EntryOK
  <2> QED
    BY <2>4, <2>5
<1>9. peers' \in [Hosts -> [Hosts \X Ids -> 0..MaxSockets]]
  BY DEF IndexShrinks
<1> QED
  BY <1>1, <1>3, <1>4, <1>6, <1>7, <1>8, <1>9, ZenonT(90) DEF IInv

---------------------------------------------------------------------------
(* What leaves, and what Keep and Close do.                                *)

\* A packet without an id of its own, from a socket that is in use.
LEMMA PacketOut ==
  ASSUME IInv, NEW h \in Hosts, NEW i \in Ids, NEW s,
         SocketOK(s, <<h, i>>, sessions, accepted), s.state # "FREE",
         NEW type, type \notin {"SYN", "SYN2"}
  PROVE  OutOK(Packet(h, s, type), h, i)
<1>1. s.host \in Hosts /\ s.sum \in 1..sessions /\ s.remote \in 0..MaxSockets
  BY DEF SocketOK, Socket
<1> QED
  BY <1>1 DEF OutOK, PacketOK, Packet

LEMMA SynOut ==
  ASSUME IInv, NEW h \in Hosts, NEW i \in Ids, sock[h][i].state = "CONNECTING"
  PROVE  OutOK(Syn(h, i, sock[h][i]), h, i)
<1>1. SocketOK(sock[h][i], <<h, i>>, sessions, accepted)
  BY DEF IInv
<1>2. sock[h][i].host \in Hosts /\ sock[h][i].sum \in 1..sessions
  BY <1>1 DEF SocketOK
<1>3. 0 \in 0..MaxSockets
  BY ConnectionAssumption
<1> QED
  BY <1>2, <1>3 DEF OutOK, PacketOK, Syn

\* What a SYN2 says of its session, and where its ids come from.
LEMMA Syn2Out ==
  ASSUME NEW h \in Hosts, NEW i \in Ids, NEW s \in Socket, NEW error, NEW n, NEW A,
         s.host \in Hosts, s.sum \in 1..n,
         \E a \in A : a.sum = s.sum /\ a.server = <<h, i>> /\ a.client = <<s.host, s.remote>>
  PROVE  PacketOK(Syn2(h, i, s, error), n, A) /\ Syn2(h, i, s, error).type # "SYN"
<1>1. s.remote \in 0..MaxSockets /\ s.out + 1 \in Nat \ {0}
  BY DEF Socket
<1> QED
  BY <1>1 DEF PacketOK, Syn2

LEMMA Leaves ==
  ASSUME IInv, NEW h \in Hosts, NEW i \in Ids, NEW rest \in SUBSET net, NEW out,
         \A m \in out : OutOK(m, h, i), Emit(rest, out)
  PROVE  \A m \in net' : m \in net \/ OutOK(m, h, i)
<1>1. net' \subseteq rest \cup out
  BY DEF Emit
<1> QED
  BY <1>1

\* A socket lives on: it keeps its peer, or it had none, and then no entry
\* of the index names it.
LEMMA KeepStep ==
  ASSUME IInv, NEW h \in Hosts, NEW i \in Ids, NEW t, NEW rest \in SUBSET net, NEW out,
         Keep(h, i, t, rest, out),
         SocketOK(t, <<h, i>>, sessions, accepted), t.state # "FREE",
         t.state = "CONNECTING" => sock[h][i].state = "CONNECTING",
         \/ SameConn(sock[h][i], t)
         \/ sock[h][i].remote = 0 /\ t.state # "CONNECTING",
         \A m \in out : OutOK(m, h, i),
         dups' \in Nat, UNCHANGED <<sessions, accepted>>
  PROVE  IInv'
<1>1. \A m \in net' : m \in net \/ OutOK(m, h, i)
  BY Leaves DEF Keep
<1>2. peers' = peers /\ peers \in [Hosts -> [Hosts \X Ids -> 0..MaxSockets]]
  BY DEF Keep, IInv
<1>3. ASSUME NEW p \in Hosts \X Ids, peers[h][p] = i
      PROVE  SameConn(sock[h][i], t)
  <2>1. i # 0 /\ p[2] # 0
    BY ConnectionAssumption DEF Ids
  <2>2. EntryOK(i, h, p, sock, accepted)
    BY <1>3 DEF IInv
  <2>3. sock[h][i].remote # 0
    BY <2>1, <2>2 DEF EntryOK
  <2> QED
    BY <2>3
<1>4. IndexShrinks(peers', h, i, sock[h][i], t)
  BY <1>2, <1>3 DEF IndexShrinks
<1>5. t.state = "CONNECTING" => sock[h][i].state = "CONNECTING" /\ SameConn(sock[h][i], t)
  OBVIOUS
<1>6. sock' = [sock EXCEPT ![h][i] = t]
  BY DEF Keep
<1> QED
  BY <1>1, <1>4, <1>5, <1>6, SocketStep

\* A socket is freed, and with it the entry of its peer.
LEMMA CloseStep ==
  ASSUME IInv, NEW h \in Hosts, NEW i \in Ids, NEW rest \in SUBSET net, NEW out,
         Close(h, i, rest, out), \A m \in out : OutOK(m, h, i),
         dups' \in Nat, UNCHANGED <<sessions, accepted>>
  PROVE  IInv'
<1> DEFINE peer == <<sock[h][i].host, sock[h][i].remote>>
<1>1. \A m \in net' : m \in net \/ OutOK(m, h, i)
  BY Leaves DEF Close
<1>2. peers \in [Hosts -> [Hosts \X Ids -> 0..MaxSockets]]
  BY DEF IInv
<1>3. peers' = [peers EXCEPT ![h] = [p \in Hosts \X Ids |-> IF p = peer THEN 0 ELSE peers[h][p]]]
  BY <1>2, Zenon DEF Close, Forget
<1>4. /\ peers' \in [Hosts -> [Hosts \X Ids -> 0..MaxSockets]]
      /\ \A g \in Hosts : \A p \in Hosts \X Ids : peers'[g][p] # 0 => peers'[g][p] = peers[g][p]
      /\ \A p \in Hosts \X Ids : peers'[h][p] # 0 => p # peer
  BY <1>2, <1>3, ConnectionAssumption
<1>5. ASSUME NEW p \in Hosts \X Ids, peers'[h][p] = i
      PROVE  FALSE
  <2>1. i # 0
    BY ConnectionAssumption DEF Ids
  <2>2. EntryOK(i, h, p, sock, accepted)
    BY <1>4, <1>5, <2>1 DEF IInv
  <2> QED
    BY <1>4, <1>5, <2>1, <2>2 DEF EntryOK
<1>6. IndexShrinks(peers', h, i, sock[h][i], FreeSocket)
  BY <1>4, <1>5, Zenon DEF IndexShrinks
<1>7. sock' = [sock EXCEPT ![h][i] = FreeSocket]
  BY DEF Close
<1> QED
  BY <1>1, <1>6, <1>7, FreeSocketOK, SocketStep

---------------------------------------------------------------------------
(* The actions.                                                            *)

\* A socket that is in use, and what the handlers do to it that is no
\* business of the peer.
LEMMA LiveSocket ==
  ASSUME IInv, NEW h \in Hosts, NEW i \in Ids, sock[h][i].state # "FREE"
  PROVE  /\ SocketOK(sock[h][i], <<h, i>>, sessions, accepted)
         /\ sock[h][i] \in Socket
         /\ sock[h][i].host \in Hosts /\ sock[h][i].sum \in 1..sessions
BY DEF IInv, SocketOK

LEMMA SameConnOK ==
  ASSUME NEW e, NEW n, NEW A, NEW s, SocketOK(s, e, n, A), s.state # "FREE",
         NEW t \in Socket, SameConn(s, t), t.state = "CONNECTING" => s.state = "CONNECTING"
  PROVE  SocketOK(t, e, n, A)
BY DEF SocketOK, SameConn, Bound

LEMMA ConnectKeeps ==
  ASSUME IInv, NEW h \in Hosts, NEW to \in Hosts, Connect(h, to)
  PROVE  IInv'
<1> DEFINE i == NewId(h)
           s == [FreeSocket EXCEPT !.state = "CONNECTING", !.host = to, !.sum = sessions + 1,
                                   !.handler = "BOUND", !.sends = 1]
<1>1. i \in Ids /\ i # 0 /\ sock[h][i].state = "FREE"
  BY NewIdIsFree DEF Connect
<1>2. /\ sessions \in Nat /\ sessions' = sessions + 1 /\ accepted' = accepted /\ dups' = dups
      /\ sock' = [sock EXCEPT ![h][i] = s] /\ peers' = peers
      /\ net' \subseteq net \cup {Syn(h, i, s)}
  BY Zenon DEF Connect, Keep, Emit, IInv
<1>3. /\ s \in Socket /\ s.state = "CONNECTING" /\ s.host = to /\ s.sum = sessions + 1 /\ s.remote = 0
  <2>1. FreeSocket.remote = 0 /\ FreeSocket \in Socket /\ sessions + 1 \in Nat
    BY <1>2, FreeSocketOK DEF FreeSocket
  <2> QED
    BY <2>1, ZenonT(90) DEF Socket, States
<1> HIDE DEF i, s
<1>4. /\ sock' \in [Hosts -> [Ids -> Socket]] /\ sock'[h][i] = s
      /\ \A g \in Hosts, j \in Ids : <<g, j>> # <<h, i>> => sock'[g][j] = sock[g][j]
  BY <1>1, <1>2, <1>3 DEF IInv
<1>5. /\ \A m \in net : PacketOK(m, sessions', accepted)
      /\ \A g \in Hosts, j \in Ids : SocketOK(sock[g][j], <<g, j>>, sessions', accepted)
  BY <1>2, PacketStays, SocketStays DEF IInv
<1>6. \A m \in net' : PacketOK(m, sessions', accepted)
  <2>1. sessions + 1 \in 1..(sessions + 1) /\ 0 \in 0..MaxSockets
    BY <1>2, ConnectionAssumption
  <2>2. PacketOK(Syn(h, i, s), sessions', accepted)
    BY <1>1, <1>2, <1>3, <2>1 DEF PacketOK, Syn
  <2> QED
    BY <1>2, <1>5, <2>2
<1>7. SocketOK(s, <<h, i>>, sessions', accepted)
  BY <1>2, <1>3 DEF SocketOK
<1>8. \A g \in Hosts, j \in Ids : SocketOK(sock'[g][j], <<g, j>>, sessions', accepted)
  BY <1>4, <1>5, <1>7
<1>9. \A g \in Hosts, j \in Ids :
        <<g, j>> # <<h, i>> /\ sock[g][j].state = "CONNECTING" => sock[g][j].sum # sessions + 1
  <2>1. \A g \in Hosts, j \in Ids : sock[g][j].state = "CONNECTING" => sock[g][j].sum \in 1..sessions
    BY DEF IInv, SocketOK
  <2> QED
    BY <1>2, <2>1
<1>10. SumsDiffer(sock')
  <2> SUFFICES ASSUME NEW g \in Hosts, NEW k \in Hosts, NEW j \in Ids, NEW l \in Ids,
                      sock'[g][j].state = "CONNECTING", sock'[k][l].state = "CONNECTING",
                      sock'[g][j].sum = sock'[k][l].sum
               PROVE  g = k /\ j = l
    BY DEF SumsDiffer
  <2>1. CASE <<g, j>> = <<h, i>> \/ <<k, l>> = <<h, i>>
    BY <1>3, <1>4, <1>9, <2>1
  <2>2. CASE <<g, j>> # <<h, i>> /\ <<k, l>> # <<h, i>>
    BY <1>4, <2>2 DEF IInv, SumsDiffer
  <2> QED
    BY <2>1, <2>2
<1>11. SumIsOwn(s, <<h, i>>, net', accepted)
  <2>1. \A m \in net : m.sum # sessions + 1
    BY <1>2 DEF IInv, PacketOK
  <2>2. \A a \in accepted : a.sum # sessions + 1
    BY <1>2 DEF IInv
  <2> QED
    BY <1>2, <1>3, <2>1, <2>2 DEF SumIsOwn, Syn
<1>12. ASSUME NEW g \in Hosts, NEW j \in Ids, <<g, j>> # <<h, i>>
       PROVE  SumIsOwn(sock[g][j], <<g, j>>, net', accepted)
  <2>1. SumIsOwn(sock[g][j], <<g, j>>, net, accepted)
    BY DEF IInv
  <2> QED
    BY <1>2, <1>3, <1>9, <1>12, <2>1 DEF SumIsOwn, Syn
<1>13. ASSUME NEW g \in Hosts, NEW p \in Hosts \X Ids
       PROVE  EntryOK(peers'[g][p], g, p, sock', accepted)
  <2>1. EntryOK(peers[g][p], g, p, sock, accepted) /\ peers[g][p] \in 0..MaxSockets
    BY DEF IInv
  <2>2. CASE peers[g][p] = 0
    BY <1>2, <2>2 DEF EntryOK
  <2>3. CASE peers[g][p] # 0
    <3>1. peers[g][p] \in Ids /\ <<g, peers[g][p]>> # <<h, i>>
      BY <1>1, <2>1, <2>3, ConnectionAssumption DEF EntryOK, Ids
    <3> QED
      BY <1>2, <1>4, <2>1, <3>1 DEF EntryOK
  <2> QED
    BY <2>2, <2>3
<1>14. \A a \in accepted : a.sum <= sessions'
  BY <1>2 DEF IInv, Session
<1>15. /\ peers' \in [Hosts -> [Hosts \X Ids -> 0..MaxSockets]] /\ sessions' \in Nat
       /\ accepted \subseteq Session /\ dups' \in Nat
  <2>1. sessions + 1 \in Nat
    BY <1>2
  <2> QED
    BY <1>2, <2>1, Zenon DEF IInv
<1>16. \A g \in Hosts : \A j \in Ids : SumIsOwn(sock'[g][j], <<g, j>>, net', accepted)
  BY <1>4, <1>11, <1>12
<1> QED
  BY <1>2, <1>4, <1>6, <1>8, <1>10, <1>13, <1>14, <1>15, <1>16, ZenonT(90) DEF IInv

LEMMA ApplicationKeeps ==
  ASSUME IInv, NEW h \in Hosts, NEW i \in Ids, AppClose(h, i) \/ ForceClose(h, i) \/ AppSend(h, i)
  PROVE  IInv'
<1> DEFINE s == sock[h][i]
<1>1. /\ s.state \in {"CONNECTING", "CONNECTED"} /\ s.state # "FREE"
      /\ dups' \in Nat /\ UNCHANGED <<sessions, accepted>>
  BY DEF AppClose, ForceClose, AppSend, IInv
<1>2. SocketOK(s, <<h, i>>, sessions, accepted) /\ s \in Socket
  BY <1>1, LiveSocket
<1>3. OutOK(Packet(h, s, "FIN"), h, i)
  BY <1>1, <1>2, PacketOut
<1>4. CASE AppClose(h, i)
  <2> DEFINE t == [s EXCEPT !.handler = "NONE", !.state = "FIN", !.sends = 1]
  <2>1. Keep(h, i, t, net, {Packet(h, s, "FIN")})
    BY <1>4 DEF AppClose
  <2>2. t \in Socket /\ t.state = "FIN" /\ SameConn(s, t)
    BY <1>2 DEF Socket, States, SameConn
  <2>3. SocketOK(t, <<h, i>>, sessions, accepted)
    BY <1>1, <1>2, <2>2, SameConnOK
  <2> HIDE DEF s, t
  <2>4. \A m \in {Packet(h, s, "FIN")} : OutOK(m, h, i)
    BY <1>3
  <2> QED
    BY <1>1, <2>1, <2>2, <2>3, <2>4, KeepStep DEF s
<1>5. CASE ForceClose(h, i)
  <2>1. Close(h, i, net, {Packet(h, s, "FIN")})
    BY <1>5 DEF ForceClose
  <2>2. \A m \in {Packet(h, s, "FIN")} : OutOK(m, h, i)
    BY <1>3
  <2> QED
    BY <1>1, <2>1, <2>2, CloseStep
<1>6. CASE AppSend(h, i)
  <2> DEFINE t == [s EXCEPT !.out = @ + 1]
  <2>1. Keep(h, i, t, net, {}) /\ s.state = "CONNECTED"
    BY <1>6 DEF AppSend
  <2>2. t \in Socket /\ t.state = "CONNECTED" /\ SameConn(s, t)
    BY <1>2, <2>1 DEF Socket, SameConn
  <2>3. SocketOK(t, <<h, i>>, sessions, accepted)
    BY <1>1, <1>2, <2>2, SameConnOK
  <2> HIDE DEF s, t
  <2> QED
    BY <1>1, <2>1, <2>2, <2>3, KeepStep DEF s
<1> QED
  BY <1>4, <1>5, <1>6

LEMMA TimerKeeps ==
  ASSUME IInv, NEW h \in Hosts, NEW i \in Ids, Timeout(h, i) \/ Heartbeat(h, i)
  PROVE  IInv'
<1> DEFINE s == sock[h][i]
<1>1. /\ s.state \in {"CONNECTING", "CONNECTED", "FIN"} /\ s.state # "FREE"
      /\ dups' \in Nat /\ UNCHANGED <<sessions, accepted>>
  BY DEF Timeout, Heartbeat, IInv
<1>2. SocketOK(s, <<h, i>>, sessions, accepted) /\ s \in Socket
  BY <1>1, LiveSocket
<1>3. \/ \E m : OutOK(m, h, i) /\ Keep(h, i, Again(s), net, {m})
      \/ \E m : OutOK(m, h, i) /\ Keep(h, i, Missed(s), net, {m})
      \/ Close(h, i, net, {})
  <2>1. CASE Timeout(h, i)
    BY <1>1, <1>2, <2>1, SynOut, PacketOut DEF Timeout
  <2>2. CASE Heartbeat(h, i)
    BY <1>1, <1>2, <2>2, PacketOut DEF Heartbeat
  <2> QED
    BY <2>1, <2>2
<1>4. ASSUME NEW t \in {Again(s), Missed(s)}
      PROVE  /\ SocketOK(t, <<h, i>>, sessions, accepted) /\ SameConn(s, t)
             /\ t.state = s.state
  <2>1. t \in Socket /\ SameConn(s, t) /\ t.state = s.state
    BY <1>2 DEF Again, Missed, Socket, SameConn
  <2> QED
    BY <1>1, <1>2, <2>1, SameConnOK
<1>5. ASSUME NEW t \in {Again(s), Missed(s)}, NEW m, OutOK(m, h, i), Keep(h, i, t, net, {m})
      PROVE  IInv'
  <2>1. /\ SocketOK(t, <<h, i>>, sessions, accepted) /\ SameConn(s, t)
        /\ t.state = s.state
    BY <1>4
  <2> HIDE DEF s
  <2> QED
    BY <1>1, <1>5, <2>1, KeepStep DEF s
<1>6. CASE Close(h, i, net, {})
  BY <1>1, <1>6, CloseStep
<1> QED
  BY <1>3, <1>5, <1>6

\* A SYN that finds no half-open socket: accept.
LEMMA AcceptKeeps ==
  ASSUME IInv, NEW m \in net, m.type = "SYN", NEW rest \in SUBSET net,
         FreeIds(m.to) # {}, NEW i, i = NewId(m.to),
         NEW s, s = [FreeSocket EXCEPT !.state = "CONNECTED", !.host = m.from, !.remote = m.src,
                                       !.sum = m.sum, !.handler = "BOUND"],
         sock' = [sock EXCEPT ![m.to][i] = s],
         peers' = [peers EXCEPT ![m.to][<<m.from, m.src>>] = i],
         accepted' = accepted \cup
           {[sum |-> m.sum, client |-> <<m.from, m.src>>, server |-> <<m.to, i>>]},
         Emit(rest, {Syn2(m.to, i, s, FALSE), Packet(m.to, s, "KEEPALIVE")}),
         dups' \in Nat, UNCHANGED sessions
  PROVE  IInv'
<1> DEFINE h == m.to
           peer == <<m.from, m.src>>
           new == [sum |-> m.sum, client |-> peer, server |-> <<h, i>>]
<1>1. /\ m.from \in Hosts /\ h \in Hosts /\ m.sum \in 1..sessions /\ m.src \in Ids
      /\ sessions \in Nat /\ Ids \subseteq 0..MaxSockets /\ peer \in Hosts \X Ids
  BY DEF IInv, PacketOK, Ids
<1>2. i \in Ids /\ i # 0 /\ sock[h][i].state = "FREE"
  BY <1>1, NewIdIsFree
<1>3. /\ s \in Socket /\ s.state = "CONNECTED" /\ s.host = m.from /\ s.remote = m.src /\ s.sum = m.sum
  <2>1. FreeSocket \in Socket /\ m.sum \in Nat
    BY <1>1, FreeSocketOK
  <2>2. m.src \in 0..MaxSockets
    BY <1>1
  <2> QED
    BY <1>1, <2>1, <2>2, ZenonT(90) DEF Socket, States
<1>4. /\ sock' \in [Hosts -> [Ids -> Socket]] /\ sock'[h][i] = s
      /\ \A g \in Hosts, j \in Ids : <<g, j>> # <<h, i>> => sock'[g][j] = sock[g][j]
  BY <1>1, <1>2, <1>3 DEF IInv
<1>5. new \in Session /\ new \in accepted' /\ accepted \subseteq accepted' /\ accepted' \subseteq Session
  BY <1>1, <1>2 DEF Session, IInv
<1>6. /\ \A n \in net : PacketOK(n, sessions, accepted')
      /\ \A g \in Hosts, j \in Ids : SocketOK(sock[g][j], <<g, j>>, sessions, accepted')
      /\ \A g \in Hosts, p \in Hosts \X Ids : EntryOK(peers[g][p], g, p, sock, accepted')
  <2>1. sessions \in Nat /\ sessions <= sessions /\ \A a \in accepted : a \in accepted'
    BY <1>1, <1>5
  <2>2. \A n \in net : PacketOK(n, sessions, accepted')
    BY <2>1, PacketStays DEF IInv
  <2>3. ASSUME NEW g \in Hosts, NEW j \in Ids
        PROVE  SocketOK(sock[g][j], <<g, j>>, sessions, accepted')
    <3>1. SocketOK(sock[g][j], <<g, j>>, sessions, accepted)
      BY DEF IInv
    <3> QED
      BY <2>1, <3>1, SocketStays
  <2>4. \A g \in Hosts, p \in Hosts \X Ids : EntryOK(peers[g][p], g, p, sock, accepted')
    BY <2>1, EntryStays DEF IInv
  <2> QED
    BY <2>2, <2>3, <2>4
<1>7. /\ net' \subseteq net \cup {Syn2(h, i, s, FALSE), Packet(h, s, "KEEPALIVE")}
      /\ \A n \in net' : n.type = "SYN" => n \in net
  BY DEF Emit, Syn2, Packet
<1>8. new.sum = s.sum /\ new.server = <<h, i>> /\ new.client = <<s.host, s.remote>>
  BY <1>3
<1>9. \A n \in net' : PacketOK(n, sessions, accepted')
  <2>1. PacketOK(Syn2(h, i, s, FALSE), sessions, accepted')
    BY <1>1, <1>2, <1>3, <1>5, <1>8, Syn2Out, ZenonT(90)
  <2>2. PacketOK(Packet(h, s, "KEEPALIVE"), sessions, accepted')
    BY <1>1, <1>3 DEF PacketOK, Packet
  <2> QED
    BY <1>6, <1>7, <2>1, <2>2
<1>10. SocketOK(s, <<h, i>>, sessions, accepted')
  <2>1. Bound(s, <<h, i>>, accepted')
    BY <1>5, <1>8 DEF Bound
  <2> QED
    BY <1>1, <1>3, <2>1 DEF SocketOK
<1> HIDE DEF new
<1>11. ASSUME NEW g \in Hosts, NEW j \in Ids
       PROVE  SumIsOwn(sock'[g][j], <<g, j>>, net', accepted')
  <2> SUFFICES ASSUME sock'[g][j].state = "CONNECTING"
               PROVE  SumIsOwn(sock'[g][j], <<g, j>>, net', accepted')
    BY DEF SumIsOwn
  <2>1. sock'[g][j] = sock[g][j]
    BY <1>3, <1>4
  <2>2. SumIsOwn(sock[g][j], <<g, j>>, net, accepted)
    BY DEF IInv
  <2>3. m.sum = sock[g][j].sum => peer = <<g, j>> /\ h = sock[g][j].host
    BY <2>1, <2>2 DEF SumIsOwn
  <2>4. new.sum = m.sum /\ new.client = peer /\ new.server = <<h, i>>
    BY DEF new
  <2>5. new.sum = sock[g][j].sum => new.client = <<g, j>> /\ new.server[1] = sock[g][j].host
    BY <2>3, <2>4
  <2>6. accepted' = accepted \cup {new}
    BY DEF new
  <2> QED
    BY <1>7, <2>1, <2>2, <2>5, <2>6 DEF SumIsOwn
<1>12. ASSUME NEW g \in Hosts, NEW p \in Hosts \X Ids
       PROVE  EntryOK(peers'[g][p], g, p, sock', accepted')
  <2>1. EntryOK(peers[g][p], g, p, sock, accepted') /\ peers[g][p] \in 0..MaxSockets
    BY <1>6 DEF IInv
  <2>2. CASE g = h /\ p = peer
    <3>1. peers'[g][p] = i
      BY <1>1, <2>2 DEF IInv
    <3>2. new.sum = s.sum /\ new.server = <<h, i>> /\ new.client = p
      BY <1>3, <1>8, <2>2
    <3> QED
      BY <1>3, <1>4, <1>5, <2>2, <3>1, <3>2 DEF EntryOK
  <2>3. CASE ~(g = h /\ p = peer)
    <3>1. peers'[g][p] = peers[g][p]
      BY <1>1, <2>3 DEF IInv
    <3>2. CASE peers[g][p] # 0
      <4>1. peers[g][p] \in Ids /\ <<g, peers[g][p]>> # <<h, i>>
        BY <1>2, <2>1, <3>2, ConnectionAssumption DEF EntryOK, Ids
      <4>2. sock'[g][peers[g][p]] = sock[g][peers[g][p]]
        BY <1>4, <4>1
      <4> QED
        BY <2>1, <3>1, <4>2, ZenonT(90) DEF EntryOK
    <3> QED
      BY <3>1, <3>2 DEF EntryOK
  <2> QED
    BY <2>2, <2>3
<1>13. SumsDiffer(sock')
  BY <1>3, <1>4 DEF SumsDiffer, IInv
<1>14. \A a \in accepted' : a.sum <= sessions
  BY <1>1 DEF IInv
<1>15. peers' \in [Hosts -> [Hosts \X Ids -> 0..MaxSockets]]
  BY <1>1, <1>2 DEF IInv
<1>16. ASSUME NEW g \in Hosts, NEW j \in Ids
       PROVE  SocketOK(sock'[g][j], <<g, j>>, sessions, accepted')
  <2>1. CASE <<g, j>> = <<h, i>>
    BY <1>4, <1>10, <2>1
  <2>2. CASE <<g, j>> # <<h, i>>
    <3>1. sock'[g][j] = sock[g][j]
      BY <1>4, <2>2
    <3> QED
      BY <1>6, <3>1
  <2> QED
    BY <2>1, <2>2
<1> HIDE DEF h, peer
<1>17. /\ sock' \in [Hosts -> [Ids -> Socket]] /\ sessions' \in Nat
       /\ accepted' \subseteq Session /\ dups' \in Nat
  BY <1>1, <1>4, <1>5
<1>18. /\ \A a \in accepted' : a.sum <= sessions'
       /\ \A n \in net' : PacketOK(n, sessions', accepted')
       /\ \A g \in Hosts : \A j \in Ids : SocketOK(sock'[g][j], <<g, j>>, sessions', accepted')
  BY <1>9, <1>14, <1>16
<1>19. \A g \in Hosts : \A j \in Ids : SumIsOwn(sock'[g][j], <<g, j>>, net', accepted')
  BY <1>11
<1>20. \A g \in Hosts : \A p \in Hosts \X Ids : EntryOK(peers'[g][p], g, p, sock', accepted')
  BY <1>12
<1> QED
  BY <1>13, <1>15, <1>17, <1>18, <1>19, <1>20, NextIInv, Zenon

\* A SYN that finds a half-open socket is answered from it, once more or for
\* the last time.
LEMMA ProcessSynKeeps ==
  ASSUME IInv, NEW m \in net, m.type = "SYN", NEW rest \in SUBSET net,
         ProcessSyn(m.to, m, rest), dups' \in Nat, UNCHANGED sessions
  PROVE  IInv'
<1> DEFINE h == m.to
           found == peers[h][<<m.from, m.src>>]
           s == sock[h][found]
<1>1. h \in Hosts /\ <<m.from, m.src>> \in Hosts \X Ids
  BY DEF IInv, PacketOK
<1>2. EntryOK(found, h, <<m.from, m.src>>, sock, accepted) /\ found \in 0..MaxSockets
  BY <1>1 DEF IInv
<1>3. CASE found = 0
  <2> DEFINE i == NewId(h)
             new == [FreeSocket EXCEPT !.state = "CONNECTED", !.host = m.from, !.remote = m.src,
                                       !.sum = m.sum, !.handler = "BOUND"]
  <2>1. /\ FreeIds(m.to) # {}
        /\ sock' = [sock EXCEPT ![m.to][i] = new]
        /\ peers' = [peers EXCEPT ![m.to][<<m.from, m.src>>] = i]
        /\ accepted' = accepted \cup
             {[sum |-> m.sum, client |-> <<m.from, m.src>>, server |-> <<m.to, i>>]}
        /\ Emit(rest, {Syn2(m.to, i, new, FALSE), Packet(m.to, new, "KEEPALIVE")})
    BY <1>3 DEF ProcessSyn
  <2>2. \E t, j :
          /\ j = NewId(m.to)
          /\ t = [FreeSocket EXCEPT !.state = "CONNECTED", !.host = m.from, !.remote = m.src,
                                    !.sum = m.sum, !.handler = "BOUND"]
          /\ sock' = [sock EXCEPT ![m.to][j] = t]
          /\ peers' = [peers EXCEPT ![m.to][<<m.from, m.src>>] = j]
          /\ accepted' = accepted \cup
               {[sum |-> m.sum, client |-> <<m.from, m.src>>, server |-> <<m.to, j>>]}
          /\ Emit(rest, {Syn2(m.to, j, t, FALSE), Packet(m.to, t, "KEEPALIVE")})
    BY <2>1, Zenon
  <2> QED
    BY <2>1, <2>2, AcceptKeeps
<1>4. CASE found # 0
  <2>1. found \in Ids /\ s.state # "FREE"
    BY <1>2, <1>4 DEF EntryOK, Ids
  <2>2. SocketOK(s, <<h, found>>, sessions, accepted) /\ s \in Socket
        /\ s.host \in Hosts /\ s.sum \in 1..sessions
    BY <1>1, <2>1, LiveSocket
  <2>3. \A error : OutOK(Syn2(h, found, s, error), h, found)
    <3>1. \E a \in accepted : a.sum = s.sum /\ a.server = <<h, found>> /\ a.client = <<s.host, s.remote>>
      BY <1>2, <1>4 DEF EntryOK
    <3> QED
      BY <1>1, <2>1, <2>2, <3>1, Syn2Out, ZenonT(90) DEF OutOK
  <2>4. CASE s.state \in {"CONNECTING", "CONNECTED"}
    <3>1. Keep(h, found, s, rest, {Syn2(h, found, s, FALSE)}) /\ UNCHANGED accepted
      BY <1>4, <2>4 DEF ProcessSyn
    <3>2. SameConn(s, s) /\ \A n \in {Syn2(h, found, s, FALSE)} : OutOK(n, h, found)
      BY <2>3 DEF SameConn
    <3> HIDE DEF h, found
    <3> QED
      BY <1>1, <2>1, <2>2, <3>1, <3>2, KeepStep, ZenonT(90)
  <2>5. CASE s.state = "FIN"
    <3>1. Close(h, found, rest, {Syn2(h, found, s, TRUE)}) /\ UNCHANGED accepted
      BY <1>4, <2>5 DEF ProcessSyn
    <3>2. \A n \in {Syn2(h, found, s, TRUE)} : OutOK(n, h, found)
      BY <2>3
    <3> HIDE DEF h, found
    <3> QED
      BY <1>1, <2>1, <3>1, <3>2, CloseStep
  <2> QED
    BY <2>1, <2>2, <2>4, <2>5 DEF Socket, States
<1> QED
  BY <1>3, <1>4

\* The socket that a SYN2 connects, and the one that a FIN2 leaves closing.
Connected(s, remote, skipped) ==
  [s EXCEPT !.state = "CONNECTED", !.sends = 0, !.remote = remote, !.skipped = skipped]

LEMMA ConnectedSocket ==
  ASSUME NEW s \in Socket, NEW remote \in 0..MaxSockets, NEW skipped \in Nat
  PROVE  /\ Connected(s, remote, skipped) \in Socket
         /\ Connected(s, remote, skipped).state = "CONNECTED"
         /\ Connected(s, remote, skipped).host = s.host
         /\ Connected(s, remote, skipped).sum = s.sum
         /\ Connected(s, remote, skipped).remote = remote
BY DEF Socket, States, Connected

LEMMA ClosingSocket ==
  ASSUME NEW s \in Socket,
         NEW t, t = [s EXCEPT !.state = "FIN", !.sends = 1, !.handler = "DELETED"]
  PROVE  t \in Socket /\ t.state = "FIN" /\ SameConn(s, t)
<1>1. t \in Socket
  BY DEF Socket, States
<1>2. t.state = "FIN" /\ t.host = s.host /\ t.remote = s.remote /\ t.sum = s.sum
  BY DEF Socket
<1> QED
  BY <1>1, <1>2 DEF SameConn

\* A SYN2 connects the socket that waits for it, to the socket it was accepted by.
LEMMA Syn2Keeps ==
  ASSUME IInv, NEW m \in net, Mine(m), m.type = "SYN2", NEW rest \in SUBSET net,
         NEW s \in Socket, SameConn(sock[m.to][m.id], s), s.state = sock[m.to][m.id].state,
         s.state = "CONNECTING",
         Keep(m.to, m.id, Connected(s, m.src, m.start - 1), rest,
              {Packet(m.to, Connected(s, m.src, m.start - 1), "SYN_ACK")}),
         dups' \in Nat, UNCHANGED <<sessions, accepted>>
  PROVE  IInv'
<1> DEFINE h == m.to
           i == m.id
           c == Connected(s, m.src, m.start - 1)
<1>1. /\ h \in Hosts /\ i \in Ids /\ sock[h][i].state = "CONNECTING" /\ sock[h][i].sum = m.sum
      /\ PacketOK(m, sessions, accepted)
  BY DEF IInv, PacketOK, Mine
<1>2. sock[h][i].host = s.host /\ sock[h][i].sum = s.sum
  BY DEF SameConn
<1>3. /\ s.host \in Hosts /\ s.sum \in 1..sessions /\ sock[h][i].remote = 0
  BY <1>1, <1>2, LiveSocket DEF SocketOK
<1>4. m.src \in Ids /\ m.start \in Nat \ {0}
  BY <1>1 DEF PacketOK
<1>5. PICK a \in accepted : a.sum = m.sum /\ a.server = <<m.from, m.src>> /\ a.client = <<m.to, m.id>>
  BY <1>1 DEF PacketOK
<1>6. a.client = <<h, i>> /\ a.server[1] = s.host
  <2>1. SumIsOwn(sock[h][i], <<h, i>>, net, accepted)
    BY <1>1 DEF IInv
  <2> QED
    BY <1>1, <1>2, <1>5, <2>1 DEF SumIsOwn
<1>7. a.server = <<s.host, m.src>> /\ a.sum = s.sum
  <2>1. a.server = <<m.from, m.src>>
    BY <1>5
  <2>2. m.from = s.host
    BY <1>6, <2>1
  <2>3. a.sum = s.sum
    BY <1>1, <1>2, <1>5
  <2> QED
    BY <2>1, <2>2, <2>3
<1>8. m.src \in 0..MaxSockets /\ m.start - 1 \in Nat
  BY <1>4, ConnectionAssumption DEF Ids
<1>9. /\ c \in Socket /\ c.state = "CONNECTED" /\ c.host = s.host /\ c.sum = s.sum
      /\ c.remote = m.src
  BY <1>8, ConnectedSocket, SMTT(120)
<1>10. Keep(h, i, c, rest, {Packet(h, c, "SYN_ACK")})
  OBVIOUS
<1> HIDE DEF c
<1>11. Bound(c, <<h, i>>, accepted)
  <2>1. {a.client, a.server} = {<<h, i>>, <<c.host, c.remote>>} /\ a.sum = c.sum
    BY <1>6, <1>7, <1>9
  <2> QED
    BY <2>1 DEF Bound
<1>12. SocketOK(c, <<h, i>>, sessions, accepted)
  BY <1>3, <1>9, <1>11 DEF SocketOK
<1>13. \A x \in {Packet(h, c, "SYN_ACK")} : OutOK(x, h, i)
  <2>1. c.state # "FREE"
    BY <1>9
  <2> QED
    BY <1>1, <1>12, <2>1, PacketOut
<1>14. c.state # "FREE" /\ c.state # "CONNECTING" /\ sock[h][i].state # "FREE"
  BY <1>1, <1>9
<1> HIDE DEF h, i
<1> QED
  BY <1>1, <1>3, <1>10, <1>12, <1>13, <1>14, KeepStep

\* A packet for a socket: the session it belongs to is the socket's.
LEMMA ProcessMineKeeps ==
  ASSUME IInv, NEW m \in net, Mine(m), NEW rest \in SUBSET net,
         NEW h, h = m.to, NEW i, i = m.id, NEW s, s = [sock[h][i] EXCEPT !.alive = 0],
         \/ m.type = "SYN2" /\ ProcessSyn2(h, i, s, m, rest)
         \/ ProcessSynAck(h, i, s, rest)
         \/ ProcessFin(h, i, s, rest)
         \/ ProcessFin2(h, i, s, rest)
         \/ ProcessKeepalive(h, i, s, rest)
         \/ Keep(h, i, s, rest, {}),
         dups' \in Nat, UNCHANGED <<sessions, accepted>>
  PROVE  IInv'
<1>1. /\ h \in Hosts /\ i \in Ids /\ sock[h][i].state # "FREE" /\ sock[h][i].sum = m.sum
      /\ PacketOK(m, sessions, accepted)
  BY DEF IInv, PacketOK, Mine
<1>2. /\ SocketOK(sock[h][i], <<h, i>>, sessions, accepted) /\ sock[h][i] \in Socket
  BY <1>1, LiveSocket
<1>3. /\ s \in Socket /\ SameConn(sock[h][i], s) /\ s.state = sock[h][i].state
  BY <1>2 DEF Socket, SameConn
<1>4. SocketOK(s, <<h, i>>, sessions, accepted) /\ s.state # "FREE"
  BY <1>1, <1>2, <1>3, SameConnOK
<1>5. \A t, type : SocketOK(t, <<h, i>>, sessions, accepted) /\ t.state # "FREE" /\ type \notin {"SYN", "SYN2"}
        => OutOK(Packet(h, t, type), h, i)
  BY <1>1, PacketOut
<1>6. ASSUME NEW out, Keep(h, i, s, rest, out), \A x \in out : OutOK(x, h, i)
      PROVE  IInv'
  BY <1>1, <1>3, <1>4, <1>6, KeepStep, ZenonT(90)
<1>7. ASSUME NEW out, Close(h, i, rest, out), \A x \in out : OutOK(x, h, i)
      PROVE  IInv'
  BY <1>1, <1>7, CloseStep
<1>8. CASE m.type = "SYN2" /\ ProcessSyn2(h, i, s, m, rest)
  <2>1. CASE Close(h, i, rest, {})
    BY <1>7, <2>1
  <2>2. CASE Keep(h, i, s, rest, {Packet(h, s, "SYN_ACK")}) \/ Keep(h, i, s, rest, {})
    <3>1. \A x \in {Packet(h, s, "SYN_ACK")} : OutOK(x, h, i)
      BY <1>4, <1>5, ZenonT(90)
    <3>2. \A x \in {} : OutOK(x, h, i)
      OBVIOUS
    <3> QED
      BY <1>6, <2>2, <3>1, <3>2
  <2>3. ASSUME s.state = "CONNECTING",
               Keep(h, i, Connected(s, m.src, m.start - 1), rest,
                    {Packet(h, Connected(s, m.src, m.start - 1), "SYN_ACK")})
        PROVE  IInv'
    BY <1>3, <1>8, <2>3, Syn2Keeps
  <2> QED
    BY <1>8, <2>1, <2>2, <2>3 DEF ProcessSyn2, Connected
<1>9. CASE ProcessSynAck(h, i, s, rest)
  <2>1. /\ sock' = [sock EXCEPT ![h][i] = s] /\ Emit(rest, {})
        /\ peers' = [peers EXCEPT ![h] = [p \in DOMAIN peers[h] |-> IF p = <<s.host, s.remote>> THEN 0 ELSE peers[h][p]]]
    BY <1>9, Zenon DEF ProcessSynAck, Forget
  <2>2. peers \in [Hosts -> [Hosts \X Ids -> 0..MaxSockets]] /\ 0 \in 0..MaxSockets
    <3>1. 0 \in 0..MaxSockets
      BY ConnectionAssumption
    <3> QED
      BY <3>1 DEF IInv
  <2>3. IndexShrinks(peers', h, i, sock[h][i], s)
    BY <1>1, <1>3, <1>4, <2>1, <2>2, ZenonT(90) DEF IndexShrinks
  <2>4. \A x \in net' : x \in net
    BY <2>1 DEF Emit
  <2> QED
    BY <1>1, <1>3, <1>4, <2>1, <2>3, <2>4, SocketStep
<1>10. CASE ProcessFin(h, i, s, rest)
  <2>1. Close(h, i, rest, {Packet(h, s, "FIN2")})
    BY <1>10 DEF ProcessFin
  <2>2. \A x \in {Packet(h, s, "FIN2")} : OutOK(x, h, i)
    BY <1>4, <1>5, ZenonT(90)
  <2> QED
    BY <1>7, <2>1, <2>2
<1>11. CASE ProcessFin2(h, i, s, rest)
  <2> DEFINE t == [s EXCEPT !.state = "FIN", !.sends = 1, !.handler = "DELETED"]
  <2>1. t \in Socket /\ t.state = "FIN" /\ SameConn(s, t)
    BY <1>3, ClosingSocket
  <2> HIDE DEF t
  <2>2. SocketOK(t, <<h, i>>, sessions, accepted) /\ SameConn(sock[h][i], t)
    <3>1. SocketOK(t, <<h, i>>, sessions, accepted)
      BY <1>4, <2>1, SameConnOK
    <3>2. SameConn(sock[h][i], t)
      BY <1>3, <2>1 DEF SameConn
    <3> QED
      BY <3>1, <3>2
  <2>3. \A x \in {Packet(h, s, "FIN")} : OutOK(x, h, i)
    BY <1>4, <1>5, ZenonT(90)
  <2>4. \/ Close(h, i, rest, {}) \/ Keep(h, i, s, rest, {})
        \/ Keep(h, i, t, rest, {Packet(h, s, "FIN")})
    BY <1>11 DEF ProcessFin2, t
  <2>5. CASE Close(h, i, rest, {}) \/ Keep(h, i, s, rest, {})
    BY <1>6, <1>7, <2>5
  <2>6. CASE Keep(h, i, t, rest, {Packet(h, s, "FIN")})
    <3>1. t.state # "FREE" /\ t.state # "CONNECTING"
      BY <2>1
    <3> QED
      BY <1>1, <2>2, <2>3, <2>6, <3>1, KeepStep
  <2> QED
    BY <2>4, <2>5, <2>6
<1>12. CASE ProcessKeepalive(h, i, s, rest)
  <2> DEFINE out == IF s.state = "CONNECTED" THEN {Packet(h, s, "KEEPALIVE_ACK")} ELSE {}
  <2>1. Keep(h, i, s, rest, out)
    BY <1>12 DEF ProcessKeepalive
  <2>2. \A x \in out : OutOK(x, h, i)
    BY <1>4, <1>5, ZenonT(90)
  <2> HIDE DEF out
  <2> QED
    BY <1>6, <2>1, <2>2
<1>13. CASE Keep(h, i, s, rest, {})
  BY <1>6, <1>13
<1> QED
  BY <1>8, <1>9, <1>10, <1>11, <1>12, <1>13

\* Packets go, and nothing else happens.
LEMMA LostKeeps ==
  ASSUME IInv, UNCHANGED <<sock, peers, sessions, accepted>>, net' \subseteq net, dups' \in Nat
  PROVE  IInv'
<1>1. \A h \in Hosts : \A i \in Ids : SumIsOwn(sock[h][i], <<h, i>>, net', accepted)
  <2>1. \A h \in Hosts : \A i \in Ids : SumIsOwn(sock[h][i], <<h, i>>, net, accepted)
    BY DEF IInv
  <2> QED
    BY <2>1 DEF SumIsOwn
<1>2. \A m \in net' : PacketOK(m, sessions, accepted)
  BY DEF IInv
<1> QED
  BY <1>1, <1>2 DEF IInv

LEMMA ProcessKeeps ==
  ASSUME IInv, NEW m \in net, Process(m)
  PROVE  IInv'
<1> DEFINE h == m.to
           i == m.id
           s == [sock[h][i] EXCEPT !.alive = 0]
<1>1. PICK rest \in {net, net \ {m}} :
        /\ Taken(m, rest)
        /\ \/ m.type = "SYN" /\ ProcessSyn(h, m, rest)
           \/ m.type # "SYN" /\ ~Mine(m) /\ net' = rest /\ UNCHANGED <<sock, peers>>
           \/ Mine(m) /\ m.type = "SYN2" /\ ProcessSyn2(h, i, s, m, rest)
           \/ Mine(m) /\ m.type = "SYN_ACK" /\ ProcessSynAck(h, i, s, rest)
           \/ Mine(m) /\ m.type = "FIN" /\ ProcessFin(h, i, s, rest)
           \/ Mine(m) /\ m.type = "FIN2" /\ ProcessFin2(h, i, s, rest)
           \/ Mine(m) /\ m.type = "KEEPALIVE" /\ ProcessKeepalive(h, i, s, rest)
           \/ Mine(m) /\ m.type = "KEEPALIVE_ACK" /\ Keep(h, i, s, rest, {})
        /\ m.type # "SYN" => UNCHANGED accepted
        /\ UNCHANGED sessions
  BY Zenon DEF Process
<1>2. rest \in SUBSET net
  OBVIOUS
<1>3. dups' \in Nat
  BY <1>1 DEF Taken, IInv
<1> HIDE DEF s
<1>4. CASE m.type = "SYN" /\ ProcessSyn(h, m, rest)
  BY <1>1, <1>2, <1>3, <1>4, ProcessSynKeeps
<1>5. CASE m.type # "SYN" /\ ~Mine(m) /\ net' = rest /\ UNCHANGED <<sock, peers>>
  <2>1. UNCHANGED <<sock, peers, sessions, accepted>> /\ net' \subseteq net
    BY <1>1, <1>2, <1>5
  <2> QED
    BY <1>3, <2>1, LostKeeps
<1>6. CASE Mine(m) /\ m.type # "SYN"
  <2>1. \/ m.type = "SYN2" /\ ProcessSyn2(h, i, s, m, rest)
        \/ ProcessSynAck(h, i, s, rest)
        \/ ProcessFin(h, i, s, rest)
        \/ ProcessFin2(h, i, s, rest)
        \/ ProcessKeepalive(h, i, s, rest)
        \/ Keep(h, i, s, rest, {})
    BY <1>1, <1>6
  <2>2. UNCHANGED <<sessions, accepted>>
    BY <1>1, <1>6
  <2> QED
    BY <1>2, <1>3, <1>6, <2>1, <2>2, ProcessMineKeeps DEF s
<1> QED
  BY <1>1, <1>4, <1>5, <1>6

---------------------------------------------------------------------------
(* The theorems.                                                           *)

LEMMA InitOK == Init => IInv
<1> SUFFICES ASSUME Init PROVE IInv
  OBVIOUS
<1>1. 0 \in 0..MaxSockets /\ 0 \in Nat
  BY ConnectionAssumption
<1>2. /\ sock \in [Hosts -> [Ids -> Socket]]
      /\ \A h \in Hosts : \A i \in Ids : sock[h][i] = FreeSocket
  BY FreeSocketOK DEF Init
<1>3. /\ peers \in [Hosts -> [Hosts \X Ids -> 0..MaxSockets]]
      /\ \A h \in Hosts : \A p \in Hosts \X Ids : peers[h][p] = 0
  BY <1>1 DEF Init
<1>4. sessions \in Nat /\ accepted = {} /\ net = {} /\ dups \in Nat
  BY <1>1 DEF Init
<1>5. \A h \in Hosts : \A i \in Ids :
        SocketOK(sock[h][i], <<h, i>>, sessions, accepted) /\ SumIsOwn(sock[h][i], <<h, i>>, net, accepted)
  BY <1>2, FreeSocketOK DEF SumIsOwn
<1>6. SumsDiffer(sock)
  BY <1>2, FreeSocketOK DEF SumsDiffer
<1> QED
  BY <1>2, <1>3, <1>4, <1>5, <1>6 DEF IInv, EntryOK

LEMMA NextOK == IInv /\ [Next]_vars => IInv'
<1> SUFFICES ASSUME IInv, [Next]_vars
             PROVE  IInv'
  OBVIOUS
<1>1. ASSUME NEW h \in Clients, NEW to \in Hosts, Connect(h, to)
      PROVE  IInv'
  BY <1>1, ConnectKeeps, ConnectionAssumption
<1>2. ASSUME NEW h \in Hosts, NEW i \in Ids,
             AppClose(h, i) \/ ForceClose(h, i) \/ AppSend(h, i) \/ Timeout(h, i) \/ Heartbeat(h, i)
      PROVE  IInv'
  BY <1>2, ApplicationKeeps, TimerKeeps
<1>3. ASSUME NEW m \in net, Process(m)
      PROVE  IInv'
  BY <1>3, ProcessKeeps
<1>4. ASSUME NEW m \in net, Lose(m)
      PROVE  IInv'
  <2>1. UNCHANGED <<sock, peers, sessions, accepted>> /\ net' \subseteq net /\ dups' \in Nat
    BY <1>4 DEF Lose, IInv
  <2> QED
    BY <2>1, LostKeeps
<1>5. CASE UNCHANGED vars
  <2>1. UNCHANGED <<sock, peers, sessions, accepted>> /\ net' \subseteq net /\ dups' \in Nat
    BY <1>5 DEF vars, IInv
  <2> QED
    BY <2>1, LostKeeps
<1> QED
  BY <1>1, <1>2, <1>3, <1>4, <1>5 DEF Next

\* What the whole rests on.
LEMMA Invariance == Spec => []IInv
<1> QED
  BY InitOK, NextOK, PTL DEF Spec

\* The state is of the declared types, whoever connects to whom.
THEOREM ConnectionType == Spec => []TypeOK
<1>1. IInv => TypeOK
  BY DEF IInv, TypeOK
<1> QED
  BY <1>1, Invariance, PTL

\* An entry of the half-open index names a live socket of that peer: no code
\* path that frees, reuses or binds a socket leaves a stale one behind.
THEOREM IndexStaysLive == Spec => []IndexIsLive
<1>1. IInv => IndexIsLive
  <2> SUFFICES ASSUME IInv, NEW h \in Hosts, NEW p \in Hosts \X Ids, peers[h][p] # 0
               PROVE  /\ peers[h][p] \in Live(h)
                      /\ <<sock[h][peers[h][p]].host, sock[h][peers[h][p]].remote>> = p
    BY DEF IndexIsLive
  <2>1. EntryOK(peers[h][p], h, p, sock, accepted) /\ peers[h][p] \in Ids
    BY ConnectionAssumption, SMTT(90) DEF IInv, Ids
  <2> QED
    BY <2>1 DEF EntryOK, Live
<1> QED
  BY <1>1, Invariance, PTL

\* No late or repeated packet binds a socket to a peer that did not accept,
\* or was not accepted, in this session.
THEOREM SessionsStayApart == Spec => []SessionsAgree
<1>1. IInv => SessionsAgree
  BY DEF IInv, SessionsAgree, SocketOK, Bound, Live
<1> QED
  BY <1>1, Invariance, PTL
===========================================================================
