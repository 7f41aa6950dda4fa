---------------------------- MODULE ServerConnectionsProofs ----------------------------
(***************************************************************************)
(* Theorems about ServerConnections, for every number of servers, of       *)
(* objects and of messages, and for any number of links and failures.      *)
(*                                                                         *)
(* First, what the methods of ConnManager preserve, whatever process they  *)
(* are called on: the types, the soundness of its pool and of its nodes.   *)
(* NodeSound alone is not preserved.  An object that is taken from the     *)
(* pool must be no node's, which NodeSound says, and it must be in the     *)
(* pool once, which PoolSound says; and a node that is erased and made     *)
(* anew must not bring back the connection it had, so that a node nodes_   *)
(* does not have names none.                                               *)
(*                                                                         *)
(* The inductive invariant adds to the soundness of every process what the *)
(* links owe the processes: both name each other, a link is freed only     *)
(* when neither end has it, and a connection that knows its server knows   *)
(* the one at the other end, so that a handshake never moves it to another *)
(* node.  A second invariant, relative to that one, says where a message   *)
(* may be: in one queue of its sender or on one link to its receiver,      *)
(* once, after it was sent and before it is handed on.                     *)
(***************************************************************************)
EXTENDS ServerConnections, FiniteSetTheorems, TLAPS

\* A server nodes_ does not have has no connection.
NodesHere(p) == \A s \in Servers : ~p.node[s].here => p.node[s].conn = NoObject

ProcOK(p) == p \in ProcessType /\ PoolSound(p) /\ NodeSound(p) /\ NodesHere(p)

\* c is not in the pool.
Out(p, c) == c \in Objects /\ c \notin ToSet(p.pool)

---------------------------------------------------------------------------
(* The pool.                                                               *)

\* pop_obj takes out one object, which was there once.
LEMMA PoolPop ==
  ASSUME NEW q \in Seq(Objects), q # <<>>, IsInjective(q)
  PROVE  /\ Head(q) \in Objects /\ Head(q) \in ToSet(q)
         /\ Tail(q) \in Seq(Objects) /\ IsInjective(Tail(q))
         /\ ToSet(Tail(q)) = ToSet(q) \ {Head(q)}
<1>1. /\ Len(q) \in Nat /\ Len(q) # 0 /\ Head(q) = q[1]
      /\ Tail(q) \in Seq(Objects) /\ Len(Tail(q)) = Len(q) - 1
      /\ \A i \in 1..Len(q) - 1 : Tail(q)[i] = q[i + 1]
  OBVIOUS
<1>2. DOMAIN q = 1..Len(q) /\ DOMAIN Tail(q) = 1..Len(q) - 1
  BY <1>1
<1>3. Head(q) \in Objects /\ Head(q) \in ToSet(q)
  BY <1>1, <1>2 DEF ToSet
<1>4. IsInjective(Tail(q))
  BY <1>1, <1>2 DEF IsInjective
<1>5. ASSUME NEW x \in ToSet(Tail(q))
      PROVE  x \in ToSet(q) \ {Head(q)}
  <2>1. PICK i \in 1..Len(q) - 1 : x = q[i + 1]
    BY <1>1, <1>2, <1>5 DEF ToSet
  <2>2. i + 1 \in 1..Len(q) /\ 1 \in 1..Len(q) /\ i + 1 # 1
    BY <1>1, <2>1
  <2> QED
    BY <1>1, <1>2, <2>1, <2>2 DEF ToSet, IsInjective
<1>6. ASSUME NEW x \in ToSet(q) \ {Head(q)}
      PROVE  x \in ToSet(Tail(q))
  <2>1. PICK i \in 1..Len(q) : x = q[i]
    BY <1>2, <1>6 DEF ToSet
  <2>2. i - 1 \in 1..Len(q) - 1 /\ (i - 1) + 1 = i
    BY <1>1, <1>6, <2>1
  <2> QED
    BY <1>1, <1>2, <2>1, <2>2 DEF ToSet
<1> QED
  BY <1>1, <1>3, <1>4, <1>5, <1>6

\* push_obj of an object that is not there.
LEMMA PoolPush ==
  ASSUME NEW q \in Seq(Objects), IsInjective(q), NEW c \in Objects, c \notin ToSet(q)
  PROVE  /\ Append(q, c) \in Seq(Objects) /\ IsInjective(Append(q, c))
         /\ ToSet(Append(q, c)) = ToSet(q) \cup {c}
<1> DEFINE a == Append(q, c)
<1>1. /\ Len(q) \in Nat /\ a \in Seq(Objects) /\ Len(a) = Len(q) + 1
      /\ \A i \in 1..Len(q) : a[i] = q[i]
      /\ a[Len(q) + 1] = c
  OBVIOUS
<1>2. DOMAIN q = 1..Len(q) /\ DOMAIN a = 1..Len(q) + 1
  BY <1>1
<1> HIDE DEF a
<1>3. \A i \in 1..Len(q) : q[i] # c
  BY <1>2 DEF ToSet
<1>4. IsInjective(a)
  BY <1>1, <1>2, <1>3 DEF IsInjective
<1>5. \A x \in ToSet(a) : x \in ToSet(q) \cup {c}
  BY <1>1, <1>2 DEF ToSet
<1>6. \A x \in ToSet(q) : x \in ToSet(a)
  BY <1>1, <1>2 DEF ToSet
<1>7. c \in ToSet(a)
  BY <1>1, <1>2 DEF ToSet
<1> QED
  BY <1>1, <1>4, <1>5, <1>6, <1>7 DEF a

\* A new process has every object in its pool.
LEMMA AllPooled ==
  /\ SetToSeq(Objects) \in Seq(Objects)
  /\ IsInjective(SetToSeq(Objects))
<1> DEFINE n == Cardinality(Objects)
<1>1. n \in Nat /\ ExistsBijection(1..n, Objects)
  BY FS_CardinalityType, ManagerAssumption
<1>2. PICK f \in [1..n -> Objects] : \A a, b \in 1..n : f[a] = f[b] => a = b
  BY <1>1 DEF ExistsBijection, Bijection, Injection, Surjection, IsInjective
<1>3. IsInjective(f)
  BY <1>2 DEF IsInjective
<1>4. SetToSeq(Objects) \in [1..n -> Objects] /\ IsInjective(SetToSeq(Objects))
  BY <1>2, <1>3 DEF SetToSeq
<1> QED
  BY <1>1, <1>4

---------------------------------------------------------------------------
(* The four changes every method is made of.                               *)

\* A connection k is fit for the node of server s.
Fit(k, s) == k.state # "IDLE" /\ k.sid = s /\ k.link # 0

\* c becomes k, which is still fit for the nodes that name c.
LEMMA ConnChange ==
  ASSUME NEW p, ProcOK(p), NEW c, Out(p, c), NEW k \in ConnType,
         \A s \in Servers : p.node[s].conn = c => Fit(k, s)
  PROVE  LET q == [p EXCEPT !.conn[c] = k]
         IN  /\ ProcOK(q) /\ Out(q, c)
             /\ q.pool = p.pool /\ q.node = p.node /\ q.conn = [p.conn EXCEPT ![c] = k]
<1> DEFINE q == [p EXCEPT !.conn[c] = k]
<1>1. p \in ProcessType /\ c \in Objects /\ c \notin ToSet(p.pool)
  BY DEF ProcOK, Out
<1>2. q.pool = p.pool /\ q.node = p.node /\ q.conn = [p.conn EXCEPT ![c] = k]
  BY <1>1 DEF ProcessType
<1>3. q \in ProcessType
  BY <1>1 DEF ProcessType
<1>4. \A d \in Objects : d # c => q.conn[d] = p.conn[d]
  BY <1>1, <1>2 DEF ProcessType
<1>5. q.conn[c] = k
  BY <1>1, <1>2 DEF ProcessType
<1> HIDE DEF q
<1>6. ToSet(p.pool) \subseteq Objects
  BY <1>1 DEF ProcessType, ToSet
<1>7. PoolSound(q)
  BY <1>1, <1>2, <1>4, <1>6 DEF ProcOK, PoolSound
<1>8. NodeSound(q)
  <2>1. SUFFICES ASSUME NEW s \in Servers, p.node[s].conn # NoObject
                 PROVE  /\ Fit(q.conn[p.node[s].conn], s)
                        /\ p.node[s].conn \notin ToSet(p.pool)
    BY <1>2 DEF ProcOK, NodeSound, Fit
  <2>2. p.node[s].conn \in Objects
    BY <1>1, <2>1 DEF ProcessType, NodeType
  <2>3. Fit(p.conn[p.node[s].conn], s) /\ p.node[s].conn \notin ToSet(p.pool)
    BY <2>1 DEF ProcOK, NodeSound, Fit
  <2>4. CASE p.node[s].conn = c
    BY <1>5, <2>3, <2>4
  <2>5. CASE p.node[s].conn # c
    BY <1>4, <2>2, <2>3, <2>5
  <2> QED
    BY <2>4, <2>5
<1>9. NodesHere(q)
  BY <1>2 DEF ProcOK, NodesHere
<1> QED
  BY <1>1, <1>2, <1>3, <1>7, <1>8, <1>9 DEF ProcOK, Out, q

\* The node of server s becomes n, which names no connection or one fit for it.
LEMMA NodeChange ==
  ASSUME NEW p, ProcOK(p), NEW s \in Servers, NEW n \in NodeType,
         ~n.here => n.conn = NoObject,
         n.conn = NoObject => n.strms = <<>>,
         n.conn # NoObject => Out(p, n.conn) /\ Fit(p.conn[n.conn], s)
  PROVE  LET q == [p EXCEPT !.node[s] = n]
         IN  /\ ProcOK(q)
             /\ q.pool = p.pool /\ q.conn = p.conn /\ q.node = [p.node EXCEPT ![s] = n]
<1> DEFINE q == [p EXCEPT !.node[s] = n]
<1>1. p \in ProcessType
  BY DEF ProcOK
<1>2. q.pool = p.pool /\ q.conn = p.conn /\ q.node = [p.node EXCEPT ![s] = n]
  BY <1>1 DEF ProcessType
<1>3. q \in ProcessType
  BY <1>1 DEF ProcessType
<1>4. q.node[s] = n /\ \A t \in Servers : t # s => q.node[t] = p.node[t]
  BY <1>1, <1>2 DEF ProcessType
<1> HIDE DEF q
<1>5. PoolSound(q)
  BY <1>2 DEF ProcOK, PoolSound
<1>6. NodeSound(q)
  BY <1>2, <1>4 DEF ProcOK, NodeSound, Out, Fit
<1>7. NodesHere(q)
  BY <1>2, <1>4 DEF ProcOK, NodesHere
<1> QED
  BY <1>2, <1>3, <1>5, <1>6, <1>7 DEF ProcOK, q

\* pop_obj: what it hands out is no node's.
LEMMA PoppedOK ==
  ASSUME NEW p, ProcOK(p), p.pool # <<>>
  PROVE  LET c == NextObject(p)
         IN  /\ ProcOK(Popped(p)) /\ Out(Popped(p), c)
             /\ \A s \in Servers : p.node[s].conn # c
             /\ Popped(p).conn = p.conn /\ Popped(p).node = p.node
             /\ [p.conn[c] EXCEPT !.sid = NoServer] = IdleConn
<1> DEFINE q == Popped(p)
           c == NextObject(p)
<1>1. p \in ProcessType /\ p.pool \in Seq(Objects) /\ IsInjective(p.pool)
  BY DEF ProcOK, ProcessType, PoolSound
<1>2. q.pool = Tail(p.pool) /\ q.conn = p.conn /\ q.node = p.node
  BY <1>1 DEF Popped, ProcessType
<1>3. /\ c \in Objects /\ c \in ToSet(p.pool)
      /\ q.pool \in Seq(Objects) /\ IsInjective(q.pool)
      /\ ToSet(q.pool) = ToSet(p.pool) \ {c}
  BY <1>1, <1>2, PoolPop DEF NextObject
<1>4. q \in ProcessType
  BY <1>1, <1>3 DEF Popped, ProcessType
<1>5. \A s \in Servers : p.node[s].conn # c
  <2>1. c # NoObject
    BY <1>3, ManagerAssumption
  <2> QED
    BY <1>3, <2>1 DEF ProcOK, NodeSound
<1> HIDE DEF q, c
<1>6. PoolSound(q)
  BY <1>2, <1>3 DEF ProcOK, PoolSound
<1>7. NodeSound(q)
  BY <1>2, <1>3 DEF ProcOK, NodeSound
<1>8. NodesHere(q)
  BY <1>2 DEF ProcOK, NodesHere
<1>9. [p.conn[c] EXCEPT !.sid = NoServer] = IdleConn
  BY <1>3 DEF ProcOK, PoolSound
<1> QED
  BY <1>2, <1>3, <1>4, <1>5, <1>6, <1>7, <1>8, <1>9 DEF ProcOK, Out, q, c

\* push_obj of an idle connection that is no node's.
LEMMA PushedOK ==
  ASSUME NEW p, ProcOK(p), NEW c, Out(p, c),
         [p.conn[c] EXCEPT !.sid = NoServer] = IdleConn,
         \A s \in Servers : p.node[s].conn # c
  PROVE  /\ ProcOK(Pushed(p, c))
         /\ Pushed(p, c).conn = p.conn /\ Pushed(p, c).node = p.node
<1> DEFINE q == Pushed(p, c)
<1>1. /\ p \in ProcessType /\ p.pool \in Seq(Objects) /\ IsInjective(p.pool)
      /\ c \in Objects /\ c \notin ToSet(p.pool)
  BY DEF ProcOK, ProcessType, PoolSound, Out
<1>2. q.pool = Append(p.pool, c) /\ q.conn = p.conn /\ q.node = p.node
  BY <1>1 DEF Pushed, ProcessType
<1>3. /\ q.pool \in Seq(Objects) /\ IsInjective(q.pool)
      /\ ToSet(q.pool) = ToSet(p.pool) \cup {c}
  BY <1>1, <1>2, PoolPush
<1>4. q \in ProcessType
  BY <1>1, <1>3 DEF Pushed, ProcessType
<1> HIDE DEF q
<1>5. PoolSound(q)
  BY <1>2, <1>3 DEF ProcOK, PoolSound
<1>6. NodeSound(q)
  BY <1>2, <1>3 DEF ProcOK, NodeSound
<1>7. NodesHere(q)
  BY <1>2 DEF ProcOK, NodesHere
<1> QED
  BY <1>2, <1>4, <1>5, <1>6, <1>7 DEF ProcOK, q

---------------------------------------------------------------------------
(* The methods.                                                            *)

\* The connections that have a socket are not in the pool.
LEMMA SocketOut ==
  ASSUME NEW p, ProcOK(p), NEW c \in Objects, p.conn[c].link # 0
  PROVE  Out(p, c)
<1>1. [p.conn[c] EXCEPT !.sid = NoServer].link # 0
  BY DEF ProcOK, ProcessType, ConnType
<1> QED
  BY <1>1 DEF ProcOK, PoolSound, IdleConn, Out

\* Nodes that are made or changed field by field.
LEMMA NoNodeOK ==
  NoNode \in NodeType /\ ~NoNode.here /\ NoNode.conn = NoObject /\ NoNode.strms = <<>>
<1>1. NoNode \in NodeType
  BY DEF NoNode, NodeType
<1>2. ~NoNode.here /\ NoNode.conn = NoObject
  BY DEF NoNode
<1>3. NoNode.strms = <<>>
  BY DEF NoNode
<1> QED
  BY <1>1, <1>2, <1>3

LEMMA NodeHere ==
  ASSUME NEW n \in NodeType
  PROVE  LET m == [n EXCEPT !.here = TRUE]
         IN  m \in NodeType /\ m.here /\ m.conn = n.conn /\ m.del = n.del /\ m.strms = n.strms
BY DEF NodeType

LEMMA NodeConn ==
  ASSUME NEW n \in NodeType, NEW c \in Objects \cup {NoObject}
  PROVE  LET m == [n EXCEPT !.conn = c, !.strms = <<>>]
         IN  m \in NodeType /\ m.here = n.here /\ m.conn = c /\ m.del = n.del /\ m.strms = <<>>
<1> DEFINE m == [n EXCEPT !.conn = c, !.strms = <<>>]
<1>1. <<>> \in Seq(Messages)
  OBVIOUS
<1>2. m \in NodeType
  BY <1>1 DEF NodeType
<1>3. m.here = n.here /\ m.conn = c /\ m.del = n.del
  BY DEF NodeType
<1>4. m.strms = <<>>
  BY DEF NodeType
<1> QED
  BY <1>2, <1>3, <1>4

LEMMA NodeDel ==
  ASSUME NEW n \in NodeType, NEW d \in BOOLEAN
  PROVE  LET m == [n EXCEPT !.del = d]
         IN  m \in NodeType /\ m.here = n.here /\ m.conn = n.conn /\ m.del = d /\ m.strms = n.strms
BY DEF NodeType

\* A process that knows the servers of a set and has no connection.
LEMMA NewProcessOK ==
  ASSUME NEW known
  PROVE  ProcOK(NewProcess(known)) /\ NewProcess(known).conn = [c \in Objects |-> IdleConn]
<1> DEFINE p == NewProcess(known)
<1>1. /\ p.conn = [c \in Objects |-> IdleConn] /\ p.pool = SetToSeq(Objects)
      /\ p.node = [s \in Servers |->
            IF s \in known THEN [NoNode EXCEPT !.here = TRUE] ELSE NoNode]
  BY DEF NewProcess
<1>2. IdleConn \in ConnType
  BY DEF IdleConn, ConnType
<1>3. \A s \in Servers : /\ p.node[s] \in NodeType /\ p.node[s].conn = NoObject
                         /\ p.node[s].strms = <<>>
  BY <1>1, NoNodeOK, NodeHere
<1>4. p \in ProcessType
  BY <1>1, <1>2, <1>3, AllPooled DEF NewProcess, ProcessType
<1>5. ToSet(p.pool) \subseteq Objects
  BY <1>4 DEF ProcessType, ToSet
<1> HIDE DEF p
<1>6. PoolSound(p)
  BY <1>1, <1>5, AllPooled DEF PoolSound, IdleConn
<1>7. NodeSound(p) /\ NodesHere(p)
  BY <1>3 DEF NodeSound, NodesHere
<1> QED
  BY <1>1, <1>4, <1>6, <1>7 DEF ProcOK, p

\* add_server
LEMMA AddedOK ==
  ASSUME NEW p, ProcOK(p), NEW s \in Servers
  PROVE  ProcOK(Added(p, s)) /\ Added(p, s).conn = p.conn
<1>1. /\ p \in ProcessType /\ p.node[s] \in NodeType
      /\ p.node[s].conn # NoObject => Out(p, p.node[s].conn) /\ Fit(p.conn[p.node[s].conn], s)
      /\ p.node[s].conn = NoObject => p.node[s].strms = <<>>
  BY DEF ProcOK, ProcessType, NodeType, NodeSound, Out, Fit
<1>2. CASE p.node[s].here
  <2> DEFINE n == [p.node[s] EXCEPT !.del = FALSE]
  <2>1. Added(p, s) = [p EXCEPT !.node[s] = n]
    BY <1>1, <1>2 DEF Added, ProcessType
  <2>2. /\ n \in NodeType /\ n.here /\ n.conn = p.node[s].conn
        /\ n.strms = p.node[s].strms
    BY <1>1, <1>2, NodeDel
  <2> HIDE DEF n
  <2> QED
    BY <1>1, <2>1, <2>2, NodeChange
<1>3. CASE ~p.node[s].here
  <2> DEFINE n == [NoNode EXCEPT !.here = TRUE]
  <2>1. Added(p, s) = [p EXCEPT !.node[s] = n]
    BY <1>3 DEF Added
  <2>2. n \in NodeType /\ n.here /\ n.conn = NoObject /\ n.strms = <<>>
    BY NoNodeOK, NodeHere
  <2> HIDE DEF n
  <2> QED
    BY <2>1, <2>2, NodeChange
<1> QED
  BY <1>2, <1>3

\* del_server
LEMMA DeletedOK ==
  ASSUME NEW p, ProcOK(p), NEW s \in Servers
  PROVE  ProcOK(Deleted(p, s)) /\ Deleted(p, s).conn = p.conn
<1>1. /\ p \in ProcessType /\ p.node[s] \in NodeType
      /\ p.node[s].conn # NoObject => Out(p, p.node[s].conn) /\ Fit(p.conn[p.node[s].conn], s)
  BY DEF ProcOK, ProcessType, NodeType, NodeSound, Out, Fit
<1>2. CASE ~p.node[s].here
  BY <1>2 DEF Deleted
<1>3. CASE p.node[s].here /\ p.node[s].conn = NoObject
  <2>1. Deleted(p, s) = [p EXCEPT !.node[s] = NoNode]
    BY <1>3 DEF Deleted
  <2> QED
    BY <2>1, NoNodeOK, NodeChange
<1>4. CASE p.node[s].here /\ p.node[s].conn # NoObject
  <2> DEFINE n == [p.node[s] EXCEPT !.del = TRUE]
  <2>1. Deleted(p, s) = [p EXCEPT !.node[s] = n]
    BY <1>1, <1>4 DEF Deleted, ProcessType
  <2>2. n \in NodeType /\ n.here /\ n.conn = p.node[s].conn
    BY <1>1, <1>4, NodeDel, ZenonT(90)
  <2> HIDE DEF n
  <2> QED
    BY <1>1, <1>4, <2>1, <2>2, NodeChange
<1> QED
  BY <1>2, <1>3, <1>4

\* on_del_connection: no node names the connection any more.
LEMMA DetachedOK ==
  ASSUME NEW p, ProcOK(p), NEW c \in Objects
  PROVE  /\ ProcOK(Detached(p, c))
         /\ Detached(p, c).conn = p.conn /\ Detached(p, c).pool = p.pool
         /\ \A t \in Servers : Detached(p, c).node[t].conn # c
<1> DEFINE s == p.conn[c].sid
           q == Detached(p, c)
<1>1. /\ p \in ProcessType /\ s \in Servers \cup {NoServer} /\ NoServer \notin Servers
      /\ c # NoObject
  BY ManagerAssumption DEF ProcOK, ProcessType, ConnType
<1>2. \A t \in Servers : p.node[t].conn = c => t = s /\ p.node[t].here
  BY <1>1 DEF ProcOK, NodeSound, NodesHere
<1>3. CASE s = NoServer \/ ~p.node[s].here
  <2>1. q = p
    BY <1>3 DEF Detached
  <2> QED
    BY <1>1, <1>2, <1>3, <2>1
<1>4. CASE s \in Servers /\ p.node[s].here
  <2>1. p.node[s] \in NodeType
    BY <1>1, <1>4 DEF ProcessType
  <2>2. ASSUME NEW n \in NodeType, q = [p EXCEPT !.node[s] = n],
               n.conn = NoObject, n.strms = <<>>
        PROVE  /\ ProcOK(q) /\ q.conn = p.conn /\ q.pool = p.pool
               /\ \A t \in Servers : q.node[t].conn # c
    <3>1. /\ ProcOK(q) /\ q.conn = p.conn /\ q.pool = p.pool
          /\ q.node = [p.node EXCEPT ![s] = n]
      BY <1>4, <2>2, NodeChange
    <3>2. q.node[s] = n /\ \A t \in Servers : t # s => q.node[t] = p.node[t]
      BY <1>1, <1>4, <3>1 DEF ProcessType
    <3> HIDE DEF q, s
    <3> QED
      BY <1>1, <1>2, <2>2, <3>1, <3>2
  <2>3. CASE p.node[s].del
    <3>1. q = [p EXCEPT !.node[s] = NoNode]
      BY <1>1, <1>4, <2>3 DEF Detached
    <3> QED
      BY <2>2, <3>1, NoNodeOK
  <2>4. CASE ~p.node[s].del
    <3> DEFINE n == [p.node[s] EXCEPT !.conn = NoObject, !.strms = <<>>]
    <3>1. q = [p EXCEPT !.node[s] = n]
      BY <1>1, <1>4, <2>4 DEF Detached, ProcessType
    <3>2. n \in NodeType /\ n.conn = NoObject /\ n.strms = <<>>
      BY <2>1, NodeConn, ZenonT(90)
    <3> HIDE DEF n
    <3> QED
      BY <2>2, <3>1, <3>2
  <2> QED
    BY <2>3, <2>4
<1> QED
  BY <1>1, <1>3, <1>4

\* on_add_connection
LEMMA AttachedOK ==
  ASSUME NEW p, ProcOK(p), NEW c, Out(p, c),
         p.conn[c].sid \in Servers, p.conn[c].state # "IDLE", p.conn[c].link # 0
  PROVE  ProcOK(Attached(p, c)) /\ Attached(p, c).conn = p.conn
<1> DEFINE s == p.conn[c].sid
<1>1. p \in ProcessType /\ p.node[s] \in NodeType /\ c \in Objects
  BY DEF ProcOK, ProcessType, Out
<1>2. PICK n \in NodeType : /\ Attached(p, c) = [p EXCEPT !.node[s] = n]
                            /\ n.here /\ n.conn = c
  <2>1. CASE p.node[s].here
    <3> DEFINE n == [p.node[s] EXCEPT !.conn = c, !.strms = <<>>]
    <3>1. Attached(p, c) = [p EXCEPT !.node[s] = n]
      BY <1>1, <2>1 DEF Attached, ProcessType
    <3>2. n \in NodeType /\ n.here /\ n.conn = c
      BY <1>1, <2>1, NodeConn, ZenonT(90)
    <3> QED
      BY <3>1, <3>2
  <2>2. CASE ~p.node[s].here
    <3> DEFINE n == [here |-> TRUE, conn |-> c, del |-> TRUE, strms |-> <<>>]
    <3>1. Attached(p, c) = [p EXCEPT !.node[s] = n]
      BY <2>2 DEF Attached
    <3>2. n \in NodeType /\ n.here /\ n.conn = c
      BY <1>1 DEF NodeType
    <3> QED
      BY <3>1, <3>2
  <2> QED
    BY <2>1, <2>2
<1>3. c # NoObject /\ Fit(p.conn[c], s)
  BY <1>1, ManagerAssumption DEF Fit
<1> HIDE DEF s
<1> QED
  BY <1>2, <1>3, NodeChange DEF s

\* A message is queued for a connection on its way.
LEMMA QueuedOK ==
  ASSUME NEW p, ProcOK(p), NEW s \in Servers, p.node[s].conn # NoObject, NEW m \in Messages
  PROVE  LET q == [p EXCEPT !.node[s].strms = Append(@, m)]
         IN  ProcOK(q) /\ q.conn = p.conn
<1> DEFINE n == [p.node[s] EXCEPT !.strms = Append(@, m)]
<1>1. p \in ProcessType /\ p.node[s] \in NodeType
  BY DEF ProcOK, ProcessType
<1>2. [p EXCEPT !.node[s].strms = Append(@, m)] = [p EXCEPT !.node[s] = n]
  BY <1>1 DEF ProcessType
<1>3. Append(p.node[s].strms, m) \in Seq(Messages)
  BY <1>1 DEF NodeType
<1>4. n \in NodeType
  BY <1>1, <1>3 DEF NodeType
<1>5. n.here = p.node[s].here /\ n.conn = p.node[s].conn
  BY <1>1 DEF NodeType
<1>6. n.here /\ n.conn # NoObject /\ Out(p, n.conn) /\ Fit(p.conn[n.conn], s)
  BY <1>1, <1>5 DEF ProcOK, NodeSound, NodesHere, NodeType, Out, Fit
<1> HIDE DEF n
<1> QED
  BY <1>2, <1>4, <1>6, NodeChange

\* What a method makes of the connections: c becomes k.
Becomes(p, q, c, k) == q.conn = [p.conn EXCEPT ![c] = k]

\* handle_close and handle_exception of a connection with a socket.
LEMMA ClosedOK ==
  ASSUME NEW p, ProcOK(p), NEW c, Out(p, c)
  PROVE  ProcOK(Closed(p, c)) /\ Becomes(p, Closed(p, c), c, IdleConn)
<1> DEFINE d == Detached(p, c)
           r == Reset(d, c)
<1>1. /\ ProcOK(d) /\ d.conn = p.conn /\ d.pool = p.pool
      /\ \A t \in Servers : d.node[t].conn # c
  BY DetachedOK DEF Out
<1>2. Out(d, c) /\ IdleConn \in ConnType
  BY <1>1 DEF Out, IdleConn, ConnType
<1>3. r = [d EXCEPT !.conn[c] = IdleConn]
  BY DEF Reset
<1> HIDE DEF d, r
<1>4. /\ ProcOK(r) /\ Out(r, c) /\ r.node = d.node /\ r.conn = [p.conn EXCEPT ![c] = IdleConn]
  BY <1>1, <1>2, <1>3, ConnChange
<1>5. r.conn[c] = IdleConn
  BY <1>1, <1>4 DEF ProcOK, ProcessType, Out
<1>6. [r.conn[c] EXCEPT !.sid = NoServer] = IdleConn
  BY <1>5 DEF IdleConn
<1>7. ProcOK(Pushed(r, c)) /\ Pushed(r, c).conn = r.conn
  <2>1. \A t \in Servers : r.node[t].conn # c
    BY <1>1, <1>4
  <2> QED
    BY ONLY <1>4, <1>6, <2>1, PushedOK
<1> QED
  BY <1>4, <1>7 DEF Closed, Becomes, d, r

\* The connect timer.
LEMMA TimedOutOK ==
  ASSUME NEW p, ProcOK(p), NEW c, Out(p, c)
  PROVE  /\ ProcOK(TimedOut(p, c))
         /\ \E k \in ConnType : Becomes(p, TimedOut(p, c), c, k) /\ k.link = 0
<1> DEFINE d == Detached(p, c)
           k == [d.conn[c] EXCEPT !.state = "IDLE", !.timer = "none", !.link = 0]
<1>1. /\ ProcOK(d) /\ d.conn = p.conn /\ d.pool = p.pool
      /\ \A t \in Servers : d.node[t].conn # c
  BY DetachedOK DEF Out
<1>2. c \in Objects /\ Out(d, c) /\ d \in ProcessType /\ d.conn[c] \in ConnType
  BY <1>1 DEF Out, ProcOK, ProcessType
<1> HIDE DEF d
<1>3. k \in ConnType /\ k.link = 0
  BY <1>2 DEF ConnType
<1>4. TimedOut(p, c) = [d EXCEPT !.conn[c] = k]
  BY <1>2, ZenonT(90) DEF TimedOut, ProcessType, d
<1> HIDE DEF k
<1>5. ProcOK(TimedOut(p, c)) /\ TimedOut(p, c).conn = [d.conn EXCEPT ![c] = k]
  BY <1>1, <1>2, <1>3, <1>4, ConnChange
<1> QED
  BY <1>1, <1>3, <1>5 DEF Becomes

\* connecting_by_id
LEMMA ConnectingOK ==
  ASSUME NEW p, ProcOK(p), p.pool # <<>>, NEW s \in Servers,
         NEW l \in Nat, l # 0, NEW m \in Messages, p.node[s].here, p.node[s].conn = NoObject
  PROVE  LET q == Connecting(p, s, l, m)
             c == NextObject(p)
         IN  /\ ProcOK(q) /\ ~Out(p, c) /\ c \in Objects
             /\ \E k \in ConnType : /\ Becomes(p, q, c, k)
                                    /\ k.link = l /\ k.state # "IDLE" /\ k.sid = s
<1> DEFINE c == NextObject(p)
           q == Popped(p)
           k == [state |-> "CONNECTING", sid |-> s, timer |-> "connect", beats |-> 0, link |-> l]
           r == [q EXCEPT !.conn[c] = k]
           n == [r.node[s] EXCEPT !.conn = c, !.strms = Append(@, m)]
<1>1. /\ ProcOK(q) /\ Out(q, c) /\ q.conn = p.conn /\ q.node = p.node
      /\ \A t \in Servers : q.node[t].conn # c
  BY PoppedOK
<1>2. k \in ConnType /\ Fit(k, s) /\ k.link = l /\ k.state # "IDLE" /\ k.sid = s
  BY DEF ConnType, Fit
<1>3. c \in Objects /\ c # NoObject /\ c \in ToSet(p.pool)
  BY <1>1, ManagerAssumption, PoolPop DEF Out, NextObject, ProcOK, ProcessType, PoolSound
<1> HIDE DEF c, q, k
<1>4. ProcOK(r) /\ Out(r, c) /\ r.node = q.node /\ r.conn = [q.conn EXCEPT ![c] = k]
  BY <1>1, <1>2, ConnChange
<1> HIDE DEF r
<1>5. r \in ProcessType /\ r.node[s] \in NodeType /\ r.conn[c] = k
  BY <1>1, <1>3, <1>4 DEF ProcOK, ProcessType
<1>6. Append(r.node[s].strms, m) \in Seq(Messages)
  BY <1>5 DEF NodeType
<1>7. n \in NodeType
  BY <1>3, <1>5, <1>6 DEF NodeType
<1>8. n.here = r.node[s].here /\ n.conn = c
  BY <1>5 DEF NodeType
<1>9. Connecting(p, s, l, m) = [r EXCEPT !.node[s] = n]
  <2>1. Connecting(p, s, l, m) =
          [q EXCEPT !.conn[c] = k, !.node[s].conn = c, !.node[s].strms = Append(@, m)]
    BY DEF Connecting, q, c, k
  <2>2. q \in ProcessType
    BY <1>1 DEF ProcOK
  <2> DEFINE C == [q.conn EXCEPT ![c] = k]
             N == [q.node EXCEPT ![s].conn = c, ![s].strms = Append(@, m)]
  <2>3. Connecting(p, s, l, m) = [q EXCEPT !.conn = C, !.node = N]
    BY <2>1, <2>2
  <2>4. r = [q EXCEPT !.conn = C]
    BY <2>2 DEF r
  <2>5. N = [r.node EXCEPT ![s] = n]
    BY <1>4, <1>5, <2>2 DEF ProcessType, NodeType
  <2> HIDE DEF C, N
  <2>6. [r EXCEPT !.node[s] = n] = [r EXCEPT !.node = N]
    BY <2>5
  <2> QED
    BY <2>2, <2>3, <2>4, <2>6 DEF ProcessType
<1> HIDE DEF n
<1>10. ProcOK(Connecting(p, s, l, m)) /\ Connecting(p, s, l, m).conn = r.conn
  <2>1. n.here /\ n.conn # NoObject /\ Out(r, n.conn) /\ Fit(r.conn[n.conn], s)
    BY <1>1, <1>2, <1>3, <1>4, <1>5, <1>8
  <2>2. /\ ProcOK([r EXCEPT !.node[s] = n])
        /\ [r EXCEPT !.node[s] = n].conn = r.conn
    <3>1. ProcOK(r) /\ n \in NodeType
      BY <1>4, <1>7
    <3> HIDE DEF Fit
    <3> QED
      BY ONLY s \in Servers, <2>1, <3>1, NodeChange
  <2> QED
    BY ONLY <1>9, <2>2
<1>11. Becomes(p, Connecting(p, s, l, m), c, k)
  BY <1>1, <1>4, <1>10 DEF Becomes
<1> QED
  BY <1>2, <1>3, <1>10, <1>11 DEF Out, c

\* connect() fails.
LEMMA NotConnectingOK ==
  ASSUME NEW p, ProcOK(p), p.pool # <<>>, NEW s \in Servers
  PROVE  LET q == NotConnecting(p, s)
             c == NextObject(p)
         IN  /\ ProcOK(q) /\ c \in Objects /\ p.conn[c].link = 0
             /\ \E k \in ConnType : Becomes(p, q, c, k) /\ k.link = 0
<1> DEFINE c == NextObject(p)
           q == Popped(p)
           k == [p.conn[c] EXCEPT !.sid = s]
           r == [q EXCEPT !.conn[c] = k]
<1>1. /\ ProcOK(q) /\ Out(q, c) /\ q.conn = p.conn /\ q.node = p.node
      /\ \A t \in Servers : q.node[t].conn # c
      /\ [p.conn[c] EXCEPT !.sid = NoServer] = IdleConn
  BY PoppedOK
<1>2. c \in Objects /\ p.conn[c] \in ConnType /\ q \in ProcessType
  BY <1>1 DEF Out, ProcOK, ProcessType
<1> HIDE DEF c, q
<1>3. k \in ConnType
  BY <1>2 DEF ConnType
<1>4. [k EXCEPT !.sid = NoServer] = IdleConn
  BY <1>1, <1>2 DEF ConnType
<1>5. k.link = 0 /\ p.conn[c].link = 0
  <2>1. [p.conn[c] EXCEPT !.sid = NoServer].link = 0
    BY <1>1 DEF IdleConn
  <2> QED
    BY <1>2, <2>1 DEF ConnType
<1> HIDE DEF k
<1>6. ProcOK(r) /\ Out(r, c) /\ r.node = q.node /\ r.conn = [q.conn EXCEPT ![c] = k]
  BY <1>1, <1>3, ConnChange
<1>7. r.conn[c] = k
  BY <1>1, <1>2, <1>6 DEF ProcessType
<1> HIDE DEF r
<1>8. ProcOK(Pushed(r, c)) /\ Pushed(r, c).conn = r.conn
  <2>1. \A t \in Servers : r.node[t].conn # c
    BY <1>1, <1>6
  <2>2. [r.conn[c] EXCEPT !.sid = NoServer] = IdleConn
    BY <1>4, <1>7
  <2> QED
    BY ONLY <1>6, <2>1, <2>2, PushedOK
<1>9. NotConnecting(p, s) = Pushed(r, c)
  BY <1>1, <1>2 DEF NotConnecting, q, r, c, k, ProcessType
<1> QED
  BY <1>1, <1>2, <1>3, <1>5, <1>6, <1>8, <1>9, ZenonT(90) DEF Becomes, c

\* accept
LEMMA AcceptedOK ==
  ASSUME NEW p, ProcOK(p), p.pool # <<>>, NEW l \in Nat
  PROVE  LET q == Accepted(p, l)
             c == NextObject(p)
         IN  /\ ProcOK(q) /\ ~Out(p, c) /\ c \in Objects
             /\ \E k \in ConnType : /\ Becomes(p, q, c, k)
                                    /\ k.link = l /\ k.state # "IDLE" /\ k.sid = NoServer
<1> DEFINE c == NextObject(p)
           k == [IdleConn EXCEPT !.state = "CONNECTING", !.link = l]
<1>1. /\ ProcOK(Popped(p)) /\ Out(Popped(p), c)
      /\ Popped(p).conn = p.conn /\ Popped(p).node = p.node
      /\ \A t \in Servers : p.node[t].conn # c
  BY PoppedOK
<1>2. k \in ConnType /\ k.link = l /\ k.state # "IDLE" /\ k.sid = NoServer
  BY DEF ConnType, IdleConn
<1>3. c \in Objects /\ c \in ToSet(p.pool)
  BY <1>1, PoolPop DEF Out, NextObject, ProcOK, ProcessType, PoolSound
<1>4. Accepted(p, l) = [Popped(p) EXCEPT !.conn[c] = k]
  BY DEF Accepted
<1> HIDE DEF c, k
<1>5. ProcOK(Accepted(p, l)) /\ Accepted(p, l).conn = [p.conn EXCEPT ![c] = k]
  BY <1>1, <1>2, <1>4, ConnChange
<1> QED
  BY <1>2, <1>3, <1>5 DEF Becomes, Out, c

\* A connection with a socket changes but stays with its server: a message or
\* a ping resets timer_count_, a heartbeat counts it up.
LEMMA SameServerOK ==
  ASSUME NEW p, ProcOK(p), NEW c, Out(p, c), NEW k \in ConnType,
         k.sid = p.conn[c].sid, k.link = p.conn[c].link, k.state # "IDLE"
  PROVE  ProcOK([p EXCEPT !.conn[c] = k]) /\ Becomes(p, [p EXCEPT !.conn[c] = k], c, k)
<1>1. \A s \in Servers : p.node[s].conn = c => Fit(k, s)
  <2>1. c # NoObject
    BY ManagerAssumption DEF Out
  <2> QED
    BY <2>1 DEF ProcOK, NodeSound, Fit
<1> QED
  BY <1>1, ConnChange DEF Becomes

LEMMA BeatsOK ==
  ASSUME NEW p, ProcOK(p), NEW c, Out(p, c), NEW n \in Nat, p.conn[c].state # "IDLE"
  PROVE  LET q == [p EXCEPT !.conn[c].beats = n]
         IN  /\ ProcOK(q)
             /\ \E k \in ConnType : /\ Becomes(p, q, c, k)
                                    /\ k.sid = p.conn[c].sid /\ k.link = p.conn[c].link
                                    /\ k.state # "IDLE"
<1> DEFINE k == [p.conn[c] EXCEPT !.beats = n]
<1>1. p \in ProcessType /\ c \in Objects /\ p.conn[c] \in ConnType
  BY DEF ProcOK, ProcessType, Out
<1>2. /\ k \in ConnType /\ k.sid = p.conn[c].sid /\ k.link = p.conn[c].link
      /\ k.state # "IDLE"
  BY <1>1 DEF ConnType
<1>3. [p EXCEPT !.conn[c].beats = n] = [p EXCEPT !.conn[c] = k]
  BY <1>1 DEF ProcessType
<1> HIDE DEF k
<1> QED
  BY <1>2, <1>3, SameServerOK

\* check_connecting_state
LEMMA ConnectedOK ==
  ASSUME NEW p, ProcOK(p), NEW c, Out(p, c)
  PROVE  /\ ProcOK(Connected(p, c))
         /\ \E k \in ConnType : /\ Becomes(p, Connected(p, c), c, k)
                                /\ k.sid = p.conn[c].sid /\ k.link = p.conn[c].link
                                /\ k.state # "IDLE"
<1> DEFINE k == [p.conn[c] EXCEPT !.state = "CONNECTED", !.timer = "heartbeat", !.beats = 0]
<1>1. p \in ProcessType /\ c \in Objects /\ p.conn[c] \in ConnType
  BY DEF ProcOK, ProcessType, Out
<1>2. /\ k \in ConnType /\ k.sid = p.conn[c].sid /\ k.link = p.conn[c].link
      /\ k.state # "IDLE"
  BY <1>1 DEF ConnType
<1>3. Connected(p, c) = [p EXCEPT !.conn[c] = k]
  BY <1>1, ZenonT(90) DEF Connected, ProcessType
<1> HIDE DEF k
<1> QED
  BY <1>2, <1>3, SameServerOK

\* process_handshake, from the server at the other end: one the connection has
\* had before, if it has had one.
LEMMA HandShakenOK ==
  ASSUME NEW p, ProcOK(p), NEW c, Out(p, c), NEW s \in Servers,
         p.conn[c].link # 0, p.conn[c].state # "IDLE", p.conn[c].sid \in {NoServer, s}
  PROVE  /\ ProcOK(HandShaken(p, c, s))
         /\ \E k \in ConnType : /\ Becomes(p, HandShaken(p, c, s), c, k)
                                /\ k.sid = s /\ k.link = p.conn[c].link /\ k.state # "IDLE"
<1> DEFINE q == IF p.conn[c].state = "CONNECTING" THEN Connected(p, c) ELSE p
           k == [q.conn[c] EXCEPT !.sid = s, !.beats = 0]
           r == [q EXCEPT !.conn[c].sid = s, !.conn[c].beats = 0]
<1>1. c \in Objects /\ c # NoObject /\ p \in ProcessType
  BY ManagerAssumption DEF Out, ProcOK
<1>2. /\ ProcOK(q) /\ q.conn[c].link = p.conn[c].link /\ q.conn[c].state # "IDLE"
      /\ q.conn[c].sid = p.conn[c].sid
      /\ \A d \in Objects : d # c => q.conn[d] = p.conn[d]
  <2>1. CASE p.conn[c].state = "CONNECTING"
    <3>1. q = Connected(p, c)
      BY <2>1
    <3> HIDE DEF q
    <3>2. PICK j \in ConnType : /\ Becomes(p, q, c, j)
                                /\ j.sid = p.conn[c].sid /\ j.link = p.conn[c].link
                                /\ j.state # "IDLE"
      BY <3>1, ConnectedOK
    <3>3. q.conn[c] = j /\ \A d \in Objects : d # c => q.conn[d] = p.conn[d]
      BY <1>1, <3>2 DEF Becomes, ProcessType
    <3> QED
      BY <3>1, <3>2, <3>3, ConnectedOK
  <2>2. CASE p.conn[c].state # "CONNECTING"
    BY <2>2
  <2> QED
    BY <2>1, <2>2
<1>3. Out(q, c)
  BY <1>1, <1>2, SocketOut
<1> HIDE DEF q
<1>4. q \in ProcessType /\ q.conn[c] \in ConnType /\ p.conn \in [Objects -> ConnType]
  BY <1>1, <1>2 DEF ProcOK, ProcessType
<1>5. k \in ConnType /\ k.sid = s /\ k.link = p.conn[c].link /\ k.state # "IDLE"
  BY <1>2, <1>4 DEF ConnType
<1>6. r = [q EXCEPT !.conn[c] = k]
  BY <1>4, <1>1 DEF ProcessType
<1>7. \A t \in Servers : q.node[t].conn = c => Fit(k, t)
  <2>1. SUFFICES ASSUME NEW t \in Servers, q.node[t].conn = c
                 PROVE  t = s
    BY <1>5 DEF Fit
  <2>2. q.conn[c].sid = t
    BY <1>1, <1>2, <2>1 DEF ProcOK, NodeSound
  <2> QED
    BY <1>2, <2>2, ManagerAssumption
<1> HIDE DEF k, r
<1>8. ProcOK(r) /\ Out(r, c) /\ r.conn = [q.conn EXCEPT ![c] = k]
  BY <1>2, <1>3, <1>5, <1>6, <1>7, ConnChange
<1>9. r.conn[c] = k
  BY <1>1, <1>4, <1>8 DEF ProcessType
<1>10. ProcOK(Attached(r, c)) /\ Attached(r, c).conn = r.conn
  <2>1. r.conn[c].sid \in Servers /\ r.conn[c].state # "IDLE" /\ r.conn[c].link # 0
    BY <1>5, <1>9
  <2> QED
    BY ONLY <1>8, <2>1, AttachedOK
<1>11. HandShaken(p, c, s) = Attached(r, c)
  BY DEF HandShaken, r, q
<1>12. r.conn = [p.conn EXCEPT ![c] = k]
  <2>1. q.conn \in [Objects -> ConnType]
    BY <1>4 DEF ProcessType
  <2> QED
    BY <1>1, <1>2, <1>4, <1>8, <2>1
<1> QED
  BY <1>5, <1>10, <1>11, <1>12 DEF Becomes

---------------------------------------------------------------------------
(* Processes and links.                                                    *)

\* A link and its ends.
LinkOK(k) ==
  /\ k.st = "free" => \A s \in Servers : k.end[s] = NoObject
  /\ k.st # "free" => k.by \in Servers /\ k.to \in Servers /\ k.by # k.to
  /\ k.st = "syn" => k.end[k.to] = NoObject
  /\ \A s \in Servers : k.end[s] # NoObject => s \in {k.by, k.to}

\* Connection c of server s is k, over the links L.
ConnOK(k, s, c, L) ==
  /\ k.link \in {0} \cup LinkIds
  /\ \A l \in LinkIds : k.link = l <=> L[l].end[s] = c
  /\ k.link # 0 => k.state # "IDLE" /\ k.sid \in {NoServer, Peer(L[k.link], s)}

\* The processes P and the links L.
WorldOK(P, L) ==
  /\ P \in [Servers -> ProcessType] /\ L \in [LinkIds -> LinkType]
  /\ \A s \in Servers : ProcOK(P[s])
  /\ \A l \in LinkIds : LinkOK(L[l])
  /\ \A s \in Servers, c \in Objects : ConnOK(P[s].conn[c], s, c, L)

CountsOK ==
  /\ sent \subseteq Messages
  /\ got \in [Messages -> Nat]
  /\ faults \in 0 .. MaxFaults
  /\ dels \in 0 .. MaxDels

IInv == WorldOK(proc, link) /\ CountsOK

---------------------------------------------------------------------------
(* Links.                                                                  *)

LEMMA FreeLinkOK ==
  FreeLink \in LinkType /\ LinkOK(FreeLink) /\ \A s \in Servers : FreeLink.end[s] = NoObject
<1>1. FreeLink \in LinkType
  <2>1. [s \in Servers |-> <<>>] \in [Servers -> Seq(Messages \cup {Handshake})]
    OBVIOUS
  <2> QED
    BY <2>1 DEF FreeLink, LinkType
<1>2. FreeLink.st = "free" /\ \A s \in Servers : FreeLink.end[s] = NoObject
  BY DEF FreeLink
<1> QED
  BY <1>1, <1>2 DEF LinkOK

\* A link that somebody is on has two servers, and the peer is one of them.
LEMMA PeerOK ==
  ASSUME NEW k \in LinkType, LinkOK(k), NEW s \in Servers, k.end[s] # NoObject
  PROVE  k.st # "free" /\ s \in {k.by, k.to} /\ Peer(k, s) \in Servers /\ Peer(k, s) # s
BY DEF LinkOK, Peer

\* The same ends.
SameEnds(k, m) == m.st = k.st /\ m.by = k.by /\ m.to = k.to /\ m.end = k.end

LEMMA SameEndsOK ==
  ASSUME NEW k, NEW m, LinkOK(k), SameEnds(k, m)
  PROVE  LinkOK(m) /\ \A s \in Servers : Peer(m, s) = Peer(k, s)
BY DEF LinkOK, SameEnds, Peer

LEMMA WrittenOK ==
  ASSUME NEW k \in LinkType, NEW s \in Servers, Peer(k, s) \in Servers,
         NEW ms \in Seq(Messages \cup {Handshake})
  PROVE  Written(k, s, ms) \in LinkType /\ SameEnds(k, Written(k, s, ms))
<1> DEFINE t == Peer(k, s)
<1>1. CASE Written(k, s, ms) = k
  BY <1>1 DEF SameEnds
<1>2. CASE Written(k, s, ms) = [k EXCEPT !.q[t] = @ \o ms]
  <2>1. k.q \in [Servers -> Seq(Messages \cup {Handshake})]
    BY DEF LinkType
  <2>2. k.q[t] \in Seq(Messages \cup {Handshake})
    BY <2>1
  <2>3. k.q[t] \o ms \in Seq(Messages \cup {Handshake})
    BY <2>2
  <2> DEFINE w == [k.q EXCEPT ![t] = @ \o ms]
  <2>4. w \in [Servers -> Seq(Messages \cup {Handshake})]
    BY <2>1, <2>3
  <2>5. Written(k, s, ms) = [k EXCEPT !.q = w]
    BY <1>2
  <2> HIDE DEF t, w
  <2>6. [k EXCEPT !.q = w] \in LinkType
    BY <2>4 DEF LinkType
  <2>7. SameEnds(k, [k EXCEPT !.q = w])
    BY DEF LinkType, SameEnds
  <2> QED
    BY <2>5, <2>6, <2>7
<1> QED
  BY <1>1, <1>2 DEF Written

LEMMA ReadOK ==
  ASSUME NEW k \in LinkType, NEW s \in Servers, k.q[s] # <<>>
  PROVE  /\ Read(k, s) \in LinkType /\ SameEnds(k, Read(k, s))
         /\ Head(k.q[s]) \in Messages \cup {Handshake}
<1>1. k.q \in [Servers -> Seq(Messages \cup {Handshake})]
  BY DEF LinkType
<1>2. k.q[s] \in Seq(Messages \cup {Handshake})
  BY <1>1
<1>3. /\ Tail(k.q[s]) \in Seq(Messages \cup {Handshake})
      /\ Head(k.q[s]) \in Messages \cup {Handshake}
  BY <1>2
<1> QED
  BY <1>1, <1>3 DEF LinkType, SameEnds, Read

\* One end leaves, and nobody else is taken off the link.
Left(k, m, s) ==
  /\ m.end = [k.end EXCEPT ![s] = NoObject]
  /\ (m.by = k.by /\ m.to = k.to) \/ \A t \in Servers : m.end[t] = NoObject

LEMMA HungOK ==
  ASSUME NEW k \in LinkType, LinkOK(k), NEW s \in Servers, k.end[s] # NoObject
  PROVE  Hung(k, s) \in LinkType /\ LinkOK(Hung(k, s)) /\ Left(k, Hung(k, s), s)
<1>1. k.st # "free" /\ s \in {k.by, k.to} /\ Peer(k, s) \in Servers /\ Peer(k, s) # s
  BY PeerOK
<1>2. k.end \in [Servers -> Objects \cup {NoObject}]
  BY DEF LinkType
<1>3. CASE Alone(k, s) \/ (k.st = "syn" /\ k.wire # "ok")
  <2>1. k.end[Peer(k, s)] = NoObject
    BY <1>1, <1>3 DEF Alone, LinkOK, Peer
  <2>2. \A t \in Servers : t # s => k.end[t] = NoObject
    BY <1>1, <2>1 DEF LinkOK, Peer
  <2>3. FreeLink.end = [t \in Servers |-> NoObject]
    BY DEF FreeLink
  <2>4. FreeLink.end = [k.end EXCEPT ![s] = NoObject]
    BY <1>2, <2>2, <2>3
  <2>5. Hung(k, s) = FreeLink
    BY <1>3 DEF Hung
  <2> QED
    BY <2>4, <2>5, FreeLinkOK DEF Left
<1>4. CASE ~(Alone(k, s) \/ (k.st = "syn" /\ k.wire # "ok"))
  <2> DEFINE m == [k EXCEPT !.end[s] = NoObject, !.q[s] = <<>>]
  <2>1. Hung(k, s) = m
    BY <1>4 DEF Hung
  <2>2. k.q \in [Servers -> Seq(Messages \cup {Handshake})]
    BY DEF LinkType
  <2>3. m \in LinkType
    <3>1. [k.end EXCEPT ![s] = NoObject] \in [Servers -> Objects \cup {NoObject}]
      BY <1>2
    <3>2. [k.q EXCEPT ![s] = <<>>] \in [Servers -> Seq(Messages \cup {Handshake})]
      <4>1. <<>> \in Seq(Messages \cup {Handshake})
        OBVIOUS
      <4> QED
        BY <2>2, <4>1
    <3> QED
      BY <3>1, <3>2 DEF LinkType
  <2>4. m.st = k.st /\ m.by = k.by /\ m.to = k.to /\ m.end = [k.end EXCEPT ![s] = NoObject]
    BY DEF LinkType
  <2> HIDE DEF m
  <2>5. \A t \in Servers : m.end[t] # NoObject => m.end[t] = k.end[t]
    BY <1>2, <2>4
  <2>6. k.st # "free" => k.to \in Servers
    BY DEF LinkOK
  <2>7. k.st # "free" => m.end[k.to] \in {NoObject, k.end[k.to]}
    BY <1>2, <2>4, <2>6
  <2>8. LinkOK(m)
    BY <1>1, <2>4, <2>5, <2>7 DEF LinkOK
  <2> QED
    BY <2>1, <2>3, <2>4, <2>8 DEF Left
<1> QED
  BY <1>3, <1>4

---------------------------------------------------------------------------
(* Steps of the world.                                                     *)

\* What the invariant says of connection c of server s.
LEMMA ConnFacts ==
  ASSUME NEW P, NEW L, WorldOK(P, L), NEW s \in Servers, NEW c \in Objects,
         NEW l \in LinkIds, P[s].conn[c].link = l
  PROVE  /\ P[s] \in ProcessType /\ ProcOK(P[s]) /\ Out(P[s], c)
         /\ P[s].conn[c] \in ConnType /\ P[s].conn[c].state # "IDLE"
         /\ P[s].conn[c].sid \in {NoServer, Peer(L[l], s)}
         /\ L[l] \in LinkType /\ LinkOK(L[l]) /\ L[l].end[s] = c /\ c # NoObject
         /\ Peer(L[l], s) \in Servers
<1>1. l # 0 /\ c # NoObject
  BY ServerAssumption, ManagerAssumption DEF LinkIds
<1>2. ConnOK(P[s].conn[c], s, c, L) /\ ProcOK(P[s]) /\ L[l] \in LinkType /\ LinkOK(L[l])
  BY DEF WorldOK
<1>3. L[l].end[s] = c
  BY <1>2 DEF ConnOK
<1>4. Peer(L[l], s) \in Servers
  BY <1>1, <1>2, <1>3, PeerOK
<1>5. Out(P[s], c)
  BY <1>1, <1>2, SocketOut
<1> QED
  BY <1>1, <1>2, <1>3, <1>4, <1>5 DEF ConnOK, ProcOK, ProcessType

\* Connection c of server s becomes k and the links M; the ends of the others,
\* and whom they have at the other end, stay.
LEMMA WorldStep ==
  ASSUME NEW P, NEW L, WorldOK(P, L), NEW s \in Servers, NEW c \in Objects,
         NEW q, ProcOK(q), NEW k, Becomes(P[s], q, c, k),
         NEW M \in [LinkIds -> LinkType],
         \A l \in LinkIds : LinkOK(M[l]),
         \A l \in LinkIds, t \in Servers : t # s => M[l].end[t] = L[l].end[t],
         \A l \in LinkIds : M[l].end[s] # L[l].end[s] =>
            {M[l].end[s], L[l].end[s]} \subseteq {c, NoObject},
         \A l \in LinkIds, t \in Servers :
            M[l].end[t] # NoObject /\ M[l].end[t] = L[l].end[t] => Peer(M[l], t) = Peer(L[l], t),
         ConnOK(k, s, c, M)
  PROVE  WorldOK([P EXCEPT ![s] = q], M)
<1> DEFINE Q == [P EXCEPT ![s] = q]
<1>1. P \in [Servers -> ProcessType] /\ q \in ProcessType
  BY DEF WorldOK, ProcOK
<1>2. Q \in [Servers -> ProcessType] /\ Q[s] = q /\ \A t \in Servers : t # s => Q[t] = P[t]
  BY <1>1
<1> HIDE DEF Q
<1>3. \A t \in Servers : ProcOK(Q[t])
  BY <1>2 DEF WorldOK
<1>4. ASSUME NEW t \in Servers, NEW d \in Objects
      PROVE  ConnOK(Q[t].conn[d], t, d, M)
  <2>1. CASE t = s /\ d = c
    <3>1. Q[t].conn[d] = k
      BY <1>1, <1>2, <2>1 DEF Becomes, ProcessType
    <3> QED
      BY <2>1, <3>1
  <2>2. CASE t # s \/ d # c
    <3>1. Q[t].conn[d] = P[t].conn[d]
      BY <1>1, <1>2, <2>2 DEF Becomes, ProcessType
    <3>2. ConnOK(P[t].conn[d], t, d, L) /\ d # NoObject
      BY ManagerAssumption DEF WorldOK
    <3>3. \A l \in LinkIds : M[l].end[t] = d <=> L[l].end[t] = d
      BY <2>2, <3>2
    <3>4. \A l \in LinkIds : M[l].end[t] = d => Peer(M[l], t) = Peer(L[l], t)
      BY <3>2, <3>3
    <3> QED
      BY <3>1, <3>2, <3>3, <3>4 DEF ConnOK
  <2> QED
    BY <2>1, <2>2
<1> QED
  BY <1>2, <1>3, <1>4 DEF WorldOK, Q

\* Only the processes' nodes and pools change.
LEMMA NodeStep ==
  ASSUME NEW P, NEW L, WorldOK(P, L), NEW s \in Servers,
         NEW q, ProcOK(q), q.conn = P[s].conn
  PROVE  WorldOK([P EXCEPT ![s] = q], L)
<1> DEFINE Q == [P EXCEPT ![s] = q]
<1>1. P \in [Servers -> ProcessType] /\ q \in ProcessType
  BY DEF WorldOK, ProcOK
<1>2. /\ Q \in [Servers -> ProcessType] /\ Q[s] = q
      /\ \A t \in Servers : Q[t].conn = P[t].conn /\ (t # s => Q[t] = P[t])
  BY <1>1
<1> HIDE DEF Q
<1> QED
  BY <1>2 DEF WorldOK, Q

\* What a link carries changes, and how it is.
LEMMA LinkStep ==
  ASSUME NEW P, NEW L, WorldOK(P, L), NEW l \in LinkIds, NEW m \in LinkType, SameEnds(L[l], m)
  PROVE  WorldOK(P, [L EXCEPT ![l] = m])
<1> DEFINE M == [L EXCEPT ![l] = m]
<1>1. /\ L \in [LinkIds -> LinkType] /\ M \in [LinkIds -> LinkType]
      /\ M[l] = m /\ \A j \in LinkIds : j # l => M[j] = L[j]
  BY DEF WorldOK
<1> HIDE DEF M
<1>2. \A j \in LinkIds : SameEnds(L[j], M[j])
  BY <1>1 DEF SameEnds
<1>3. \A j \in LinkIds : LinkOK(M[j]) /\ \A s \in Servers : Peer(M[j], s) = Peer(L[j], s)
  BY <1>2, SameEndsOK DEF WorldOK
<1>4. \A s \in Servers, c \in Objects : ConnOK(P[s].conn[c], s, c, M)
  <2>1. SUFFICES ASSUME NEW s \in Servers, NEW c \in Objects
                 PROVE  ConnOK(P[s].conn[c], s, c, M)
    OBVIOUS
  <2>2. ConnOK(P[s].conn[c], s, c, L)
    BY DEF WorldOK
  <2> QED
    BY <1>2, <1>3, <2>2 DEF ConnOK, SameEnds
<1> QED
  BY <1>1, <1>3, <1>4 DEF WorldOK, M

\* A connection changes and keeps its link; what the link carries may change.
LEMMA StayStep ==
  ASSUME NEW P, NEW L, WorldOK(P, L), NEW s \in Servers, NEW c \in Objects,
         NEW l \in LinkIds, P[s].conn[c].link = l,
         NEW q, ProcOK(q), NEW k, Becomes(P[s], q, c, k),
         k.link = l, k.state # "IDLE", k.sid \in {NoServer, Peer(L[l], s)},
         NEW m \in LinkType, SameEnds(L[l], m)
  PROVE  WorldOK([P EXCEPT ![s] = q], [L EXCEPT ![l] = m])
<1> DEFINE M == [L EXCEPT ![l] = m]
<1>1. WorldOK(P, M)
  BY LinkStep
<1>2. M[l] = m /\ M \in [LinkIds -> LinkType] /\ L[l] \in LinkType /\ LinkOK(L[l])
  BY DEF WorldOK
<1> HIDE DEF M
<1>3. ConnOK(P[s].conn[c], s, c, M)
  BY <1>1 DEF WorldOK
<1>4. Peer(M[l], s) = Peer(L[l], s)
  BY <1>2, SameEndsOK
<1>5. ConnOK(k, s, c, M)
  BY <1>3, <1>4 DEF ConnOK
<1>6. \A j \in LinkIds : LinkOK(M[j])
  BY <1>1 DEF WorldOK
<1> QED
  BY <1>1, <1>2, <1>5, <1>6, WorldStep DEF M

\* A connection leaves its link.
LEMMA LeaveStep ==
  ASSUME NEW P, NEW L, WorldOK(P, L), NEW s \in Servers, NEW c \in Objects,
         NEW l \in LinkIds, P[s].conn[c].link = l,
         NEW q, ProcOK(q), NEW k, Becomes(P[s], q, c, k), k.link = 0
  PROVE  WorldOK([P EXCEPT ![s] = q], [L EXCEPT ![l] = Hung(@, s)])
<1> DEFINE m == Hung(L[l], s)
           M == [L EXCEPT ![l] = m]
<1>1. /\ L \in [LinkIds -> LinkType] /\ L[l] \in LinkType /\ LinkOK(L[l])
      /\ L[l].end[s] = c /\ c # NoObject
  BY ConnFacts DEF WorldOK
<1>2. m \in LinkType /\ LinkOK(m) /\ Left(L[l], m, s)
  BY <1>1, HungOK
<1> HIDE DEF m
<1>3. /\ M \in [LinkIds -> LinkType] /\ M[l] = m
      /\ \A j \in LinkIds : j # l => M[j] = L[j]
  BY <1>1, <1>2
<1> HIDE DEF M
<1>4. L[l].end \in [Servers -> Objects \cup {NoObject}]
  BY <1>1 DEF LinkType
<1>5. m.end[s] = NoObject /\ \A t \in Servers : t # s => m.end[t] = L[l].end[t]
  BY <1>2, <1>4 DEF Left
<1>6. \A j \in LinkIds : LinkOK(M[j])
  BY <1>2, <1>3 DEF WorldOK
<1>7. \A t \in Servers : m.end[t] # NoObject => Peer(m, t) = Peer(L[l], t)
  BY <1>2 DEF Left, Peer
<1>8. ConnOK(k, s, c, M)
  <2>1. ConnOK(P[s].conn[c], s, c, L) /\ 0 \notin LinkIds
    BY ServerAssumption DEF WorldOK, LinkIds
  <2> QED
    BY <1>1, <1>3, <1>5, <2>1 DEF ConnOK
<1>9. \A j \in LinkIds, t \in Servers : t # s => M[j].end[t] = L[j].end[t]
  BY <1>3, <1>5
<1>10. \A j \in LinkIds : M[j].end[s] # L[j].end[s] =>
          {M[j].end[s], L[j].end[s]} \subseteq {c, NoObject}
  BY <1>1, <1>3, <1>5
<1>11. \A j \in LinkIds, t \in Servers :
          M[j].end[t] # NoObject /\ M[j].end[t] = L[j].end[t] => Peer(M[j], t) = Peer(L[j], t)
  BY <1>3, <1>7
<1>12. WorldOK([P EXCEPT ![s] = q], M)
  BY <1>3, <1>6, <1>8, <1>9, <1>10, <1>11, WorldStep
<1> QED
  BY <1>12 DEF M, m

\* A connection without a link gets the end of server s of link l.
LEMMA JoinStep ==
  ASSUME NEW P, NEW L, WorldOK(P, L), NEW s \in Servers, NEW c \in Objects,
         NEW q, ProcOK(q), NEW k, Becomes(P[s], q, c, k),
         ~Out(P[s], c),
         NEW l \in LinkIds, NEW m \in LinkType, LinkOK(m),
         L[l].end[s] = NoObject, m.end = [L[l].end EXCEPT ![s] = c],
         \A t \in Servers : L[l].end[t] # NoObject => Peer(m, t) = Peer(L[l], t),
         k.link = l, k.state # "IDLE", k.sid \in {NoServer, Peer(m, s)}
  PROVE  WorldOK([P EXCEPT ![s] = q], [L EXCEPT ![l] = m])
<1> DEFINE M == [L EXCEPT ![l] = m]
<1>1. /\ L \in [LinkIds -> LinkType] /\ M \in [LinkIds -> LinkType] /\ M[l] = m
      /\ \A j \in LinkIds : j # l => M[j] = L[j]
      /\ L[l].end \in [Servers -> Objects \cup {NoObject}]
      /\ c # NoObject
  BY ManagerAssumption, ZenonT(90) DEF WorldOK, LinkType
<1> HIDE DEF M
<1>2. m.end[s] = c /\ \A t \in Servers : t # s => m.end[t] = L[l].end[t]
  BY <1>1
<1>3. P[s].conn[c].link = 0
  BY SocketOut DEF WorldOK
<1>4. \A j \in LinkIds : L[j].end[s] # c
  <2>1. ConnOK(P[s].conn[c], s, c, L) /\ 0 \notin LinkIds
    BY ServerAssumption DEF WorldOK, LinkIds
  <2> QED
    BY <1>3, <2>1 DEF ConnOK
<1>5. \A j \in LinkIds : LinkOK(M[j])
  BY <1>1 DEF WorldOK
<1>6. ConnOK(k, s, c, M)
  BY <1>1, <1>2, <1>4 DEF ConnOK
<1>7. \A j \in LinkIds, t \in Servers : t # s => M[j].end[t] = L[j].end[t]
  BY <1>1, <1>2
<1>8. \A j \in LinkIds : M[j].end[s] # L[j].end[s] =>
          {M[j].end[s], L[j].end[s]} \subseteq {c, NoObject}
  BY <1>1, <1>2
<1>9. \A j \in LinkIds, t \in Servers :
          M[j].end[t] # NoObject /\ M[j].end[t] = L[j].end[t] => Peer(M[j], t) = Peer(L[j], t)
  BY <1>1
<1>10. WorldOK([P EXCEPT ![s] = q], M)
  BY <1>1, <1>5, <1>6, <1>7, <1>8, <1>9, WorldStep, SMTT(90)
<1> QED
  BY <1>10 DEF M

\* The links of a process that dies.
LEMMA OrphanedOK ==
  ASSUME NEW k \in LinkType, LinkOK(k), NEW s \in Servers
  PROVE  /\ Orphaned(k, s) \in LinkType /\ LinkOK(Orphaned(k, s))
         /\ Left(k, Orphaned(k, s), s)
<1>1. k.end \in [Servers -> Objects \cup {NoObject}]
  BY DEF LinkType
<1>2. CASE k.end[s] # NoObject
  <2>1. ~(k.st = "syn" /\ k.to = s)
    BY <1>2 DEF LinkOK
  <2>2. Orphaned(k, s) = Hung(k, s)
    BY <1>2, <2>1 DEF Orphaned
  <2> QED
    BY <1>2, <2>2, HungOK
<1>3. ASSUME k.end[s] = NoObject
      PROVE  k.end = [k.end EXCEPT ![s] = NoObject]
  BY <1>1, <1>3
<1>4. CASE k.end[s] = NoObject /\ k.st = "syn" /\ k.to = s /\ k.end[k.by] = NoObject
  <2>1. \A t \in Servers : k.end[t] = NoObject
    BY <1>4 DEF LinkOK
  <2>2. FreeLink.end = [t \in Servers |-> NoObject]
    BY DEF FreeLink
  <2>3. FreeLink.end = [k.end EXCEPT ![s] = NoObject]
    BY <1>1, <2>1, <2>2
  <2>4. Orphaned(k, s) = FreeLink
    BY <1>4 DEF Orphaned
  <2> QED
    BY <2>3, <2>4, FreeLinkOK DEF Left
<1>5. CASE k.end[s] = NoObject /\ k.st = "syn" /\ k.to = s /\ k.end[k.by] # NoObject
  <2> DEFINE m == [k EXCEPT !.wire = "reset"]
  <2>1. Orphaned(k, s) = m
    BY <1>5 DEF Orphaned
  <2>2. m \in LinkType /\ SameEnds(k, m)
    BY DEF LinkType, SameEnds
  <2> HIDE DEF m
  <2>3. LinkOK(m)
    BY <2>2, SameEndsOK
  <2> QED
    BY <1>3, <1>5, <2>1, <2>2, <2>3 DEF Left, SameEnds
<1>6. CASE k.end[s] = NoObject /\ ~(k.st = "syn" /\ k.to = s)
  <2>1. Orphaned(k, s) = k
    BY <1>6 DEF Orphaned
  <2> QED
    BY <1>3, <1>6, <2>1 DEF Left
<1> QED
  BY <1>2, <1>4, <1>5, <1>6

LEMMA CrashStep ==
  ASSUME NEW P, NEW L, WorldOK(P, L), NEW s \in Servers
  PROVE  WorldOK([P EXCEPT ![s] = NewProcess({})], [l \in LinkIds |-> Orphaned(L[l], s)])
<1> DEFINE Q == [P EXCEPT ![s] = NewProcess({})]
           M == [l \in LinkIds |-> Orphaned(L[l], s)]
<1>1. ProcOK(NewProcess({})) /\ NewProcess({}).conn = [c \in Objects |-> IdleConn]
  BY NewProcessOK
<1>2. P \in [Servers -> ProcessType] /\ NewProcess({}) \in ProcessType
  BY <1>1 DEF WorldOK, ProcOK
<1>3. /\ Q \in [Servers -> ProcessType] /\ \A t \in Servers : t # s => Q[t] = P[t]
      /\ Q[s] = NewProcess({})
  BY <1>2
<1>4. \A l \in LinkIds : /\ L[l] \in LinkType /\ M[l] \in LinkType /\ LinkOK(M[l])
                         /\ Left(L[l], M[l], s)
  BY OrphanedOK DEF WorldOK
<1>5. M \in [LinkIds -> LinkType]
  BY <1>4
<1> HIDE DEF Q, M
<1>6. \A l \in LinkIds : /\ M[l].end[s] = NoObject
                         /\ \A t \in Servers : t # s => M[l].end[t] = L[l].end[t]
                         /\ \A t \in Servers : M[l].end[t] # NoObject => Peer(M[l], t) = Peer(L[l], t)
  <2> SUFFICES ASSUME NEW l \in LinkIds
               PROVE  /\ M[l].end[s] = NoObject
                      /\ \A t \in Servers : t # s => M[l].end[t] = L[l].end[t]
                      /\ \A t \in Servers : M[l].end[t] # NoObject => Peer(M[l], t) = Peer(L[l], t)
    OBVIOUS
  <2>1. M[l].end = [L[l].end EXCEPT ![s] = NoObject] /\ L[l].end \in [Servers -> Objects \cup {NoObject}]
    BY <1>4 DEF Left, LinkType
  <2>2. M[l].end[s] = NoObject
    BY <2>1
  <2>3. \A t \in Servers : t # s => M[l].end[t] = L[l].end[t]
    BY <2>1
  <2>4. \A t \in Servers : M[l].end[t] # NoObject => Peer(M[l], t) = Peer(L[l], t)
    BY <1>4 DEF Left, Peer
  <2> QED
    BY <2>2, <2>3, <2>4
<1>7. \A t \in Servers : ProcOK(Q[t])
  BY <1>1, <1>3 DEF WorldOK
<1>8. ASSUME NEW t \in Servers, NEW c \in Objects
      PROVE  ConnOK(Q[t].conn[c], t, c, M)
  <2>1. c # NoObject /\ 0 \notin LinkIds
    BY ManagerAssumption, ServerAssumption DEF LinkIds
  <2>2. CASE t = s
    <3>1. Q[t].conn[c] = IdleConn
      BY <1>1, <1>3, <2>2
    <3>2. IdleConn.link = 0
      BY DEF IdleConn
    <3> QED
      BY <1>6, <2>1, <2>2, <3>1, <3>2 DEF ConnOK
  <2>3. CASE t # s
    <3>1. ConnOK(P[t].conn[c], t, c, L) /\ Q[t] = P[t]
      BY <1>3, <2>3 DEF WorldOK
    <3>2. \A l \in LinkIds : M[l].end[t] = c => Peer(M[l], t) = Peer(L[l], t)
      BY <1>6, <2>1
    <3> QED
      BY <1>6, <2>3, <3>1, <3>2, SMTT(90) DEF ConnOK
  <2> QED
    BY <2>2, <2>3
<1> QED
  BY <1>3, <1>4, <1>5, <1>7, <1>8 DEF WorldOK, Q, M

---------------------------------------------------------------------------
(* The actions.                                                            *)

\* The initial state satisfies the invariant.
LEMMA InitOK == Init => IInv
<1> SUFFICES ASSUME Init
             PROVE  IInv
  OBVIOUS
<1>1. \A s \in Servers : /\ ProcOK(proc[s]) /\ proc[s].conn = [c \in Objects |-> IdleConn]
  BY NewProcessOK DEF Init
<1>2. \A s \in Servers : proc[s] \in ProcessType
  BY <1>1 DEF ProcOK
<1>3. proc \in [Servers -> ProcessType]
  BY <1>2 DEF Init
<1>4. /\ link \in [LinkIds -> LinkType]
      /\ \A l \in LinkIds : LinkOK(link[l]) /\ \A s \in Servers : link[l].end[s] = NoObject
  BY FreeLinkOK DEF Init
<1>5. \A s \in Servers, c \in Objects : ConnOK(proc[s].conn[c], s, c, link)
  <2>1. NoObject \notin Objects /\ 0 \notin LinkIds /\ IdleConn.link = 0
    BY ManagerAssumption, ServerAssumption DEF LinkIds, IdleConn
  <2> QED
    BY <1>1, <1>4, <2>1 DEF ConnOK
<1>6. CountsOK
  BY ServerAssumption DEF Init, CountsOK
<1> QED
  BY <1>1, <1>3, <1>4, <1>5, <1>6 DEF IInv, WorldOK

\* The invariant implies the properties of the runs.
LEMMA IInvImplies == IInv => TypeOK /\ NodesSound /\ PoolsSound
<1> SUFFICES ASSUME IInv
             PROVE  TypeOK /\ NodesSound /\ PoolsSound
  OBVIOUS
<1>1. TypeOK
  BY DEF IInv, WorldOK, CountsOK, ConnOK, TypeOK
<1>2. NodesSound /\ PoolsSound
  BY DEF IInv, WorldOK, ProcOK, NodesSound, PoolsSound
<1> QED
  BY <1>1, <1>2

\* A message goes out or is queued, or a connection is made for it.
LEMMA SendKeeps ==
  ASSUME IInv, NEW m \in Messages,
         SendNow(m) \/ SendLater(m) \/ SendNowhere(m) \/ SendConnecting(m) \/ SendFailing(m)
  PROVE  IInv'
<1> DEFINE s == From[m]
           r == To[m]
           p == proc[s]
<1>1. /\ WorldOK(proc, link) /\ s \in Servers /\ r \in Servers /\ s # r
      /\ ProcOK(p) /\ p \in ProcessType /\ p.node[r] \in NodeType
      /\ m \in Nat /\ m \in Messages \cup {Handshake}
      /\ proc \in [Servers -> ProcessType] /\ link \in [LinkIds -> LinkType]
      /\ 0 \notin LinkIds /\ LinkIds \subseteq Nat
  BY ServerAssumption DEF IInv, WorldOK, ProcessType, LinkIds
<1>2. CountsOK /\ (CountsOK' <=> sent' \subseteq Messages /\ got' \in [Messages -> Nat]
                                  /\ faults' \in 0 .. MaxFaults /\ dels' \in 0 .. MaxDels)
  BY DEF IInv, CountsOK
<1>3. CASE SendNow(m)
  <2> DEFINE c == p.node[r].conn
             l == p.conn[c].link
  <2>1. /\ c \in Objects /\ l # 0 /\ p.conn[c].sid = r
        /\ link' = [link EXCEPT ![l] = Written(@, s, <<m>>)]
        /\ proc' = proc /\ sent' = sent \cup {m} /\ UNCHANGED <<got, faults, dels>>
    BY <1>1, <1>3 DEF SendNow, ProcOK, NodeSound, NodeType
  <2>2. l \in LinkIds
    BY <1>1, <2>1 DEF WorldOK, ConnOK
  <2>3. link[l] \in LinkType /\ Peer(link[l], s) \in Servers
    <3>1. proc[s].conn[c].link = l
      OBVIOUS
    <3> HIDE DEF l, c, p, s
    <3> QED
      BY ONLY <1>1, <2>1, <2>2, <3>1, ConnFacts
  <2>4. <<m>> \in Seq(Messages \cup {Handshake})
    BY <1>1
  <2>5. Written(link[l], s, <<m>>) \in LinkType /\ SameEnds(link[l], Written(link[l], s, <<m>>))
    BY <1>1, <2>3, <2>4, WrittenOK
  <2>6. WorldOK(proc', link')
    BY <1>1, <2>1, <2>2, <2>5, LinkStep
  <2> QED
    BY <1>2, <2>1, <2>6 DEF IInv, CountsOK
<1>4. CASE SendLater(m)
  <2> DEFINE q == [p EXCEPT !.node[r].strms = Append(@, m)]
  <2>1. /\ p.node[r].conn # NoObject /\ proc' = [proc EXCEPT ![s].node[r].strms = Append(@, m)]
        /\ sent' = sent \cup {m} /\ UNCHANGED <<link, got, faults, dels>>
    BY <1>4 DEF SendLater
  <2>2. proc' = [proc EXCEPT ![s] = q]
    BY <1>1, <2>1
  <2>3. ProcOK(q) /\ q.conn = p.conn
    BY <1>1, <2>1, QueuedOK, ZenonT(90)
  <2> HIDE DEF q
  <2>4. WorldOK(proc', link')
    <3>1. q.conn = proc[s].conn
      BY <2>3
    <3>2. WorldOK([proc EXCEPT ![s] = q], link)
      BY ONLY <1>1, <2>3, <3>1, NodeStep
    <3> QED
      BY <2>1, <2>2, <3>2
  <2> QED
    BY <1>2, <2>1, <2>4 DEF IInv, CountsOK
<1>5. CASE SendNowhere(m)
  BY <1>2, <1>5 DEF SendNowhere, IInv, CountsOK
<1>6. CASE SendConnecting(m)
  <2> DEFINE c == NextObject(p)
  <2>1. /\ p.node[r].here /\ p.node[r].conn = NoObject /\ p.pool # <<>>
        /\ sent' = sent \cup {m} /\ UNCHANGED <<got, faults, dels>>
    BY <1>6 DEF SendConnecting, MustConnect
  <2>2. PICK l \in LinkIds :
           /\ link[l].st = "free"
           /\ link' = [link EXCEPT ![l] =
                 [FreeLink EXCEPT !.st = "syn", !.by = s, !.to = r, !.end[s] = c]]
           /\ proc' = [proc EXCEPT ![s] = Connecting(@, r, l, m)]
    BY <1>6 DEF SendConnecting
  <2> DEFINE q == Connecting(p, r, l, m)
             n == [FreeLink EXCEPT !.st = "syn", !.by = s, !.to = r, !.end[s] = c]
  <2>3. l \in Nat /\ l # 0
    BY <1>1
  <2>4. /\ ProcOK(q) /\ ~Out(p, c) /\ c \in Objects
        /\ \E k \in ConnType : /\ Becomes(p, q, c, k)
                               /\ k.link = l /\ k.state # "IDLE" /\ k.sid = r
    BY ONLY <1>1, <2>1, <2>3, ConnectingOK
  <2>5. proc' = [proc EXCEPT ![s] = q] /\ link' = [link EXCEPT ![l] = n]
    BY <1>1, <2>2
  <2>6. PICK k \in ConnType : /\ Becomes(p, q, c, k)
                              /\ k.link = l /\ k.state # "IDLE" /\ k.sid = r
    BY <2>4
  <2>7. link[l].end = [t \in Servers |-> NoObject]
    BY <1>1, <2>2 DEF WorldOK, LinkOK, LinkType
  <2>8. n \in LinkType /\ n.st = "syn" /\ n.by = s /\ n.to = r
    <3>1. [t \in Servers |-> NoObject] \in [Servers -> Objects \cup {NoObject}]
      OBVIOUS
    <3>2. FreeLink.end = [t \in Servers |-> NoObject]
      BY DEF FreeLink
    <3> QED
      BY <1>1, <2>4, <3>1, <3>2, FreeLinkOK DEF LinkType
  <2>9. n.end = [link[l].end EXCEPT ![s] = c]
    BY <2>7 DEF FreeLink
  <2> HIDE DEF c, q, n
  <2>10. n.end[s] = c /\ \A t \in Servers : t # s => n.end[t] = NoObject
    BY <1>1, <2>7, <2>9
  <2>11. LinkOK(n)
    BY <1>1, <2>8, <2>10 DEF LinkOK
  <2>12. k.sid = Peer(n, s)
    BY <2>6, <2>8 DEF Peer
  <2>13. link[l].end[s] = NoObject /\ \A t \in Servers : link[l].end[t] = NoObject
    BY <1>1, <2>7
  <2>14. WorldOK(proc', link')
    <3>1. Becomes(proc[s], q, c, k) /\ ~Out(proc[s], c)
      BY <2>4, <2>6
    <3>2. k.sid \in {NoServer, Peer(n, s)}
      BY <2>12
    <3>3. \A t \in Servers : link[l].end[t] # NoObject => Peer(n, t) = Peer(link[l], t)
      BY <2>13
    <3>4. WorldOK([proc EXCEPT ![s] = q], [link EXCEPT ![l] = n])
      <4> HIDE DEF p, r, s
      <4>1. ProcOK(q) /\ c \in Objects /\ link[l].end[s] = NoObject
        BY <2>4, <2>13
      <4>2. WorldOK(proc, link) /\ s \in Servers
        BY <1>1
      <4>3. /\ n \in LinkType /\ LinkOK(n) /\ n.end = [link[l].end EXCEPT ![s] = c]
            /\ k.link = l /\ k.state # "IDLE"
        BY <2>6, <2>8, <2>9, <2>11
      <4> QED
        BY ONLY l \in LinkIds, <3>1, <3>2, <3>3, <4>1, <4>2, <4>3, JoinStep
    <3> QED
      BY <2>5, <3>4
  <2> QED
    BY <1>2, <2>1, <2>14 DEF IInv, CountsOK
<1>7. CASE SendFailing(m)
  <2>1. /\ p.pool # <<>> /\ proc' = [proc EXCEPT ![s] = NotConnecting(p, r)]
        /\ sent' = sent \cup {m} /\ faults < MaxFaults /\ faults' = faults + 1
        /\ UNCHANGED <<link, got, dels>>
    BY <1>1, <1>7 DEF SendFailing, MustConnect, Fail
  <2> DEFINE c == NextObject(p)
             q == NotConnecting(p, r)
  <2>2. /\ ProcOK(q) /\ c \in Objects /\ p.conn[c].link = 0
        /\ \E k \in ConnType : Becomes(p, q, c, k) /\ k.link = 0
    BY <1>1, <2>1, NotConnectingOK
  <2>3. PICK k \in ConnType : Becomes(p, q, c, k) /\ k.link = 0
    BY <2>2
  <2> HIDE DEF c, q
  <2>4. ConnOK(p.conn[c], s, c, link)
    BY <1>1, <2>2 DEF WorldOK
  <2>5. ConnOK(k, s, c, link)
    BY <2>2, <2>3, <2>4 DEF ConnOK
  <2>6. WorldOK([proc EXCEPT ![s] = q], link)
    <3>1. \A j \in LinkIds : LinkOK(link[j])
      BY <1>1 DEF WorldOK
    <3> QED
      BY <1>1, <2>2, <2>3, <2>5, <3>1, WorldStep
  <2>7. faults' \in 0 .. MaxFaults
    BY <1>2, <2>1, ServerAssumption DEF CountsOK
  <2> QED
    BY <1>2, <2>1, <2>6, <2>7 DEF IInv, CountsOK, q
<1> QED
  BY <1>3, <1>4, <1>5, <1>6, <1>7

\* The listener takes a link.
LEMMA AcceptKeeps ==
  ASSUME IInv, NEW l \in LinkIds, Accept(l)
  PROVE  IInv'
<1> DEFINE s == link[l].to
           p == proc[s]
           c == NextObject(p)
           q == Accepted(p, l)
           n == [link[l] EXCEPT !.st = "up", !.end[s] = c]
<1>1. /\ WorldOK(proc, link) /\ CountsOK /\ link[l] \in LinkType /\ LinkOK(link[l])
      /\ proc \in [Servers -> ProcessType] /\ link \in [LinkIds -> LinkType]
      /\ l \in Nat
  BY ServerAssumption DEF IInv, WorldOK, LinkIds
<1>2. /\ link[l].st = "syn" /\ p.pool # <<>>
      /\ proc' = [proc EXCEPT ![s] = Accepted(@, l)]
      /\ link' = [link EXCEPT ![l].st = "up", ![l].end[s] = c]
      /\ UNCHANGED <<sent, got, faults, dels>>
  BY DEF Accept
<1>3. s \in Servers /\ link[l].by \in Servers /\ link[l].by # s /\ link[l].end[s] = NoObject
  BY <1>1, <1>2 DEF LinkOK
<1>4. ProcOK(p)
  BY <1>1, <1>3 DEF WorldOK
<1>5. /\ ProcOK(q) /\ ~Out(p, c) /\ c \in Objects
      /\ \E k \in ConnType : /\ Becomes(p, q, c, k)
                             /\ k.link = l /\ k.state # "IDLE" /\ k.sid = NoServer
  BY ONLY <1>1, <1>2, <1>4, AcceptedOK
<1>6. PICK k \in ConnType : /\ Becomes(p, q, c, k)
                            /\ k.link = l /\ k.state # "IDLE" /\ k.sid = NoServer
  BY <1>5
<1>7. proc' = [proc EXCEPT ![s] = q] /\ link' = [link EXCEPT ![l] = n]
  <2>1. proc' = [proc EXCEPT ![s] = q]
    BY <1>1, <1>2, <1>3
  <2>2. link' = [link EXCEPT ![l] = n]
    BY <1>1, <1>2
  <2> QED
    BY <2>1, <2>2
<1>8. /\ n \in LinkType /\ n.st = "up" /\ n.by = link[l].by /\ n.to = s
      /\ n.end = [link[l].end EXCEPT ![s] = c]
  BY <1>1, <1>5 DEF LinkType
<1>9. link[l].end \in [Servers -> Objects \cup {NoObject}]
  BY <1>1 DEF LinkType
<1> HIDE DEF n, q, c
<1>10. LinkOK(n)
  BY <1>1, <1>2, <1>3, <1>8, <1>9 DEF LinkOK
<1>11. \A t \in Servers : link[l].end[t] # NoObject => Peer(n, t) = Peer(link[l], t)
  BY <1>8 DEF Peer
<1>12. WorldOK([proc EXCEPT ![s] = q], [link EXCEPT ![l] = n])
  <2>1. Becomes(proc[s], q, c, k) /\ ~Out(proc[s], c) /\ k.sid \in {NoServer, Peer(n, s)}
    BY <1>5, <1>6
  <2>2. WorldOK(proc, link) /\ ProcOK(q) /\ c \in Objects /\ n \in LinkType
    BY <1>1, <1>5, <1>8
  <2>3. n.end = [link[l].end EXCEPT ![s] = c] /\ link[l].end[s] = NoObject /\ s \in Servers
    BY <1>3, <1>8
  <2> HIDE DEF p, s
  <2> QED
    BY ONLY l \in LinkIds, <1>6, <1>10, <1>11, <2>1, <2>2, <2>3, JoinStep
<1> QED
  BY <1>1, <1>2, <1>7, <1>12 DEF IInv, CountsOK

\* A connection is closed, by its peer, by a failure or by one of its timers.
LEMMA CloseKeeps ==
  ASSUME IInv, NEW s \in Servers, NEW c \in Objects,
         Lost(s, c) \/ ConnectTimeout(s, c) \/ (Heartbeat(s, c) /\ Close(s, c))
  PROVE  IInv'
<1> DEFINE p == proc[s]
<1>1. PICK l \in LinkIds : p.conn[c].link = l /\ UNCHANGED <<sent, got, faults, dels>>
  BY DEF Lost, ConnectTimeout, Heartbeat, Uses
<1>2. /\ WorldOK(proc, link) /\ CountsOK /\ proc \in [Servers -> ProcessType]
      /\ link \in [LinkIds -> LinkType]
  BY DEF IInv, WorldOK
<1>3. ProcOK(p) /\ Out(p, c)
  BY ONLY s \in Servers, c \in Objects, l \in LinkIds, <1>1, <1>2, ConnFacts
<1>4. \E q : /\ ProcOK(q) /\ (\E k \in ConnType : Becomes(p, q, c, k) /\ k.link = 0)
             /\ proc' = [proc EXCEPT ![s] = q]
             /\ link' = [link EXCEPT ![l] = Hung(@, s)]
  <2>1. CASE Close(s, c)
    <3>1. ProcOK(Closed(p, c)) /\ Becomes(p, Closed(p, c), c, IdleConn)
      BY <1>3, ClosedOK
    <3>2. IdleConn \in ConnType /\ IdleConn.link = 0
      BY DEF IdleConn, ConnType
    <3>3. proc' = [proc EXCEPT ![s] = Closed(p, c)] /\ link' = [link EXCEPT ![l] = Hung(@, s)]
      BY <1>1, <1>2, <2>1 DEF Close
    <3> QED
      BY <3>1, <3>2, <3>3
  <2>2. CASE ConnectTimeout(s, c)
    <3>1. PICK j \in LinkIds : /\ p.conn[c].link = j
                               /\ proc' = [proc EXCEPT ![s] = TimedOut(@, c)]
                               /\ link' = [link EXCEPT ![j] = Hung(@, s)]
      BY <2>2 DEF ConnectTimeout, Uses
    <3>2. proc' = [proc EXCEPT ![s] = TimedOut(p, c)] /\ link' = [link EXCEPT ![l] = Hung(@, s)]
      BY <1>1, <1>2, <3>1
    <3>3. /\ ProcOK(TimedOut(p, c))
          /\ \E k \in ConnType : Becomes(p, TimedOut(p, c), c, k) /\ k.link = 0
      BY <1>3, TimedOutOK
    <3> QED
      BY <3>2, <3>3
  <2> QED
    BY <2>1, <2>2 DEF Lost
<1>5. PICK q : /\ ProcOK(q) /\ (\E k \in ConnType : Becomes(p, q, c, k) /\ k.link = 0)
               /\ proc' = [proc EXCEPT ![s] = q]
               /\ link' = [link EXCEPT ![l] = Hung(@, s)]
  BY <1>4
<1>6. PICK k \in ConnType : Becomes(p, q, c, k) /\ k.link = 0
  BY <1>5
<1>7. WorldOK([proc EXCEPT ![s] = q], [link EXCEPT ![l] = Hung(@, s)])
  BY ONLY s \in Servers, c \in Objects, l \in LinkIds, <1>1, <1>2, <1>5, <1>6, LeaveStep
<1> QED
  BY <1>1, <1>2, <1>5, <1>7 DEF IInv, CountsOK

\* The connection opens.
LEMMA WritableKeeps ==
  ASSUME IInv, NEW s \in Servers, NEW c \in Objects, Writable(s, c)
  PROVE  IInv'
<1> DEFINE p == proc[s]
<1>1. PICK l \in LinkIds :
         /\ p.conn[c].link = l /\ UNCHANGED <<sent, got, faults, dels>>
         /\ proc' = [proc EXCEPT ![s] = Connected(@, c)]
         /\ link' = [link EXCEPT ![l] = Written(@, s, <<Handshake>>)]
  BY DEF Writable, Uses
<1>2. /\ WorldOK(proc, link) /\ CountsOK /\ proc \in [Servers -> ProcessType]
      /\ link \in [LinkIds -> LinkType]
  BY DEF IInv, WorldOK
<1>3. /\ ProcOK(p) /\ Out(p, c) /\ link[l] \in LinkType /\ Peer(link[l], s) \in Servers
      /\ p.conn[c].sid \in {NoServer, Peer(link[l], s)}
  BY ONLY s \in Servers, c \in Objects, l \in LinkIds, <1>1, <1>2, ConnFacts
<1> DEFINE q == Connected(p, c)
           m == Written(link[l], s, <<Handshake>>)
<1>4. PICK k \in ConnType : /\ ProcOK(q) /\ Becomes(p, q, c, k)
                            /\ k.sid = p.conn[c].sid /\ k.link = p.conn[c].link /\ k.state # "IDLE"
  BY ONLY <1>3, ConnectedOK
<1>5. m \in LinkType /\ SameEnds(link[l], m)
  <2>1. <<Handshake>> \in Seq(Messages \cup {Handshake})
    OBVIOUS
  <2> QED
    BY ONLY s \in Servers, <1>3, <2>1, WrittenOK
<1>6. proc' = [proc EXCEPT ![s] = q] /\ link' = [link EXCEPT ![l] = m]
  BY <1>1, <1>2
<1> HIDE DEF q, m
<1>7. k.link = l /\ k.sid \in {NoServer, Peer(link[l], s)}
  BY <1>1, <1>3, <1>4
<1>8. WorldOK([proc EXCEPT ![s] = q], [link EXCEPT ![l] = m])
  BY ONLY s \in Servers, c \in Objects, l \in LinkIds, <1>1, <1>2, <1>4, <1>5, <1>7, StayStep
<1> QED
  BY <1>1, <1>2, <1>6, <1>8 DEF IInv, CountsOK

\* What a node's queue holds are messages.
LEMMA WaitingType ==
  ASSUME NEW p, ProcOK(p), NEW s \in Servers
  PROVE  Waiting(p, s) \in Seq(Messages \cup {Handshake})
<1>1. p.node[s] \in NodeType
  BY DEF ProcOK, ProcessType
<1>2. p.node[s].strms \in Seq(Messages)
  BY <1>1 DEF NodeType
<1> QED
  BY <1>2 DEF Waiting

\* The handshake of the other end is read.
LEMMA ReadHandshakeKeeps ==
  ASSUME IInv, NEW s \in Servers, NEW c \in Objects, ReadHandshake(s, c)
  PROVE  IInv'
<1> DEFINE p == proc[s]
           answer == IF p.conn[c].state = "CONNECTING" THEN <<Handshake>> ELSE <<>>
<1>1. PICK l \in LinkIds :
         /\ p.conn[c].link = l /\ UNCHANGED <<sent, got, faults, dels>>
         /\ link[l].q[s] # <<>>
         /\ proc' = [proc EXCEPT ![s] = HandShaken(p, c, Peer(link[l], s))]
         /\ link' = [link EXCEPT ![l] = Written(Read(@, s), s,
                                                answer \o Waiting(p, Peer(link[l], s)))]
  BY DEF ReadHandshake, Readable, Uses
<1> DEFINE t == Peer(link[l], s)
           q == HandShaken(p, c, t)
           r == Read(link[l], s)
           ms == answer \o Waiting(p, t)
           m == Written(r, s, ms)
<1>2. /\ WorldOK(proc, link) /\ CountsOK /\ proc \in [Servers -> ProcessType]
      /\ link \in [LinkIds -> LinkType]
  BY DEF IInv, WorldOK
<1>3. /\ ProcOK(p) /\ Out(p, c) /\ link[l] \in LinkType /\ LinkOK(link[l]) /\ t \in Servers
      /\ p.conn[c].sid \in {NoServer, t} /\ p.conn[c].state # "IDLE" /\ p.conn[c].link # 0
  <2>1. l # 0
    BY ServerAssumption DEF LinkIds
  <2> QED
    BY ONLY s \in Servers, c \in Objects, l \in LinkIds, <1>1, <1>2, <2>1, ConnFacts
<1>4. proc' = [proc EXCEPT ![s] = q] /\ link' = [link EXCEPT ![l] = m]
  BY <1>1, <1>2
<1>5. r \in LinkType /\ SameEnds(link[l], r)
  BY ONLY s \in Servers, <1>1, <1>3, ReadOK
<1>6. ms \in Seq(Messages \cup {Handshake})
  <2>1. answer \in Seq(Messages \cup {Handshake})
    <3>1. <<Handshake>> \in Seq(Messages \cup {Handshake})
      OBVIOUS
    <3>2. <<>> \in Seq(Messages \cup {Handshake})
      OBVIOUS
    <3> QED
      BY <3>1, <3>2
  <2>2. Waiting(p, t) \in Seq(Messages \cup {Handshake})
    BY ONLY <1>3, WaitingType
  <2> HIDE DEF answer, t
  <2> QED
    BY <2>1, <2>2
<1>7. PICK k \in ConnType : /\ ProcOK(q) /\ Becomes(p, q, c, k)
                            /\ k.sid = t /\ k.link = p.conn[c].link /\ k.state # "IDLE"
  <2> HIDE DEF t, p
  <2> QED
    BY ONLY <1>3, HandShakenOK
<1> HIDE DEF r, ms
<1>8. Peer(r, s) = t /\ Peer(r, s) \in Servers
  BY <1>3, <1>5, SameEndsOK
<1>9. m \in LinkType /\ SameEnds(r, m)
  BY ONLY s \in Servers, <1>5, <1>6, <1>8, WrittenOK
<1>10. SameEnds(link[l], m)
  BY <1>5, <1>9 DEF SameEnds
<1> HIDE DEF q, m
<1>11. k.link = l /\ k.sid \in {NoServer, Peer(link[l], s)}
  BY <1>1, <1>7
<1>12. WorldOK([proc EXCEPT ![s] = q], [link EXCEPT ![l] = m])
  BY ONLY s \in Servers, c \in Objects, l \in LinkIds,
          <1>1, <1>2, <1>7, <1>9, <1>10, <1>11, StayStep
<1> QED
  BY <1>1, <1>2, <1>4, <1>12 DEF IInv, CountsOK

\* A message is handed on.
LEMMA ReadMessageKeeps ==
  ASSUME IInv, NEW s \in Servers, NEW c \in Objects, ReadMessage(s, c)
  PROVE  IInv'
<1> DEFINE p == proc[s]
           q == [p EXCEPT !.conn[c].beats = 0]
<1>1. PICK l \in LinkIds :
         /\ p.conn[c].link = l /\ UNCHANGED <<sent, faults, dels>>
         /\ link[l].q[s] # <<>> /\ Head(link[l].q[s]) # Handshake
         /\ got' = [got EXCEPT ![Head(link[l].q[s])] = @ + 1]
         /\ proc' = [proc EXCEPT ![s].conn[c].beats = 0]
         /\ link' = [link EXCEPT ![l] = Read(@, s)]
  BY DEF ReadMessage, Readable, Uses
<1>2. /\ WorldOK(proc, link) /\ CountsOK /\ proc \in [Servers -> ProcessType]
      /\ link \in [LinkIds -> LinkType]
  BY DEF IInv, WorldOK
<1>3. /\ ProcOK(p) /\ Out(p, c) /\ link[l] \in LinkType /\ p.conn[c].state # "IDLE"
      /\ p.conn[c].sid \in {NoServer, Peer(link[l], s)}
  BY ONLY s \in Servers, c \in Objects, l \in LinkIds, <1>1, <1>2, ConnFacts
<1> DEFINE m == Read(link[l], s)
<1>4. proc' = [proc EXCEPT ![s] = q] /\ link' = [link EXCEPT ![l] = m]
  BY <1>1, <1>2
<1>5. /\ m \in LinkType /\ SameEnds(link[l], m)
      /\ Head(link[l].q[s]) \in Messages \cup {Handshake}
  BY ONLY s \in Servers, <1>1, <1>3, ReadOK
<1>6. PICK k \in ConnType : /\ ProcOK(q) /\ Becomes(p, q, c, k)
                            /\ k.sid = p.conn[c].sid /\ k.link = p.conn[c].link /\ k.state # "IDLE"
  <2>1. 0 \in Nat
    OBVIOUS
  <2> QED
    BY ONLY <1>3, <2>1, BeatsOK, SMTT(90)
<1> HIDE DEF q, m
<1>7. k.link = l /\ k.sid \in {NoServer, Peer(link[l], s)}
  BY <1>1, <1>3, <1>6
<1>8. WorldOK([proc EXCEPT ![s] = q], [link EXCEPT ![l] = m])
  BY ONLY s \in Servers, c \in Objects, l \in LinkIds, <1>1, <1>2, <1>5, <1>6, <1>7, StayStep
<1>9. got' \in [Messages -> Nat]
  BY <1>1, <1>2, <1>5, SMTT(90) DEF CountsOK
<1> QED
  BY <1>1, <1>2, <1>4, <1>8, <1>9 DEF IInv, CountsOK

\* A heartbeat without an answer.
LEMMA BeatKeeps ==
  ASSUME IInv, NEW s \in Servers, NEW c \in Objects, Heartbeat(s, c), ~Close(s, c)
  PROVE  IInv'
<1> DEFINE p == proc[s]
           b == p.conn[c].beats + 1
           q == [p EXCEPT !.conn[c].beats = b]
<1>1. PICK l \in LinkIds :
         /\ p.conn[c].link = l /\ UNCHANGED <<sent, got, faults, dels, link>>
         /\ proc' = [proc EXCEPT ![s].conn[c].beats = @ + 1]
  BY DEF Heartbeat, Uses
<1>2. /\ WorldOK(proc, link) /\ CountsOK /\ proc \in [Servers -> ProcessType]
      /\ link \in [LinkIds -> LinkType]
  BY DEF IInv, WorldOK
<1>3. /\ ProcOK(p) /\ Out(p, c) /\ link[l] \in LinkType /\ p.conn[c].state # "IDLE"
      /\ p.conn[c].sid \in {NoServer, Peer(link[l], s)} /\ p.conn[c] \in ConnType
  BY ONLY s \in Servers, c \in Objects, l \in LinkIds, <1>1, <1>2, ConnFacts
<1>4. proc' = [proc EXCEPT ![s] = q] /\ link' = [link EXCEPT ![l] = link[l]]
  BY <1>1, <1>2
<1>5. b \in Nat
  BY <1>3 DEF ConnType
<1> HIDE DEF b
<1>6. PICK k \in ConnType : /\ ProcOK(q) /\ Becomes(p, q, c, k)
                            /\ k.sid = p.conn[c].sid /\ k.link = p.conn[c].link /\ k.state # "IDLE"
  BY ONLY <1>3, <1>5, BeatsOK
<1> HIDE DEF q
<1>7. k.link = l /\ k.sid \in {NoServer, Peer(link[l], s)} /\ SameEnds(link[l], link[l])
  BY <1>1, <1>3, <1>6 DEF SameEnds
<1>8. WorldOK([proc EXCEPT ![s] = q], [link EXCEPT ![l] = link[l]])
  BY ONLY s \in Servers, c \in Objects, l \in LinkIds, <1>1, <1>2, <1>3, <1>6, <1>7, StayStep
<1> QED
  BY <1>1, <1>2, <1>4, <1>8 DEF IInv, CountsOK

\* The daemon adds a server or takes it away.
LEMMA DaemonKeeps ==
  ASSUME IInv, NEW s \in Servers, NEW t \in Servers, AddServer(s, t) \/ DelServer(s, t)
  PROVE  IInv'
<1> DEFINE p == proc[s]
<1>1. WorldOK(proc, link) /\ CountsOK /\ proc \in [Servers -> ProcessType] /\ ProcOK(p)
  BY DEF IInv, WorldOK
<1>2. \E q : ProcOK(q) /\ q.conn = p.conn /\ proc' = [proc EXCEPT ![s] = q]
  <2>1. CASE AddServer(s, t)
    <3>1. proc' = [proc EXCEPT ![s] = Added(p, t)]
      BY <1>1, <2>1 DEF AddServer
    <3> QED
      BY <1>1, <3>1, AddedOK
  <2>2. CASE DelServer(s, t)
    <3>1. proc' = [proc EXCEPT ![s] = Deleted(p, t)]
      BY <1>1, <2>2 DEF DelServer
    <3> QED
      BY <1>1, <3>1, DeletedOK
  <2> QED
    BY <2>1, <2>2
<1>3. PICK q : ProcOK(q) /\ q.conn = proc[s].conn /\ proc' = [proc EXCEPT ![s] = q]
  BY <1>2
<1>4. WorldOK([proc EXCEPT ![s] = q], link)
  BY ONLY s \in Servers, <1>1, <1>3, NodeStep
<1>5. UNCHANGED <<link, sent, got, faults>> /\ dels' \in 0 .. MaxDels
  BY <1>1, ServerAssumption DEF AddServer, DelServer, CountsOK
<1> QED
  BY <1>1, <1>3, <1>4, <1>5 DEF IInv, CountsOK

\* A link or a process fails.
LEMMA FailureKeeps ==
  ASSUME IInv,
         \/ \E l \in LinkIds, how \in {"dead", "reset"} : Break(l, how)
         \/ \E s \in Servers : Crash(s)
  PROVE  IInv'
<1>1. WorldOK(proc, link) /\ CountsOK /\ link \in [LinkIds -> LinkType]
  BY DEF IInv, WorldOK
<1>2. faults' \in 0 .. MaxFaults /\ UNCHANGED <<sent, got, dels>>
  BY <1>1, ServerAssumption DEF Break, Crash, Fail, CountsOK
<1>3. ASSUME NEW l \in LinkIds, NEW how \in {"dead", "reset"}, Break(l, how)
      PROVE  WorldOK(proc', link')
  <2> DEFINE m == [link[l] EXCEPT !.wire = how]
  <2>1. m \in LinkType /\ SameEnds(link[l], m)
    BY <1>1, ZenonT(90) DEF LinkType, SameEnds
  <2>2. link' = [link EXCEPT ![l] = m] /\ proc' = proc
    BY <1>1, <1>3 DEF Break
  <2> HIDE DEF m
  <2>3. WorldOK(proc, [link EXCEPT ![l] = m])
    BY ONLY l \in LinkIds, <1>1, <2>1, LinkStep
  <2> QED
    BY <2>2, <2>3
<1>4. ASSUME NEW s \in Servers, Crash(s)
      PROVE  WorldOK(proc', link')
  <2>1. WorldOK([proc EXCEPT ![s] = NewProcess({})], [l \in LinkIds |-> Orphaned(link[l], s)])
    BY ONLY s \in Servers, <1>1, CrashStep
  <2> QED
    BY <1>4, <2>1 DEF Crash
<1>5. WorldOK(proc', link')
  BY <1>3, <1>4
<1> QED
  BY <1>1, <1>2, <1>5 DEF IInv, CountsOK

LEMMA NextKeeps == IInv /\ [Next]_vars => IInv'
<1> SUFFICES ASSUME IInv, [Next]_vars
             PROVE  IInv'
  OBVIOUS
<1>1. ASSUME NEW m \in Messages,
             SendNow(m) \/ SendLater(m) \/ SendNowhere(m) \/ SendConnecting(m) \/ SendFailing(m)
      PROVE  IInv'
  BY <1>1, SendKeeps
<1>2. ASSUME NEW s \in Servers, Reactor(s)
      PROVE  IInv'
  <2>1. CASE \E l \in LinkIds : link[l].to = s /\ Accept(l)
    BY <2>1, AcceptKeeps
  <2>2. ASSUME NEW c \in Objects,
               \/ Lost(s, c) \/ Writable(s, c) \/ ReadHandshake(s, c) \/ ReadMessage(s, c)
               \/ ConnectTimeout(s, c) \/ Heartbeat(s, c)
        PROVE  IInv'
    BY <2>2, CloseKeeps, WritableKeeps, ReadHandshakeKeeps, ReadMessageKeeps, BeatKeeps
  <2> QED
    BY <1>2, <2>1, <2>2 DEF Reactor
<1>3. ASSUME NEW s \in Servers, NEW t \in Servers, AddServer(s, t) \/ DelServer(s, t)
      PROVE  IInv'
  BY <1>3, DaemonKeeps
<1>4. CASE \/ \E l \in LinkIds, how \in {"dead", "reset"} : Break(l, how)
           \/ \E s \in Servers : Crash(s)
  BY <1>4, FailureKeeps
<1>5. CASE UNCHANGED vars
  BY <1>5 DEF vars, IInv, CountsOK
<1> QED
  BY <1>1, <1>2, <1>3, <1>4, <1>5 DEF Next

---------------------------------------------------------------------------
(* Where a message is.                                                     *)

\* A place for messages: the queue of server s's node for t, or what link l
\* carries to t.
NodeBox(s, t) == <<"node", s, t>>
LinkBox(l, t) == <<"link", l, t>>

Boxes == ({"node"} \X Servers \X Servers) \cup ({"link"} \X LinkIds \X Servers)

\* What is in it, with processes P and links L.
At(P, L, b) == IF b[1] = "node" THEN P[b[2]].node[b[3]].strms ELSE L[b[2]].q[b[3]]

\* m is where a message from its sender to its receiver may be.
Right(m, b) == b[3] = To[m] /\ (b[1] = "node" => b[2] = From[m])

\* m is in q no more than once.
Once(m, q) == \A i, j \in DOMAIN q : q[i] = m /\ q[j] = m => i = j

\* A message is in one box at most, once, and then it was sent and has not been
\* handed on.
MailOK(P, L, S, g) ==
  \A m \in Messages :
    /\ g[m] \in {0, 1}
    /\ g[m] = 1 => m \in S
    /\ \A b \in Boxes : m \in ToSet(At(P, L, b)) =>
         /\ Right(m, b) /\ Once(m, At(P, L, b)) /\ m \in S /\ g[m] = 0
         /\ \A c \in Boxes : m \in ToSet(At(P, L, c)) => c = b

MailInv == MailOK(proc, link, sent, got)

\* r holds messages of q and u only, and one that is in one of them, once, once.
Joined(q, u, r) ==
  \A m \in Messages :
    /\ m \in ToSet(r) => m \in ToSet(q) \/ m \in ToSet(u)
    /\ Once(m, q) /\ Once(m, u) /\ ~(m \in ToSet(q) /\ m \in ToSet(u)) => Once(m, r)

\* r holds messages of q only.
Fewer(q, r) == Joined(q, <<>>, r)

LEMMA NothingIn == \A m : m \notin ToSet(<<>>) /\ Once(m, <<>>)
<1>1. DOMAIN <<>> = {}
  OBVIOUS
<1> QED
  BY <1>1 DEF ToSet, Once

LEMMA FewerMeans ==
  ASSUME NEW q, NEW r
  PROVE  Fewer(q, r) <=> \A m \in Messages : /\ m \in ToSet(r) => m \in ToSet(q)
                                             /\ Once(m, q) => Once(m, r)
BY NothingIn DEF Fewer, Joined

LEMMA FewerSame == \A q : Fewer(q, q) /\ Fewer(q, <<>>)
BY FewerMeans, NothingIn

LEMMA BoxIs ==
  ASSUME NEW b \in Boxes
  PROVE  \/ \E s, t \in Servers : b = NodeBox(s, t)
         \/ \E l \in LinkIds, t \in Servers : b = LinkBox(l, t)
BY DEF Boxes, NodeBox, LinkBox

LEMMA BoxAt ==
  /\ \A s, t \in Servers : /\ NodeBox(s, t) \in Boxes
                           /\ \A P, L : At(P, L, NodeBox(s, t)) = P[s].node[t].strms
                           /\ \A m : Right(m, NodeBox(s, t)) <=> From[m] = s /\ To[m] = t
  /\ \A l \in LinkIds, t \in Servers : /\ LinkBox(l, t) \in Boxes
                                       /\ \A P, L : At(P, L, LinkBox(l, t)) = L[l].q[t]
                                       /\ \A m : Right(m, LinkBox(l, t)) <=> To[m] = t
BY DEF Boxes, NodeBox, LinkBox, At, Right

LEMMA BoxesDiffer ==
  /\ \A s, t, u, v \in Servers : NodeBox(s, t) = NodeBox(u, v) => s = u /\ t = v
  /\ \A k, l \in LinkIds, t, u \in Servers : LinkBox(k, t) = LinkBox(l, u) => k = l /\ t = u
  /\ \A s, t, u \in Servers, l \in LinkIds : NodeBox(s, t) # LinkBox(l, u)
BY DEF NodeBox, LinkBox

---------------------------------------------------------------------------
(* Sequences.                                                              *)

LEMMA FewerTail ==
  ASSUME NEW T, NEW q \in Seq(T), q # <<>>
  PROVE  /\ Fewer(q, Tail(q)) /\ Head(q) \in ToSet(q)
         /\ Once(Head(q), q) => Head(q) \notin ToSet(Tail(q))
<1>1. /\ Len(q) \in Nat /\ Len(q) # 0 /\ Head(q) = q[1]
      /\ Tail(q) \in Seq(T) /\ Len(Tail(q)) = Len(q) - 1
      /\ \A i \in 1..Len(q) - 1 : Tail(q)[i] = q[i + 1]
  OBVIOUS
<1>2. DOMAIN q = 1..Len(q) /\ DOMAIN Tail(q) = 1..Len(q) - 1
  BY <1>1
<1>3. \A i \in 1..Len(q) - 1 : i + 1 \in 1..Len(q) /\ i + 1 # 1
  BY <1>1
<1>4. \A m : m \in ToSet(Tail(q)) => m \in ToSet(q)
  BY <1>1, <1>2, <1>3 DEF ToSet
<1>5. ASSUME NEW m, Once(m, q)
      PROVE  Once(m, Tail(q))
  <2>1. \A i, j \in 1..Len(q) - 1 : q[i + 1] = m /\ q[j + 1] = m => i + 1 = j + 1
    BY <1>2, <1>3, <1>5 DEF Once
  <2> QED
    BY <1>1, <1>2, <2>1 DEF Once
<1>6. Fewer(q, Tail(q))
  BY <1>4, <1>5, FewerMeans
<1>7. 1 \in 1..Len(q)
  BY <1>1
<1>8. Head(q) \in ToSet(q)
  BY <1>1, <1>2, <1>7 DEF ToSet
<1>9. ASSUME Once(Head(q), q), Head(q) \in ToSet(Tail(q))
      PROVE  FALSE
  <2>1. PICK i \in 1..Len(q) - 1 : q[i + 1] = q[1]
    BY <1>1, <1>2, <1>9 DEF ToSet
  <2> QED
    BY <1>1, <1>2, <1>3, <1>7, <1>9, <2>1 DEF Once
<1> QED
  BY <1>6, <1>8, <1>9

LEMMA JoinedConcat ==
  ASSUME NEW T, NEW q \in Seq(T), NEW u \in Seq(T)
  PROVE  Joined(q, u, q \o u)
<1> DEFINE r == q \o u
<1>1. /\ Len(q) \in Nat /\ Len(u) \in Nat /\ Len(r) = Len(q) + Len(u)
      /\ DOMAIN q = 1..Len(q) /\ DOMAIN u = 1..Len(u) /\ DOMAIN r = 1..Len(r)
  OBVIOUS
<1>2. \A i \in DOMAIN r : \/ i \in DOMAIN q /\ r[i] = q[i]
                          \/ i - Len(q) \in DOMAIN u /\ r[i] = u[i - Len(q)]
  OBVIOUS
<1> HIDE DEF r
<1>3. ASSUME NEW m
      PROVE  m \in ToSet(r) => m \in ToSet(q) \/ m \in ToSet(u)
  BY <1>2 DEF ToSet
<1>4. ASSUME NEW m, Once(m, q), Once(m, u), ~(m \in ToSet(q) /\ m \in ToSet(u))
      PROVE  Once(m, r)
  <2>1. SUFFICES ASSUME NEW i \in DOMAIN r, NEW j \in DOMAIN r, r[i] = m, r[j] = m
                 PROVE  i = j
    BY DEF Once
  <2>2. i \in Int /\ j \in Int /\ Len(q) \in Int
    BY <1>1
  <2>3. \A k \in DOMAIN q : q[k] = m => m \in ToSet(q)
    BY DEF ToSet
  <2>4. \A k \in DOMAIN u : u[k] = m => m \in ToSet(u)
    BY DEF ToSet
  <2>5. CASE i \in DOMAIN q /\ r[i] = q[i]
    <3>1. j \in DOMAIN q /\ r[j] = q[j]
      BY <1>2, <1>4, <2>1, <2>3, <2>4, <2>5
    <3> QED
      BY <1>4, <2>1, <2>5, <3>1 DEF Once
  <2>6. CASE i - Len(q) \in DOMAIN u /\ r[i] = u[i - Len(q)]
    <3>1. j - Len(q) \in DOMAIN u /\ r[j] = u[j - Len(q)]
      BY <1>2, <1>4, <2>1, <2>3, <2>4, <2>6
    <3>2. i - Len(q) = j - Len(q)
      BY <1>4, <2>1, <2>6, <3>1 DEF Once
    <3> QED
      BY <2>2, <3>2
  <2> QED
    BY <1>2, <2>5, <2>6
<1> QED
  BY <1>3, <1>4 DEF Joined, r

LEMMA OnlyIn == \A m : ToSet(<<m>>) = {m} /\ \A n : Once(n, <<m>>)
BY DEF ToSet, Once

\* A message more.
Puts(m, q, r) ==
  /\ \A n \in Messages : n \in ToSet(r) => n \in ToSet(q) \/ n = m
  /\ \A n \in Messages : Once(n, q) /\ (n = m => n \notin ToSet(q)) => Once(n, r)

LEMMA PutsConcat ==
  ASSUME NEW T, NEW q \in Seq(T), NEW m \in T
  PROVE  Puts(m, q, q \o <<m>>) /\ Puts(m, q, Append(q, m)) /\ Puts(m, q, q)
<1>1. <<m>> \in Seq(T) /\ Append(q, m) = q \o <<m>>
  OBVIOUS
<1>2. Joined(q, <<m>>, q \o <<m>>)
  BY <1>1, JoinedConcat
<1>3. Puts(m, q, q \o <<m>>)
  BY <1>2, OnlyIn DEF Joined, Puts
<1>4. Puts(m, q, q)
  BY DEF Puts
<1> QED
  BY <1>1, <1>3, <1>4

---------------------------------------------------------------------------
(* Steps of the mail.                                                      *)

LEMMA MailLoses ==
  ASSUME NEW P, NEW L, NEW Q, NEW M, NEW S, NEW R, NEW g, MailOK(P, L, S, g),
         S \subseteq R,
         \A b \in Boxes : Fewer(At(P, L, b), At(Q, M, b))
  PROVE  MailOK(Q, M, R, g)
<1>1. \A m \in Messages, b \in Boxes : /\ m \in ToSet(At(Q, M, b)) => m \in ToSet(At(P, L, b))
                                       /\ Once(m, At(P, L, b)) => Once(m, At(Q, M, b))
  BY FewerMeans
<1> QED
  BY <1>1 DEF MailOK

LEMMA MailPuts ==
  ASSUME NEW P, NEW L, NEW Q, NEW M, NEW S, NEW g, MailOK(P, L, S, g),
         NEW m \in Messages, m \notin S, NEW a \in Boxes, Right(m, a),
         Puts(m, At(P, L, a), At(Q, M, a)),
         \A b \in Boxes : b # a => At(Q, M, b) = At(P, L, b)
  PROVE  MailOK(Q, M, S \cup {m}, g)
<1>1. g[m] = 0 /\ \A b \in Boxes : m \notin ToSet(At(P, L, b))
  BY DEF MailOK
<1>2. SUFFICES ASSUME NEW n \in Messages, NEW b \in Boxes, n \in ToSet(At(Q, M, b))
               PROVE  /\ Right(n, b) /\ Once(n, At(Q, M, b)) /\ n \in S \cup {m} /\ g[n] = 0
                      /\ \A c \in Boxes : n \in ToSet(At(Q, M, c)) => c = b
  BY DEF MailOK
<1>3. CASE n = m
  <2>1. b = a /\ \A c \in Boxes : n \in ToSet(At(Q, M, c)) => c = a
    BY <1>1, <1>2, <1>3
  <2>2. Once(n, At(P, L, a))
    BY <1>1, <1>3 DEF Once, ToSet
  <2> QED
    BY <1>1, <1>3, <2>1, <2>2 DEF Puts
<1>4. CASE n # m
  <2>1. \A c \in Boxes : n \in ToSet(At(Q, M, c)) => n \in ToSet(At(P, L, c))
    BY <1>4 DEF Puts
  <2>2. Once(n, At(P, L, b)) => Once(n, At(Q, M, b))
    BY <1>4 DEF Puts
  <2> QED
    BY <1>2, <2>1, <2>2 DEF MailOK
<1> QED
  BY <1>3, <1>4

LEMMA MailMoves ==
  ASSUME NEW P, NEW L, NEW Q, NEW M, NEW S, NEW g, MailOK(P, L, S, g),
         NEW a \in Boxes, NEW b \in Boxes, a # b,
         \A m \in Messages : Right(m, a) => Right(m, b),
         Joined(At(P, L, b), At(P, L, a), At(Q, M, b)),
         At(Q, M, a) = <<>>,
         \A c \in Boxes : c # a /\ c # b => Fewer(At(P, L, c), At(Q, M, c))
  PROVE  MailOK(Q, M, S, g)
<1>1. \A n \in Messages, c \in Boxes : c # a /\ c # b =>
         /\ n \in ToSet(At(Q, M, c)) => n \in ToSet(At(P, L, c))
         /\ Once(n, At(P, L, c)) => Once(n, At(Q, M, c))
  BY FewerMeans
<1>2. \A n \in Messages : /\ n \notin ToSet(At(Q, M, a))
                          /\ n \in ToSet(At(Q, M, b)) =>
                               n \in ToSet(At(P, L, b)) \/ n \in ToSet(At(P, L, a))
  BY NothingIn DEF Joined
<1>3. SUFFICES ASSUME NEW n \in Messages, NEW c \in Boxes, n \in ToSet(At(Q, M, c))
               PROVE  /\ Right(n, c) /\ Once(n, At(Q, M, c)) /\ n \in S /\ g[n] = 0
                      /\ \A d \in Boxes : n \in ToSet(At(Q, M, d)) => d = c
  BY DEF MailOK
<1>4. CASE c = b
  <2>1. PICK e \in {a, b} : n \in ToSet(At(P, L, e))
    BY <1>2, <1>3, <1>4
  <2>2. /\ Right(n, e) /\ Once(n, At(P, L, e)) /\ n \in S /\ g[n] = 0
        /\ \A d \in Boxes : n \in ToSet(At(P, L, d)) => d = e
    BY <2>1 DEF MailOK
  <2>3. \A q : n \notin ToSet(q) => Once(n, q)
    BY DEF ToSet, Once
  <2>4. Once(n, At(P, L, a)) /\ Once(n, At(P, L, b))
    BY <2>1, <2>2, <2>3
  <2>5. Once(n, At(Q, M, b))
    BY <2>2, <2>4 DEF Joined
  <2>6. \A d \in Boxes : n \in ToSet(At(Q, M, d)) => d = b
    BY <1>1, <1>2, <2>1, <2>2
  <2> QED
    BY <1>4, <2>1, <2>2, <2>5, <2>6
<1>5. CASE c # b
  <2>1. c # a /\ n \in ToSet(At(P, L, c))
    BY <1>1, <1>2, <1>3, <1>5
  <2>2. /\ Right(n, c) /\ Once(n, At(P, L, c)) /\ n \in S /\ g[n] = 0
        /\ \A d \in Boxes : n \in ToSet(At(P, L, d)) => d = c
    BY <2>1 DEF MailOK
  <2> QED
    BY <1>1, <1>2, <1>5, <2>1, <2>2
<1> QED
  BY <1>4, <1>5

LEMMA MailReads ==
  ASSUME NEW P, NEW L, NEW Q, NEW M, NEW S, NEW g, NEW h, MailOK(P, L, S, g),
         NEW m \in Messages, NEW a \in Boxes,
         m \in ToSet(At(P, L, a)), Fewer(At(P, L, a), At(Q, M, a)),
         Once(m, At(P, L, a)) => m \notin ToSet(At(Q, M, a)),
         \A b \in Boxes : b # a => At(Q, M, b) = At(P, L, b),
         h[m] = g[m] + 1, \A n \in Messages : n # m => h[n] = g[n]
  PROVE  MailOK(Q, M, S, h)
<1>1. \A n \in Messages, b \in Boxes : /\ n \in ToSet(At(Q, M, b)) => n \in ToSet(At(P, L, b))
                                       /\ Once(n, At(P, L, b)) => Once(n, At(Q, M, b))
  BY FewerMeans
<1>2. /\ Once(m, At(P, L, a)) /\ m \in S /\ g[m] = 0
      /\ \A c \in Boxes : m \in ToSet(At(P, L, c)) => c = a
  BY DEF MailOK
<1>3. h[m] = 1 /\ \A b \in Boxes : m \notin ToSet(At(Q, M, b))
  BY <1>1, <1>2
<1> QED
  BY <1>1, <1>2, <1>3 DEF MailOK

---------------------------------------------------------------------------
(* What the methods of a process do to its queues.                         *)

\* A queue stays or is emptied.
Emptied(p, q) == \A t \in Servers : q.node[t].strms \in {p.node[t].strms, <<>>}

\* A process without its types.
Plain(p) == p = [conn |-> p.conn, pool |-> p.pool, node |-> p.node]

LEMMA ProcPlain ==
  ASSUME NEW p \in ProcessType
  PROVE  Plain(p) /\ p.node \in [Servers -> NodeType]
BY DEF ProcessType, Plain

\* What leaves the nodes alone.
LEMMA NodesStay ==
  ASSUME NEW p, Plain(p)
  PROVE  /\ Plain(Popped(p)) /\ Popped(p).node = p.node
         /\ \A c : Plain(Pushed(p, c)) /\ Pushed(p, c).node = p.node
         /\ \A c : Plain(Reset(p, c)) /\ Reset(p, c).node = p.node
         /\ \A C : Plain([p EXCEPT !.conn = C]) /\ [p EXCEPT !.conn = C].node = p.node
<1> USE DEF Plain
<1>1. Plain(Popped(p)) /\ Popped(p).node = p.node
  <2>1. \A x : Plain([p EXCEPT !.pool = x]) /\ [p EXCEPT !.pool = x].node = p.node
    OBVIOUS
  <2> QED
    BY ONLY <2>1 DEF Popped
<1>2. \A c : Plain(Pushed(p, c)) /\ Pushed(p, c).node = p.node
  BY SMTT(90) DEF Pushed
<1>3. \A c : Plain(Reset(p, c)) /\ Reset(p, c).node = p.node
  BY DEF Reset
<1>4. \A C : Plain([p EXCEPT !.conn = C]) /\ [p EXCEPT !.conn = C].node = p.node
  OBVIOUS
<1> QED
  BY <1>1, <1>2, <1>3, <1>4

\* Another node.
LEMMA NodeQueue ==
  ASSUME NEW p \in ProcessType, NEW s \in Servers, NEW n
  PROVE  LET q == [p EXCEPT !.node[s] = n]
         IN  /\ Plain(q) /\ q.node[s] = n
             /\ \A t \in Servers : t # s => q.node[t] = p.node[t]
BY DEF ProcessType, Plain

LEMMA DaemonQueues ==
  ASSUME NEW p \in ProcessType, NEW s \in Servers
  PROVE  Emptied(p, Added(p, s)) /\ Emptied(p, Deleted(p, s))
<1>1. p.node[s] \in NodeType
  BY DEF ProcessType
<1>2. Emptied(p, p)
  BY DEF Emptied
<1> DEFINE kept == [p.node[s] EXCEPT !.del = FALSE]
           marked == [p.node[s] EXCEPT !.del = TRUE]
           h == [NoNode EXCEPT !.here = TRUE]
<1>4. NoNode.strms = <<>> /\ h.strms = <<>>
  BY DEF NoNode
<1>5. kept.strms = p.node[s].strms /\ marked.strms = p.node[s].strms
  BY <1>1 DEF NodeType
<1>6. Added(p, s) \in {[p EXCEPT !.node[s] = kept], [p EXCEPT !.node[s] = h]}
  BY <1>1 DEF Added, ProcessType
<1>7. Deleted(p, s) \in {p, [p EXCEPT !.node[s] = NoNode], [p EXCEPT !.node[s] = marked]}
  BY <1>1 DEF Deleted, ProcessType
<1> HIDE DEF kept, marked, h
<1>8. Emptied(p, [p EXCEPT !.node[s] = kept])
  BY <1>5, NodeQueue DEF Emptied
<1>9. Emptied(p, [p EXCEPT !.node[s] = marked])
  BY <1>5, NodeQueue DEF Emptied
<1>10. Emptied(p, [p EXCEPT !.node[s] = h])
  BY <1>4, NodeQueue DEF Emptied
<1>11. Emptied(p, [p EXCEPT !.node[s] = NoNode])
  BY <1>4, NodeQueue DEF Emptied
<1> QED
  BY ONLY <1>2, <1>6, <1>7, <1>8, <1>9, <1>10, <1>11

LEMMA DetachedQueues ==
  ASSUME NEW p \in ProcessType, NEW c \in Objects
  PROVE  Emptied(p, Detached(p, c)) /\ Plain(Detached(p, c))
<1> DEFINE s == p.conn[c].sid
           n == [p.node[s] EXCEPT !.conn = NoObject, !.strms = <<>>]
<1>1. s \in Servers \cup {NoServer}
  BY DEF ProcessType, ConnType
<1>2. CASE Detached(p, c) = p
  BY <1>2, ProcPlain DEF Emptied
<1>3. CASE s \in Servers /\ Detached(p, c) = [p EXCEPT !.node[s] = NoNode]
  <2>1. NoNode.strms = <<>>
    BY DEF NoNode
  <2> HIDE DEF s
  <2>2. /\ Plain(Detached(p, c)) /\ Detached(p, c).node[s] = NoNode
        /\ \A t \in Servers : t # s => Detached(p, c).node[t] = p.node[t]
    BY <1>3, NodeQueue
  <2> QED
    BY <1>3, <2>1, <2>2 DEF Emptied
<1>4. CASE s \in Servers /\ Detached(p, c) = [p EXCEPT !.node[s] = n]
  <2>1. p.node[s] \in NodeType
    BY <1>4 DEF ProcessType
  <2>2. n.strms = <<>>
    BY <2>1 DEF NodeType
  <2> HIDE DEF n, s
  <2> QED
    BY <1>4, <2>2, NodeQueue DEF Emptied
<1> QED
  BY <1>1, <1>2, <1>3, <1>4, ZenonT(90) DEF Detached

\* What ends a connection, begins one without a message or only touches it.
LEMMA ConnQueues ==
  ASSUME NEW p \in ProcessType
  PROVE  /\ \A c \in Objects : Emptied(p, Closed(p, c)) /\ Emptied(p, TimedOut(p, c))
         /\ \A c \in Objects : Emptied(p, Connected(p, c)) /\ Connected(p, c).node = p.node
         /\ \A s : Emptied(p, NotConnecting(p, s))
         /\ \A l : Emptied(p, Accepted(p, l))
         /\ \A b : \A c \in Objects : Emptied(p, [p EXCEPT !.conn[c].beats = b])
         /\ \A known : Emptied(p, NewProcess(known))
<1>1. Plain(p) /\ Emptied(p, p) /\ \A q : q.node = p.node => Emptied(p, q)
  BY ProcPlain DEF Emptied
<1>2. ASSUME NEW q, Plain(q), NEW C
      PROVE  Plain([q EXCEPT !.conn = C]) /\ [q EXCEPT !.conn = C].node = q.node
  BY <1>2, NodesStay
<1>3. ASSUME NEW c \in Objects
      PROVE  Emptied(p, Closed(p, c)) /\ Emptied(p, TimedOut(p, c))
  <2> DEFINE d == Detached(p, c)
  <2>1. Plain(d) /\ Emptied(p, d)
    BY DetachedQueues
  <2> HIDE DEF d
  <2>2. Plain(Reset(d, c)) /\ Reset(d, c).node = d.node
    BY <2>1, NodesStay
  <2>3. Pushed(Reset(d, c), c).node = d.node
    BY <2>2, NodesStay
  <2>4. [d EXCEPT !.conn[c].state = "IDLE", !.conn[c].timer = "none", !.conn[c].link = 0].node = d.node
    BY <2>1 DEF Plain
  <2> QED
    BY <2>1, <2>3, <2>4 DEF Emptied, Closed, TimedOut, d
<1>4. ASSUME NEW c \in Objects
      PROVE  Emptied(p, Connected(p, c)) /\ Connected(p, c).node = p.node
  <2>1. Connected(p, c).node = p.node
    BY <1>1 DEF Connected, Plain
  <2> QED
    BY <1>1, <2>1
<1>5. ASSUME NEW s
      PROVE  Emptied(p, NotConnecting(p, s))
  <2> DEFINE c == NextObject(p)
             q == Popped(p)
             r == [q EXCEPT !.conn[c].sid = s]
  <2>1. Plain(q) /\ q.node = p.node
    BY <1>1, NodesStay
  <2> HIDE DEF q, c
  <2>2. Plain(r) /\ r.node = q.node
    BY <2>1 DEF Plain
  <2> HIDE DEF r
  <2>3. Pushed(r, c).node = p.node
    BY <2>1, <2>2, NodesStay
  <2> QED
    BY <1>1, <2>3 DEF NotConnecting, c, q, r
<1>6. ASSUME NEW l
      PROVE  Emptied(p, Accepted(p, l))
  <2> DEFINE c == NextObject(p)
             q == Popped(p)
             r == [q EXCEPT !.conn[c] = [IdleConn EXCEPT !.state = "CONNECTING", !.link = l]]
  <2>1. Plain(q) /\ q.node = p.node
    BY <1>1, NodesStay
  <2> HIDE DEF q, c
  <2>2. r.node = q.node
    BY <2>1 DEF Plain
  <2> HIDE DEF r
  <2> QED
    BY <1>1, <2>1, <2>2 DEF Accepted, c, q, r
<1>7. ASSUME NEW c \in Objects, NEW b
      PROVE  Emptied(p, [p EXCEPT !.conn[c].beats = b])
  BY <1>1 DEF Plain
<1>8. ASSUME NEW known
      PROVE  Emptied(p, NewProcess(known))
  <2>1. NoNode.strms = <<>> /\ [NoNode EXCEPT !.here = TRUE].strms = <<>>
    BY DEF NoNode
  <2>2. \A t \in Servers : NewProcess(known).node[t].strms = <<>>
    BY <2>1 DEF NewProcess
  <2> QED
    BY <2>2 DEF Emptied
<1> QED
  BY <1>3, <1>4, <1>5, <1>6, <1>7, <1>8

\* Only the queue for s changes, to u.
Requeued(p, q, s, u) ==
  /\ q.node[s].strms = u
  /\ \A t \in Servers : t # s => q.node[t].strms = p.node[t].strms

LEMMA QueueAppends ==
  ASSUME NEW p \in ProcessType, NEW s \in Servers, NEW m
  PROVE  /\ Requeued(p, [p EXCEPT !.node[s].strms = Append(@, m)], s, Append(p.node[s].strms, m))
         /\ \A l : Requeued(p, Connecting(p, s, l, m), s, Append(p.node[s].strms, m))
<1>1. Plain(p) /\ p.node \in [Servers -> NodeType] /\ p.node[s] \in NodeType
  BY ProcPlain
<1>2. Requeued(p, [p EXCEPT !.node[s].strms = Append(@, m)], s, Append(p.node[s].strms, m))
  BY <1>1 DEF Requeued, Plain, NodeType
<1>3. ASSUME NEW l
      PROVE  Requeued(p, Connecting(p, s, l, m), s, Append(p.node[s].strms, m))
  <2> DEFINE c == NextObject(p)
             q == Popped(p)
             k == [state |-> "CONNECTING", sid |-> s, timer |-> "connect", beats |-> 0, link |-> l]
             r == [q EXCEPT !.conn[c] = k, !.node[s].conn = c, !.node[s].strms = Append(@, m)]
  <2>1. Plain(q) /\ q.node = p.node
    BY <1>1, NodesStay
  <2> HIDE DEF c, q, k
  <2>2. r.node = [[q.node EXCEPT ![s].conn = c] EXCEPT ![s].strms = Append(@, m)]
    BY <2>1 DEF Plain
  <2>3. r = Connecting(p, s, l, m)
    BY DEF Connecting, c, q, k
  <2> HIDE DEF r
  <2>4. r.node[s].strms = Append(p.node[s].strms, m)
    BY <1>1, <2>1, <2>2 DEF NodeType
  <2>5. \A t \in Servers : t # s => r.node[t] = p.node[t]
    BY <1>1, <2>1, <2>2
  <2> QED
    BY <2>3, <2>4, <2>5 DEF Requeued
<1> QED
  BY <1>2, <1>3

LEMMA HandShakenQueues ==
  ASSUME NEW p \in ProcessType, NEW c \in Objects, NEW s \in Servers
  PROVE  Requeued(p, HandShaken(p, c, s), s, <<>>)
<1> DEFINE q == IF p.conn[c].state = "CONNECTING" THEN Connected(p, c) ELSE p
           k == [p.conn[c] EXCEPT !.state = "CONNECTED", !.timer = "heartbeat", !.beats = 0]
           j == [q.conn[c] EXCEPT !.sid = s, !.beats = 0]
           r == [q EXCEPT !.conn[c].sid = s, !.conn[c].beats = 0]
<1>1. p.conn[c] \in ConnType /\ p.node \in [Servers -> NodeType] /\ p.node[s] \in NodeType
  BY DEF ProcessType
<1>2. Connected(p, c) = [p EXCEPT !.conn[c] = k] /\ k \in ConnType
  <2>1. Connected(p, c) = [p EXCEPT !.conn[c] = k]
    BY <1>1, ZenonT(90) DEF Connected, ProcessType
  <2>2. k \in ConnType
    BY <1>1 DEF ConnType
  <2> QED
    BY <2>1, <2>2
<1> HIDE DEF k
<1>3. q \in ProcessType /\ q.node = p.node
  BY <1>2, SMTT(90) DEF ProcessType
<1> HIDE DEF q
<1>4. q.conn[c] \in ConnType
  BY <1>3 DEF ProcessType
<1>5. r = [q EXCEPT !.conn[c] = j] /\ j \in ConnType /\ j.sid = s
  BY <1>3, <1>4, ZenonT(120) DEF ProcessType, ConnType
<1> HIDE DEF j, r
<1>9. Plain(r) /\ r.node = p.node /\ r.conn[c].sid = s
  BY <1>3, <1>5 DEF Plain, ProcessType
<1>6. HandShaken(p, c, s) = Attached(r, c)
  BY DEF HandShaken, q, r
<1>7. CASE Attached(r, c) = [r EXCEPT !.node[s].conn = c, !.node[s].strms = <<>>]
  <2>1. Attached(r, c).node = [[r.node EXCEPT ![s].conn = c] EXCEPT ![s].strms = <<>>]
    BY <1>9, <1>7 DEF Plain
  <2>2. Attached(r, c).node[s].strms = <<>>
    BY <1>1, <1>9, <2>1 DEF NodeType
  <2>3. \A t \in Servers : t # s => Attached(r, c).node[t] = p.node[t]
    BY <1>1, <1>9, <2>1
  <2> QED
    BY <1>6, <2>2, <2>3 DEF Requeued
<1>8. CASE Attached(r, c) = [r EXCEPT !.node[s] = [here |-> TRUE, conn |-> c, del |-> TRUE, strms |-> <<>>]]
  BY <1>1, <1>9, <1>6, <1>8 DEF Requeued, Plain
<1> QED
  BY <1>7, <1>8, <1>9 DEF Attached

---------------------------------------------------------------------------
(* What happens to what the links carry.                                   *)

\* What a link carries stays or is dropped.
Drained(k, m) == \A t \in Servers : m.q[t] \in {k.q[t], <<>>}

LEMMA LinkQueues ==
  ASSUME NEW k \in LinkType
  PROVE  /\ Drained(k, FreeLink)
         /\ \A s \in Servers : Drained(k, Hung(k, s)) /\ Drained(k, Orphaned(k, s))
         /\ \A how : Drained(k, [k EXCEPT !.wire = how])
         /\ \A s, c : Drained(k, [k EXCEPT !.st = "up", !.end[s] = c])
         /\ \A s, t, c : Drained(k, [FreeLink EXCEPT !.st = "syn", !.by = s, !.to = t, !.end[s] = c])
<1>1. \A t \in Servers : FreeLink.q[t] = <<>>
  BY DEF FreeLink
<1>2. Drained(k, FreeLink) /\ Drained(k, k)
  BY <1>1 DEF Drained
<1>3. \A how : Drained(k, [k EXCEPT !.wire = how])
  BY DEF Drained, LinkType
<1>4. \A s, c : Drained(k, [k EXCEPT !.st = "up", !.end[s] = c])
  BY DEF Drained, LinkType
<1>5. \A s, t, c : [FreeLink EXCEPT !.st = "syn", !.by = s, !.to = t, !.end[s] = c].q = FreeLink.q
  BY DEF FreeLink
<1>6. ASSUME NEW s \in Servers
      PROVE  Drained(k, Hung(k, s))
  <2>1. Drained(k, [k EXCEPT !.end[s] = NoObject, !.q[s] = <<>>])
    BY DEF Drained, LinkType
  <2> QED
    BY <1>2, <2>1 DEF Hung
<1>7. ASSUME NEW s \in Servers
      PROVE  Drained(k, Orphaned(k, s))
  BY <1>2, <1>3, <1>6 DEF Orphaned
<1> QED
  BY <1>1, <1>2, <1>3, <1>4, <1>5, <1>6, <1>7 DEF Drained

\* A write is to the peer or is lost.
LEMMA WrittenQueues ==
  ASSUME NEW k \in LinkType, NEW s \in Servers, Peer(k, s) \in Servers, NEW ms
  PROVE  /\ Written(k, s, ms).q[Peer(k, s)] \in {k.q[Peer(k, s)], k.q[Peer(k, s)] \o ms}
         /\ \A t \in Servers : t # Peer(k, s) => Written(k, s, ms).q[t] = k.q[t]
BY DEF Written, LinkType

LEMMA ReadQueues ==
  ASSUME NEW k \in LinkType, NEW s \in Servers
  PROVE  /\ Read(k, s).q[s] = Tail(k.q[s])
         /\ \A t \in Servers : t # s => Read(k, s).q[t] = k.q[t]
BY DEF Read, LinkType

---------------------------------------------------------------------------
(* The actions.                                                            *)

\* Queues stay or are emptied.
LEMMA MailStays ==
  ASSUME NEW P, NEW L, NEW Q, NEW M, NEW S, NEW R, NEW g, MailOK(P, L, S, g), S \subseteq R,
         \A s \in Servers : Emptied(P[s], Q[s]),
         \A l \in LinkIds : Drained(L[l], M[l])
  PROVE  MailOK(Q, M, R, g)
<1>1. ASSUME NEW b \in Boxes
      PROVE  At(Q, M, b) \in {At(P, L, b), <<>>}
  <2>1. CASE \E s, t \in Servers : b = NodeBox(s, t)
    BY <2>1, BoxAt DEF Emptied
  <2>2. CASE \E l \in LinkIds, t \in Servers : b = LinkBox(l, t)
    BY <2>2, BoxAt DEF Drained
  <2> QED
    BY <2>1, <2>2, BoxIs
<1>2. \A b \in Boxes : Fewer(At(P, L, b), At(Q, M, b))
  BY <1>1, FewerSame
<1> QED
  BY ONLY <1>2, MailLoses, MailOK(P, L, S, g), S \subseteq R

LEMMA SameQueues == \A p : Emptied(p, p) /\ Drained(p, p)
BY DEF Emptied, Drained

\* One process and one link change, and their queues stay or are emptied.
LEMMA MailStaysAt ==
  ASSUME WorldOK(proc, link), MailInv, NEW S, sent \subseteq S,
         NEW s \in Servers, NEW q, Emptied(proc[s], q),
         NEW M, \A l \in LinkIds : Drained(link[l], M[l])
  PROVE  MailOK([proc EXCEPT ![s] = q], M, S, got)
<1> DEFINE Q == [proc EXCEPT ![s] = q]
<1>1. proc \in [Servers -> ProcessType]
  BY DEF WorldOK
<1>2. \A t \in Servers : Emptied(proc[t], Q[t])
  BY <1>1, SameQueues
<1> HIDE DEF Q
<1>3. MailOK(Q, M, S, got)
  BY <1>2, MailStays DEF MailInv
<1> QED
  BY <1>3 DEF Q

LEMMA DrainedAt ==
  ASSUME WorldOK(proc, link), NEW l \in LinkIds, NEW m, Drained(link[l], m)
  PROVE  \A k \in LinkIds : Drained(link[k], [link EXCEPT ![l] = m][k])
<1>1. link \in [LinkIds -> LinkType]
  BY DEF WorldOK
<1> QED
  BY <1>1, SameQueues

LEMMA MailInit == Init => MailInv
<1> SUFFICES ASSUME Init
             PROVE  MailInv
  OBVIOUS
<1>1. \A s, t \in Servers : proc[s].node[t].strms = <<>>
  <2>1. NoNode.strms = <<>> /\ [NoNode EXCEPT !.here = TRUE].strms = <<>>
    BY DEF NoNode
  <2> QED
    BY <2>1 DEF Init, NewProcess
<1>2. \A l \in LinkIds, t \in Servers : link[l].q[t] = <<>>
  BY DEF Init, FreeLink
<1>3. \A b \in Boxes : At(proc, link, b) = <<>>
  BY <1>1, <1>2, BoxIs, BoxAt
<1>4. \A m \in Messages : got[m] = 0
  BY DEF Init
<1> QED
  BY <1>3, <1>4, NothingIn DEF MailInv, MailOK

\* A message is sent.
LEMMA MailSend ==
  ASSUME IInv, MailInv, NEW m \in Messages,
         SendNow(m) \/ SendLater(m) \/ SendNowhere(m) \/ SendConnecting(m) \/ SendFailing(m)
  PROVE  MailInv'
<1> DEFINE s == From[m]
           r == To[m]
           p == proc[s]
<1>1. /\ WorldOK(proc, link) /\ s \in Servers /\ r \in Servers /\ s # r
      /\ ProcOK(p) /\ p \in ProcessType /\ p.node[r] \in NodeType
      /\ m \in Messages \cup {Handshake}
      /\ proc \in [Servers -> ProcessType] /\ link \in [LinkIds -> LinkType]
      /\ 0 \notin LinkIds
  BY ServerAssumption DEF IInv, WorldOK, ProcOK, ProcessType, LinkIds
<1>2. m \notin sent
  BY DEF SendNow, SendLater, SendNowhere, SendConnecting, SendFailing, MustConnect, Unsent
<1>3. CASE SendNow(m)
  <2> DEFINE c == p.node[r].conn
             l == p.conn[c].link
             k == Written(link[l], s, <<m>>)
  <2>1. /\ c \in Objects /\ l # 0 /\ p.conn[c].sid = r
        /\ link' = [link EXCEPT ![l] = k]
        /\ proc' = proc /\ sent' = sent \cup {m} /\ got' = got
    BY <1>1, <1>3 DEF SendNow, ProcOK, NodeSound, NodeType
  <2>2. l \in LinkIds
    BY <1>1, <2>1 DEF WorldOK, ConnOK
  <2>3. link[l] \in LinkType /\ Peer(link[l], s) = r
    <3>1. proc[s].conn[c].link = l
      OBVIOUS
    <3>2. link[l] \in LinkType /\ p.conn[c].sid \in {NoServer, Peer(link[l], s)}
      <4> HIDE DEF l, c, p, s
      <4> QED
        BY ONLY <1>1, <2>1, <2>2, <3>1, ConnFacts DEF p
    <3> QED
      BY <1>1, <2>1, <3>2, ManagerAssumption
  <2> HIDE DEF l, c
  <2>4. /\ k.q[r] \in {link[l].q[r], link[l].q[r] \o <<m>>}
        /\ \A t \in Servers : t # r => k.q[t] = link[l].q[t]
    <3>1. /\ k.q[Peer(link[l], s)] \in
                  {link[l].q[Peer(link[l], s)], link[l].q[Peer(link[l], s)] \o <<m>>}
          /\ \A t \in Servers : t # Peer(link[l], s) => k.q[t] = link[l].q[t]
      <4>1. Peer(link[l], s) \in Servers /\ s \in Servers
        BY <1>1, <2>3
      <4> DEFINE w == <<m>>
                 x == link[l]
      <4>2. x \in LinkType /\ k = Written(x, s, w)
        BY <2>3 DEF k
      <4>3. Peer(x, s) \in Servers
        BY <4>1
      <4> HIDE DEF s, w, x
      <4>4. /\ Written(x, s, w).q[Peer(x, s)] \in {x.q[Peer(x, s)], x.q[Peer(x, s)] \o w}
            /\ \A t \in Servers : t # Peer(x, s) => Written(x, s, w).q[t] = x.q[t]
        BY ONLY <4>1, <4>2, <4>3, WrittenQueues
      <4> QED
        BY ONLY <4>2, <4>4 DEF x, w
    <3> QED
      BY ONLY <2>3, <3>1
  <2>5. link[l].q[r] \in Seq(Messages \cup {Handshake})
    BY <1>1, <2>3 DEF LinkType
  <2> HIDE DEF k
  <2> DEFINE a == LinkBox(l, r)
  <2>6. Puts(m, link[l].q[r], k.q[r])
    <3>1. Puts(m, link[l].q[r], link[l].q[r]) /\ Puts(m, link[l].q[r], link[l].q[r] \o <<m>>)
      BY ONLY <1>1, <2>5, PutsConcat
    <3> QED
      BY ONLY <2>4, <3>1
  <2>7. link'[l] = k /\ \A j \in LinkIds : j # l => link'[j] = link[j]
    BY <1>1, <2>1, <2>2
  <2>8. a \in Boxes /\ Right(m, a) /\ Puts(m, At(proc, link, a), At(proc', link', a))
    BY <1>1, <2>2, <2>6, <2>7, BoxAt
  <2>9. ASSUME NEW b \in Boxes, b # a
        PROVE  At(proc', link', b) = At(proc, link, b)
    <3>1. CASE \E u, t \in Servers : b = NodeBox(u, t)
      BY <2>1, <3>1, BoxAt
    <3>2. CASE \E j \in LinkIds, t \in Servers : b = LinkBox(j, t)
      <4>1. PICK j \in LinkIds, t \in Servers : b = LinkBox(j, t)
        BY <3>2
      <4>2. j # l \/ t # r
        BY <2>9, <4>1
      <4>3. link'[j].q[t] = link[j].q[t]
        BY <2>4, <2>7, <4>2
      <4> QED
        BY <4>1, <4>3, BoxAt
    <3> QED
      BY <3>1, <3>2, BoxIs
  <2> HIDE DEF a
  <2>10. MailOK(proc', link', sent \cup {m}, got)
    BY <1>2, <2>8, <2>9, MailPuts DEF MailInv
  <2> QED
    BY <2>1, <2>10 DEF MailInv
<1>4. ASSUME NEW q, Requeued(p, q, r, Append(p.node[r].strms, m)),
             proc' = [proc EXCEPT ![s] = q], sent' = sent \cup {m}, got' = got,
             \A l \in LinkIds : Drained(link[l], link'[l])
      PROVE  MailInv'
  <2> DEFINE a == NodeBox(s, r)
             M == link'
  <2>1. MailOK(proc, M, sent, got)
    BY <1>4, SameQueues, MailStays DEF MailInv
  <2>2. /\ q.node[r].strms = Append(p.node[r].strms, m)
        /\ \A t \in Servers : t # r => q.node[t].strms = p.node[t].strms
    BY <1>4 DEF Requeued
  <2>3. Puts(m, p.node[r].strms, Append(p.node[r].strms, m))
    BY <1>1, PutsConcat DEF NodeType
  <2>4. proc'[s] = q /\ \A u \in Servers : u # s => proc'[u] = proc[u]
    BY <1>1, <1>4
  <2>5. a \in Boxes /\ Right(m, a) /\ Puts(m, At(proc, M, a), At(proc', M, a))
    <3>1. a \in Boxes /\ Right(m, a)
      BY <1>1, BoxAt
    <3>2. At(proc, M, a) = p.node[r].strms /\ At(proc', M, a) = q.node[r].strms
      BY <1>1, <2>4, BoxAt
    <3> QED
      BY ONLY <2>2, <2>3, <3>1, <3>2
  <2>6. ASSUME NEW b \in Boxes, b # a
        PROVE  At(proc', M, b) = At(proc, M, b)
    <3>1. CASE \E u, t \in Servers : b = NodeBox(u, t)
      <4>1. PICK u \in Servers, t \in Servers : b = NodeBox(u, t)
        BY <3>1
      <4>2. u # s \/ t # r
        BY <2>6, <4>1
      <4>3. proc'[u].node[t].strms = proc[u].node[t].strms
        BY <2>2, <2>4, <4>2
      <4> QED
        BY <4>1, <4>3, BoxAt
    <3>2. CASE \E j \in LinkIds, t \in Servers : b = LinkBox(j, t)
      BY <3>2, BoxAt
    <3> QED
      BY <3>1, <3>2, BoxIs
  <2> HIDE DEF a, M
  <2>7. MailOK(proc', M, sent \cup {m}, got)
    BY <1>2, <2>1, <2>5, <2>6, MailPuts
  <2> QED
    BY <1>4, <2>7 DEF MailInv, M
<1>5. CASE SendLater(m)
  <2> DEFINE q == [p EXCEPT !.node[r].strms = Append(@, m)]
  <2>1. /\ proc' = [proc EXCEPT ![s].node[r].strms = Append(@, m)]
        /\ sent' = sent \cup {m} /\ link' = link /\ got' = got
    BY <1>5 DEF SendLater
  <2>2. proc' = [proc EXCEPT ![s] = q]
    BY <1>1, <2>1
  <2>3. Requeued(p, q, r, Append(p.node[r].strms, m))
    BY <1>1, QueueAppends
  <2> HIDE DEF q
  <2> QED
    BY <1>4, <2>1, <2>2, <2>3, SameQueues
<1>6. CASE SendNowhere(m)
  <2>1. proc' = proc /\ link' = link /\ sent' = sent \cup {m} /\ got' = got
    BY <1>6 DEF SendNowhere
  <2>2. MailOK(proc, link, sent \cup {m}, got)
    BY SameQueues, MailStays DEF MailInv
  <2> QED
    BY <2>1, <2>2 DEF MailInv
<1>7. CASE SendConnecting(m)
  <2>1. PICK l \in LinkIds :
           /\ link' = [link EXCEPT ![l] =
                 [FreeLink EXCEPT !.st = "syn", !.by = s, !.to = r, !.end[s] = NextObject(p)]]
           /\ proc' = [proc EXCEPT ![s] = Connecting(@, r, l, m)]
           /\ sent' = sent \cup {m} /\ got' = got
    BY <1>7 DEF SendConnecting
  <2> DEFINE q == Connecting(p, r, l, m)
             k == [FreeLink EXCEPT !.st = "syn", !.by = s, !.to = r, !.end[s] = NextObject(p)]
  <2>2. proc' = [proc EXCEPT ![s] = q] /\ link' = [link EXCEPT ![l] = k]
    BY <1>1, <2>1
  <2>3. Requeued(p, q, r, Append(p.node[r].strms, m))
    BY <1>1, QueueAppends
  <2>4. Drained(link[l], k)
    BY <1>1, LinkQueues
  <2> HIDE DEF q, k
  <2>5. \A j \in LinkIds : Drained(link[j], link'[j])
    BY ONLY <1>1, <2>2, <2>4, DrainedAt, l \in LinkIds
  <2> QED
    BY <1>4, <2>1, <2>2, <2>3, <2>5
<1>8. CASE SendFailing(m)
  <2>1. /\ proc' = [proc EXCEPT ![s] = NotConnecting(p, r)] /\ sent' = sent \cup {m}
        /\ link' = link /\ got' = got
    BY <1>1, <1>8 DEF SendFailing
  <2>2. Emptied(p, NotConnecting(p, r))
    BY <1>1, ConnQueues
  <2>3. MailOK([proc EXCEPT ![s] = NotConnecting(p, r)], link, sent \cup {m}, got)
    <3> DEFINE q == NotConnecting(p, r)
               R == sent \cup {m}
    <3>1. Emptied(proc[s], q) /\ sent \subseteq R /\ \A j \in LinkIds : Drained(link[j], link[j])
      BY <2>2, SameQueues
    <3> HIDE DEF q, R, s
    <3>2. MailOK([proc EXCEPT ![s] = q], link, R, got)
      BY ONLY <1>1, <3>1, MailInv, MailStaysAt
    <3> QED
      BY <3>2 DEF q, R, s
  <2> QED
    BY <2>1, <2>3 DEF MailInv
<1> QED
  BY <1>3, <1>5, <1>6, <1>7, <1>8

\* The steps that send, move and hand on no message.
Silent ==
  \/ \E l \in LinkIds : Accept(l)
  \/ \E s \in Servers, c \in Objects :
        \/ Lost(s, c) \/ ConnectTimeout(s, c) \/ Heartbeat(s, c)
  \/ \E l \in LinkIds, how \in {"dead", "reset"} : Break(l, how)
  \/ \E s, t \in Servers : AddServer(s, t) \/ DelServer(s, t)

LEMMA MailSilent ==
  ASSUME IInv, MailInv, Silent
  PROVE  MailInv'
<1>1. /\ WorldOK(proc, link) /\ proc \in [Servers -> ProcessType]
      /\ link \in [LinkIds -> LinkType]
  BY DEF IInv, WorldOK
<1>2. ASSUME NEW s \in Servers, NEW q, Emptied(proc[s], q), proc' = [proc EXCEPT ![s] = q],
             \A l \in LinkIds : Drained(link[l], link'[l]), UNCHANGED <<sent, got>>
      PROVE  MailInv'
  <2> DEFINE M == link'
  <2>1. \A l \in LinkIds : Drained(link[l], M[l])
    BY <1>2
  <2> HIDE DEF M
  <2>2. MailOK([proc EXCEPT ![s] = q], M, sent, got)
    BY <1>1, <1>2, <2>1, MailStaysAt
  <2> QED
    BY <1>2, <2>2 DEF MailInv, M
<1>3. ASSUME NEW l \in LinkIds, NEW m, Drained(link[l], m), link' = [link EXCEPT ![l] = m]
      PROVE  \A j \in LinkIds : Drained(link[j], link'[j])
  BY <1>1, <1>3, SameQueues
<1>4. ASSUME NEW l \in LinkIds, Accept(l)
      PROVE  MailInv'
  <2> DEFINE s == link[l].to
             q == Accepted(proc[s], l)
             m == [link[l] EXCEPT !.st = "up", !.end[s] = NextObject(proc[s])]
  <2>1. s \in Servers
    BY <1>1, <1>4 DEF Accept, WorldOK, LinkOK
  <2>2. /\ proc' = [proc EXCEPT ![s] = q] /\ UNCHANGED <<sent, got>>
        /\ link' = [link EXCEPT ![l] = m]
    <3>1. proc' = [proc EXCEPT ![s] = q] /\ UNCHANGED <<sent, got>>
      BY <1>1, <1>4, <2>1 DEF Accept
    <3>2. link' = [link EXCEPT ![l] = m]
      BY <1>1, <1>4 DEF Accept
    <3> QED
      BY <3>1, <3>2
  <2>3. Emptied(proc[s], q) /\ Drained(link[l], m)
    BY <1>1, <2>1, ConnQueues, LinkQueues
  <2> HIDE DEF s, q, m
  <2> QED
    BY <1>2, <1>3, <2>1, <2>2, <2>3
<1>5. ASSUME NEW s \in Servers, NEW c \in Objects, Close(s, c), UNCHANGED <<sent, got>>
      PROVE  MailInv'
  <2> DEFINE l == proc[s].conn[c].link
             q == Closed(proc[s], c)
             m == Hung(link[l], s)
  <2>1. Emptied(proc[s], q) /\ proc' = [proc EXCEPT ![s] = q]
    BY <1>1, <1>5, ConnQueues DEF Close
  <2>2. link' = [link EXCEPT ![l] = m]
    BY <1>1, <1>5 DEF Close
  <2>3. CASE l \in LinkIds
    <3>1. Drained(link[l], m)
      BY <1>1, <2>3, LinkQueues
    <3> HIDE DEF l, q, m
    <3> QED
      BY <1>2, <1>3, <1>5, <2>1, <2>2, <2>3, <3>1
  <2>4. CASE l \notin LinkIds
    <3>1. \A j \in LinkIds : Drained(link[j], link'[j])
      BY <1>1, <2>2, <2>4, SameQueues
    <3> HIDE DEF l, q, m
    <3> QED
      BY <1>2, <1>5, <2>1, <3>1
  <2> QED
    BY <2>3, <2>4
<1>6. ASSUME NEW s \in Servers, NEW c \in Objects, Lost(s, c)
      PROVE  MailInv'
  BY <1>5, <1>6 DEF Lost
<1>7. ASSUME NEW s \in Servers, NEW c \in Objects, ConnectTimeout(s, c)
      PROVE  MailInv'
  <2>1. PICK l \in LinkIds : /\ proc' = [proc EXCEPT ![s] = TimedOut(@, c)]
                             /\ link' = [link EXCEPT ![l] = Hung(@, s)]
                             /\ UNCHANGED <<sent, got>>
    BY <1>7 DEF ConnectTimeout
  <2> DEFINE q == TimedOut(proc[s], c)
             m == Hung(link[l], s)
  <2>2. Emptied(proc[s], q) /\ Drained(link[l], m)
    BY <1>1, ConnQueues, LinkQueues
  <2>3. proc' = [proc EXCEPT ![s] = q] /\ link' = [link EXCEPT ![l] = m]
    BY <1>1, <2>1
  <2> HIDE DEF q, m
  <2> QED
    BY <1>2, <1>3, <2>1, <2>2, <2>3
<1>8. ASSUME NEW s \in Servers, NEW c \in Objects, Heartbeat(s, c)
      PROVE  MailInv'
  <2>1. CASE Close(s, c)
    BY <1>5, <1>8, <2>1 DEF Heartbeat
  <2>2. CASE ~Close(s, c)
    <3>1. /\ proc' = [proc EXCEPT ![s].conn[c].beats = @ + 1]
          /\ UNCHANGED <<link, sent, got>>
      BY <1>8, <2>2 DEF Heartbeat
    <3> DEFINE b == proc[s].conn[c].beats + 1
               q == [proc[s] EXCEPT !.conn[c].beats = b]
    <3>2. proc' = [proc EXCEPT ![s] = q]
      BY <1>1, <3>1
    <3>3. Emptied(proc[s], q)
      <4>1. proc[s] \in ProcessType
        BY <1>1
      <4> HIDE DEF b
      <4> QED
        BY <4>1, ConnQueues
    <3>4. \A j \in LinkIds : Drained(link[j], link'[j])
      BY <3>1, SameQueues
    <3> HIDE DEF q
    <3> QED
      BY <1>2, <3>1, <3>2, <3>3, <3>4
  <2> QED
    BY <2>1, <2>2
<1>9. ASSUME NEW s \in Servers, NEW t \in Servers, AddServer(s, t) \/ DelServer(s, t)
      PROVE  MailInv'
  <2>1. \A j \in LinkIds : Drained(link[j], link'[j])
    BY <1>9, SameQueues DEF AddServer, DelServer
  <2>2. UNCHANGED <<sent, got>>
    BY <1>9 DEF AddServer, DelServer
  <2>3. CASE AddServer(s, t)
    <3> DEFINE q == Added(proc[s], t)
    <3>1. Emptied(proc[s], q) /\ proc' = [proc EXCEPT ![s] = q]
      BY <1>1, <2>3, DaemonQueues DEF AddServer
    <3> HIDE DEF q
    <3> QED
      BY <1>2, <2>1, <2>2, <3>1
  <2>4. CASE DelServer(s, t)
    <3> DEFINE q == Deleted(proc[s], t)
    <3>1. Emptied(proc[s], q) /\ proc' = [proc EXCEPT ![s] = q]
      BY <1>1, <2>4, DaemonQueues DEF DelServer
    <3> HIDE DEF q
    <3> QED
      BY <1>2, <2>1, <2>2, <3>1
  <2> QED
    BY <1>9, <2>3, <2>4
<1>10. ASSUME NEW l \in LinkIds, NEW how \in {"dead", "reset"}, Break(l, how)
       PROVE  MailInv'
  <2> DEFINE m == [link[l] EXCEPT !.wire = how]
  <2>1. Drained(link[l], m)
    BY <1>1, LinkQueues
  <2>2. link' = [link EXCEPT ![l] = m] /\ UNCHANGED <<proc, sent, got>>
    BY <1>1, <1>10 DEF Break
  <2> HIDE DEF m
  <2>3. \A j \in LinkIds : Drained(link[j], link'[j])
    BY <1>3, <2>1, <2>2
  <2> DEFINE M == link'
  <2>4. MailOK(proc, M, sent, got)
    BY <2>3, SameQueues, MailStays DEF MailInv
  <2> QED
    BY <2>2, <2>4 DEF MailInv
<1> QED
  BY <1>4, <1>6, <1>7, <1>8, <1>9, <1>10 DEF Silent

\* The messages of a process that dies, and of its links, are lost.
LEMMA MailCrash ==
  ASSUME IInv, MailInv, NEW s \in Servers, Crash(s)
  PROVE  MailInv'
<1>1. /\ WorldOK(proc, link) /\ proc \in [Servers -> ProcessType]
      /\ link \in [LinkIds -> LinkType]
  BY DEF IInv, WorldOK
<1> DEFINE q == NewProcess({})
           M == [l \in LinkIds |-> Orphaned(link[l], s)]
<1>2. proc' = [proc EXCEPT ![s] = q] /\ link' = M /\ UNCHANGED <<sent, got>>
  BY DEF Crash
<1>3. Emptied(proc[s], q)
  BY <1>1, ConnQueues
<1>4. \A l \in LinkIds : Drained(link[l], M[l])
  BY <1>1, LinkQueues
<1> HIDE DEF q, M
<1>5. MailOK([proc EXCEPT ![s] = q], M, sent, got)
  BY <1>1, <1>3, <1>4, MailStaysAt
<1> QED
  BY <1>2, <1>5 DEF MailInv

\* A handshake on a link is no message.
LEMMA NoMessage ==
  ASSUME NEW q \in Seq(Messages \cup {Handshake})
  PROVE  Fewer(q, q \o <<Handshake>>)
<1>1. <<Handshake>> \in Seq(Messages \cup {Handshake})
  OBVIOUS
<1>2. Joined(q, <<Handshake>>, q \o <<Handshake>>)
  BY <1>1, JoinedConcat
<1>3. \A m \in Messages : m \notin ToSet(<<Handshake>>) /\ Once(m, <<Handshake>>)
  BY OnlyIn, ServerAssumption DEF Handshake
<1> QED
  BY <1>2, <1>3, FewerMeans DEF Joined

\* The connection opens and sends its handshake.
LEMMA MailWritable ==
  ASSUME IInv, MailInv, NEW s \in Servers, NEW c \in Objects, Writable(s, c)
  PROVE  MailInv'
<1>1. PICK l \in LinkIds :
         /\ proc[s].conn[c].link = l /\ UNCHANGED <<sent, got>>
         /\ proc' = [proc EXCEPT ![s] = Connected(@, c)]
         /\ link' = [link EXCEPT ![l] = Written(@, s, <<Handshake>>)]
  BY DEF Writable, Uses
<1>2. /\ WorldOK(proc, link) /\ proc \in [Servers -> ProcessType]
      /\ link \in [LinkIds -> LinkType] /\ proc[s] \in ProcessType /\ link[l] \in LinkType
  BY DEF IInv, WorldOK
<1>3. Peer(link[l], s) \in Servers
  BY ONLY s \in Servers, c \in Objects, l \in LinkIds, <1>1, <1>2, ConnFacts
<1> DEFINE k == link[l]
           t == Peer(k, s)
           w == <<Handshake>>
           m == Written(k, s, w)
           q == Connected(proc[s], c)
<1>4. proc' = [proc EXCEPT ![s] = q] /\ link' = [link EXCEPT ![l] = m]
  BY <1>2, <1>1
<1>5. q.node = proc[s].node
  BY <1>2, ConnQueues
<1>6. k.q[t] \in Seq(Messages \cup {Handshake})
  BY <1>2, <1>3 DEF LinkType
<1>7. Fewer(k.q[t], k.q[t] \o w) /\ \A u : Fewer(u, u)
  BY <1>6, NoMessage, FewerSame
<1>8. /\ m.q[t] \in {k.q[t], k.q[t] \o w}
      /\ \A u \in Servers : u # t => m.q[u] = k.q[u]
  <2> HIDE DEF k, w
  <2> QED
    BY <1>2, <1>3, WrittenQueues DEF k
<1> HIDE DEF m, t, w, q
<1>9. \A u \in Servers : Fewer(k.q[u], m.q[u])
  BY <1>7, <1>8
<1> HIDE DEF k
<1>10. ASSUME NEW b \in Boxes
       PROVE  Fewer(At(proc, link, b), At(proc', link', b))
  <2>1. CASE \E v, u \in Servers : b = NodeBox(v, u)
    <3>1. PICK v \in Servers, u \in Servers : b = NodeBox(v, u)
      BY <2>1
    <3>2. proc'[v].node[u] = proc[v].node[u]
      BY <1>2, <1>4, <1>5
    <3> QED
      BY <1>7, <3>1, <3>2, BoxAt
  <2>2. CASE \E j \in LinkIds, u \in Servers : b = LinkBox(j, u)
    <3>1. PICK j \in LinkIds, u \in Servers : b = LinkBox(j, u)
      BY <2>2
    <3>2. (j = l /\ link'[j] = m /\ link[j] = k) \/ link'[j] = link[j]
      BY <1>2, <1>4 DEF k
    <3>3. Fewer(link[j].q[u], link'[j].q[u])
      BY <1>7, <1>9, <3>2
    <3> QED
      BY <3>1, <3>3, BoxAt
  <2> QED
    BY <2>1, <2>2, BoxIs
<1> DEFINE Q == proc'
           M == link'
<1>11. \A b \in Boxes : Fewer(At(proc, link, b), At(Q, M, b))
  BY <1>10
<1> HIDE DEF Q, M
<1>12. MailOK(Q, M, sent, got)
  BY <1>11, MailLoses DEF MailInv
<1> QED
  BY <1>1, <1>12 DEF MailInv, Q, M

\* A message is handed on.
LEMMA MailRead ==
  ASSUME IInv, MailInv, NEW s \in Servers, NEW c \in Objects, ReadMessage(s, c)
  PROVE  MailInv'
<1>1. PICK l \in LinkIds :
         /\ sent' = sent
         /\ link[l].q[s] # <<>> /\ Head(link[l].q[s]) # Handshake
         /\ got' = [got EXCEPT ![Head(link[l].q[s])] = @ + 1]
         /\ proc' = [proc EXCEPT ![s].conn[c].beats = 0]
         /\ link' = [link EXCEPT ![l] = Read(@, s)]
  BY DEF ReadMessage, Readable
<1>2. /\ proc \in [Servers -> ProcessType] /\ got \in [Messages -> Nat]
      /\ link \in [LinkIds -> LinkType] /\ proc[s] \in ProcessType /\ link[l] \in LinkType
  BY DEF IInv, WorldOK, CountsOK
<1> DEFINE q == link[l].q[s]
           m == Head(q)
           r == Read(link[l], s)
<1>3. q \in Seq(Messages \cup {Handshake}) /\ q # <<>>
  BY <1>1, <1>2 DEF LinkType
<1>4. m \in Messages
  BY <1>1, <1>3
<1>5. /\ Fewer(q, Tail(q)) /\ m \in ToSet(q)
      /\ Once(m, q) => m \notin ToSet(Tail(q))
  <2> HIDE DEF q
  <2> QED
    BY <1>3, FewerTail
<1>6. r.q[s] = Tail(q) /\ \A t \in Servers : t # s => r.q[t] = link[l].q[t]
  BY <1>2, ReadQueues
<1>7. link' = [link EXCEPT ![l] = r] /\ got' = [got EXCEPT ![m] = @ + 1]
  BY <1>1, <1>2
<1>8. \A v, t \in Servers : proc'[v].node[t] = proc[v].node[t]
  <2>1. \A v \in Servers : proc'[v].node = proc[v].node
    BY <1>1, <1>2 DEF ProcessType
  <2> QED
    BY <2>1
<1> HIDE DEF q, m, r
<1> DEFINE a == LinkBox(l, s)
           Q == proc'
           M == link'
           h == got'
<1>9. a \in Boxes /\ At(proc, link, a) = q /\ At(Q, M, a) = Tail(q)
  <2>1. link'[l] = r
    BY <1>2, <1>7
  <2>2. a \in Boxes /\ At(proc, link, a) = link[l].q[s] /\ At(Q, M, a) = link'[l].q[s]
    BY BoxAt
  <2> QED
    BY ONLY <1>6, <2>1, <2>2 DEF q
<1>10. ASSUME NEW b \in Boxes, b # a
       PROVE  At(Q, M, b) = At(proc, link, b)
  <2>1. CASE \E v, u \in Servers : b = NodeBox(v, u)
    BY <1>8, <2>1, BoxAt
  <2>2. CASE \E j \in LinkIds, u \in Servers : b = LinkBox(j, u)
    <3>1. PICK j \in LinkIds, u \in Servers : b = LinkBox(j, u)
      BY <2>2
    <3>2. j # l \/ u # s
      BY <1>10, <3>1
    <3>3. link'[j].q[u] = link[j].q[u]
      BY <1>2, <1>6, <1>7, <3>2
    <3> QED
      BY <3>1, <3>3, BoxAt
  <2> QED
    BY <2>1, <2>2, BoxIs
<1>11. h[m] = got[m] + 1 /\ \A n \in Messages : n # m => h[n] = got[n]
  BY <1>2, <1>4, <1>7
<1> HIDE DEF a, Q, M, h
<1>12. MailOK(Q, M, sent, h)
  <2>1. m \in ToSet(At(proc, link, a)) /\ Fewer(At(proc, link, a), At(Q, M, a))
    BY <1>5, <1>9
  <2>2. Once(m, At(proc, link, a)) => m \notin ToSet(At(Q, M, a))
    BY <1>5, <1>9
  <2>3. MailOK(proc, link, sent, got) /\ a \in Boxes
    BY <1>9 DEF MailInv
  <2> QED
    BY ONLY <1>4, <1>10, <1>11, <2>1, <2>2, <2>3, MailReads
<1> QED
  BY <1>1, <1>12 DEF MailInv, Q, M, h

\* What the handshake takes along: the messages u that wait, after a handshake
\* in answer when it has not been sent yet.
LEMMA JoinedAnswer ==
  ASSUME NEW q \in Seq(Messages \cup {Handshake}), NEW u \in Seq(Messages \cup {Handshake}),
         NEW w \in {<<>>, <<Handshake>>}
  PROVE  Joined(q, u, q \o (w \o u)) /\ Joined(q, u, q)
<1> DEFINE T == Messages \cup {Handshake}
           x == w \o u
<1>1. w \in Seq(T) /\ x \in Seq(T)
  <2>1. <<>> \in Seq(T) /\ <<Handshake>> \in Seq(T)
    OBVIOUS
  <2>2. w \in Seq(T)
    BY <2>1
  <2> HIDE DEF T
  <2> QED
    BY <2>2 DEF T
<1>2. \A m \in Messages : m \notin ToSet(w) /\ Once(m, w)
  BY NothingIn, OnlyIn, ServerAssumption DEF Handshake
<1> HIDE DEF T
<1>3. Joined(w, u, x)
  BY <1>1, JoinedConcat DEF T
<1>4. \A m \in Messages : (m \in ToSet(x) => m \in ToSet(u)) /\ (Once(m, u) => Once(m, x))
  BY <1>2, <1>3 DEF Joined
<1> HIDE DEF x
<1>5. Joined(q, x, q \o x)
  BY <1>1, JoinedConcat DEF T
<1>6. Joined(q, u, q \o x)
  BY <1>4, <1>5 DEF Joined
<1>7. Joined(q, u, q)
  BY DEF Joined
<1> QED
  BY <1>6, <1>7 DEF x

\* The handshake of the other end is read; what waits for its server goes out.
LEMMA MailHandshake ==
  ASSUME IInv, MailInv, NEW s \in Servers, NEW c \in Objects, ReadHandshake(s, c)
  PROVE  MailInv'
<1> DEFINE p == proc[s]
           answer == IF p.conn[c].state = "CONNECTING" THEN <<Handshake>> ELSE <<>>
<1>1. PICK l \in LinkIds :
         /\ p.conn[c].link = l /\ UNCHANGED <<sent, got>>
         /\ link[l].q[s] # <<>>
         /\ proc' = [proc EXCEPT ![s] = HandShaken(p, c, Peer(link[l], s))]
         /\ link' = [link EXCEPT ![l] = Written(Read(@, s), s,
                                                answer \o Waiting(p, Peer(link[l], s)))]
  BY DEF ReadHandshake, Readable, Uses
<1> DEFINE k == link[l]
           t == Peer(k, s)
           q == HandShaken(p, c, t)
           r == Read(k, s)
           u == Waiting(p, t)
           ms == answer \o u
           m == Written(r, s, ms)
<1>2. /\ WorldOK(proc, link) /\ proc \in [Servers -> ProcessType]
      /\ link \in [LinkIds -> LinkType] /\ p \in ProcessType /\ ProcOK(p) /\ k \in LinkType
  BY DEF IInv, WorldOK
<1>3. /\ LinkOK(k) /\ t \in Servers /\ t # s
  <2>1. LinkOK(link[l]) /\ link[l].end[s] # NoObject
    BY ONLY s \in Servers, c \in Objects, l \in LinkIds, <1>1, <1>2, ConnFacts
  <2> QED
    BY ONLY s \in Servers, <1>2, <2>1, PeerOK
<1>4. proc' = [proc EXCEPT ![s] = q] /\ link' = [link EXCEPT ![l] = m]
  BY <1>1, <1>2
<1>5. Requeued(p, q, t, <<>>)
  <2> HIDE DEF t, p
  <2> QED
    BY <1>2, <1>3, HandShakenQueues
<1>6. r \in LinkType /\ SameEnds(k, r)
  BY ONLY s \in Servers, <1>1, <1>2, ReadOK
<1>7. r.q[s] = Tail(k.q[s]) /\ \A v \in Servers : v # s => r.q[v] = k.q[v]
  BY <1>2, ReadQueues
<1>8. u \in Seq(Messages \cup {Handshake}) /\ u = p.node[t].strms
  <2>1. Waiting(p, t) \in Seq(Messages \cup {Handshake})
    <3> HIDE DEF p, t
    <3> QED
      BY ONLY <1>2, <1>3, WaitingType
  <2> QED
    BY <2>1 DEF Waiting
<1>9. k.q[t] \in Seq(Messages \cup {Handshake}) /\ k.q[s] \in Seq(Messages \cup {Handshake})
  BY <1>2, <1>3 DEF LinkType
<1>10. answer \in {<<>>, <<Handshake>>}
  OBVIOUS
<1> HIDE DEF answer
<1>11. Peer(r, s) = t
  BY <1>3, <1>6, SameEndsOK
<1> HIDE DEF r, u, t
<1>12. m.q[t] \in {k.q[t], k.q[t] \o ms} /\ \A v \in Servers : v # t => m.q[v] = r.q[v]
  <2> HIDE DEF ms
  <2>1. /\ m.q[Peer(r, s)] \in {r.q[Peer(r, s)], r.q[Peer(r, s)] \o ms}
        /\ \A v \in Servers : v # Peer(r, s) => m.q[v] = r.q[v]
    <3>1. r \in LinkType /\ Peer(r, s) \in Servers
      BY <1>3, <1>6, <1>11
    <3> QED
      BY ONLY s \in Servers, <3>1, WrittenQueues DEF m
  <2>2. r.q[t] = k.q[t]
    BY <1>3, <1>7
  <2> QED
    BY ONLY <1>11, <2>1, <2>2
<1>13. Joined(k.q[t], u, m.q[t])
  <2>1. Joined(k.q[t], u, k.q[t] \o ms) /\ Joined(k.q[t], u, k.q[t])
    BY ONLY <1>8, <1>9, <1>10, JoinedAnswer
  <2> QED
    BY ONLY <1>12, <2>1
<1>14. Fewer(k.q[s], m.q[s]) /\ \A v \in Servers : v # s /\ v # t => m.q[v] = k.q[v]
  <2>1. Fewer(k.q[s], Tail(k.q[s]))
    BY <1>1, <1>9, FewerTail
  <2>2. m.q[s] = Tail(k.q[s])
    BY <1>3, <1>7, <1>12
  <2> QED
    BY <1>7, <1>12, <2>1, <2>2
<1> HIDE DEF q, m
<1>15. q.node[t].strms = <<>> /\ \A v \in Servers : v # t => q.node[v].strms = p.node[v].strms
  BY <1>5 DEF Requeued
<1>16. proc'[s] = q /\ \A v \in Servers : v # s => proc'[v] = proc[v]
  BY <1>2, <1>4
<1>17. link'[l] = m /\ \A j \in LinkIds : j # l => link'[j] = link[j]
  BY <1>2, <1>4
<1> DEFINE Q == proc'
           M == link'
           a == NodeBox(s, t)
           b == LinkBox(l, t)
<1>18. /\ a \in Boxes /\ b \in Boxes /\ a # b
       /\ \A n \in Messages : Right(n, a) => Right(n, b)
  BY <1>3, BoxAt, BoxesDiffer
<1>19. /\ At(proc, link, a) = u /\ At(Q, M, a) = <<>>
       /\ At(proc, link, b) = k.q[t] /\ At(Q, M, b) = m.q[t]
  <2>1. At(proc, link, a) = p.node[t].strms /\ At(Q, M, a) = proc'[s].node[t].strms
    BY <1>3, BoxAt
  <2>2. At(proc, link, b) = link[l].q[t] /\ At(Q, M, b) = link'[l].q[t]
    BY <1>3, BoxAt
  <2> QED
    BY ONLY <1>8, <1>15, <1>16, <1>17, <2>1, <2>2
<1>20. ASSUME NEW e \in Boxes, e # a, e # b
       PROVE  Fewer(At(proc, link, e), At(Q, M, e))
  <2>1. CASE \E v, w \in Servers : e = NodeBox(v, w)
    <3>1. PICK v \in Servers, w \in Servers : e = NodeBox(v, w)
      BY <2>1
    <3>2. v # s \/ w # t
      BY <1>20, <3>1
    <3>3. proc'[v].node[w].strms = proc[v].node[w].strms
      BY <1>15, <1>16, <3>2
    <3> QED
      BY <3>1, <3>3, BoxAt, FewerSame
  <2>2. CASE \E j \in LinkIds, w \in Servers : e = LinkBox(j, w)
    <3>1. PICK j \in LinkIds, w \in Servers : e = LinkBox(j, w)
      BY <2>2
    <3>2. j # l \/ w # t
      BY <1>20, <3>1
    <3>3. Fewer(link[j].q[w], link'[j].q[w])
      <4>1. CASE j = l /\ w = s
        BY <1>14, <1>17, <4>1
      <4>2. CASE ~(j = l /\ w = s)
        <5>1. link'[j].q[w] = link[j].q[w]
          BY <1>14, <1>17, <3>2, <4>2
        <5> QED
          BY <5>1, FewerSame
      <4> QED
        BY <4>1, <4>2
    <3> QED
      BY <3>1, <3>3, BoxAt
  <2> QED
    BY <2>1, <2>2, BoxIs
<1> HIDE DEF Q, M, a, b
<1>21. MailOK(Q, M, sent, got)
  <2>1. MailOK(proc, link, sent, got) /\ Joined(At(proc, link, b), At(proc, link, a), At(Q, M, b))
    BY <1>13, <1>19 DEF MailInv
  <2>2. At(Q, M, a) = <<>>
    BY <1>19
  <2> QED
    BY ONLY <1>18, <1>20, <2>1, <2>2, MailMoves
<1> QED
  BY <1>1, <1>21 DEF MailInv, Q, M

LEMMA MailKept == IInv /\ MailInv /\ [Next]_vars => MailInv'
<1> SUFFICES ASSUME IInv, MailInv, [Next]_vars
             PROVE  MailInv'
  OBVIOUS
<1>1. ASSUME NEW m \in Messages,
             SendNow(m) \/ SendLater(m) \/ SendNowhere(m) \/ SendConnecting(m) \/ SendFailing(m)
      PROVE  MailInv'
  BY <1>1, MailSend
<1>2. ASSUME NEW s \in Servers, Reactor(s)
      PROVE  MailInv'
  <2>1. CASE \E l \in LinkIds : Accept(l)
    BY <2>1, MailSilent DEF Silent
  <2>2. ASSUME NEW c \in Objects, Lost(s, c) \/ ConnectTimeout(s, c) \/ Heartbeat(s, c)
        PROVE  MailInv'
    BY <2>2, MailSilent DEF Silent
  <2>3. ASSUME NEW c \in Objects, Writable(s, c) \/ ReadHandshake(s, c) \/ ReadMessage(s, c)
        PROVE  MailInv'
    BY <2>3, MailWritable, MailHandshake, MailRead
  <2> QED
    BY <1>2, <2>1, <2>2, <2>3 DEF Reactor
<1>3. CASE \E s, t \in Servers : AddServer(s, t) \/ DelServer(s, t)
  BY <1>3, MailSilent DEF Silent
<1>4. CASE \E l \in LinkIds, how \in {"dead", "reset"} : Break(l, how)
  BY <1>4, MailSilent DEF Silent
<1>5. ASSUME NEW s \in Servers, Crash(s)
      PROVE  MailInv'
  BY <1>5, MailCrash
<1>6. CASE UNCHANGED vars
  BY <1>6 DEF vars, MailInv
<1> QED
  BY <1>1, <1>2, <1>3, <1>4, <1>5, <1>6 DEF Next

\* A message in at most one box is in at most one place of each kind.
LEMMA MailOnce == MailInv => DeliveredOnce
<1> SUFFICES ASSUME MailInv, NEW m \in Messages
             PROVE  got[m] + Cardinality({l \in LinkIds : m \in ToSet(link[l].q[To[m]])})
                      + Cardinality({s \in Servers :
                                       \E t \in Servers : m \in ToSet(proc[s].node[t].strms)})
                      <= IF m \in sent THEN 1 ELSE 0
  BY DEF DeliveredOnce
<1> DEFINE A == {l \in LinkIds : m \in ToSet(link[l].q[To[m]])}
           B == {s \in Servers : \E t \in Servers : m \in ToSet(proc[s].node[t].strms)}
<1>1. /\ got[m] \in {0, 1} /\ (got[m] = 1 => m \in sent)
      /\ \A b \in Boxes : m \in ToSet(At(proc, link, b)) =>
           m \in sent /\ got[m] = 0 /\ \A c \in Boxes : m \in ToSet(At(proc, link, c)) => c = b
  BY DEF MailInv, MailOK
<1>2. To[m] \in Servers
  BY ServerAssumption
<1>3. ASSUME NEW l \in A
      PROVE  LinkBox(l, To[m]) \in Boxes /\ m \in ToSet(At(proc, link, LinkBox(l, To[m])))
  BY <1>2, BoxAt
<1>4. ASSUME NEW s \in B
      PROVE  \E t \in Servers : /\ NodeBox(s, t) \in Boxes
                                /\ m \in ToSet(At(proc, link, NodeBox(s, t)))
  BY BoxAt
<1>5. A \subseteq LinkIds /\ B \subseteq Servers
  OBVIOUS
<1> HIDE DEF A, B
<1>6. \A k, l \in A : k = l
  BY <1>1, <1>2, <1>3, <1>5, BoxesDiffer
<1>7. \A s, u \in B : s = u
  BY <1>1, <1>4, <1>5, BoxesDiffer
<1>8. A = {} \/ B = {}
  <2>1. SUFFICES ASSUME NEW l \in A, NEW s \in B
                 PROVE  FALSE
    OBVIOUS
  <2>2. PICK t \in Servers : /\ NodeBox(s, t) \in Boxes
                             /\ m \in ToSet(At(proc, link, NodeBox(s, t)))
    BY <1>4
  <2> QED
    BY <1>1, <1>2, <1>3, <1>5, <2>2, BoxesDiffer
<1>9. A # {} \/ B # {} => m \in sent /\ got[m] = 0
  BY <1>1, <1>3, <1>4
<1>10. ASSUME NEW X, \A x, y \in X : x = y
       PROVE  Cardinality(X) = IF X = {} THEN 0 ELSE 1
  <2>1. CASE X = {}
    BY <2>1, FS_EmptySet
  <2>2. CASE X # {}
    <3>1. \E x : X = {x}
      BY <1>10, <2>2
    <3> QED
      BY <2>2, <3>1, FS_Singleton
  <2> QED
    BY <2>1, <2>2
<1>11. Cardinality(A) = (IF A = {} THEN 0 ELSE 1) /\ Cardinality(B) = (IF B = {} THEN 0 ELSE 1)
  BY <1>6, <1>7, <1>10
<1>12. got[m] + Cardinality(A) + Cardinality(B) <= IF m \in sent THEN 1 ELSE 0
  BY <1>1, <1>8, <1>9, <1>11
<1> QED
  BY <1>12 DEF A, B

---------------------------------------------------------------------------
LEMMA Invariant == Spec => []IInv
<1>1. Init => IInv
  BY InitOK
<1>2. IInv /\ [Next]_vars => IInv'
  BY NextKeeps
<1> QED
  BY <1>1, <1>2, PTL DEF Spec

\* Types, and that processes and links agree on who is on which link.
THEOREM TypeCorrect == Spec => []TypeOK
BY Invariant, IInvImplies, PTL

\* A node never names a connection that is closed, pooled or another server's,
\* and no message waits without a connection on its way.
THEOREM NodesStaySound == Spec => []NodesSound
BY Invariant, IInvImplies, PTL

\* No object is pooled twice or with anything left of its last connection.
THEOREM PoolsStaySound == Spec => []PoolsSound
BY Invariant, IInvImplies, PTL

\* A message is handed on once at most, and is never in two places: not in two
\* queues, not on two links, and not in a queue or on a link again afterwards.
THEOREM DeliveredAtMostOnce == Spec => []DeliveredOnce
<1>1. Spec => []MailInv
  <2>1. Init => MailInv
    BY MailInit
  <2>2. IInv /\ MailInv /\ [Next]_vars => MailInv'
    BY MailKept
  <2> QED
    BY Invariant, <2>1, <2>2, PTL DEF Spec
<1> QED
  BY <1>1, MailOnce, PTL
===========================================================================
