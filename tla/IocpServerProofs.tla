-------------------------- MODULE IocpServerProofs --------------------------
(***************************************************************************)
(* Proofs about IocpServer, for every number of entries, sockets and       *)
(* connections and every choice of faults, chunks and replies.             *)
(***************************************************************************)
EXTENDS IocpServer, TLAPS

\* The inductive invariant.  Its conjuncts need each other: that a completion
\* is not stale needs that an entry has one thing outstanding and that no two
\* entries share a socket, and the types of the operations that the handlers
\* start come from the completion being that of a connected entry.
IInv ==
  /\ TypeOK
  /\ ctx[0].socket = ListenSocket
  /\ OneOutstanding
  /\ NoStaleCompletion
  /\ SocketsAccounted
  /\ FreeEntriesAreBlank

-----------------------------------------------------------------------------
(* Data.                                                                   *)

\* memset leaves a well-typed entry.
LEMMA ZeroedType == Zeroed \in Context /\ Zeroed.socket = NoSocket /\ Zeroed.key = FALSE
BY ServerAssumption DEF Zeroed, Context, Chunk

\* Entries 0 and the others.
LEMMA SlotType == 0 \in Slot /\ Client \subseteq Slot /\ 0 \notin Client /\ Slot \subseteq Nat
BY ServerAssumption DEF Slot, Client

\* The unsigned difference of the two schedule functions is an unsigned int.
LEMMA WordType == \A x \in Int : x % Word \in Nat
BY ServerAssumption

\* The operations the handlers start are well typed.
LEMMA ScheduleType ==
  ASSUME NEW i \in Slot, NEW c \in Context, c.socket \in Socket
  PROVE  /\ schedule_read(i, c) \in Operation
         /\ schedule_read(i, c).idx = i /\ schedule_read(i, c).sock = c.socket
         /\ schedule_write(i, c) \in Operation
         /\ schedule_write(i, c).idx = i /\ schedule_write(i, c).sock = c.socket
<1>1. c.szRecv \in Nat /\ c.szSend \in Nat /\ c.szSendTotal \in Nat
  BY DEF Context
<1>2. BufLen - c.szRecv \in Int /\ c.szSendTotal - c.szSend \in Int
  BY <1>1, ServerAssumption
<1>3. (BufLen - c.szRecv) % Word \in Nat /\ (c.szSendTotal - c.szSend) % Word \in Nat
  BY <1>2, WordType
<1> QED
  BY <1>3 DEF schedule_read, schedule_write, Operation

\* The operation of schedule_accept.
LEMMA AcceptOpType ==
  ASSUME NEW s \in Socket
  PROVE  AcceptOp(s) \in Operation /\ AcceptOp(s).idx = 0 /\ AcceptOp(s).sock = s
BY SlotType DEF AcceptOp, Operation

\* Started keeps at most the operation itself.
LEMMA StartedSubset == \A o : Started(o) \subseteq {o}
BY DEF Started

\* Cancelling a socket on which nothing is pending changes nothing.
LEMMA KillNothing ==
  ASSUME NEW S, NEW s, \A o \in S : o.sock # s
  PROVE  Kill(S, s) = S
BY DEF Kill

\* The packet that completes an operation has its index and its socket.
LEMMA CompletionType ==
  ASSUME NEW o \in Operation, NEW n \in Nat, NEW ok \in BOOLEAN
  PROVE  /\ Completion(o, n, ok) \in Packet
         /\ Completion(o, n, ok).key = o.idx
         /\ Completion(o, n, ok).sock = o.sock
BY DEF Completion, Operation, Packet

\* Taking the oldest packet.
LEMMA TailPort ==
  ASSUME NEW q \in Seq(Packet), q # <<>>
  PROVE  /\ Head(q) = q[1] /\ 1 \in 1..Len(q) /\ Head(q) \in Packet
         /\ Tail(q) \in Seq(Packet)
         /\ Len(Tail(q)) = Len(q) - 1 /\ Len(q) \in Nat
         /\ \A k \in 1..Len(Tail(q)) : k + 1 \in 1..Len(q) /\ Tail(q)[k] = q[k + 1]
  OBVIOUS

\* Queueing a packet.
LEMMA AppendPort ==
  ASSUME NEW q \in Seq(Packet), NEW p \in Packet
  PROVE  /\ Append(q, p) \in Seq(Packet)
         /\ Len(Append(q, p)) = Len(q) + 1 /\ Len(q) \in Nat
         /\ \A k \in 1..Len(q) : Append(q, p)[k] = q[k]
         /\ Append(q, p)[Len(q) + 1] = p
  OBVIOUS

\* Indices of pending operations and queued packets are entries.
LEMMA IndexType ==
  ASSUME ops \subseteq Operation, port \in Seq(Packet)
  PROVE  (\A o \in ops : o.idx \in Slot) /\ (\A k \in Queued : port[k].key \in Slot)
<1>1. \A k \in Queued : port[k] \in Packet
  BY DEF Queued
<1> QED
  BY <1>1 DEF Operation, Packet

-----------------------------------------------------------------------------
(* Ownership of an entry, for the three kinds of steps that touch the port *)
(* and the pending operations.                                             *)

\* A step that takes a packet and may start operations T keeps the ownership
\* of entries, if each operation of T is for the entry of the packet or for
\* an entry with nothing outstanding.
LEMMA ConsumeKeepsOwnership ==
  ASSUME OneOutstanding, NoStaleCompletion,
         ops \subseteq Operation, port \in Seq(Packet), port # <<>>, port' = Tail(port),
         NEW T, ops' = ops \cup T,
         \A o \in T : \/ o.idx = Head(port).key
                      \/ /\ \A u \in ops : u.idx # o.idx
                         /\ \A k \in Queued : port[k].key # o.idx,
         \A o, u \in T : o.idx = u.idx => o = u,
         \A o \in T : o.sock = Holder(o.idx)',
         \A i \in Slot :
           i # Head(port).key /\ ((\E o \in ops : o.idx = i) \/ (\E k \in Queued : port[k].key = i))
             => Holder(i)' = Holder(i)
  PROVE  OneOutstanding' /\ NoStaleCompletion'
<1>1. /\ Head(port) = port[1] /\ 1 \in Queued
      /\ \A k \in Queued' : k + 1 \in Queued /\ port'[k] = port[k + 1] /\ k \in Nat /\ k >= 1
  BY TailPort DEF Queued
<1>2. \A k \in Queued' : port'[k].key # Head(port).key
  <2> TAKE k \in Queued'
  <2>1. k + 1 # 1
    BY <1>1
  <2> QED
    BY <1>1, <2>1 DEF OneOutstanding
<1>3. \A o \in ops : o.idx # Head(port).key
  BY <1>1 DEF OneOutstanding
<1>4. \A o, u \in ops' : o.idx = u.idx => o = u
  BY <1>1, <1>3 DEF OneOutstanding
<1>5. \A o \in ops', k \in Queued' : port'[k].key # o.idx
  <2> TAKE o \in ops', k \in Queued'
  <2>1. CASE o \in ops
    <3>1. k + 1 \in Queued /\ port'[k] = port[k + 1]
      BY <1>1
    <3> QED
      BY <2>1, <3>1 DEF OneOutstanding
  <2>2. CASE o \in T
    BY <1>1, <1>2, <2>2
  <2> QED
    BY <2>1, <2>2
<1>6. \A j, k \in Queued' : port'[j].key = port'[k].key => j = k
  <2> TAKE j, k \in Queued'
  <2>1. /\ j + 1 \in Queued /\ port'[j] = port[j + 1] /\ j \in Nat
        /\ k + 1 \in Queued /\ port'[k] = port[k + 1] /\ k \in Nat
    BY <1>1
  <2>2. port[j + 1].key = port[k + 1].key => j + 1 = k + 1
    BY <2>1 DEF OneOutstanding
  <2> QED
    BY <2>1, <2>2
<1>7. \A o \in ops' : o.sock = Holder(o.idx)'
  BY <1>3, IndexType DEF NoStaleCompletion
<1>8. \A k \in Queued' : \A i : port'[k].key = i => port'[k].sock = Holder(i)'
  <2> TAKE k \in Queued'
  <2> TAKE i
  <2> HAVE port'[k].key = i
  <2>1. k + 1 \in Queued /\ port[k + 1].key = i /\ port'[k] = port[k + 1] /\ i # Head(port).key
    BY <1>1, <1>2
  <2>2. Holder(i)' = Holder(i) /\ port[k + 1].sock = Holder(i)
    BY <2>1, IndexType DEF NoStaleCompletion
  <2> QED
    BY <2>1, <2>2
<1>9. OneOutstanding'
  BY <1>4, <1>5, <1>6 DEF OneOutstanding
<1>10. NoStaleCompletion'
  BY <1>7, <1>8 DEF NoStaleCompletion, Holder
<1> QED
  BY <1>9, <1>10

\* A step that turns a pending operation into a packet keeps the ownership.
LEMMA ProduceKeepsOwnership ==
  ASSUME OneOutstanding, NoStaleCompletion,
         ops \subseteq Operation, port \in Seq(Packet), NEW o \in ops, NEW p \in Packet,
         p.key = o.idx, p.sock = o.sock,
         port' = Append(port, p), ops' = ops \ {o},
         \A i \in Slot : Holder(i)' = Holder(i)
  PROVE  OneOutstanding' /\ NoStaleCompletion'
<1> DEFINE n == Len(port) + 1
<1>1. /\ \A k \in Queued' : (k \in Queued /\ port'[k] = port[k]) \/ (k = n /\ port'[k] = p)
      /\ n \notin Queued
  BY AppendPort DEF Queued
<1>2. \A k \in Queued : port[k].key # o.idx
  BY DEF OneOutstanding
<1>3. \A u \in ops' : u \in ops /\ u.idx # o.idx
  BY DEF OneOutstanding
<1>4. \A u \in ops', k \in Queued' : port'[k].key # u.idx
  BY <1>1, <1>3 DEF OneOutstanding
<1>5. \A j, k \in Queued' : port'[j].key = port'[k].key => j = k
  <2> TAKE j, k \in Queued'
  <2>1. CASE j \in Queued /\ k \in Queued
    BY <1>1, <2>1 DEF OneOutstanding
  <2>2. CASE j = n \/ k = n
    BY <1>1, <1>2, <2>2
  <2> QED
    BY <1>1, <2>1, <2>2
<1>6. \A u \in ops' : u.sock = Holder(u.idx)'
  BY <1>3, IndexType DEF NoStaleCompletion
<1>7. \A k \in Queued' : \A i : port'[k].key = i => port'[k].sock = Holder(i)'
  BY <1>1, IndexType DEF NoStaleCompletion
<1>8. OneOutstanding'
  BY <1>3, <1>4, <1>5 DEF OneOutstanding
<1>9. NoStaleCompletion'
  BY <1>6, <1>7 DEF NoStaleCompletion, Holder
<1> QED
  BY <1>8, <1>9

\* A step that takes a packet and posts another for the same entry keeps the
\* ownership.
LEMMA RepostKeepsOwnership ==
  ASSUME OneOutstanding, NoStaleCompletion,
         ops \subseteq Operation, port \in Seq(Packet), port # <<>>, NEW p \in Packet,
         p.key = Head(port).key, p.sock = Head(port).sock,
         port' = Append(Tail(port), p), ops' = ops,
         \A i \in Slot : Holder(i)' = Holder(i)
  PROVE  OneOutstanding' /\ NoStaleCompletion'
<1> DEFINE n == Len(port)
<1>1. Head(port) = port[1] /\ 1 \in Queued
  BY TailPort DEF Queued
<1>2. \A k \in Queued' : \/ k + 1 \in Queued /\ port'[k] = port[k + 1] /\ k \in Nat /\ k >= 1
                         \/ k = n /\ port'[k] = p
  BY TailPort, AppendPort DEF Queued
<1>3. \A k \in Queued' : \E m \in Queued : port'[k].key = port[m].key /\ port'[k].sock = port[m].sock
  BY <1>1, <1>2
<1>4. \A u \in ops', k \in Queued' : port'[k].key # u.idx
  <2> TAKE u \in ops', k \in Queued'
  <2>1. PICK m \in Queued : port'[k].key = port[m].key
    BY <1>3
  <2> QED
    BY <2>1 DEF OneOutstanding
<1>5. \A j, k \in Queued' : port'[j].key = port'[k].key => j = k
  <2> TAKE j, k \in Queued'
  <2> HAVE port'[j].key = port'[k].key
  <2>1. CASE j = n /\ k = n
    BY <2>1
  <2>2. ASSUME NEW a \in Queued', NEW b \in Queued', a = n, port'[a] = p,
               b + 1 \in Queued, port'[b] = port[b + 1], b \in Nat, b >= 1
        PROVE  port'[a].key # port'[b].key
    <3>1. b + 1 # 1
      BY <2>2
    <3>2. port[1].key # port[b + 1].key
      BY <1>1, <2>2, <3>1 DEF OneOutstanding
    <3> QED
      BY <1>1, <2>2, <3>2
  <2>3. ASSUME j + 1 \in Queued, port'[j] = port[j + 1], j \in Nat,
               k + 1 \in Queued, port'[k] = port[k + 1], k \in Nat
        PROVE  j = k
    <3>1. j + 1 = k + 1
      BY <2>3 DEF OneOutstanding
    <3> QED
      BY <2>3, <3>1
  <2> QED
    BY <1>2, <2>1, <2>2, <2>3
<1>6. \A u \in ops' : u.sock = Holder(u.idx)'
  BY IndexType DEF NoStaleCompletion
<1>7. \A k \in Queued' : \A i : port'[k].key = i => port'[k].sock = Holder(i)'
  <2> TAKE k \in Queued'
  <2> TAKE i
  <2> HAVE port'[k].key = i
  <2>1. PICK m \in Queued : i = port[m].key /\ port'[k].sock = port[m].sock
    BY <1>3
  <2>2. i \in Slot /\ port[m].sock = Holder(i)
    BY <2>1, IndexType DEF NoStaleCompletion
  <2> QED
    BY <2>1, <2>2
<1>8. OneOutstanding'
  BY <1>4, <1>5 DEF OneOutstanding
<1>9. NoStaleCompletion'
  BY <1>6, <1>7 DEF NoStaleCompletion, Holder
<1> QED
  BY <1>8, <1>9

\* A step that moves no socket between the entries keeps the accounting.
LEMMA SameSockets ==
  ASSUME SocketsAccounted, open' = open, acceptedSocket' = acceptedSocket,
         \A i \in Slot : ctx'[i].socket = ctx[i].socket
  PROVE  SocketsAccounted' /\ \A i \in Slot : Holder(i)' = Holder(i)
<1>1. \A i \in Client : ctx'[i].socket = ctx[i].socket
  BY SlotType
<1>2. {ctx'[i].socket : i \in Client} = {ctx[i].socket : i \in Client}
  BY <1>1
<1> QED
  BY <1>1, <1>2 DEF SocketsAccounted, Holder

-----------------------------------------------------------------------------
(* The initial state.                                                      *)

\* The initial state has the accept operation as its only outstanding one.
LEMMA InitIInv == Init => IInv
<1> SUFFICES ASSUME Init PROVE IInv
  OBVIOUS
<1>1. /\ acceptedSocket \in Socket /\ open = {acceptedSocket}
      /\ ops = {AcceptOp(acceptedSocket)} /\ port = <<>>
  BY DEF Init
<1>2. \A i \in Slot : ctx[i] = IF i = 0 THEN [Zeroed EXCEPT !.socket = ListenSocket] ELSE Zeroed
  BY DEF Init
<1>3. ctx[0].socket = ListenSocket
  BY <1>2, SlotType, ZeroedType DEF Zeroed
<1>4. \A i \in Client : ctx[i] = Zeroed /\ ctx[i].socket = NoSocket
  BY <1>2, SlotType, ZeroedType
<1>5. TypeOK
  <2>1. [Zeroed EXCEPT !.socket = ListenSocket] \in Context
    BY ZeroedType DEF Context
  <2>2. ctx \in [Slot -> Context]
    BY <2>1, ZeroedType DEF Init
  <2>3. ops \in SUBSET Operation
    BY <1>1, AcceptOpType
  <2>4. conn \in [Conn -> ConnState] /\ data \in [Conn -> Seq(Chunk)] /\ sent \in [Conn -> Nat]
    BY DEF Init, ConnState
  <2>5. link \in [Socket -> Conn \cup {NoConn}] /\ backlog \in Seq(Conn) /\ port \in Seq(Packet)
    BY DEF Init
  <2> QED
    BY <1>1, <2>2, <2>3, <2>4, <2>5 DEF Init, TypeOK
<1>6. OneOutstanding
  BY <1>1 DEF OneOutstanding, Queued
<1>7. NoStaleCompletion
  BY <1>1, AcceptOpType DEF NoStaleCompletion, Queued, Holder
<1>8. SocketsAccounted
  <2>1. {ctx[i].socket : i \in Client} \ {NoSocket} = {}
    BY <1>4
  <2> QED
    BY <1>1, <1>4, <2>1, ServerAssumption DEF SocketsAccounted
<1>9. FreeEntriesAreBlank
  BY <1>4 DEF FreeEntriesAreBlank
<1> QED
  BY <1>3, <1>5, <1>6, <1>7, <1>8, <1>9 DEF IInv

-----------------------------------------------------------------------------
(* The actions.                                                            *)

\* What clients do changes neither the entries nor what is outstanding.
LEMMA ClientsIInv ==
  ASSUME IInv, NEW c \in Conn,
         \/ Connect(c) \/ ClientClose(c) \/ ClientReset(c)
         \/ \E ch \in Chunks : ClientSend(c, ch)
  PROVE  IInv'
<1>1. UNCHANGED <<ctx, acceptedSocket, keysLive, alive, port, ops, open, link>>
  BY DEF Connect, ClientClose, ClientReset, ClientSend, server, kernel
<1>2. /\ conn' \in [Conn -> ConnState] /\ backlog' \in Seq(Conn)
      /\ data' \in [Conn -> Seq(Chunk)] /\ sent' \in [Conn -> Nat]
  <2> USE DEF IInv, TypeOK, ConnState
  <2>1. CASE Connect(c)
    BY <2>1 DEF Connect
  <2>2. CASE ClientClose(c)
    BY <2>2 DEF ClientClose
  <2>3. CASE ClientReset(c)
    BY <2>3 DEF ClientReset
  <2>4. ASSUME NEW ch \in Chunks, ClientSend(c, ch)
        PROVE  /\ conn' \in [Conn -> ConnState] /\ backlog' \in Seq(Conn)
               /\ data' \in [Conn -> Seq(Chunk)] /\ sent' \in [Conn -> Nat]
    <3>1. ch \in Chunk
      BY ServerAssumption
    <3> QED
      BY <2>4, <3>1 DEF ClientSend
  <2> QED
    BY <2>1, <2>2, <2>3, <2>4
<1>3. TypeOK'
  BY <1>1, <1>2 DEF IInv, TypeOK
<1>4. OneOutstanding' /\ NoStaleCompletion'
  BY <1>1 DEF IInv, OneOutstanding, NoStaleCompletion, Queued, Holder
<1>5. SocketsAccounted' /\ FreeEntriesAreBlank' /\ ctx'[0].socket = ListenSocket
  BY <1>1 DEF IInv, SocketsAccounted, FreeEntriesAreBlank
<1> QED
  BY <1>3, <1>4, <1>5 DEF IInv

\* The completed accept operation becomes the packet of entry 0.
LEMMA CompleteAcceptIInv == IInv /\ CompleteAccept => IInv'
<1> SUFFICES ASSUME IInv, CompleteAccept PROVE IInv'
  OBVIOUS
<1> USE DEF IInv, TypeOK
<1>1. PICK o \in ops :
        /\ o.idx = 0
        /\ LET ok == conn[Head(backlog)] # "rst"
           IN  /\ link' = [link EXCEPT ![o.sock] = IF ok THEN Head(backlog) ELSE NoConn]
               /\ port' = Append(port, Completion(o, 0, ok))
        /\ ops' = ops \ {o}
  BY DEF CompleteAccept
<1>2. UNCHANGED <<ctx, acceptedSocket, keysLive, alive, open, conn, data, sent>>
      /\ backlog # <<>> /\ backlog' = Tail(backlog)
  BY DEF CompleteAccept, server
<1>3. PICK p \in Packet : p.key = o.idx /\ p.sock = o.sock /\ port' = Append(port, p)
  <2> DEFINE ok == conn[Head(backlog)] # "rst"
  <2>1. o \in Operation /\ ok \in BOOLEAN /\ port' = Append(port, Completion(o, 0, ok))
    BY <1>1
  <2> HIDE DEF ok
  <2> QED
    BY <2>1, CompletionType
<1>4. Head(backlog) \in Conn /\ backlog' \in Seq(Conn)
  BY <1>2
<1>5. TypeOK'
  <2>1. link' \in [Socket -> Conn \cup {NoConn}]
    BY <1>1, <1>4
  <2>2. port' \in Seq(Packet)
    BY <1>3, AppendPort
  <2>3. ops' \in SUBSET Operation
    BY <1>1
  <2> QED
    BY <1>2, <1>4, <2>1, <2>2, <2>3
<1>6. \A i \in Slot : Holder(i)' = Holder(i)
  BY <1>2 DEF Holder
<1>7. OneOutstanding' /\ NoStaleCompletion'
  BY <1>1, <1>3, <1>6, ProduceKeepsOwnership
<1>8. SocketsAccounted' /\ FreeEntriesAreBlank' /\ ctx'[0].socket = ListenSocket
  BY <1>2 DEF SocketsAccounted, FreeEntriesAreBlank
<1> QED
  BY <1>5, <1>7, <1>8

\* An entry with an operation of its own pending is connected.
LEMMA PendingIsConnected ==
  ASSUME IInv, NEW i \in Client,
         (\E o \in ops : o.idx = i) \/ (\E k \in Queued : port[k].key = i)
  PROVE  ctx[i].socket \in Socket
<1> USE DEF IInv, TypeOK
<1>1. ASSUME NEW o \in ops, o.idx = i PROVE ctx[i].socket \in Socket
  BY <1>1, SlotType DEF NoStaleCompletion, Holder, Operation
<1>2. ASSUME NEW k \in Queued, port[k].key = i PROVE ctx[i].socket \in Socket
  <2>1. port[k] \in Packet
    BY DEF Queued
  <2> QED
    BY <1>2, <2>1, SlotType DEF NoStaleCompletion, Holder, Packet
<1> QED
  BY <1>1, <1>2

\* The entry of the packet being handled is connected.
LEMMA DequeuedIsConnected ==
  ASSUME IInv, NEW i \in Client, NEW ov, Dequeued(i, ov)
  PROVE  /\ ctx[i].socket \in Socket /\ Head(port).sock = ctx[i].socket
         /\ Head(port).key = i /\ port # <<>> /\ transferred \in Nat
         /\ port \in Seq(Packet) /\ Tail(port) \in Seq(Packet) /\ ops \subseteq Operation
<1> USE DEF IInv, TypeOK
<1>1. port # <<>> /\ Head(port).key = i
  BY DEF Dequeued
<1>2. Head(port) = port[1] /\ 1 \in Queued /\ Head(port) \in Packet /\ Tail(port) \in Seq(Packet)
  BY <1>1, TailPort DEF Queued
<1>3. ctx[i].socket \in Socket
  BY <1>1, <1>2, PendingIsConnected
<1>4. Head(port).sock = ctx[i].socket
  BY <1>1, <1>2, SlotType DEF NoStaleCompletion, Holder
<1> QED
  BY <1>1, <1>2, <1>3, <1>4 DEF Packet, transferred

\* While the packet of an entry is being handled nothing of the entry is
\* pending in the kernel: CancelIo and closesocket find nothing to cancel.
LEMMA NothingPending ==
  ASSUME IInv, NEW i \in Client, NEW ov, Dequeued(i, ov)
  PROVE  /\ \A o \in ops : o.idx # i /\ o.sock # ctx[i].socket
         /\ Kill(ops, ctx[i].socket) = ops
<1> USE DEF IInv, TypeOK
<1>1. ctx[i].socket \in Socket /\ Head(port).key = i /\ port # <<>>
  BY DequeuedIsConnected
<1>2. Head(port) = port[1] /\ 1 \in Queued
  BY <1>1, TailPort DEF Queued
<1>3. \A o \in ops : o.idx # i
  BY <1>1, <1>2 DEF OneOutstanding
<1>4. \A o \in ops : o.sock # ctx[i].socket
  <2> TAKE o \in ops
  <2>1. o.idx \in Slot /\ o.idx # i /\ o.sock = Holder(o.idx)
    BY <1>3 DEF NoStaleCompletion, Operation
  <2>2. CASE o.idx = 0
    BY <2>1, <2>2 DEF Holder, SocketsAccounted
  <2>3. CASE o.idx \in Client
    BY <1>1, <2>1, <2>3, SlotType, ServerAssumption DEF Holder, SocketsAccounted
  <2> QED
    BY <2>1, <2>2, <2>3 DEF Client
<1> QED
  BY <1>3, <1>4, KillNothing

\* A step of the kernel or of a handler for a connected entry i that leaves
\* its socket alone: what is left to show of IInv when the ownership is known.
LEMMA EntryStep ==
  ASSUME IInv, NEW i \in Client, ctx[i].socket \in Socket,
         NEW w \in Context, w.socket = ctx[i].socket,
         ctx' = [ctx EXCEPT ![i] = w],
         UNCHANGED <<acceptedSocket, open>>
  PROVE  /\ ctx' \in [Slot -> Context] /\ ctx'[0].socket = ListenSocket
         /\ SocketsAccounted' /\ FreeEntriesAreBlank'
         /\ \A j \in Slot : Holder(j)' = Holder(j)
<1> USE DEF IInv, TypeOK
<1>1. \A j \in Slot : ctx'[j] = IF j = i THEN w ELSE ctx[j]
  BY SlotType
<1>2. \A j \in Slot : ctx'[j].socket = ctx[j].socket
  BY <1>1
<1>3. FreeEntriesAreBlank'
  BY <1>1, SlotType, ServerAssumption DEF FreeEntriesAreBlank
<1> QED
  BY <1>2, <1>3, SameSockets, SlotType

\* The completed receive becomes the packet of its entry.
LEMMA CompleteRecvIInv ==
  ASSUME IInv, NEW i \in Client, CompleteRecv(i)
  PROVE  IInv'
<1> USE DEF IInv, TypeOK
<1>1. PICK o \in ops :
        /\ o.idx = i /\ ops' = ops \ {o}
        /\ \E n \in Nat, ok \in BOOLEAN : port' = Append(port, Completion(o, n, ok))
        /\ \/ UNCHANGED <<ctx, data>>
           \/ LET c == link[o.sock] IN
                /\ c # NoConn /\ data[c] # <<>>
                /\ ctx' = [ctx EXCEPT ![i].buf = Head(data[c])]
                /\ data' = [data EXCEPT ![c] = Tail(@)]
  <2>1. PICK o \in ops :
          /\ o.idx = i /\ ops' = ops \ {o}
          /\ \/ /\ port' = Append(port, Completion(o, 0, FALSE))
                /\ UNCHANGED <<ctx, data>>
             \/ /\ link[o.sock] # NoConn
                /\ LET c == link[o.sock] IN
                   \/ /\ data[c] # <<>>
                      /\ ctx' = [ctx EXCEPT ![i].buf = Head(data[c])]
                      /\ data' = [data EXCEPT ![c] = Tail(@)]
                      /\ \E n \in 1..o.len : port' = Append(port, Completion(o, n, TRUE))
                   \/ /\ port' = Append(port, Completion(o, 0, TRUE))
                      /\ UNCHANGED <<ctx, data>>
    BY DEF CompleteRecv
  <2>2. \A n \in 1..o.len : n \in Nat
    BY DEF Operation
  <2>3. \E n \in Nat, ok \in BOOLEAN : port' = Append(port, Completion(o, n, ok))
    BY <2>1, <2>2
  <2> QED
    BY <2>1, <2>3
<1>2. UNCHANGED <<acceptedSocket, keysLive, alive, open, link, conn, backlog, sent>>
  BY DEF CompleteRecv
<1>3. PICK p \in Packet : p.key = o.idx /\ p.sock = o.sock /\ port' = Append(port, p)
  BY <1>1, CompletionType
<1>4. ctx[i].socket \in Socket
  BY <1>1, PendingIsConnected
<1>5. /\ data' \in [Conn -> Seq(Chunk)]
      /\ \E w \in Context : w.socket = ctx[i].socket /\ ctx' = [ctx EXCEPT ![i] = w]
  <2>1. CASE UNCHANGED <<ctx, data>>
    <3>1. ctx[i] \in Context /\ ctx' = [ctx EXCEPT ![i] = ctx[i]]
      BY <2>1, SlotType
    <3> QED
      BY <2>1, <3>1
  <2>2. ASSUME NEW c, c = link[o.sock], c # NoConn, data[c] # <<>>,
               ctx' = [ctx EXCEPT ![i].buf = Head(data[c])],
               data' = [data EXCEPT ![c] = Tail(@)]
        PROVE  /\ data' \in [Conn -> Seq(Chunk)]
               /\ \E w \in Context : w.socket = ctx[i].socket /\ ctx' = [ctx EXCEPT ![i] = w]
    <3>1. o.sock \in Socket /\ c \in Conn
      BY <2>2 DEF Operation
    <3>2. data[c] \in Seq(Chunk) /\ Head(data[c]) \in Chunk /\ Tail(data[c]) \in Seq(Chunk)
      BY <2>2, <3>1
    <3>3. data' \in [Conn -> Seq(Chunk)]
      BY <2>2, <3>2
    <3> DEFINE w == [ctx[i] EXCEPT !.buf = Head(data[c])]
    <3>4. w \in Context /\ w.socket = ctx[i].socket
      <4>1. \A e \in Context : \A h \in Chunk :
              [e EXCEPT !.buf = h] \in Context /\ [e EXCEPT !.buf = h].socket = e.socket
        BY DEF Context
      <4>2. ctx[i] \in Context
        BY SlotType
      <4> QED
        BY <3>2, <4>1, <4>2
    <3>5. ctx' = [ctx EXCEPT ![i] = w]
      BY <2>2
    <3> QED
      BY <3>3, <3>4, <3>5
  <2> QED
    BY <1>1, <2>1, <2>2
<1>6. /\ ctx' \in [Slot -> Context] /\ ctx'[0].socket = ListenSocket
      /\ SocketsAccounted' /\ FreeEntriesAreBlank'
      /\ \A j \in Slot : Holder(j)' = Holder(j)
  BY <1>2, <1>4, <1>5, EntryStep
<1>7. OneOutstanding' /\ NoStaleCompletion'
  BY <1>1, <1>3, <1>6, ProduceKeepsOwnership
<1>8. TypeOK'
  BY <1>1, <1>2, <1>3, <1>5, <1>6, AppendPort
<1> QED
  BY <1>6, <1>7, <1>8

\* The completed send becomes the packet of its entry.
LEMMA CompleteSendIInv ==
  ASSUME IInv, NEW i \in Client, CompleteSend(i)
  PROVE  IInv'
<1> USE DEF IInv, TypeOK
<1>1. PICK o \in ops :
        /\ o.idx = i /\ ops' = ops \ {o}
        /\ \/ port' = Append(port, Completion(o, 0, FALSE))
           \/ \E n \in 0..o.len : port' = Append(port, Completion(o, n, TRUE))
  BY DEF CompleteSend
<1>2. UNCHANGED <<ctx, acceptedSocket, keysLive, alive, open, link, conn, backlog, data, sent>>
  BY DEF CompleteSend, server, peers
<1>3. PICK p \in Packet : p.key = o.idx /\ p.sock = o.sock /\ port' = Append(port, p)
  <2>1. \A n \in 0..o.len : n \in Nat
    BY DEF Operation
  <2> QED
    BY <1>1, <2>1, CompletionType
<1>4. \A j \in Slot : Holder(j)' = Holder(j)
  BY <1>2 DEF Holder
<1>5. OneOutstanding' /\ NoStaleCompletion'
  BY <1>1, <1>3, <1>4, ProduceKeepsOwnership
<1>6. SocketsAccounted' /\ FreeEntriesAreBlank' /\ ctx'[0].socket = ListenSocket
  BY <1>2 DEF SocketsAccounted, FreeEntriesAreBlank
<1>7. TypeOK'
  BY <1>1, <1>2, <1>3, AppendPort
<1> QED
  BY <1>5, <1>6, <1>7

\* The loop drops the packet of a failed operation.
LEMMA ExecFailedIInv == IInv /\ ExecFailed => IInv'
<1> SUFFICES ASSUME IInv, ExecFailed PROVE IInv'
  OBVIOUS
<1> USE DEF IInv, TypeOK
<1>1. /\ port # <<>> /\ port' = Tail(port)
      /\ UNCHANGED <<ctx, acceptedSocket, keysLive, alive, ops, open, link, conn, backlog, data, sent>>
  BY DEF ExecFailed, server, peers
<1>2. \A i \in Slot : Holder(i)' = Holder(i)
  BY <1>1 DEF Holder
<1>3. OneOutstanding' /\ NoStaleCompletion'
  <2>1. PICK T : T = {}
    OBVIOUS
  <2>2. ops' = ops \cup T /\ \A o \in T : FALSE
    BY <1>1, <2>1
  <2> QED
    BY <1>1, <1>2, <2>2, ConsumeKeepsOwnership
<1>4. SocketsAccounted' /\ FreeEntriesAreBlank' /\ ctx'[0].socket = ListenSocket
  BY <1>1 DEF SocketsAccounted, FreeEntriesAreBlank
<1>5. TypeOK'
  BY <1>1, TailPort
<1> QED
  BY <1>3, <1>4, <1>5

\* A handler that leaves entry i connected, and starts at most one operation,
\* on that entry.
LEMMA HandlerStep ==
  ASSUME IInv, NEW i \in Client, NEW ov, Dequeued(i, ov), port' = Tail(port),
         NEW o \in Operation, o.idx = i, o.sock = ctx[i].socket,
         ops' = ops \/ ops' = ops \cup {o},
         NEW w \in Context, w.socket = ctx[i].socket,
         ctx' = [ctx EXCEPT ![i] = w],
         keysLive' \in Nat, alive' \in BOOLEAN,
         UNCHANGED <<acceptedSocket, open, link, conn, backlog, data, sent>>
  PROVE  IInv'
<1> USE DEF IInv, TypeOK
<1>1. /\ ctx[i].socket \in Socket /\ Head(port).key = i /\ port # <<>>
      /\ Tail(port) \in Seq(Packet)
  BY DequeuedIsConnected
<1>2. /\ ctx' \in [Slot -> Context] /\ ctx'[0].socket = ListenSocket
      /\ SocketsAccounted' /\ FreeEntriesAreBlank'
      /\ \A j \in Slot : Holder(j)' = Holder(j)
  BY <1>1, EntryStep
<1>3. PICK T \in SUBSET {o} : ops' = ops \cup T
  <2>1. CASE ops' = ops
    <3> WITNESS {} \in SUBSET {o}
    <3> QED
      BY <2>1
  <2>2. CASE ops' = ops \cup {o}
    <3> WITNESS {o} \in SUBSET {o}
    <3> QED
      BY <2>2
  <2> QED
    BY <2>1, <2>2
<1>4. \A u \in T : u.idx = Head(port).key /\ u.sock = Holder(u.idx)'
  BY <1>1, <1>2, SlotType DEF Holder
<1>5. OneOutstanding' /\ NoStaleCompletion'
  BY <1>1, <1>2, <1>3, <1>4, ConsumeKeepsOwnership
<1>6. TypeOK'
  BY <1>1, <1>2
<1> QED
  BY <1>2, <1>5, <1>6

\* overlap_recv_handler, data received.
LEMMA ExecRecvIInv ==
  ASSUME IInv, NEW i \in Client, ExecRecv(i)
  PROVE  IInv'
<1> DEFINE c == [ctx[i] EXCEPT !.szRecv = @ + transferred]
<1>1. /\ Dequeued(i, "recv") /\ transferred > 0 /\ port' = Tail(port)
      /\ UNCHANGED <<acceptedSocket, open, link, conn, backlog, data, sent>>
  BY DEF ExecRecv, peers
<1>0. form_answ_key(i, c) \/ msg_handler(i, c)
  BY DEF ExecRecv
<1>2. ctx[i].socket \in Socket /\ transferred \in Nat
  BY <1>1, DequeuedIsConnected
<1>3. /\ ctx \in [Slot -> Context] /\ ctx[i] \in Context
      /\ keysLive \in Nat /\ alive \in BOOLEAN
  BY SlotType DEF IInv, TypeOK
<1>4. c \in Context /\ c.socket = ctx[i].socket /\ c.szRecv \in Nat \ {0}
  <2>1. ctx[i].szRecv + transferred \in Nat \ {0}
    BY <1>1, <1>2, <1>3 DEF Context
  <2> QED
    BY <1>3, <2>1 DEF Context
<1> HIDE DEF c
<1>5. CASE Abort
  <2>1. ctx' = [ctx EXCEPT ![i] = ctx[i]] /\ keysLive' \in Nat /\ alive' \in BOOLEAN
    BY <1>3, <1>5 DEF Abort
  <2>2. PICK o \in Operation : o.idx = i /\ o.sock = ctx[i].socket
    BY <1>2, <1>3, ScheduleType, SlotType
  <2>3. ops' = ops
    BY <1>5 DEF Abort
  <2> QED
    BY <1>1, <1>3, <2>1, <2>2, <2>3, HandlerStep
<1>6. CASE form_answ_key(i, c) /\ ~Abort
  <2> DEFINE w == [c EXCEPT !.szRecv = @ - 1, !.key = TRUE, !.szSendTotal = KeyAnswer]
  <2>1. /\ ctx' = [ctx EXCEPT ![i] = w]
        /\ ops' = ops \cup Started(schedule_write(i, w))
        /\ keysLive' \in Nat /\ alive' \in BOOLEAN
    BY <1>3, <1>6 DEF form_answ_key
  <2>2. w \in Context /\ w.socket = ctx[i].socket
    <3>1. c.szRecv - 1 \in Nat /\ KeyAnswer \in Nat
      BY <1>4, ServerAssumption
    <3> QED
      BY <1>4, <3>1 DEF Context
  <2> HIDE DEF w
  <2>3. PICK o \in Operation : o = schedule_write(i, w) /\ o.idx = i /\ o.sock = ctx[i].socket
    BY <1>2, <2>2, ScheduleType, SlotType
  <2>4. ops' = ops \/ ops' = ops \cup {o}
    BY <2>1, <2>3 DEF Started
  <2> QED
    BY <1>1, <2>1, <2>2, <2>3, <2>4, HandlerStep
<1>7. CASE msg_handler(i, c) /\ ~Abort
  <2>1. PICK n \in Replies \cap (0..BufLen) :
          LET w == [c EXCEPT !.szSend = 0, !.szSendTotal = n]
          IN  /\ ctx' = [ctx EXCEPT ![i] = w]
              /\ ops' = ops \cup Started(schedule_write(i, w))
    BY <1>7 DEF msg_handler, PathUnreadable
  <2> DEFINE w == [c EXCEPT !.szSend = 0, !.szSendTotal = n]
  <2>2. /\ ctx' = [ctx EXCEPT ![i] = w]
        /\ ops' = ops \cup Started(schedule_write(i, w))
        /\ keysLive' \in Nat /\ alive' \in BOOLEAN
    BY <1>3, <1>7, <2>1 DEF msg_handler, PathUnreadable
  <2>3. n \in Nat
    BY ServerAssumption
  <2>4. w \in Context /\ w.socket = ctx[i].socket
    BY <1>4, <2>3 DEF Context
  <2> HIDE DEF w
  <2>5. PICK o \in Operation : o = schedule_write(i, w) /\ o.idx = i /\ o.sock = ctx[i].socket
    BY <1>2, <2>4, ScheduleType, SlotType
  <2>6. ops' = ops \/ ops' = ops \cup {o}
    BY <2>2, <2>5 DEF Started
  <2> QED
    BY <1>1, <2>2, <2>4, <2>5, <2>6, HandlerStep
<1> QED
  BY <1>0, <1>5, <1>6, <1>7

\* overlap_send_handler.
LEMMA ExecSendIInv ==
  ASSUME IInv, NEW i \in Client, ExecSend(i)
  PROVE  IInv'
<1> DEFINE c == [ctx[i] EXCEPT !.szSend = @ + transferred]
           d == [c EXCEPT !.szRecv = 0]
<1>1. /\ Dequeued(i, "send") /\ port' = Tail(port)
      /\ \/ /\ ctx' = [ctx EXCEPT ![i] = c]
            /\ ops' = ops \cup Started(schedule_write(i, c))
         \/ /\ ctx' = [ctx EXCEPT ![i] = d]
            /\ ops' = ops \cup Started(schedule_read(i, d))
      /\ UNCHANGED <<acceptedSocket, keysLive, alive, open, link, conn, backlog, data, sent>>
  BY DEF ExecSend, peers
<1>2. ctx[i].socket \in Socket /\ transferred \in Nat
  BY <1>1, DequeuedIsConnected
<1>3. /\ ctx[i] \in Context /\ keysLive' \in Nat /\ alive' \in BOOLEAN
  BY <1>1, SlotType DEF IInv, TypeOK
<1>4. /\ c \in Context /\ c.socket = ctx[i].socket
      /\ d \in Context /\ d.socket = ctx[i].socket
  <2>1. ctx[i].szSend + transferred \in Nat
    BY <1>2, <1>3 DEF Context
  <2>2. c \in Context /\ c.socket = ctx[i].socket
    BY <1>3, <2>1 DEF Context
  <2> HIDE DEF c
  <2> QED
    BY <2>2 DEF Context
<1> HIDE DEF c, d
<1>5. ASSUME ctx' = [ctx EXCEPT ![i] = c], ops' = ops \cup Started(schedule_write(i, c))
      PROVE  IInv'
  <2>1. PICK o \in Operation : o = schedule_write(i, c) /\ o.idx = i /\ o.sock = ctx[i].socket
    BY <1>2, <1>4, ScheduleType, SlotType
  <2>2. ops' = ops \/ ops' = ops \cup {o}
    BY <1>5, <2>1 DEF Started
  <2> QED
    BY <1>1, <1>3, <1>4, <1>5, <2>1, <2>2, HandlerStep
<1>6. ASSUME ctx' = [ctx EXCEPT ![i] = d], ops' = ops \cup Started(schedule_read(i, d))
      PROVE  IInv'
  <2>1. PICK o \in Operation : o = schedule_read(i, d) /\ o.idx = i /\ o.sock = ctx[i].socket
    BY <1>2, <1>4, ScheduleType, SlotType
  <2>2. ops' = ops \/ ops' = ops \cup {o}
    BY <1>6, <2>1 DEF Started
  <2> QED
    BY <1>1, <1>3, <1>4, <1>6, <2>1, <2>2, HandlerStep
<1> QED
  BY <1>1, <1>5, <1>6

\* overlap_recv_handler, the peer has closed: a packet of the entry's own
\* replaces the one taken, and nothing is pending on its socket.
LEMMA ExecDisconnectIInv ==
  ASSUME IInv, NEW i \in Client, ExecDisconnect(i)
  PROVE  IInv'
<1> USE DEF IInv, TypeOK
<1> DEFINE p == [key |-> i, ov |-> "cancel", sock |-> ctx[i].socket, bytes |-> 0, ok |-> TRUE]
<1>1. /\ Dequeued(i, "recv") /\ ops' = Kill(ops, ctx[i].socket)
      /\ port' = Append(Tail(port), p)
      /\ UNCHANGED <<ctx, acceptedSocket, keysLive, alive, open, link, conn, backlog, data, sent>>
  BY DEF ExecDisconnect, server, peers
<1>2. /\ ctx[i].socket \in Socket /\ Head(port).sock = ctx[i].socket
      /\ Head(port).key = i /\ port # <<>> /\ Tail(port) \in Seq(Packet)
  BY <1>1, DequeuedIsConnected
<1>3. p \in Packet /\ p.key = Head(port).key /\ p.sock = Head(port).sock
  BY <1>2, SlotType DEF Packet
<1>4. ops' = ops
  BY <1>1, <1>2, NothingPending
<1>5. \A j \in Slot : Holder(j)' = Holder(j)
  BY <1>1 DEF Holder
<1> HIDE DEF p
<1>6. OneOutstanding' /\ NoStaleCompletion'
  BY <1>1, <1>2, <1>3, <1>4, <1>5, RepostKeepsOwnership
<1>7. SocketsAccounted' /\ FreeEntriesAreBlank' /\ ctx'[0].socket = ListenSocket
  BY <1>1 DEF SocketsAccounted, FreeEntriesAreBlank
<1>8. TypeOK'
  BY <1>1, <1>2, <1>3, <1>4, AppendPort
<1> QED
  BY <1>6, <1>7, <1>8

\* overlap_cancel_handler: the socket and the entry are given back together.
LEMMA ExecCancelIInv ==
  ASSUME IInv, NEW i \in Client, ExecCancel(i)
  PROVE  IInv'
<1> USE DEF IInv, TypeOK
<1> DEFINE s == ctx[i].socket
<1>1. /\ Dequeued(i, "cancel") /\ port' = Tail(port) /\ open' = open \ {s}
      /\ link' = [link EXCEPT ![s] = NoConn]
      /\ conn' = [conn EXCEPT ![link[s]] = "closed"]
      /\ data' = [data EXCEPT ![link[s]] = <<>>]
      /\ ops' = Kill(ops, s) /\ ctx' = [ctx EXCEPT ![i] = Zeroed]
      /\ UNCHANGED <<acceptedSocket, alive, backlog, sent>>
  BY DEF ExecCancel
<1>2. keysLive' \in Nat
  BY ZeroedType DEF ExecCancel
<1>3. /\ s \in Socket /\ Head(port).key = i /\ port # <<>> /\ Tail(port) \in Seq(Packet)
  BY <1>1, DequeuedIsConnected
<1>4. ops' = ops
  BY <1>1, NothingPending
<1>5. \A j \in Slot : ctx'[j] = IF j = i THEN Zeroed ELSE ctx[j]
  BY <1>1
<1>6. \A j \in Slot : j # i => Holder(j)' = Holder(j)
  BY <1>1, <1>5 DEF Holder
<1>7. OneOutstanding' /\ NoStaleCompletion'
  <2>1. PICK T : T = {}
    OBVIOUS
  <2>2. ops' = ops \cup T /\ \A o \in T : FALSE
    BY <1>4, <2>1
  <2>3. /\ OneOutstanding /\ NoStaleCompletion
        /\ ops \subseteq Operation /\ port \in Seq(Packet)
        /\ port # <<>> /\ port' = Tail(port) /\ Head(port).key = i
    BY <1>1, <1>3
  <2> HIDE DEF IInv, TypeOK, s
  <2>4. \A j \in Slot : j # Head(port).key => Holder(j)' = Holder(j)
    BY <1>6, <2>3
  <2>5. /\ \A o \in T : o.idx = Head(port).key /\ o.sock = Holder(o.idx)'
        /\ \A o, u \in T : o.idx = u.idx => o = u
    BY <2>2
  <2> QED
    BY <2>2, <2>3, <2>4, <2>5, ConsumeKeepsOwnership
<1>8. SocketsAccounted'
  <2>1. \A j \in Client : ctx'[j].socket = IF j = i THEN NoSocket ELSE ctx[j].socket
    BY <1>5, ZeroedType, SlotType
  <2>2. \A j \in Client \ {i} : ctx[j].socket # s
    BY <1>3, ServerAssumption DEF SocketsAccounted
  <2>3. s # acceptedSocket
    BY DEF SocketsAccounted
  <2>4. {ctx'[j].socket : j \in Client} \ {NoSocket}
          = ({ctx[j].socket : j \in Client} \ {NoSocket}) \ {s}
    <3> DEFINE S  == {ctx[j].socket : j \in Client}
               S1 == {ctx'[j].socket : j \in Client}
    <3>1. \A x : x \in S1 <=> x = NoSocket \/ (x \in S /\ x # s)
      BY <2>1, <2>2
    <3> QED
      BY <3>1
  <2>5. open' = {acceptedSocket'} \cup ({ctx'[j].socket : j \in Client} \ {NoSocket})
    BY <1>1, <2>3, <2>4 DEF SocketsAccounted
  <2>6. /\ \A j \in Client : ctx'[j].socket # acceptedSocket'
        /\ \A j, k \in Client : ctx'[j].socket = ctx'[k].socket /\ ctx'[j].socket # NoSocket => j = k
    BY <1>1, <2>1, ServerAssumption DEF SocketsAccounted
  <2> QED
    BY <2>5, <2>6 DEF SocketsAccounted
<1>9. FreeEntriesAreBlank'
  BY <1>5, SlotType DEF FreeEntriesAreBlank
<1>10. TypeOK' /\ ctx'[0].socket = ListenSocket
  <2>1. conn' \in [Conn -> ConnState] /\ data' \in [Conn -> Seq(Chunk)]
    <3>1. /\ link[s] \in Conn \cup {NoConn} /\ <<>> \in Seq(Chunk)
          /\ data \in [Conn -> Seq(Chunk)]
      BY <1>3
    <3> HIDE DEF s
    <3>2. conn' \in [Conn -> ConnState]
      BY <1>1, <3>1 DEF ConnState
    <3>3. data' \in [Conn -> Seq(Chunk)]
      BY <1>1, <3>1
    <3> QED
      BY <3>2, <3>3
  <2>2. ctx' \in [Slot -> Context] /\ ctx'[0].socket = ListenSocket
    BY <1>1, <1>5, ZeroedType, SlotType
  <2> QED
    BY <1>1, <1>2, <1>3, <1>4, <2>1, <2>2
<1> QED
  BY <1>7, <1>8, <1>9, <1>10

\* When the packet of entry 0 is handled the accepted socket is open, belongs
\* to no entry, and has nothing pending.
LEMMA AcceptDequeued ==
  ASSUME IInv, Dequeued(0, "recv")
  PROVE  /\ port # <<>> /\ Head(port).key = 0 /\ Tail(port) \in Seq(Packet)
         /\ transferred \in Nat
         /\ \A o \in ops : o.idx # 0 /\ o.sock # acceptedSocket
         /\ Kill(ops, acceptedSocket) = ops
<1> USE DEF IInv, TypeOK
<1>1. port # <<>> /\ Head(port).key = 0
  BY DEF Dequeued
<1>2. Head(port) = port[1] /\ 1 \in Queued /\ Head(port) \in Packet /\ Tail(port) \in Seq(Packet)
  BY <1>1, TailPort DEF Queued
<1>3. \A o \in ops : o.idx # 0
  BY <1>1, <1>2 DEF OneOutstanding
<1>4. \A o \in ops : o.sock # acceptedSocket
  <2> TAKE o \in ops
  <2>1. o.idx \in Client /\ o.sock = Holder(o.idx)
    BY <1>3 DEF NoStaleCompletion, Operation, Client
  <2> QED
    BY <2>1, SlotType DEF Holder, SocketsAccounted
<1> QED
  BY <1>1, <1>2, <1>3, <1>4, KillNothing DEF transferred, Packet

\* Entry 0 counts the bytes of the accept; nothing reads the count.
LEMMA CountAccept ==
  ASSUME IInv, transferred \in Nat
  PROVE  /\ [ctx EXCEPT ![0].szRecv = @ + transferred] \in [Slot -> Context]
         /\ \A j \in Client : [ctx EXCEPT ![0].szRecv = @ + transferred][j] = ctx[j]
         /\ [ctx EXCEPT ![0].szRecv = @ + transferred][0].socket = ListenSocket
<1> DEFINE w == [ctx[0] EXCEPT !.szRecv = @ + transferred]
<1>1. ctx \in [Slot -> Context] /\ ctx[0] \in Context /\ ctx[0].socket = ListenSocket
  BY SlotType DEF IInv, TypeOK
<1>2. ctx[0].szRecv + transferred \in Nat
  BY <1>1 DEF Context
<1>3. w \in Context /\ w.socket = ListenSocket
  BY <1>1, <1>2 DEF Context
<1>4. [ctx EXCEPT ![0].szRecv = @ + transferred] = [ctx EXCEPT ![0] = w]
  OBVIOUS
<1> HIDE DEF w
<1>5. [ctx EXCEPT ![0] = w] \in [Slot -> Context]
  BY <1>1, <1>3
<1>6. \A j \in Client : [ctx EXCEPT ![0] = w][j] = ctx[j]
  BY <1>1, SlotType
<1>7. [ctx EXCEPT ![0] = w][0].socket = ListenSocket
  BY <1>1, <1>3, SlotType
<1> QED
  BY <1>4, <1>5, <1>6, <1>7

\* add_accepted_connection finds no free entry.
LEMMA RefuseIInv ==
  ASSUME IInv, Dequeued(0, "recv"), port' = Tail(port), RefuseConnection,
         UNCHANGED <<keysLive, alive, backlog, sent>>
  PROVE  IInv'
<1> USE DEF IInv, TypeOK
<1>1. PICK s \in (Socket \ open) \cup {acceptedSocket} :
        /\ acceptedSocket' = s
        /\ open' = (Socket \ ((Socket \ open) \cup {acceptedSocket})) \cup {s}
        /\ ops' = Kill(ops, acceptedSocket) \cup {AcceptOp(s)}
  BY DEF RefuseConnection, schedule_accept
<1>2. /\ ctx' = [ctx EXCEPT ![0].szRecv = @ + transferred]
      /\ link' = [link EXCEPT ![acceptedSocket] = NoConn]
      /\ conn' = [conn EXCEPT ![link[acceptedSocket]] = "refused"]
      /\ data' = [data EXCEPT ![link[acceptedSocket]] = <<>>]
  BY DEF RefuseConnection
<1>3. /\ port # <<>> /\ Head(port).key = 0 /\ Tail(port) \in Seq(Packet) /\ transferred \in Nat
      /\ \A o \in ops : o.idx # 0 /\ o.sock # acceptedSocket
      /\ Kill(ops, acceptedSocket) = ops
  BY AcceptDequeued
<1>4. /\ ctx' \in [Slot -> Context] /\ ctx'[0].socket = ListenSocket
      /\ \A j \in Client : ctx'[j] = ctx[j]
  BY <1>2, <1>3, CountAccept
<1>5. s \in Socket /\ AcceptOp(s) \in Operation /\ AcceptOp(s).idx = 0 /\ AcceptOp(s).sock = s
  BY <1>1, AcceptOpType
<1>6. OneOutstanding' /\ NoStaleCompletion'
  <2>1. PICK T : T = {AcceptOp(s)}
    OBVIOUS
  <2>2. ops' = ops \cup T
    BY <1>1, <1>3, <2>1
  <2>3. \A o \in T : o.idx = Head(port).key /\ o.sock = Holder(o.idx)'
    BY <1>1, <1>3, <1>5, <2>1 DEF Holder
  <2>4. \A o, u \in T : o.idx = u.idx => o = u
    BY <2>1
  <2>5. \A j \in Slot : j # Head(port).key => Holder(j)' = Holder(j)
    BY <1>3, <1>4 DEF Holder, Client
  <2>6. /\ OneOutstanding /\ NoStaleCompletion /\ ops \subseteq Operation
        /\ port \in Seq(Packet) /\ port # <<>>
    BY <1>3
  <2> HIDE DEF IInv, TypeOK
  <2> QED
    BY <2>2, <2>3, <2>4, <2>5, <2>6, ConsumeKeepsOwnership
<1>7. SocketsAccounted'
  <2>1. \A j \in Client : ctx'[j].socket = ctx[j].socket
    BY <1>4
  <2>2. {ctx'[j].socket : j \in Client} = {ctx[j].socket : j \in Client}
    BY <2>1
  <2>3. open \subseteq Socket /\ \A j \in Client : ctx[j].socket # acceptedSocket
    BY DEF SocketsAccounted
  <2>4. open' = {acceptedSocket'} \cup ({ctx'[j].socket : j \in Client} \ {NoSocket})
    BY <1>1, <2>2, <2>3 DEF SocketsAccounted
  <2>5. \A j \in Client : ctx[j].socket # s
    <3> TAKE j \in Client
    <3>1. CASE s = acceptedSocket
      BY <2>3, <3>1
    <3>2. CASE s \notin open
      BY <1>5, <3>2, ServerAssumption DEF SocketsAccounted
    <3> QED
      BY <1>1, <3>1, <3>2
  <2> QED
    BY <1>1, <2>1, <2>4, <2>5 DEF SocketsAccounted
<1>8. FreeEntriesAreBlank'
  BY <1>4 DEF FreeEntriesAreBlank
<1>9. TypeOK'
  <2>1. link[acceptedSocket] \in Conn \cup {NoConn} /\ <<>> \in Seq(Chunk)
    OBVIOUS
  <2>2. conn' \in [Conn -> ConnState]
    BY <1>2, <2>1 DEF ConnState
  <2>3. data' \in [Conn -> Seq(Chunk)]
    BY <1>2, <2>1
  <2>4. open' \subseteq Socket /\ ops' \subseteq Operation /\ acceptedSocket' \in Socket
    BY <1>1, <1>3, <1>5
  <2>5. link' \in [Socket -> Conn \cup {NoConn}]
    BY <1>2
  <2> QED
    BY <1>3, <1>4, <2>2, <2>3, <2>4, <2>5
<1> QED
  BY <1>4, <1>6, <1>7, <1>8, <1>9

\* add_accepted_connection gives the socket to a free entry, on which nothing
\* can be outstanding.
LEMMA StoreIInv ==
  ASSUME IInv, Dequeued(0, "recv"), port' = Tail(port), NEW i \in Slot, StoreConnection(i),
         UNCHANGED <<keysLive, alive, backlog, sent>>
  PROVE  IInv'
<1> USE DEF IInv, TypeOK
<1> DEFINE c == [ctx[i] EXCEPT !.socket = acceptedSocket]
           x == [ctx EXCEPT ![0].szRecv = @ + transferred]
           read == schedule_read(i, c)
<1>1. /\ ctx[i].socket = NoSocket
      /\ ctx' = [ctx EXCEPT ![0].szRecv = @ + transferred, ![i] = c]
      /\ UNCHANGED <<link, conn, data>>
  BY DEF StoreConnection, FirstFree
<1>2. i \in Client
  BY <1>1, ServerAssumption DEF Client
<1>3. PICK s \in Socket \ open :
        /\ acceptedSocket' = s
        /\ open' = (Socket \ (Socket \ open)) \cup {s}
        /\ \/ ops' = (ops \cup Started(read)) \cup {AcceptOp(s)}
           \/ ops' = ops \cup {AcceptOp(s)}
  BY DEF StoreConnection, schedule_accept
<1>4. /\ port # <<>> /\ Head(port).key = 0 /\ Tail(port) \in Seq(Packet) /\ transferred \in Nat
  BY AcceptDequeued
<1>5. c \in Context /\ c.socket = acceptedSocket
  BY DEF Context
<1>6. /\ x \in [Slot -> Context] /\ x[0].socket = ListenSocket
      /\ \A j \in Client : x[j] = ctx[j]
  BY <1>4, CountAccept
<1>7. ctx' = [x EXCEPT ![i] = c]
  BY <1>1
<1>8. PICK r \in Operation : r = read /\ r.idx = i /\ r.sock = acceptedSocket
  <2>1. acceptedSocket \in Socket
    OBVIOUS
  <2> HIDE DEF c, IInv, TypeOK
  <2>2. read \in Operation /\ read.idx = i /\ read.sock = acceptedSocket
    BY <1>5, <2>1, ScheduleType
  <2> QED
    BY <2>2
<1> HIDE DEF c, x, read
<1>9. /\ ctx' \in [Slot -> Context] /\ ctx'[0].socket = ListenSocket
      /\ \A j \in Client : ctx'[j] = IF j = i THEN c ELSE ctx[j]
  BY <1>2, <1>5, <1>6, <1>7, SlotType
<1>10. AcceptOp(s) \in Operation /\ AcceptOp(s).idx = 0 /\ AcceptOp(s).sock = s
  BY AcceptOpType
<1>11. PICK T \in SUBSET {r, AcceptOp(s)} : ops' = ops \cup T
  <2>1. CASE ops' = ops \cup {AcceptOp(s)}
    <3> WITNESS {AcceptOp(s)} \in SUBSET {r, AcceptOp(s)}
    <3> QED
      BY <2>1
  <2>2. CASE ops' = (ops \cup Started(read)) \cup {AcceptOp(s)}
    <3>1. Started(read) \cup {AcceptOp(s)} \in SUBSET {r, AcceptOp(s)}
      BY <1>8, StartedSubset
    <3>2. ops' = ops \cup (Started(read) \cup {AcceptOp(s)})
      BY <2>2
    <3> QED
      BY <3>1, <3>2
  <2> QED
    BY <1>3, <2>1, <2>2
<1>12. OneOutstanding' /\ NoStaleCompletion'
  <2>1. \A o \in ops : o.idx # i
    BY <1>1, <1>2, PendingIsConnected, ServerAssumption
  <2>2. \A k \in Queued : port[k].key # i
    BY <1>1, <1>2, PendingIsConnected, ServerAssumption
  <2>3. Holder(0)' = s /\ Holder(i)' = acceptedSocket
    BY <1>2, <1>3, <1>5, <1>9, SlotType DEF Holder
  <2>4. \A o \in T : (o.idx = 0 /\ o.sock = s) \/ (o.idx = i /\ o.sock = acceptedSocket)
    <3>1. \A o \in T : o = r \/ o = AcceptOp(s)
      BY <1>11
    <3> QED
      BY <1>8, <1>10, <3>1
  <2>5. \A o, u \in T : o.idx = u.idx => o = u
    <3>1. \A o \in T : o = r \/ o = AcceptOp(s)
      BY <1>11
    <3>2. r.idx # AcceptOp(s).idx
      BY <1>2, <1>8, <1>10, SlotType
    <3> QED
      BY <3>1, <3>2
  <2>6. \A o \in T : o.sock = Holder(o.idx)'
    <3> TAKE o \in T
    <3>1. CASE o.idx = 0
      BY <1>2, <2>3, <2>4, <3>1, SlotType DEF Holder
    <3>2. CASE o.idx = i
      BY <1>2, <2>3, <2>4, <3>2, SlotType DEF Holder
    <3> QED
      BY <2>4, <3>1, <3>2
  <2>7. \A j \in Slot : j # 0 /\ j # i => Holder(j)' = Holder(j)
    BY <1>9 DEF Holder, Client
  <2>8. /\ OneOutstanding /\ NoStaleCompletion /\ ops \subseteq Operation
        /\ port \in Seq(Packet) /\ port # <<>>
    BY <1>4
  <2>9. \A o \in T : \/ o.idx = Head(port).key
                     \/ /\ \A u \in ops : u.idx # o.idx
                        /\ \A k \in Queued : port[k].key # o.idx
    BY <1>4, <2>1, <2>2, <2>4
  <2>10. \A j \in Slot :
           j # Head(port).key /\ ((\E o \in ops : o.idx = j) \/ (\E k \in Queued : port[k].key = j))
             => Holder(j)' = Holder(j)
    BY <1>4, <2>1, <2>2, <2>7
  <2> HIDE DEF IInv, TypeOK
  <2> QED
    BY <1>11, <2>5, <2>6, <2>8, <2>9, <2>10, ConsumeKeepsOwnership
<1>13. SocketsAccounted'
  <2>1. \A j \in Client : ctx'[j].socket = IF j = i THEN acceptedSocket ELSE ctx[j].socket
    BY <1>5, <1>9
  <2>2. open \subseteq Socket /\ acceptedSocket \in open /\ acceptedSocket \in Socket
        /\ NoSocket \notin Socket
    BY ServerAssumption DEF SocketsAccounted
  <2>3. open' = {acceptedSocket'} \cup ({ctx'[j].socket : j \in Client} \ {NoSocket})
    <3> DEFINE S  == {ctx[j].socket : j \in Client}
               S1 == {ctx'[j].socket : j \in Client}
    <3>1. \A y : y \in S1 \ {NoSocket} <=> y = acceptedSocket \/ y \in S \ {NoSocket}
      <4>1. \A y : y \in S1 <=> y = acceptedSocket \/ \E j \in Client \ {i} : y = ctx[j].socket
        BY <1>2, <2>1
      <4>2. \A y : y \in S <=> y = NoSocket \/ \E j \in Client \ {i} : y = ctx[j].socket
        BY <1>1, <1>2
      <4> QED
        BY <2>2, <4>1, <4>2
    <3>2. open = {acceptedSocket} \cup (S \ {NoSocket})
      BY DEF SocketsAccounted
    <3>3. open' = open \cup {s}
      BY <1>3, <2>2
    <3> HIDE DEF S, S1
    <3>4. open' = {acceptedSocket'} \cup (S1 \ {NoSocket})
      BY <1>3, <3>1, <3>2, <3>3
    <3> QED
      BY <3>4 DEF S1
  <2>4. \A j \in Client : ctx'[j].socket # s
    <3>1. \A j \in Client : ctx[j].socket # s
      BY ServerAssumption DEF SocketsAccounted
    <3> QED
      BY <2>1, <2>2, <3>1
  <2>5. \A j, k \in Client : ctx'[j].socket = ctx'[k].socket /\ ctx'[j].socket # NoSocket => j = k
    BY <2>1 DEF SocketsAccounted
  <2> QED
    BY <1>3, <2>3, <2>4, <2>5 DEF SocketsAccounted
<1>14. FreeEntriesAreBlank'
  BY <1>5, <1>9, ServerAssumption DEF FreeEntriesAreBlank
<1>15. TypeOK'
  <2>1. open' \subseteq Socket /\ ops' \subseteq Operation /\ acceptedSocket' \in Socket
    BY <1>3, <1>8, <1>10, <1>11
  <2> QED
    BY <1>1, <1>4, <1>9, <2>1
<1> QED
  BY <1>9, <1>12, <1>13, <1>14, <1>15

\* Every step preserves the inductive invariant.
LEMMA NextIInv == IInv /\ [Next]_vars => IInv'
<1> SUFFICES ASSUME IInv, [Next]_vars PROVE IInv'
  OBVIOUS
<1>1. CASE ExecFailed
  BY <1>1, ExecFailedIInv
<1>2. CASE ExecAccept
  <2>1. /\ Dequeued(0, "recv") /\ port' = Tail(port)
        /\ UNCHANGED <<keysLive, alive, backlog, sent>>
        /\ RefuseConnection \/ \E i \in Slot : StoreConnection(i)
    BY <1>2 DEF ExecAccept
  <2> QED
    BY <2>1, RefuseIInv, StoreIInv
<1>3. ASSUME NEW i \in Client, ExecDisconnect(i) PROVE IInv'
  BY <1>3, ExecDisconnectIInv
<1>4. ASSUME NEW i \in Client, ExecRecv(i) PROVE IInv'
  BY <1>4, ExecRecvIInv
<1>5. ASSUME NEW i \in Client, ExecSend(i) PROVE IInv'
  BY <1>5, ExecSendIInv
<1>6. ASSUME NEW i \in Client, ExecCancel(i) PROVE IInv'
  BY <1>6, ExecCancelIInv
<1>7. CASE CompleteAccept
  BY <1>7, CompleteAcceptIInv
<1>8. ASSUME NEW i \in Client, CompleteRecv(i) PROVE IInv'
  BY <1>8, CompleteRecvIInv
<1>9. ASSUME NEW i \in Client, CompleteSend(i) PROVE IInv'
  BY <1>9, CompleteSendIInv
<1>10. CASE Clients
  BY <1>10, ClientsIInv DEF Clients
<1>11. CASE UNCHANGED vars
  BY <1>11 DEF vars, server, kernel, peers, IInv, TypeOK, OneOutstanding, NoStaleCompletion,
               SocketsAccounted, FreeEntriesAreBlank, Queued, Holder
<1> QED
  BY <1>1, <1>2, <1>3, <1>4, <1>5, <1>6, <1>7, <1>8, <1>9, <1>10, <1>11
     DEF Next, Exec, Kernel

-----------------------------------------------------------------------------
(* The theorems.                                                           *)

\* The inductive invariant holds in every reachable state.
LEMMA Inductive == Spec => []IInv
BY InitIInv, NextIInv, PTL DEF Spec

\* Every variable keeps its type, in particular no handler ever starts an
\* operation on an entry that holds no connected socket.
THEOREM TypeCorrect == Spec => []TypeOK
<1>1. IInv => TypeOK
  BY DEF IInv
<1> QED
  BY <1>1, Inductive, PTL

\* One party at a time uses an entry of g_ctxs: the kernel, through one pending
\* operation, or the server, through one packet.  The lock-free reuse of the
\* OVERLAPPEDs and buffers by the handlers of Server.cpp rests on it.
THEOREM ExclusiveEntries == Spec => []OneOutstanding
<1>1. IInv => OneOutstanding
  BY DEF IInv
<1> QED
  BY <1>1, Inductive, PTL

\* A completion delivered under the index of an entry belongs to the client
\* that holds the entry now, although entries are reused.
THEOREM CompletionsReachTheirClient == Spec => []NoStaleCompletion
<1>1. IInv => NoStaleCompletion
  BY DEF IInv
<1> QED
  BY <1>1, Inductive, PTL

\* No socket is leaked, shared between two clients or closed while in use, on
\* any path of add_accepted_connection and overlap_cancel_handler.
THEOREM NoSocketLeak == Spec => []SocketsAccounted
<1>1. IInv => SocketsAccounted
  BY DEF IInv
<1> QED
  BY <1>1, Inductive, PTL

\* The next client given an entry inherits nothing from the last one.
THEOREM NothingInherited == Spec => []FreeEntriesAreBlank
<1>1. IInv => FreeEntriesAreBlank
  BY DEF IInv
<1> QED
  BY <1>1, Inductive, PTL

=============================================================================
