----------------------------- MODULE IocpServer -----------------------------
(***************************************************************************)
(* The server of Lab 01 (Server1/Server.cpp): one thread, `exec`, takes    *)
(* completion packets from an I/O completion port and runs one handler per *)
(* packet to its end, so a handler is one atomic step of this module.      *)
(* The kernel (sockets, pending operations, the port) and the clients run  *)
(* concurrently with it; they are modelled from how Server.cpp uses them.  *)
(*                                                                         *)
(* A connection is known to the server only as an index of g_ctxs: the     *)
(* index is the completion key, and the packet names which OVERLAPPED of   *)
(* that entry completed.  Field `sock` of operations and packets is        *)
(* history: the socket the operation was really started on, which the      *)
(* program does not see.                                                   *)
(***************************************************************************)
EXTENDS Integers, Sequences, FiniteSets

CONSTANTS
  MaxClients,    \* max_clients; g_ctxs has MaxClients + 1 entries
  Socket,        \* socket handles WSASocket may return
  ListenSocket,  \* the handle of the listening socket
  NoSocket,      \* 0, "this entry of g_ctxs is free"
  Conn,          \* the TCP connections clients may open (a bound)
  NoConn,        \* a socket that is not connected
  Chunks,        \* what one completed WSARecv may have put in buf_recv
  MaxChunks,     \* bound: chunks a client sends on one connection
  BufLen,        \* sizeof(buf_recv) = sizeof(buf_send)
  KeyAnswer,     \* length of the answer to a key message
  Replies,       \* lengths a request handler may give its reply
  Word,          \* 2^32, the range of unsigned int
  Faults,        \* which faults of the environment are enabled
  ReKey          \* whether a client may send a second key message

(***************************************************************************)
(* What a receive leaves in buf_recv.  `zero`: the first byte is 0, which  *)
(* client_send_crypt_key takes for a key message.  `good`: the bytes are   *)
(* what that branch needs, a whole public key blob if `zero`, otherwise a  *)
(* text that decrypts to a request type in 1..8.                           *)
(***************************************************************************)
Chunk == [zero : BOOLEAN, good : BOOLEAN]
IsKeyMessage(ch) == ch.zero /\ ch.good

ASSUME ServerAssumption ==
  /\ MaxClients \in Nat \ {0}
  /\ NoSocket \notin Socket /\ ListenSocket \notin Socket
  /\ ListenSocket # NoSocket
  /\ NoConn \notin Conn
  /\ Chunks \subseteq Chunk
  /\ MaxChunks \in Nat
  /\ BufLen \in Nat \ {0}
  /\ KeyAnswer \in 1..BufLen
  /\ Replies \subseteq Nat
  /\ Word \in Nat /\ Word > BufLen
  /\ Faults \subseteq {"reset", "associate"}
  /\ ReKey \in BOOLEAN

Slot     == 0..MaxClients          \* indices of g_ctxs
Client   == Slot \ {0}             \* entry 0 is the listening socket

VARIABLES
  ctx,             \* g_ctxs
  acceptedSocket,  \* g_accepted_socket
  keysLive,        \* session keys the CSP holds for this process
  alive,           \* FALSE once a handler has ended the process
  port,            \* packets queued on g_io_port, oldest first
  ops,             \* operations the kernel has accepted and not completed
  open,            \* sockets of Socket that are open
  link,            \* socket -> the connection accepted on it
  conn,            \* connection -> what its client did / whether it is closed
  backlog,         \* connections waiting to be accepted
  data,            \* connection -> chunks sent and not yet received
  sent             \* connection -> number of chunks sent

server == <<ctx, acceptedSocket, keysLive, alive>>
kernel == <<port, ops, open, link>>
peers  == <<conn, backlog, data, sent>>
vars   == <<server, kernel, peers>>

-----------------------------------------------------------------------------
(* Data.                                                                   *)

\* A client_ctx after memset(..., 0, ...): no socket, no key, empty buffers.
Zeroed == [socket |-> NoSocket, szRecv |-> 0, szSend |-> 0, szSendTotal |-> 0,
           key |-> FALSE, buf |-> [zero |-> TRUE, good |-> FALSE]]

Context   == [socket : Socket \cup {NoSocket, ListenSocket}, szRecv : Nat,
              szSend : Nat, szSendTotal : Nat, key : BOOLEAN, buf : Chunk]
Operation == [idx : Slot, ov : {"recv", "send"}, sock : Socket, len : Nat,
              dead : BOOLEAN]
Packet    == [key : Slot, ov : {"recv", "send", "cancel"}, sock : Socket,
              bytes : Nat, ok : BOOLEAN]
ConnState == {"idle", "up", "fin", "rst", "closed", "refused"}

Completion(o, n, ok) ==
  [key |-> o.idx, ov |-> o.ov, sock |-> o.sock, bytes |-> n, ok |-> ok]

\* The operation schedule_accept hands to AcceptEx (it reuses overlap_recv of
\* entry 0; the receive length is 0).
AcceptOp(s) == [idx |-> 0, ov |-> "recv", sock |-> s, len |-> 0, dead |-> FALSE]

\* schedule_read: receive into the free part of buf_recv.
schedule_read(i, c) ==
  [idx |-> i, ov |-> "recv", sock |-> c.socket,
   len |-> (BufLen - c.szRecv) % Word, dead |-> FALSE]

\* schedule_write: send what is left of buf_send.
schedule_write(i, c) ==
  [idx |-> i, ov |-> "send", sock |-> c.socket,
   len |-> (c.szSendTotal - c.szSend) % Word, dead |-> FALSE]

IsReset(s) == link[s] # NoConn /\ conn[link[s]] = "rst"

\* WSARecv and WSASend on a connection that has been reset fail at once and
\* queue no packet; the program does not look at their results.
Started(o) == IF IsReset(o.sock) THEN {} ELSE {o}

\* CancelIo and closesocket make the pending operations of a socket fail.
Kill(S, s) == {IF o.sock = s THEN [o EXCEPT !.dead = TRUE] ELSE o : o \in S}

-----------------------------------------------------------------------------
(* Initial state: the constructor has run, up to schedule_accept.          *)

Init ==
  /\ \E s \in Socket :
       /\ acceptedSocket = s
       /\ open = {s}
       /\ ops = {AcceptOp(s)}
  /\ ctx = [i \in Slot |-> IF i = 0 THEN [Zeroed EXCEPT !.socket = ListenSocket]
                                    ELSE Zeroed]
  /\ keysLive = 0
  /\ alive = TRUE
  /\ port = <<>>
  /\ link = [s \in Socket |-> NoConn]
  /\ conn = [c \in Conn |-> "idle"]
  /\ backlog = <<>>
  /\ data = [c \in Conn |-> <<>>]
  /\ sent = [c \in Conn |-> 0]

-----------------------------------------------------------------------------
(* The clients.                                                            *)

Connect(c) ==
  /\ alive
  /\ conn[c] = "idle"
  /\ conn' = [conn EXCEPT ![c] = "up"]
  /\ backlog' = Append(backlog, c)
  /\ UNCHANGED <<server, kernel, data, sent>>

\* A client sends its key message once, first, unless ReKey.
ClientSend(c, ch) ==
  /\ alive
  /\ conn[c] = "up"
  /\ sent[c] < MaxChunks
  /\ IsKeyMessage(ch) => (sent[c] = 0 \/ ReKey)
  /\ data' = [data EXCEPT ![c] = Append(@, ch)]
  /\ sent' = [sent EXCEPT ![c] = @ + 1]
  /\ UNCHANGED <<server, kernel, conn, backlog>>

ClientClose(c) ==
  /\ alive
  /\ conn[c] = "up"
  /\ conn' = [conn EXCEPT ![c] = "fin"]
  /\ UNCHANGED <<server, kernel, backlog, data, sent>>

\* The client's process is killed, or it closes with unread data.
ClientReset(c) ==
  /\ alive
  /\ "reset" \in Faults
  /\ conn[c] \in {"up", "fin"}
  /\ conn' = [conn EXCEPT ![c] = "rst"]
  /\ data' = [data EXCEPT ![c] = <<>>]
  /\ UNCHANGED <<server, kernel, backlog, sent>>

-----------------------------------------------------------------------------
(* The kernel.                                                             *)

\* AcceptEx completes with the oldest waiting connection; it fails if that
\* connection was reset while it waited.
CompleteAccept ==
  /\ alive
  /\ backlog # <<>>
  /\ \E o \in ops :
       /\ o.idx = 0
       /\ LET c  == Head(backlog)
              ok == conn[c] # "rst"
          IN  /\ link' = [link EXCEPT ![o.sock] = IF ok THEN c ELSE NoConn]
              /\ port' = Append(port, Completion(o, 0, ok))
       /\ ops' = ops \ {o}
  /\ backlog' = Tail(backlog)
  /\ UNCHANGED <<server, open, conn, data, sent>>

\* A receive completes with 1..len bytes of one chunk, with 0 bytes when the
\* client has closed (or when it was given no room), or with an error.
CompleteRecv(i) ==
  /\ alive
  /\ \E o \in ops :
       /\ o.idx = i /\ o.ov = "recv"
       /\ ops' = ops \ {o}
       /\ \/ /\ o.dead \/ IsReset(o.sock)
             /\ port' = Append(port, Completion(o, 0, FALSE))
             /\ UNCHANGED <<ctx, data>>
          \/ /\ ~o.dead
             /\ link[o.sock] # NoConn
             /\ LET c == link[o.sock] IN
                \/ /\ data[c] # <<>>
                   /\ o.len > 0
                   /\ ctx' = [ctx EXCEPT ![i].buf = Head(data[c])]
                   /\ data' = [data EXCEPT ![c] = Tail(@)]
                   /\ \E n \in 1..o.len : port' = Append(port, Completion(o, n, TRUE))
                \/ /\ \/ conn[c] = "fin" /\ data[c] = <<>>
                      \/ o.len = 0 /\ data[c] # <<>>
                   /\ port' = Append(port, Completion(o, 0, TRUE))
                   /\ UNCHANGED <<ctx, data>>
  /\ UNCHANGED <<acceptedSocket, keysLive, alive, open, link, conn, backlog, sent>>

\* A send completes with 1..len bytes (0 if it was asked to send nothing), or
\* with an error.
CompleteSend(i) ==
  /\ alive
  /\ \E o \in ops :
       /\ o.idx = i /\ o.ov = "send"
       /\ ops' = ops \ {o}
       /\ \/ /\ o.dead \/ IsReset(o.sock)
             /\ port' = Append(port, Completion(o, 0, FALSE))
          \/ /\ ~o.dead /\ ~IsReset(o.sock)
             /\ \E n \in 0..o.len :
                  /\ n = 0 <=> o.len = 0
                  /\ port' = Append(port, Completion(o, n, TRUE))
  /\ UNCHANGED <<server, open, link, peers>>

-----------------------------------------------------------------------------
(* The program: one step per packet that GetQueuedCompletionStatus takes.  *)

\* exec: the call returns FALSE both on a timeout (nothing happens) and for a
\* packet of a failed operation, which the loop drops without a look at it.
ExecFailed ==
  /\ alive
  /\ port # <<>> /\ ~Head(port).ok
  /\ port' = Tail(port)
  /\ UNCHANGED <<server, ops, open, link, peers>>

\* exec: GetQueuedCompletionStatus returns the packet of a finished operation
\* for entry i, on its OVERLAPPED ov.
Dequeued(i, ov) ==
  /\ alive
  /\ port # <<>>
  /\ Head(port).ok
  /\ Head(port).key = i
  /\ Head(port).ov = ov

transferred == Head(port).bytes

\* The search loop of add_accepted_connection stops at entry i.
FirstFree(i) ==
  /\ i < MaxClients
  /\ ctx[i].socket = NoSocket
  /\ \A j \in 0..(i - 1) : ctx[j].socket # NoSocket

TableFull == \A i \in 0..(MaxClients - 1) : ctx[i].socket # NoSocket

\* schedule_accept: a new socket, and an AcceptEx on it.  `free` are the
\* handles not in use, `others` the operations pending besides the AcceptEx.
schedule_accept(free, others) ==
  \E s \in free :
    /\ acceptedSocket' = s
    /\ open' = (Socket \ free) \cup {s}
    /\ ops' = others \cup {AcceptOp(s)}

\* Mutant: the new entry is never read from.
StoreConnection_NoRead(i) ==
  /\ FirstFree(i)
  /\ ctx' = [ctx EXCEPT ![0].szRecv = @ + transferred, ![i].socket = acceptedSocket]
  /\ schedule_accept(Socket \ open, ops)
  /\ UNCHANGED <<link, conn, data>>

\* Mutant: no further accept is started.
StoreConnection_NoAccept(i) ==
  LET c == [ctx[i] EXCEPT !.socket = acceptedSocket]
  IN  /\ FirstFree(i)
      /\ ctx' = [ctx EXCEPT ![0].szRecv = @ + transferred, ![i] = c]
      /\ ops' = ops \cup Started(schedule_read(i, c))
      /\ UNCHANGED <<acceptedSocket, open, link, conn, data>>

\* add_accepted_connection finds entry i free.  If CreateIoCompletionPort
\* fails the entry keeps its socket and no receive is started.
StoreConnection(i) ==
  LET c == [ctx[i] EXCEPT !.socket = acceptedSocket]
  IN  /\ FirstFree(i)
      /\ ctx' = [ctx EXCEPT ![0].szRecv = @ + transferred, ![i] = c]
      /\ \/ schedule_accept(Socket \ open, ops \cup Started(schedule_read(i, c)))
         \/ "associate" \in Faults /\ schedule_accept(Socket \ open, ops)
      /\ UNCHANGED <<link, conn, data>>

\* Mutant: the listening stops when the table is full.
RefuseConnection_NoAccept ==
  /\ TableFull
  /\ ctx' = [ctx EXCEPT ![0].szRecv = @ + transferred]
  /\ link' = [link EXCEPT ![acceptedSocket] = NoConn]
  /\ conn' = [conn EXCEPT ![link[acceptedSocket]] = "refused"]
  /\ data' = [data EXCEPT ![link[acceptedSocket]] = <<>>]
  /\ ops' = Kill(ops, acceptedSocket)
  /\ UNCHANGED <<acceptedSocket, open>>

\* add_accepted_connection finds no free entry and closes the new socket.
RefuseConnection ==
  /\ TableFull
  /\ ctx' = [ctx EXCEPT ![0].szRecv = @ + transferred]
  /\ link' = [link EXCEPT ![acceptedSocket] = NoConn]
  /\ conn' = [conn EXCEPT ![link[acceptedSocket]] = "refused"]
  /\ data' = [data EXCEPT ![link[acceptedSocket]] = <<>>]
  /\ schedule_accept((Socket \ open) \cup {acceptedSocket}, Kill(ops, acceptedSocket))

\* exec, key 0: add_accepted_connection, then schedule_accept.
ExecAccept ==
  /\ Dequeued(0, "recv")
  /\ port' = Tail(port)
  /\ RefuseConnection \/ \E i \in Slot : StoreConnection(i)
  /\ UNCHANGED <<keysLive, alive, backlog, sent>>

\* An assert fails: abort(); or a handler reads through a bad pointer.
Abort ==
  /\ alive' = FALSE
  /\ UNCHANGED <<ctx, keysLive, ops>>

\* form_answ_key followed by schedule_write, on the entry c = g_ctxs[i].  It
\* does not touch sz_send.
form_answ_key(i, c) ==
  \/ /\ ~c.buf.good                       \* CryptImportKey fails
     /\ Abort
  \/ /\ c.buf.good
     /\ LET w == [c EXCEPT !.szRecv = @ - 1, !.key = TRUE, !.szSendTotal = KeyAnswer]
        IN  /\ ctx' = [ctx EXCEPT ![i] = w]
            /\ ops' = ops \cup Started(schedule_write(i, w))
     /\ keysLive' = keysLive + 1
     /\ UNCHANGED alive

\* Mutant: sz_send keeps the count of the previous reply.
msg_handler_NoReset(i, c) ==
  \/ (~c.key \/ ~c.buf.good) /\ Abort
  \/ /\ c.key /\ c.buf.good
     /\ \E n \in Replies \cap (0..BufLen) :
          LET w == [c EXCEPT !.szSendTotal = n]
          IN  /\ ctx' = [ctx EXCEPT ![i] = w]
              /\ ops' = ops \cup Started(schedule_write(i, w))
     /\ UNCHANGED <<keysLive, alive>>

\* Mutant: the last byte of the reply is taken for a terminator, also when
\* the reply is empty.
msg_handler_Shorter(i, c) ==
  \/ (~c.key \/ ~c.buf.good) /\ Abort
  \/ /\ c.key /\ c.buf.good
     /\ \E n \in Replies \cap (0..BufLen) :
          LET w == [c EXCEPT !.szSend = 0, !.szSendTotal = n - 1]
          IN  /\ ctx' = [ctx EXCEPT ![i] = w]
              /\ ops' = ops \cup Started(schedule_write(i, w))
     /\ UNCHANGED <<keysLive, alive>>

\* access_right_handler and owner_handler of a path whose security data cannot
\* be read follow a pointer that was never set, which may end the process.
PathUnreadable == Abort

\* msg_handler followed by schedule_write.  The request handlers differ only
\* in the length of the reply, which may be 0, and in whether they have a path.
msg_handler(i, c) ==
  \/ /\ ~c.key \/ ~c.buf.good             \* CryptDecrypt or the type check fails
     /\ Abort
  \/ /\ c.key /\ c.buf.good
     /\ \/ PathUnreadable
        \/ \E n \in Replies : n > BufLen /\ Abort           \* CryptEncrypt fails
        \/ /\ \E n \in Replies \cap (0..BufLen) :
                LET w == [c EXCEPT !.szSend = 0, !.szSendTotal = n]
                IN  /\ ctx' = [ctx EXCEPT ![i] = w]
                    /\ ops' = ops \cup Started(schedule_write(i, w))
           /\ UNCHANGED <<keysLive, alive>>

\* Mutant: the handler goes on to the next receive.
ExecDisconnect_NoReturn(i) ==
  /\ Dequeued(i, "recv") /\ transferred = 0
  /\ ops' = Kill(ops, ctx[i].socket) \cup Started(schedule_read(i, ctx[i]))
  /\ port' = Append(Tail(port), [key |-> i, ov |-> "cancel", sock |-> ctx[i].socket,
                                 bytes |-> 0, ok |-> TRUE])
  /\ UNCHANGED <<server, open, link, peers>>

\* Mutant: the cancel packet is not posted.
ExecDisconnect_NoPost(i) ==
  /\ Dequeued(i, "recv") /\ transferred = 0
  /\ ops' = Kill(ops, ctx[i].socket)
  /\ port' = Tail(port)
  /\ UNCHANGED <<server, open, link, peers>>

\* Mutant: the entry is freed at once, the cancel packet still on its way.
ExecDisconnect_FreesNow(i) ==
  /\ Dequeued(i, "recv") /\ transferred = 0
  /\ port' = Append(Tail(port), [key |-> i, ov |-> "cancel", sock |-> ctx[i].socket,
                                 bytes |-> 0, ok |-> TRUE])
  /\ ctx' = [ctx EXCEPT ![i] = Zeroed]
  /\ open' = open \ {ctx[i].socket}
  /\ conn' = [conn EXCEPT ![link[ctx[i].socket]] = "closed"]
  /\ UNCHANGED <<acceptedSocket, keysLive, alive, ops, link, backlog, data, sent>>

\* overlap_recv_handler, transferred = 0: the peer has closed the connection.
\* The entry is freed later, when the packet posted here is dequeued.
ExecDisconnect(i) ==
  /\ Dequeued(i, "recv") /\ transferred = 0
  /\ ops' = Kill(ops, ctx[i].socket)
  /\ port' = Append(Tail(port), [key |-> i, ov |-> "cancel", sock |-> ctx[i].socket,
                                 bytes |-> 0, ok |-> TRUE])
  /\ UNCHANGED <<server, open, link, peers>>

\* overlap_recv_handler, data received.
ExecRecv(i) ==
  /\ Dequeued(i, "recv") /\ transferred > 0
  /\ port' = Tail(port)
  /\ LET c == [ctx[i] EXCEPT !.szRecv = @ + transferred]
     IN  \/ c.buf.zero /\ form_answ_key(i, c)
         \/ ~c.buf.zero /\ msg_handler(i, c)
  /\ UNCHANGED <<acceptedSocket, open, link, peers>>

\* Mutant: sz_recv is not reset for the next message.
ExecSend_NoReset(i) ==
  /\ Dequeued(i, "send")
  /\ port' = Tail(port)
  /\ LET c == [ctx[i] EXCEPT !.szSend = @ + transferred]
         more == c.szSend < c.szSendTotal /\ transferred > 0
     IN  /\ ctx' = [ctx EXCEPT ![i] = c]
         /\ ops' = ops \cup Started(IF more THEN schedule_write(i, c) ELSE schedule_read(i, c))
  /\ UNCHANGED <<acceptedSocket, keysLive, alive, open, link, peers>>

\* Mutant: the connection is not read again after a complete reply.
ExecSend_NoRead(i) ==
  /\ Dequeued(i, "send")
  /\ port' = Tail(port)
  /\ LET c == [ctx[i] EXCEPT !.szSend = @ + transferred]
         more == c.szSend < c.szSendTotal /\ transferred > 0
     IN  /\ ctx' = [ctx EXCEPT ![i] = c]
         /\ ops' = IF more THEN ops \cup Started(schedule_write(i, c)) ELSE ops
  /\ UNCHANGED <<acceptedSocket, keysLive, alive, open, link, peers>>

\* overlap_send_handler: send the rest, or wait for the next message.
ExecSend(i) ==
  /\ Dequeued(i, "send")
  /\ port' = Tail(port)
  /\ LET c == [ctx[i] EXCEPT !.szSend = @ + transferred]
         d == [c EXCEPT !.szRecv = 0]
         more == c.szSend < c.szSendTotal /\ transferred > 0
     IN  \/ /\ more
            /\ ctx' = [ctx EXCEPT ![i] = c]
            /\ ops' = ops \cup Started(schedule_write(i, c))
         \/ /\ ~more
            /\ ctx' = [ctx EXCEPT ![i] = d]
            /\ ops' = ops \cup Started(schedule_read(i, d))
  /\ UNCHANGED <<acceptedSocket, keysLive, alive, open, link, peers>>

\* Mutant: the entry is zeroed before its socket is closed.
ExecCancel_ZeroedFirst(i) ==
  /\ Dequeued(i, "cancel")
  /\ port' = Tail(port)
  /\ ctx' = [ctx EXCEPT ![i] = Zeroed]
  /\ UNCHANGED <<acceptedSocket, keysLive, alive, ops, open, link, peers>>

\* Mutant: only the socket of the entry is reset.
ExecCancel_SocketOnly(i) ==
  LET s == ctx[i].socket IN
  /\ Dequeued(i, "cancel")
  /\ port' = Tail(port)
  /\ open' = open \ {s}
  /\ link' = [link EXCEPT ![s] = NoConn]
  /\ conn' = [conn EXCEPT ![link[s]] = "closed"]
  /\ data' = [data EXCEPT ![link[s]] = <<>>]
  /\ ops' = Kill(ops, s)
  /\ ctx' = [ctx EXCEPT ![i].socket = NoSocket]
  /\ UNCHANGED <<acceptedSocket, keysLive, alive, backlog, sent>>

\* overlap_cancel_handler.  The entry is zeroed before CryptDestroyKey reads
\* the key from it, so the key destroyed is 0: none.
ExecCancel(i) ==
  LET s == ctx[i].socket
      c == link[s]
      z == Zeroed
  IN  /\ Dequeued(i, "cancel")
      /\ port' = Tail(port)
      /\ open' = open \ {s}
      /\ link' = [link EXCEPT ![s] = NoConn]
      /\ conn' = [conn EXCEPT ![c] = "closed"]
      /\ data' = [data EXCEPT ![c] = <<>>]
      /\ ops' = Kill(ops, s)
      /\ ctx' = [ctx EXCEPT ![i] = z]
      /\ keysLive' = keysLive - (IF z.key THEN 1 ELSE 0)
      /\ UNCHANGED <<acceptedSocket, alive, backlog, sent>>

-----------------------------------------------------------------------------

\* One turn of the loop of exec that takes a packet.
Exec ==
  \/ ExecFailed
  \/ ExecAccept
  \/ \E i \in Client : \/ ExecDisconnect(i) \/ ExecRecv(i)
                       \/ ExecSend(i) \/ ExecCancel(i)

Kernel ==
  \/ CompleteAccept
  \/ \E i \in Client : CompleteRecv(i) \/ CompleteSend(i)

Clients ==
  \E c \in Conn : \/ Connect(c) \/ ClientClose(c) \/ ClientReset(c)
                  \/ \E ch \in Chunks : ClientSend(c, ch)

Next == Exec \/ Kernel \/ Clients

Spec == Init /\ [][Next]_vars

\* The loop of exec never stops taking packets; the kernel completes what it
\* can complete.  Nothing is assumed of the clients.
Fairness ==
  /\ WF_vars(Exec)
  /\ WF_vars(CompleteAccept)
  /\ \A i \in Client : WF_vars(CompleteRecv(i)) /\ WF_vars(CompleteSend(i))

FairSpec == Spec /\ Fairness

-----------------------------------------------------------------------------
(* Properties.                                                             *)

\* Every variable has its type.
TypeOK ==
  /\ ctx \in [Slot -> Context]
  /\ acceptedSocket \in Socket
  /\ keysLive \in Nat
  /\ alive \in BOOLEAN
  /\ port \in Seq(Packet)
  /\ ops \in SUBSET Operation
  /\ open \in SUBSET Socket
  /\ link \in [Socket -> Conn \cup {NoConn}]
  /\ conn \in [Conn -> ConnState]
  /\ backlog \in Seq(Conn)
  /\ data \in [Conn -> Seq(Chunk)]
  /\ sent \in [Conn -> Nat]

Queued == 1..Len(port)

\* The socket entry i works on now; entry 0 works on g_accepted_socket.
Holder(i) == IF i = 0 THEN acceptedSocket ELSE ctx[i].socket

\* An entry of g_ctxs is used by one party at a time: it has at most one
\* operation pending in the kernel or one packet on its way to a handler,
\* never both.  This is what lets the handlers reuse the OVERLAPPEDs and the
\* buffers, without locks, while the kernel reads and writes them.
OneOutstanding ==
  /\ \A o1, o2 \in ops : o1.idx = o2.idx => o1 = o2
  /\ \A o \in ops, k \in Queued : port[k].key # o.idx
  /\ \A j, k \in Queued : port[j].key = port[k].key => j = k

\* An operation or a packet that carries index i as its key belongs to the
\* connection that entry i holds now, although the index is all the program
\* has: no completion of a closed connection reaches the next client that is
\* given its entry.
NoStaleCompletion ==
  /\ \A o \in ops : o.sock = Holder(o.idx)
  /\ \A k \in Queued : port[k].sock = Holder(port[k].key)

\* The open sockets are g_accepted_socket and those of the entries, each in
\* one place: none is leaked, shared by two entries or closed while in use.
SocketsAccounted ==
  /\ open = {acceptedSocket} \cup ({ctx[i].socket : i \in Client} \ {NoSocket})
  /\ \A i \in Client : ctx[i].socket # acceptedSocket
  /\ \A i, j \in Client : ctx[i].socket = ctx[j].socket /\ ctx[i].socket # NoSocket => i = j

\* An entry that is free for the next client carries nothing of the last one:
\* no session key, no counters, no received bytes.
FreeEntriesAreBlank ==
  \A i \in Client : ctx[i].socket = NoSocket => ctx[i] = Zeroed

\* The server tears a connection down only after the client has ended it:
\* `transferred == 0` in overlap_recv_handler is never the echo of a receive
\* that was started with no room left in buf_recv.
DisconnectIsReal ==
  \A k \in Queued :
    port[k].ov = "cancel" => conn[link[ctx[port[k].key].socket]] \in {"fin", "rst"}

\* What the kernel is asked to send is exactly the rest of the reply and lies
\* inside buf_send: sz_send never passes sz_send_total, over which the
\* unsigned difference in schedule_write would wrap.
SendStaysInBuffer ==
  \A o \in ops : o.ov = "send" =>
    /\ ctx[o.idx].szSend + o.len = ctx[o.idx].szSendTotal
    /\ ctx[o.idx].szSendTotal <= BufLen

\* Every connected entry has something under way that will wake the server up
\* for it, so it can be served or freed; an entry without is lost for good.
NoOrphan ==
  alive => \A i \in Client : ctx[i].socket # NoSocket =>
             \/ \E o \in ops : o.idx = i
             \/ \E k \in Queued : port[k].key = i

\* An AcceptEx is pending, or its packet is queued: the server keeps
\* accepting.
AcceptArmed ==
  alive => \/ \E o \in ops : o.idx = 0
           \/ \E k \in Queued : port[k].key = 0

\* A client that closes its connection is released: whatever the server was
\* doing for it, it finally closes its socket and frees its entry.
ClosedClientsAreReleased ==
  \A c \in Conn : conn[c] = "fin" ~> (conn[c] \in {"closed", "refused"} \/ ~alive)

\* No client waits for ever to be accepted or turned away.
NoClientWaitsForever ==
  \A c \in Conn : (\E k \in DOMAIN backlog : backlog[k] = c)
                      ~> (~alive \/ \A k \in DOMAIN backlog : backlog[k] # c)

\* What a client has sent is received: after each reply, complete or partly
\* sent first, the server comes back to read this connection.
SentIsReceived ==
  \A c \in Conn : data[c] # <<>> ~> (data[c] = <<>> \/ ~alive)

\* When a turn of the loop of exec ends in `continue`, "no operation has
\* completed in the given time" (comment at Server.cpp:76): a packet that is
\* taken from the port is never skipped.
ContinueMeansTimeout ==
  [][Len(port') < Len(port) => Head(port).ok]_vars

=============================================================================
