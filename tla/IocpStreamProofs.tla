--------------------------- MODULE IocpStreamProofs ---------------------------
(***************************************************************************)
(* Proofs about what passes through an entry of IocpServer: the lengths of *)
(* receives and sends, and that nobody is forgotten.  The hypotheses are    *)
(* those of the runs: no second key message for what is said of sends, no   *)
(* resets for the listening entry, no faults for the others.               *)
(***************************************************************************)
EXTENDS IocpServerProofs

\* What is pending in the kernel for entry i, and what of it awaits a handler.
For(T, i) == {o \in T : o.idx = i}
Pending(i) == For(ops, i)
Arrived(i) == {port[k] : k \in {m \in Queued : port[m].key = i}}

\* Some of what was sent on the connection of socket s has been taken, by the
\* server or by a reset.
Heard(s) == s \in Socket /\ link[s] # NoConn /\ Len(data[link[s]]) < sent[link[s]]

\* The client of socket s has ended its connection.
Ended(s) == s \in Socket /\ link[s] # NoConn /\ conn[link[s]] \in {"fin", "rst"}

\* What holds of an entry e for which the operations P are pending and the
\* packets Q have arrived; h: Heard, g: Ended, a: alive.  A receive always has
\* the whole buffer; a send has the rest of the reply; the counter of sent bytes
\* moves only after the first message.  Without faults nothing is cancelled and
\* nothing fails, so an entry in use has an operation or a packet.
Sound(e, P, Q, h, g, a) ==
  /\ \A o \in P :
       /\ o.ov = "recv" => o.len = BufLen
       /\ ~ReKey /\ o.ov = "send" => h /\ e.szSend + o.len = e.szSendTotal /\ e.szSendTotal <= BufLen
       /\ Faults = {} => ~o.dead
  /\ \A p \in Q :
       /\ p.ov = "cancel" \/ (p.ov = "recv" /\ p.ok /\ p.bytes = 0) => g
       /\ ~ReKey /\ p.ov = "send" /\ p.ok => h /\ e.szSend + p.bytes <= e.szSendTotal /\ e.szSendTotal <= BufLen
       /\ ~ReKey /\ p.ov = "recv" /\ p.ok /\ p.bytes > 0 => h /\ (IsKeyMessage(e.buf) => e.szSend = 0)
       /\ Faults = {} => p.ok
  /\ ~ReKey /\ ~h => e.szSend = 0
  /\ Faults = {} /\ a /\ e.socket # NoSocket => P # {} \/ Q # {}

Entries ==
  \A i \in Client :
    Sound(ctx[i], Pending(i), Arrived(i), Heard(ctx[i].socket), Ended(ctx[i].socket), alive)

\* A connection is on one socket at most, and on none as long as it waits.
Links ==
  /\ \A s, t \in Socket : link[s] = link[t] /\ link[s] # NoConn => s = t
  /\ \A k \in 1 .. Len(backlog) : conn[backlog[k]] # "idle" /\ \A s \in Socket : link[s] # backlog[k]
  /\ \A j, k \in 1 .. Len(backlog) : backlog[j] = backlog[k] => j = k
  /\ \A c \in Conn : conn[c] = "idle" => \A s \in Socket : link[s] # c

\* A key message is the first message of its connection.
KeyIsFirst ==
  \A c \in Conn :
    /\ Len(data[c]) <= sent[c]
    /\ ~ReKey => \A k \in 1 .. Len(data[c]) :
                   IsKeyMessage(data[c][k]) => k = 1 /\ Len(data[c]) = sent[c]

\* Entry 0 listens.
Listening ==
  /\ \A o \in Pending(0) : o.ov = "recv"
  /\ \A p \in Arrived(0) : p.ov = "recv" /\ ("reset" \notin Faults => p.ok)
  /\ "reset" \notin Faults /\ alive => Pending(0) # {} \/ Arrived(0) # {}

NoResets == "reset" \notin Faults => \A c \in Conn : conn[c] # "rst"

Streams == Entries /\ Links /\ KeyIsFirst /\ Listening /\ NoResets

\* Entry i is as it should be.
SoundAt(i) ==
  Sound(ctx[i], Pending(i), Arrived(i), Heard(ctx[i].socket), Ended(ctx[i].socket), alive)

-----------------------------------------------------------------------------
(* Numbers, and what is pending and has arrived after each kind of step.   *)

\* Taking the first element of a sequence.
LEMMA TailOf ==
  ASSUME NEW S, NEW q \in Seq(S), q # <<>>
  PROVE  /\ Len(Tail(q)) = Len(q) - 1 /\ Len(q) \in Nat
         /\ \A k \in 1 .. Len(Tail(q)) : k + 1 \in 1 .. Len(q) /\ Tail(q)[k] = q[k + 1]
  OBVIOUS

\* Lengths up to that of the buffer are unsigned ints.
LEMMA WordIs == \A n \in 0..BufLen : n % Word = n
BY ServerAssumption

\* The packet that is taken is all there is of its entry.
LEMMA Taken ==
  ASSUME IInv, port # <<>>, NEW i, i = Head(port).key
  PROVE  /\ Head(port) = port[1] /\ 1 \in Queued /\ Head(port) \in Packet
         /\ \A k \in Queued : port[k].key = i => k = 1
         /\ Arrived(i) = {Head(port)} /\ Pending(i) = {}
<1>0. port \in Seq(Packet) /\ OneOutstanding
  BY DEF IInv, TypeOK
<1>1. Head(port) = port[1] /\ 1 \in Queued /\ Head(port) \in Packet
  BY <1>0, TailPort DEF Queued
<1>2. \A k \in Queued : port[k].key = i => k = 1
  BY <1>0, <1>1 DEF OneOutstanding
<1>3. Arrived(i) = {Head(port)}
  BY <1>1, <1>2 DEF Arrived
<1>4. Pending(i) = {}
  BY <1>0, <1>1 DEF Pending, For, OneOutstanding
<1> QED
  BY <1>1, <1>2, <1>3, <1>4

\* A step that takes a packet and starts operations T.
LEMMA ConsumeViews ==
  ASSUME IInv, port # <<>>, NEW i, i = Head(port).key, port' = Tail(port),
         NEW T, ops' = ops \cup T
  PROVE  /\ Head(port) \in Packet /\ Arrived(i) = {Head(port)} /\ Pending(i) = {}
         /\ Arrived(i)' = {} /\ Pending(i)' = For(T, i)
         /\ \A j : j # i => /\ Arrived(j)' = Arrived(j)
                            /\ Pending(j)' = Pending(j) \cup For(T, j)
<1>0. port \in Seq(Packet) /\ OneOutstanding
  BY DEF IInv, TypeOK
<1>1. /\ Head(port) = port[1] /\ 1 \in Queued /\ Head(port) \in Packet
      /\ \A k \in Queued' : k + 1 \in Queued /\ port'[k] = port[k + 1] /\ k \in Nat /\ k >= 1
      /\ \A k \in Queued : k # 1 => k - 1 \in Queued' /\ port'[k - 1] = port[k]
  BY <1>0, TailPort DEF Queued
<1>2. /\ \A k \in Queued : port[k].key = i => k = 1
      /\ Arrived(i) = {Head(port)} /\ Pending(i) = {}
  BY Taken
<1>5. \A k \in Queued' : port'[k].key # i
  <2> TAKE k \in Queued'
  <2>1. k + 1 \in Queued /\ port'[k] = port[k + 1] /\ k \in Nat /\ k >= 1
    BY <1>1
  <2>2. k + 1 # 1
    BY <2>1
  <2> QED
    BY <1>2, <2>1, <2>2
<1>6. Arrived(i)' = {}
  BY <1>5 DEF Arrived
<1>7. ASSUME NEW j, j # i PROVE Arrived(j)' = Arrived(j)
  <2>1. ASSUME NEW p \in Arrived(j) PROVE p \in Arrived(j)'
    <3>1. PICK k \in Queued : port[k] = p /\ port[k].key = j
      BY DEF Arrived
    <3>2. k - 1 \in Queued' /\ port'[k - 1] = p
      BY <1>1, <1>7, <3>1
    <3> QED
      BY <3>1, <3>2 DEF Arrived
  <2>2. ASSUME NEW p, p \in Arrived(j)' PROVE p \in Arrived(j)
    <3>1. PICK k \in Queued' : port'[k] = p /\ port'[k].key = j
      BY <2>2 DEF Arrived
    <3> QED
      BY <1>1, <3>1 DEF Arrived
  <2> QED
    BY <2>1, <2>2
<1>8. \A j : Pending(j)' = Pending(j) \cup For(T, j)
  BY DEF Pending, For
<1> QED
  BY <1>1, <1>2, <1>6, <1>7, <1>8

\* A step that turns an operation into a packet.
LEMMA ProduceViews ==
  ASSUME IInv, NEW o \in ops, NEW p \in Packet, p.key = o.idx,
         port' = Append(port, p), ops' = ops \ {o}
  PROVE  /\ Pending(o.idx) = {o} /\ Arrived(o.idx) = {}
         /\ Pending(o.idx)' = {} /\ Arrived(o.idx)' = {p}
         /\ \A j : j # o.idx => Pending(j)' = Pending(j) /\ Arrived(j)' = Arrived(j)
<1> DEFINE i == o.idx
           n == Len(port) + 1
<1>0. port \in Seq(Packet) /\ OneOutstanding
  BY DEF IInv, TypeOK
<1>1. /\ \A k \in Queued : k \in Queued' /\ port'[k] = port[k]
      /\ n \in Queued' /\ port'[n] = p
      /\ \A k \in Queued' : k \in Queued \/ k = n
  BY <1>0, AppendPort DEF Queued
<1>2. Pending(i) = {o}
  BY <1>0 DEF Pending, For, OneOutstanding
<1>3. Arrived(i) = {}
  BY <1>0 DEF Arrived, OneOutstanding
<1>4. Pending(i)' = {} /\ \A j : j # i => Pending(j)' = Pending(j)
  BY <1>2 DEF Pending, For
<1>5. ASSUME NEW j PROVE Arrived(j)' = Arrived(j) \cup (IF j = i THEN {p} ELSE {})
  <2>1. ASSUME NEW q \in Arrived(j) PROVE q \in Arrived(j)'
    BY <1>1, <2>1 DEF Arrived
  <2>2. j = i => p \in Arrived(j)'
    BY <1>1 DEF Arrived
  <2>3. ASSUME NEW q, q \in Arrived(j)' PROVE q \in Arrived(j) \/ (j = i /\ q = p)
    BY <1>1, <2>3 DEF Arrived
  <2> QED
    BY <2>1, <2>2, <2>3
<1> QED
  BY <1>2, <1>3, <1>4, <1>5

\* A step that takes a packet and posts another one for the same entry.
LEMMA RepostViews ==
  ASSUME IInv, port # <<>>, NEW i, i = Head(port).key, NEW p \in Packet, p.key = i,
         port' = Append(Tail(port), p), ops' = ops
  PROVE  /\ Head(port) \in Packet /\ Arrived(i) = {Head(port)} /\ Pending(i) = {}
         /\ Arrived(i)' = {p} /\ Pending(i)' = {}
         /\ \A j : j # i => Arrived(j)' = Arrived(j) /\ Pending(j)' = Pending(j)
<1> DEFINE n == Len(port)
<1>0. port \in Seq(Packet) /\ OneOutstanding
  BY DEF IInv, TypeOK
<1>1. /\ Head(port) = port[1] /\ 1 \in Queued /\ Head(port) \in Packet
      /\ n \in Queued' /\ port'[n] = p
      /\ \A k \in Queued' : \/ k + 1 \in Queued /\ port'[k] = port[k + 1] /\ k \in Nat /\ k >= 1
                            \/ k = n
      /\ \A k \in Queued : k # 1 => k - 1 \in Queued' /\ port'[k - 1] = port[k]
  BY <1>0, TailPort, AppendPort DEF Queued
<1>2. /\ \A k \in Queued : port[k].key = i => k = 1
      /\ Arrived(i) = {Head(port)} /\ Pending(i) = {}
  BY Taken
<1>5. ASSUME NEW k \in Queued', port'[k].key = i PROVE port'[k] = p
  <2>1. CASE k + 1 \in Queued /\ port'[k] = port[k + 1] /\ k \in Nat /\ k >= 1
    <3>1. k + 1 # 1
      BY <2>1
    <3> QED
      BY <1>2, <1>5, <2>1, <3>1
  <2> QED
    BY <1>1, <2>1
<1>6. Arrived(i)' = {p}
  BY <1>1, <1>5 DEF Arrived
<1>7. ASSUME NEW j, j # i PROVE Arrived(j)' = Arrived(j)
  <2>1. ASSUME NEW q \in Arrived(j) PROVE q \in Arrived(j)'
    <3>1. PICK k \in Queued : port[k] = q /\ port[k].key = j
      BY DEF Arrived
    <3>2. k - 1 \in Queued' /\ port'[k - 1] = q
      BY <1>1, <1>7, <3>1
    <3> QED
      BY <3>1, <3>2 DEF Arrived
  <2>2. ASSUME NEW q, q \in Arrived(j)' PROVE q \in Arrived(j)
    <3>1. PICK k \in Queued' : port'[k] = q /\ port'[k].key = j
      BY <2>2 DEF Arrived
    <3>2. k # n
      BY <1>1, <1>7, <3>1
    <3> QED
      BY <1>1, <3>1, <3>2 DEF Arrived
  <2> QED
    BY <2>1, <2>2
<1>8. \A j : Pending(j)' = Pending(j)
  BY DEF Pending, For
<1> QED
  BY <1>1, <1>2, <1>6, <1>7, <1>8
-----------------------------------------------------------------------------
(* The connections.                                                        *)

\* What a step may do to the chunks on their way: take the first, drop them
\* all, or add one that is not a late key message.
DataStep ==
  \A c \in Conn :
    \/ data'[c] = data[c] /\ sent'[c] = sent[c]
    \/ data'[c] = <<>> /\ sent'[c] = sent[c]
    \/ data[c] # <<>> /\ data'[c] = Tail(data[c]) /\ sent'[c] = sent[c]
    \/ \E ch \in Chunk : /\ data'[c] = Append(data[c], ch) /\ sent'[c] = sent[c] + 1
                         /\ IsKeyMessage(ch) => sent[c] = 0 \/ ReKey

\* Such a step keeps key messages first, and does not forget that something
\* was received.
LEMMA DataStepKeeps ==
  ASSUME IInv, KeyIsFirst, DataStep
  PROVE  /\ KeyIsFirst'
         /\ \A c \in Conn : Len(data[c]) < sent[c] => Len(data'[c]) < sent'[c]
<1> SUFFICES ASSUME NEW c \in Conn
             PROVE  /\ Len(data'[c]) <= sent'[c]
                    /\ ~ReKey => \A k \in 1 .. Len(data'[c]) :
                                   IsKeyMessage(data'[c][k]) => k = 1 /\ Len(data'[c]) = sent'[c]
                    /\ Len(data[c]) < sent[c] => Len(data'[c]) < sent'[c]
  BY DEF KeyIsFirst
<1> DEFINE d == data[c]
           n == sent[c]
<1>1. /\ d \in Seq(Chunk) /\ n \in Nat /\ Len(d) <= n
      /\ ~ReKey => \A k \in 1 .. Len(d) : IsKeyMessage(d[k]) => k = 1 /\ Len(d) = n
  BY DEF IInv, TypeOK, KeyIsFirst
<1>2. \/ data'[c] = d /\ sent'[c] = n
      \/ data'[c] = <<>> /\ sent'[c] = n
      \/ d # <<>> /\ data'[c] = Tail(d) /\ sent'[c] = n
      \/ \E ch \in Chunk : /\ data'[c] = Append(d, ch) /\ sent'[c] = n + 1
                           /\ IsKeyMessage(ch) => n = 0 \/ ReKey
  BY DEF DataStep
<1> HIDE DEF d, n
<1>3. CASE data'[c] = d /\ sent'[c] = n
  BY <1>1, <1>3 DEF d, n
<1>4. CASE data'[c] = <<>> /\ sent'[c] = n
  BY <1>1, <1>4 DEF d, n
<1>5. CASE d # <<>> /\ data'[c] = Tail(d) /\ sent'[c] = n
  <2>1. /\ Len(Tail(d)) = Len(d) - 1 /\ Len(d) \in Nat
        /\ \A k \in 1 .. Len(Tail(d)) : k + 1 \in 1 .. Len(d) /\ Tail(d)[k] = d[k + 1]
    BY <1>1, <1>5, TailOf
  <2>2. ASSUME ~ReKey, NEW k \in 1 .. Len(Tail(d)), IsKeyMessage(Tail(d)[k]) PROVE FALSE
    <3>1. k + 1 \in 1 .. Len(d) /\ Tail(d)[k] = d[k + 1]
      BY <2>1
    <3>2. k + 1 # 1
      BY <2>1
    <3> QED
      BY <1>1, <2>2, <3>1, <3>2
  <2>3. ~ReKey => \A k \in 1 .. Len(data'[c]) :
                    IsKeyMessage(data'[c][k]) => k = 1 /\ Len(data'[c]) = sent'[c]
    BY <1>5, <2>2
  <2>4. Len(data'[c]) <= sent'[c] /\ Len(data'[c]) < sent'[c]
    <3>1. Len(d) - 1 < n /\ Len(d) - 1 <= n
      BY <1>1, <2>1
    <3> QED
      BY <1>5, <2>1, <3>1
  <2> QED
    BY <2>3, <2>4
<1>6. ASSUME NEW ch \in Chunk, data'[c] = Append(d, ch), sent'[c] = n + 1,
             IsKeyMessage(ch) => n = 0 \/ ReKey
      PROVE  /\ Len(data'[c]) <= sent'[c]
             /\ ~ReKey => \A k \in 1 .. Len(data'[c]) :
                            IsKeyMessage(data'[c][k]) => k = 1 /\ Len(data'[c]) = sent'[c]
             /\ Len(data[c]) < sent[c] => Len(data'[c]) < sent'[c]
  <2>1. Len(Append(d, ch)) = Len(d) + 1 /\ Len(d) \in Nat
    BY <1>1
  <2>2. ASSUME ~ReKey, NEW k \in 1 .. Len(Append(d, ch)), IsKeyMessage(Append(d, ch)[k])
        PROVE  k = 1 /\ Len(d) = n
    <3>1. CASE k \in 1 .. Len(d)
      <4>1. Append(d, ch)[k] = d[k]
        BY <1>1, <3>1
      <4> QED
        BY <1>1, <2>2, <3>1, <4>1
    <3>2. CASE k = Len(d) + 1
      <4>1. Append(d, ch)[k] = ch
        BY <1>1, <3>2
      <4> QED
        BY <1>1, <1>6, <2>1, <2>2, <3>2, <4>1
    <3> QED
      BY <2>1, <3>1, <3>2
  <2>3. ~ReKey => \A k \in 1 .. Len(data'[c]) :
                    IsKeyMessage(data'[c][k]) => k = 1 /\ Len(data'[c]) = sent'[c]
    BY <1>6, <2>1, <2>2
  <2>4. Len(data'[c]) <= sent'[c] /\ (Len(d) < n => Len(data'[c]) < sent'[c])
    BY <1>1, <1>6, <2>1
  <2> QED
    BY <2>3, <2>4 DEF d, n
<1> QED
  BY <1>2, <1>3, <1>4, <1>5, <1>6

\* A connection on which something was received, or which its client has
\* ended, stays so as long as its socket stays with it.
LEMMA LinkKept ==
  ASSUME IInv, KeyIsFirst, DataStep, NEW s,
         s \in Socket => /\ link'[s] = link[s]
                         /\ Ended(s) => conn'[link[s]] \in {"fin", "rst"}
  PROVE  (Heard(s) => Heard(s)') /\ (Ended(s) => Ended(s)')
<1>1. ASSUME Heard(s) PROVE Heard(s)'
  <2>1. s \in Socket /\ link[s] \in Conn /\ link'[s] = link[s] /\ link[s] # NoConn
    BY <1>1 DEF Heard, IInv, TypeOK
  <2>2. Len(data'[link[s]]) < sent'[link[s]]
    BY <1>1, <2>1, DataStepKeeps DEF Heard
  <2> QED
    BY <2>1, <2>2 DEF Heard
<1>2. ASSUME Ended(s) PROVE Ended(s)'
  BY <1>2 DEF Ended
<1> QED
  BY <1>1, <1>2

\* The entry says no less when more is known of its connection.
LEMMA SoundKept ==
  ASSUME NEW e, NEW P, NEW Q, NEW h, NEW g, NEW a, NEW h2, NEW g2, NEW a2,
         Sound(e, P, Q, h, g, a), h => h2, g => g2, a2 => a
  PROVE  Sound(e, P, Q, h2, g2, a2)
BY DEF Sound

\* An entry that a step does not concern stays as it should be.
LEMMA OtherEntry ==
  ASSUME IInv, Streams, DataStep, NEW j \in Client, alive' => alive,
         ctx'[j] = ctx[j], Pending(j)' = Pending(j), Arrived(j)' = Arrived(j),
         ctx[j].socket \in Socket =>
           /\ link'[ctx[j].socket] = link[ctx[j].socket]
           /\ Ended(ctx[j].socket) => conn'[link[ctx[j].socket]] \in {"fin", "rst"}
  PROVE  SoundAt(j)'
<1>1. PICK s : s = ctx[j].socket /\ s = ctx'[j].socket
  OBVIOUS
<1>2. (Heard(s) => Heard(s)') /\ (Ended(s) => Ended(s)')
  BY <1>1, LinkKept DEF Streams
<1>3. Sound(ctx[j], Pending(j), Arrived(j), Heard(s), Ended(s), alive)
  BY <1>1 DEF Streams, Entries
<1>4. Sound(ctx[j], Pending(j), Arrived(j), Heard(s)', Ended(s)', alive')
  BY <1>2, <1>3, SoundKept
<1>5. Sound(ctx'[j], Pending(j)', Arrived(j)', Heard(s)', Ended(s)', alive')
  BY <1>4
<1>6. Heard(ctx[j].socket)' = Heard(s)' /\ Ended(ctx[j].socket)' = Ended(s)'
  BY <1>1
<1> QED
  BY <1>5, <1>6 DEF SoundAt

\* A socket may lose its connection, and a connection is idle only at first.
LEMMA LinksLess ==
  ASSUME IInv, Links, backlog' = backlog,
         \A s \in Socket : link'[s] = link[s] \/ link'[s] = NoConn,
         \A c \in Conn : conn'[c] = "idle" => conn[c] = "idle"
  PROVE  Links'
<1>1. \A k \in 1 .. Len(backlog) : backlog[k] \in Conn /\ backlog[k] # NoConn
  BY ServerAssumption DEF IInv, TypeOK
<1>2. \A s, t \in Socket : link'[s] = link'[t] /\ link'[s] # NoConn => s = t
  BY DEF Links
<1>3. \A k \in 1 .. Len(backlog) : conn'[backlog[k]] # "idle" /\ \A s \in Socket : link'[s] # backlog[k]
  BY <1>1 DEF Links
<1>4. \A c \in Conn : conn'[c] = "idle" => \A s \in Socket : link'[s] # c
  BY ServerAssumption DEF Links
<1> QED
  BY <1>2, <1>3, <1>4 DEF Links

\* The sockets of the entries are those of Socket, and not the one to be
\* accepted next.
LEMMA EntrySocket ==
  ASSUME IInv, NEW j \in Client
  PROVE  /\ ctx[j] \in Context /\ ctx[j].socket # acceptedSocket
         /\ \A i \in Client : i # j /\ ctx[j].socket \in Socket => ctx[i].socket # ctx[j].socket
BY SlotType, ServerAssumption DEF IInv, TypeOK, SocketsAccounted

-----------------------------------------------------------------------------
(* The initial state and the steps.                                        *)

\* At first only entry 0 has something pending.
LEMMA InitStreams == Init => Streams
<1> SUFFICES ASSUME Init PROVE Streams
  OBVIOUS
<1>1. /\ acceptedSocket \in Socket /\ ops = {AcceptOp(acceptedSocket)} /\ port = <<>>
      /\ backlog = <<>> /\ \A s \in Socket : link[s] = NoConn
      /\ \A c \in Conn : conn[c] = "idle" /\ data[c] = <<>> /\ sent[c] = 0
  BY DEF Init
<1>2. \A j \in Client : ctx[j] = Zeroed
  BY SlotType DEF Init
<1>3. \A j : Arrived(j) = {}
  BY <1>1 DEF Arrived, Queued
<1>4. \A j \in Client : Pending(j) = {}
  BY <1>1, AcceptOpType, SlotType DEF Pending, For
<1>5. Pending(0) = {AcceptOp(acceptedSocket)} /\ AcceptOp(acceptedSocket).ov = "recv"
  BY <1>1, AcceptOpType DEF Pending, For, AcceptOp
<1>6. Entries
  <2>1. Zeroed.szSend = 0 /\ Zeroed.socket = NoSocket
    BY DEF Zeroed
  <2> QED
    BY <1>2, <1>3, <1>4, <2>1 DEF Entries, Sound
<1>7. Links
  BY <1>1, ServerAssumption DEF Links
<1>8. KeyIsFirst
  BY <1>1 DEF KeyIsFirst
<1>9. Listening
  BY <1>3, <1>5 DEF Listening
<1>10. NoResets
  BY <1>1 DEF NoResets
<1> QED
  BY <1>6, <1>7, <1>8, <1>9, <1>10 DEF Streams

\* What a client does.
LEMMA ClientsStreams ==
  ASSUME IInv, Streams, NEW c \in Conn,
         \/ Connect(c) \/ ClientClose(c) \/ ClientReset(c)
         \/ \E ch \in Chunks : ClientSend(c, ch)
  PROVE  Streams'
<1> USE DEF IInv, TypeOK
<1>0. Links
  BY DEF Streams
<1>1. UNCHANGED <<ctx, alive, port, ops, link>>
  BY DEF Connect, ClientClose, ClientReset, ClientSend, server, kernel
<1>2. DataStep
  <2>1. CASE UNCHANGED <<data, sent>>
    BY <2>1 DEF DataStep
  <2>2. CASE data' = [data EXCEPT ![c] = <<>>] /\ UNCHANGED sent
    BY <2>2 DEF DataStep
  <2>3. ASSUME NEW ch \in Chunks, ClientSend(c, ch) PROVE DataStep
    <3>1. ch \in Chunk
      BY ServerAssumption
    <3>2. \A x \in Conn : /\ data'[x] = IF x = c THEN Append(data[c], ch) ELSE data[x]
                          /\ sent'[x] = IF x = c THEN sent[c] + 1 ELSE sent[x]
      BY <2>3 DEF ClientSend
    <3>3. IsKeyMessage(ch) => sent[c] = 0 \/ ReKey
      BY <2>3 DEF ClientSend
    <3> QED
      BY <3>1, <3>2, <3>3 DEF DataStep
  <2> QED
    BY <2>1, <2>2, <2>3 DEF Connect, ClientClose, ClientReset
<1>3. \A x \in Conn : /\ conn[x] \in {"fin", "rst"} => conn'[x] \in {"fin", "rst"}
                      /\ conn'[x] = "idle" => conn[x] = "idle"
                      /\ "reset" \notin Faults /\ conn'[x] = "rst" => conn[x] = "rst"
  BY DEF Connect, ClientClose, ClientReset, ClientSend
<1>4. Entries'
  <2> SUFFICES ASSUME NEW j \in Client PROVE SoundAt(j)'
    BY DEF Entries, SoundAt
  <2>1. ctx'[j] = ctx[j] /\ Pending(j)' = Pending(j) /\ Arrived(j)' = Arrived(j) /\ alive' = alive
    BY <1>1 DEF Pending, For, Arrived, Queued
  <2>2. ctx[j].socket \in Socket =>
           /\ link'[ctx[j].socket] = link[ctx[j].socket]
           /\ Ended(ctx[j].socket) => conn'[link[ctx[j].socket]] \in {"fin", "rst"}
    BY <1>1, <1>3 DEF Ended
  <2> HIDE DEF IInv, TypeOK
  <2> QED
    BY <1>2, <2>1, <2>2, OtherEntry
<1>5. Links'
  <2>1. CASE Connect(c)
    <3>1. /\ conn[c] = "idle" /\ conn'[c] = "up" /\ backlog' = Append(backlog, c)
          /\ \A x \in Conn : x # c => conn'[x] = conn[x]
      BY <2>1 DEF Connect
    <3>2. /\ Len(backlog') = Len(backlog) + 1 /\ Len(backlog) \in Nat
          /\ backlog'[Len(backlog) + 1] = c
          /\ \A k \in 1 .. Len(backlog) : backlog'[k] = backlog[k] /\ backlog[k] \in Conn /\ backlog[k] # c
      BY <1>0, <3>1 DEF Links
    <3>3. \A k \in 1 .. Len(backlog') : k \in 1 .. Len(backlog) \/ k = Len(backlog) + 1
      BY <3>2
    <3>4. \A s \in Socket : link[s] # c
      BY <1>0, <3>1 DEF Links
    <3>5. ASSUME NEW k \in 1 .. Len(backlog')
          PROVE  conn'[backlog'[k]] # "idle" /\ \A s \in Socket : link[s] # backlog'[k]
      <4>1. CASE k \in 1 .. Len(backlog)
        <5>1. conn[backlog[k]] # "idle" /\ \A s \in Socket : link[s] # backlog[k]
          BY <1>0, <4>1 DEF Links
        <5> QED
          BY <3>1, <3>2, <4>1, <5>1
      <4>2. CASE k = Len(backlog) + 1
        BY <3>1, <3>2, <3>4, <4>2
      <4> QED
        BY <3>3, <4>1, <4>2
    <3>6. \A k, m \in 1 .. Len(backlog') : backlog'[k] = backlog'[m] => k = m
      <4>1. ASSUME NEW k \in 1 .. Len(backlog'), NEW m \in 1 .. Len(backlog'), backlog'[k] = backlog'[m]
            PROVE  k = m
        <5>1. CASE k \in 1 .. Len(backlog) /\ m \in 1 .. Len(backlog)
          BY <1>0, <3>2, <4>1, <5>1 DEF Links
        <5>2. CASE k = Len(backlog) + 1 \/ m = Len(backlog) + 1
          BY <3>2, <3>3, <4>1, <5>2
        <5> QED
          BY <3>3, <5>1, <5>2
      <4> QED
        BY <4>1
    <3>7. \A x \in Conn : conn'[x] = "idle" => \A s \in Socket : link[s] # x
      BY <1>0, <1>3 DEF Links
    <3>8. \A s, t \in Socket : link[s] = link[t] /\ link[s] # NoConn => s = t
      BY <1>0 DEF Links
    <3> QED
      BY <1>1, <3>5, <3>6, <3>7, <3>8 DEF Links
  <2>2. CASE backlog' = backlog
    BY <1>1, <1>3, <2>2, LinksLess DEF Streams
  <2> QED
    BY <2>1, <2>2 DEF ClientClose, ClientReset, ClientSend
<1>6. KeyIsFirst'
  BY <1>2, DataStepKeeps DEF Streams
<1>7. Listening'
  <2>1. Pending(0)' = Pending(0) /\ Arrived(0)' = Arrived(0)
    BY <1>1 DEF Pending, For, Arrived, Queued
  <2> QED
    BY <1>1, <2>1 DEF Streams, Listening
<1>8. NoResets'
  BY <1>3 DEF Streams, NoResets
<1> QED
  BY <1>4, <1>5, <1>6, <1>7, <1>8 DEF Streams

\* A connection is accepted.
LEMMA CompleteAcceptStreams == IInv /\ Streams /\ CompleteAccept => Streams'
<1> SUFFICES ASSUME IInv, Streams, CompleteAccept PROVE Streams'
  OBVIOUS
<1> DEFINE c == Head(backlog)
           ok == conn[c] # "rst"
<1>1. PICK o \in ops :
        /\ o.idx = 0 /\ ops' = ops \ {o}
        /\ link' = [link EXCEPT ![o.sock] = IF ok THEN c ELSE NoConn]
        /\ port' = Append(port, Completion(o, 0, ok))
  BY DEF CompleteAccept
<1>2. /\ UNCHANGED <<ctx, alive, conn, data, sent>>
      /\ backlog # <<>> /\ backlog' = Tail(backlog)
  BY DEF CompleteAccept, server
<1>3. /\ o \in Operation /\ o.sock \in Socket /\ o.sock = acceptedSocket
      /\ link \in [Socket -> Conn \cup {NoConn}] /\ backlog \in Seq(Conn)
  BY <1>1 DEF IInv, TypeOK, Operation, NoStaleCompletion, Holder
<1>4. PICK p : /\ p \in Packet /\ p.key = 0 /\ p.ov = o.ov /\ p.ok = ok
               /\ port' = Append(port, p)
  <2>1. ok \in BOOLEAN /\ o \in Operation /\ o.idx = 0 /\ 0 \in Nat
    BY <1>1, <1>3
  <2> HIDE DEF ok
  <2>3. Completion(o, 0, ok) \in Packet /\ Completion(o, 0, ok).key = 0
    BY <2>1, CompletionType
  <2>2. Completion(o, 0, ok).ov = o.ov /\ Completion(o, 0, ok).ok = ok
    BY DEF Completion
  <2> QED
    BY <1>1, <2>2, <2>3
<1>5. /\ Pending(0) = {o} /\ Pending(0)' = {} /\ Arrived(0)' = {p}
      /\ \A j : j # 0 => Pending(j)' = Pending(j) /\ Arrived(j)' = Arrived(j)
  BY <1>1, <1>4, ProduceViews
<1>6. DataStep
  BY <1>2 DEF DataStep
<1>7. Links /\ NoResets /\ Listening
  BY DEF Streams
<1>8. /\ Len(backlog) \in Nat /\ 1 \in 1 .. Len(backlog) /\ c = backlog[1] /\ c \in Conn
      /\ \A k \in 1 .. Len(backlog') : /\ k + 1 \in 1 .. Len(backlog) /\ backlog'[k] = backlog[k + 1]
                                       /\ backlog[k + 1] # c
  <2>1. /\ Len(backlog) \in Nat /\ 1 \in 1 .. Len(backlog) /\ c = backlog[1] /\ c \in Conn
    BY <1>2, <1>3
  <2>2. ASSUME NEW k \in 1 .. Len(backlog')
        PROVE  k + 1 \in 1 .. Len(backlog) /\ backlog'[k] = backlog[k + 1] /\ k + 1 # 1
    BY <1>2, <1>3, <2>1, TailOf
  <2> QED
    BY <1>7, <2>1, <2>2 DEF Links
<1>9. Entries'
  <2> SUFFICES ASSUME NEW j \in Client PROVE SoundAt(j)'
    BY DEF Entries, SoundAt
  <2>1. /\ ctx'[j] = ctx[j] /\ Pending(j)' = Pending(j) /\ Arrived(j)' = Arrived(j)
        /\ alive' = alive
    BY <1>2, <1>5, SlotType
  <2>2. ctx[j].socket \in Socket =>
          /\ link'[ctx[j].socket] = link[ctx[j].socket]
          /\ Ended(ctx[j].socket) => conn'[link[ctx[j].socket]] \in {"fin", "rst"}
    BY <1>1, <1>2, <1>3, EntrySocket DEF Ended
  <2> QED
    BY <1>6, <2>1, <2>2, OtherEntry
<1>10. Links'
  <2>1. \A s \in Socket : link'[s] = link[s] \/ link'[s] = NoConn \/ (s = o.sock /\ link'[s] = c)
    <3>1. PICK v \in {c, NoConn} : link' = [link EXCEPT ![o.sock] = v]
      BY <1>1
    <3> HIDE DEF c
    <3> QED
      BY <1>3, <3>1
  <2>2. \A s \in Socket : link[s] # c
    BY <1>7, <1>8 DEF Links
  <2> HIDE DEF c
  <2>3. \A s, t \in Socket : link'[s] = link'[t] /\ link'[s] # NoConn => s = t
    BY <1>7, <2>1, <2>2 DEF Links
  <2>4. ASSUME NEW k \in 1 .. Len(backlog')
        PROVE  conn'[backlog'[k]] # "idle" /\ \A s \in Socket : link'[s] # backlog'[k]
    <3>1. backlog'[k] \in Conn /\ backlog'[k] # NoConn
      BY <1>3, <1>8, ServerAssumption
    <3> QED
      BY <1>2, <1>7, <1>8, <2>1, <3>1 DEF Links
  <2>5. ASSUME NEW k \in 1 .. Len(backlog'), NEW m \in 1 .. Len(backlog'), backlog'[k] = backlog'[m]
        PROVE  k = m
    <3>1. k + 1 = m + 1
      BY <1>7, <1>8, <2>5 DEF Links
    <3> QED
      BY <3>1
  <2>6. conn[c] # "idle"
    BY <1>7, <1>8 DEF Links, c
  <2>7. \A x \in Conn : conn'[x] = "idle" => \A s \in Socket : link'[s] # x
    BY <1>2, <1>7, <2>1, <2>6, ServerAssumption DEF Links
  <2> QED
    BY <2>3, <2>4, <2>5, <2>7 DEF Links
<1>11. KeyIsFirst'
  BY <1>6, DataStepKeeps DEF Streams
<1>12. NoResets'
  BY <1>2, <1>7 DEF NoResets
<1>13. Listening'
  <2>1. o.ov = "recv"
    BY <1>5, <1>7 DEF Listening
  <2>2. "reset" \notin Faults => ok
    BY <1>7, <1>8 DEF NoResets
  <2> HIDE DEF ok
  <2> QED
    BY <1>4, <1>5, <2>1, <2>2 DEF Listening
<1> QED
  BY <1>9, <1>10, <1>11, <1>12, <1>13 DEF Streams

\* What a completion for entry i has to show: that its packet is as it should be.
LEMMA CompleteStreams ==
  ASSUME IInv, Streams, DataStep, NEW i \in Client, NEW o \in ops, o.idx = i,
         NEW p \in Packet, p.key = i, port' = Append(port, p), ops' = ops \ {o},
         NEW s, s = ctx[i].socket,
         NEW w, w.socket = s, ctx' = [ctx EXCEPT ![i] = w],
         UNCHANGED <<alive, link, conn, backlog>>,
         Sound(w, {}, {p}, Heard(s)', Ended(s)', alive)
  PROVE  Streams'
<1>1. /\ Pending(i)' = {} /\ Arrived(i)' = {p}
      /\ \A j : j # i => Pending(j)' = Pending(j) /\ Arrived(j)' = Arrived(j)
  BY ProduceViews
<1>2. \A j \in Client : ctx'[j] = IF j = i THEN w ELSE ctx[j]
  BY SlotType DEF IInv, TypeOK
<1>3. Entries'
  <2> SUFFICES ASSUME NEW j \in Client PROVE SoundAt(j)'
    BY DEF Entries, SoundAt
  <2>1. CASE j # i
    <3>1. /\ ctx'[j] = ctx[j] /\ Pending(j)' = Pending(j) /\ Arrived(j)' = Arrived(j)
          /\ alive' = alive
      BY <1>1, <1>2, <2>1
    <3>2. Ended(ctx[j].socket) => conn'[link[ctx[j].socket]] \in {"fin", "rst"}
      BY DEF Ended
    <3> QED
      BY <3>1, <3>2, OtherEntry
  <2>2. CASE j = i
    <3>1. ctx'[i] = w /\ s = ctx'[i].socket
      BY <1>2
    <3>2. Sound(ctx'[i], Pending(i)', Arrived(i)', Heard(s)', Ended(s)', alive')
      BY <1>1, <3>1
    <3>3. Heard(ctx[i].socket)' = Heard(s)' /\ Ended(ctx[i].socket)' = Ended(s)'
      BY <3>1
    <3> QED
      BY <2>2, <3>2, <3>3 DEF SoundAt
  <2> QED
    BY <2>1, <2>2
<1>4. Links'
  BY LinksLess DEF Streams
<1>5. KeyIsFirst'
  BY DataStepKeeps DEF Streams
<1>6. Listening' /\ NoResets'
  BY <1>1, SlotType DEF Streams, Listening, NoResets
<1> QED
  BY <1>3, <1>4, <1>5, <1>6 DEF Streams

\* A send completes.
LEMMA CompleteSendStreams ==
  ASSUME IInv, Streams, NEW i \in Client, CompleteSend(i)
  PROVE  Streams'
<1>1. PICK o \in ops :
        /\ o.idx = i /\ o.ov = "send" /\ ops' = ops \ {o}
        /\ \/ /\ o.dead \/ IsReset(o.sock)
              /\ port' = Append(port, Completion(o, 0, FALSE))
           \/ \E n \in 0..o.len : port' = Append(port, Completion(o, n, TRUE))
  BY DEF CompleteSend
<1>2. UNCHANGED <<ctx, alive, link, conn, backlog, data, sent>>
  BY DEF CompleteSend, server, peers
<1>3. PICK s : s = ctx[i].socket /\ s = o.sock
  BY <1>1, SlotType DEF IInv, NoStaleCompletion, Holder
<1>4. /\ Pending(i) = {o} /\ o \in Operation /\ s \in Socket /\ o.len \in Nat
      /\ ctx[i] \in Context /\ ctx[i].szSend \in Nat /\ ctx' = [ctx EXCEPT ![i] = ctx[i]]
  BY <1>1, <1>2, <1>3, SlotType DEF IInv, TypeOK, OneOutstanding, Pending, For, Operation, Context
<1>5. Sound(ctx[i], {o}, Arrived(i), Heard(s), Ended(s), alive)
  BY <1>3, <1>4 DEF Streams, Entries
<1>6. /\ Heard(s)' = Heard(s) /\ Ended(s)' = Ended(s) /\ DataStep
  BY <1>2 DEF Heard, Ended, DataStep
<1>7. Faults = {} => ~o.dead /\ ~IsReset(o.sock)
  BY <1>3, <1>4, <1>5 DEF Sound, Streams, NoResets, IsReset, IInv, TypeOK
<1>8. PICK n \in 0..o.len, ok \in BOOLEAN :
        port' = Append(port, Completion(o, n, ok)) /\ (Faults = {} => ok)
  <2>1. CASE (o.dead \/ IsReset(o.sock)) /\ port' = Append(port, Completion(o, 0, FALSE))
    <3> 0 \in 0..o.len
      BY <1>4
    <3> WITNESS 0 \in 0..o.len, FALSE \in BOOLEAN
    <3> QED
      BY <1>7, <2>1
  <2>2. ASSUME NEW n \in 0..o.len, port' = Append(port, Completion(o, n, TRUE))
        PROVE  \E m \in 0..o.len, ok \in BOOLEAN :
                 port' = Append(port, Completion(o, m, ok)) /\ (Faults = {} => ok)
    <3> WITNESS n \in 0..o.len, TRUE \in BOOLEAN
    <3> QED
      BY <2>2
  <2> QED
    BY <1>1, <2>1, <2>2
<1>9. n \in Nat /\ n <= o.len
  BY <1>4
<1>10. PICK p \in Packet : /\ p.key = i /\ p.ov = "send" /\ p.bytes = n /\ p.ok = ok
                           /\ port' = Append(port, p)
  BY <1>1, <1>4, <1>8, <1>9, CompletionType DEF Completion
<1>11. Sound(ctx[i], {}, {p}, Heard(s)', Ended(s)', alive)
  <2>1. p.ov = "send" /\ p.bytes = n /\ (Faults = {} => p.ok)
    BY <1>8, <1>10
  <2>2. ~ReKey => /\ Heard(s)' /\ ctx[i].szSendTotal <= BufLen
                  /\ ctx[i].szSend + n <= ctx[i].szSendTotal
    BY <1>1, <1>4, <1>5, <1>6, <1>9 DEF Sound
  <2> QED
    BY <2>1, <2>2 DEF Sound
<1>12. PICK w : w = ctx[i]
  OBVIOUS
<1>13. w.socket = s /\ ctx' = [ctx EXCEPT ![i] = w] /\ Sound(w, {}, {p}, Heard(s)', Ended(s)', alive)
  BY <1>3, <1>4, <1>11, <1>12
<1>14. o \in ops /\ o.idx = i /\ ops' = ops \ {o} /\ DataStep /\ s = ctx[i].socket
  BY <1>1, <1>3, <1>6
<1>15. UNCHANGED <<alive, link, conn, backlog>> /\ port' = Append(port, p) /\ p.key = i
  BY <1>2, <1>10
<1> QED
  BY ONLY IInv, Streams, <1>13, <1>14, <1>15, i \in Client, p \in Packet, CompleteStreams

\* A receive completes.
LEMMA CompleteRecvStreams ==
  ASSUME IInv, Streams, NEW i \in Client, CompleteRecv(i)
  PROVE  Streams'
<1>1. PICK o \in ops :
        /\ o.idx = i /\ o.ov = "recv" /\ ops' = ops \ {o}
        /\ \/ /\ o.dead \/ IsReset(o.sock)
              /\ port' = Append(port, Completion(o, 0, FALSE))
              /\ UNCHANGED <<ctx, data>>
           \/ /\ link[o.sock] # NoConn
              /\ data[link[o.sock]] # <<>>
              /\ ctx' = [ctx EXCEPT ![i].buf = Head(data[link[o.sock]])]
              /\ data' = [data EXCEPT ![link[o.sock]] = Tail(@)]
              /\ \E n \in 1..o.len : port' = Append(port, Completion(o, n, TRUE))
           \/ /\ link[o.sock] # NoConn
              /\ conn[link[o.sock]] = "fin" \/ o.len = 0
              /\ port' = Append(port, Completion(o, 0, TRUE))
              /\ UNCHANGED <<ctx, data>>
  BY DEF CompleteRecv
<1>2. UNCHANGED <<alive, link, conn, backlog, sent>>
  BY DEF CompleteRecv
<1>3. PICK s : s = ctx[i].socket /\ s = o.sock
  BY <1>1, SlotType DEF IInv, NoStaleCompletion, Holder
<1>4. /\ Pending(i) = {o} /\ o \in Operation /\ s \in Socket /\ o.len \in Nat
      /\ ctx \in [Slot -> Context] /\ ctx[i] \in Context /\ ctx' = [ctx EXCEPT ![i] = ctx'[i]]
      /\ data \in [Conn -> Seq(Chunk)] /\ link[s] \in Conn \cup {NoConn}
  BY <1>1, <1>2, <1>3, SlotType DEF IInv, TypeOK, OneOutstanding, Pending, For, Operation
<1>5. Sound(ctx[i], {o}, Arrived(i), Heard(s), Ended(s), alive)
  BY <1>3, <1>4 DEF Streams, Entries
<1>6. o.len = BufLen /\ (~ReKey /\ ~Heard(s) => ctx[i].szSend = 0)
  BY <1>1, <1>5 DEF Sound
<1>7. CASE /\ o.dead \/ IsReset(o.sock)
           /\ port' = Append(port, Completion(o, 0, FALSE))
           /\ UNCHANGED <<ctx, data>>
  <2>1. Faults # {}
    BY <1>3, <1>4, <1>5, <1>7 DEF Sound, Streams, NoResets, IsReset, IInv, TypeOK
  <2>2. PICK p \in Packet : /\ p.key = i /\ p.ov = "recv" /\ ~p.ok
                            /\ port' = Append(port, p)
    BY <1>1, <1>4, <1>7, CompletionType DEF Completion
  <2>3. Heard(s)' = Heard(s) /\ DataStep /\ ctx' = [ctx EXCEPT ![i] = ctx[i]]
    BY <1>2, <1>4, <1>7 DEF Heard, DataStep
  <2>4. Sound(ctx[i], {}, {p}, Heard(s)', Ended(s)', alive)
    BY <1>6, <2>1, <2>2, <2>3 DEF Sound
  <2> QED
    BY <1>1, <1>2, <1>3, <2>2, <2>3, <2>4, CompleteStreams
<1>8. CASE /\ link[o.sock] # NoConn
           /\ conn[link[o.sock]] = "fin" \/ o.len = 0
           /\ port' = Append(port, Completion(o, 0, TRUE))
           /\ UNCHANGED <<ctx, data>>
  <2>1. Ended(s)'
    BY <1>2, <1>3, <1>4, <1>6, <1>8, ServerAssumption DEF Ended
  <2>2. PICK p \in Packet : /\ p.key = i /\ p.ov = "recv" /\ p.ok /\ p.bytes = 0
                            /\ port' = Append(port, p)
    BY <1>1, <1>4, <1>8, CompletionType DEF Completion
  <2>3. Heard(s)' = Heard(s) /\ DataStep /\ ctx' = [ctx EXCEPT ![i] = ctx[i]]
    BY <1>2, <1>4, <1>8 DEF Heard, DataStep
  <2>4. Sound(ctx[i], {}, {p}, Heard(s)', Ended(s)', alive)
    BY <1>6, <2>1, <2>2, <2>3 DEF Sound
  <2> QED
    BY <1>1, <1>2, <1>3, <2>2, <2>3, <2>4, CompleteStreams
<1>9. ASSUME NEW c, c = link[s], c # NoConn, data[c] # <<>>,
             ctx' = [ctx EXCEPT ![i].buf = Head(data[c])],
             data' = [data EXCEPT ![c] = Tail(@)],
             NEW n \in 1..o.len, port' = Append(port, Completion(o, n, TRUE))
      PROVE  Streams'
  <2>1. /\ c \in Conn /\ data[c] \in Seq(Chunk) /\ sent[c] \in Nat
        /\ Len(data[c]) \in Nat /\ Len(data[c]) <= sent[c]
        /\ Head(data[c]) = data[c][1] /\ 1 \in 1 .. Len(data[c])
        /\ data'[c] = Tail(data[c]) /\ Len(Tail(data[c])) = Len(data[c]) - 1
    BY <1>4, <1>9 DEF IInv, TypeOK, Streams, KeyIsFirst
  <2>2. DataStep
    BY <1>2, <1>4, <1>9, <2>1 DEF DataStep
  <2>3. Heard(s)'
    <3>1. Len(data'[c]) < sent[c]
      BY <2>1
    <3> QED
      BY <1>2, <1>4, <1>9, <3>1 DEF Heard
  <2>4. ~ReKey /\ IsKeyMessage(Head(data[c])) => ctx[i].szSend = 0
    <3>1. ~ReKey /\ IsKeyMessage(Head(data[c])) => Len(data[c]) = sent[c]
      BY <2>1 DEF Streams, KeyIsFirst
    <3> QED
      BY <1>6, <1>9, <2>1, <3>1 DEF Heard
  <2>5. PICK w : /\ w.socket = s /\ w.szSend = ctx[i].szSend /\ w.buf = Head(data[c])
                 /\ ctx' = [ctx EXCEPT ![i] = w]
    <3> DEFINE w == [ctx[i] EXCEPT !.buf = Head(data[c])]
    <3>1. w.socket = s /\ w.szSend = ctx[i].szSend /\ w.buf = Head(data[c])
      BY <1>3, <1>4 DEF Context
    <3>2. ctx' = [ctx EXCEPT ![i] = w]
      BY <1>9
    <3> QED
      BY <3>1, <3>2
  <2>6. n \in Nat /\ n > 0
    BY <1>4
  <2>7. PICK p \in Packet : /\ p.key = i /\ p.ov = "recv" /\ p.ok /\ p.bytes = n
                            /\ port' = Append(port, p)
    BY <1>1, <1>4, <1>9, <2>6, CompletionType DEF Completion
  <2>8. Sound(w, {}, {p}, Heard(s)', Ended(s)', alive)
    BY <2>3, <2>4, <2>5, <2>6, <2>7 DEF Sound
  <2> QED
    BY <1>1, <1>2, <1>3, <2>2, <2>5, <2>7, <2>8, CompleteStreams
<1> QED
  BY <1>1, <1>3, <1>7, <1>8, <1>9

\* The loop drops the packet of a failed operation, or an assert stops the
\* process.
LEMMA DropStreams ==
  ASSUME IInv, Streams, port # <<>>, port' = Tail(port),
         alive' = FALSE \/ (~Head(port).ok /\ alive' = alive),
         UNCHANGED <<ctx, ops, link, conn, backlog, data, sent>>
  PROVE  Streams'
<1> DEFINE i == Head(port).key
<1>1. PICK k : k = i
  OBVIOUS
<1>2. PICK T : T = {}
  OBVIOUS
<1>3. /\ Head(port) \in Packet /\ Arrived(k) = {Head(port)} /\ Pending(k) = {}
      /\ Arrived(k)' = {} /\ \A j : Pending(j)' = Pending(j)
      /\ \A j : j # k => Arrived(j)' = Arrived(j)
  <2>1. /\ Head(port) \in Packet /\ Arrived(k) = {Head(port)} /\ Pending(k) = {}
        /\ Arrived(k)' = {} /\ \A j : j # k => Arrived(j)' = Arrived(j)
    <3> ops' = ops \cup T
      BY <1>2
    <3> QED
      BY <1>1, ConsumeViews
  <2> QED
    BY <2>1 DEF Pending, For
<1>4. DataStep
  BY DEF DataStep
<1>5. Entries'
  <2> SUFFICES ASSUME NEW j \in Client PROVE SoundAt(j)'
    BY DEF Entries, SoundAt
  <2>1. ctx'[j] = ctx[j] /\ Pending(j)' = Pending(j) /\ (alive' => alive)
    BY <1>3
  <2>2. Ended(ctx[j].socket) => conn'[link[ctx[j].socket]] \in {"fin", "rst"}
    BY DEF Ended
  <2>3. CASE j # k
    BY <1>3, <1>4, <2>1, <2>2, <2>3, OtherEntry
  <2>4. CASE j = k
    <3>1. PICK s : s = ctx[j].socket /\ s = ctx'[j].socket
      BY <2>1
    <3>2. Sound(ctx[j], {}, {Head(port)}, Heard(s), Ended(s), alive)
      BY <1>3, <2>4, <3>1 DEF Streams, Entries
    <3>3. (Heard(s) => Heard(s)') /\ (Ended(s) => Ended(s)')
      BY <1>4, <3>1, <2>2, LinkKept DEF Streams
    <3>4. Sound(ctx[j], {}, {}, Heard(s)', Ended(s)', alive')
      BY <3>2, <3>3 DEF Sound
    <3>5. Sound(ctx'[j], Pending(j)', Arrived(j)', Heard(s)', Ended(s)', alive')
      BY <1>3, <2>1, <2>4, <3>4
    <3>6. Heard(ctx[j].socket)' = Heard(s)' /\ Ended(ctx[j].socket)' = Ended(s)'
      BY <3>1
    <3> QED
      BY <3>5, <3>6 DEF SoundAt
  <2> QED
    BY <2>3, <2>4
<1>6. Links'
  BY LinksLess DEF Streams
<1>7. KeyIsFirst'
  BY <1>4, DataStepKeeps DEF Streams
<1>8. NoResets'
  BY DEF Streams, NoResets
<1>9. Listening'
  <2>1. CASE k = 0
    <3>1. "reset" \in Faults \/ alive' = FALSE
      BY <1>3, <2>1 DEF Streams, Listening
    <3> QED
      BY <1>3, <2>1, <3>1 DEF Listening
  <2>2. CASE k # 0
    BY <1>3, <2>2 DEF Streams, Listening
  <2> QED
    BY <2>1, <2>2
<1> QED
  BY <1>5, <1>6, <1>7, <1>8, <1>9 DEF Streams

\* A handler that starts one operation, o, for its entry i.
LEMMA HandlerStreams ==
  ASSUME IInv, Streams, NEW i \in Client, NEW ov, Dequeued(i, ov), port' = Tail(port),
         NEW o \in Operation, o.idx = i, ~o.dead, ops' = ops \cup Started(o),
         NEW s, s = ctx[i].socket, s = o.sock,
         NEW w, w.socket = s, ctx' = [ctx EXCEPT ![i] = w],
         UNCHANGED <<alive, link, conn, backlog, data, sent>>,
         o.ov = "recv" => o.len = BufLen,
         ~ReKey /\ o.ov = "send" =>
           Heard(s) /\ w.szSend + o.len = w.szSendTotal /\ w.szSendTotal <= BufLen,
         ~ReKey /\ ~Heard(s) => w.szSend = 0
  PROVE  Streams'
<1>1. /\ port # <<>> /\ i = Head(port).key /\ s \in Socket
      /\ ctx \in [Slot -> Context] /\ i \in Slot /\ i # 0
  BY DequeuedIsConnected, SlotType DEF IInv, TypeOK
<1>2. PICK T : T = Started(o) /\ ops' = ops \cup T
  OBVIOUS
<1>3. T \subseteq {o} /\ (Faults = {} => T = {o})
  BY <1>1, <1>2, ServerAssumption DEF Started, IsReset, Streams, NoResets, IInv, TypeOK
<1>4. /\ Arrived(i)' = {} /\ Pending(i)' = T
      /\ \A j : j # i => Pending(j)' = Pending(j) /\ Arrived(j)' = Arrived(j)
  <2>1. /\ Arrived(i)' = {} /\ Pending(i)' = For(T, i)
        /\ \A j : j # i => /\ Arrived(j)' = Arrived(j)
                           /\ Pending(j)' = Pending(j) \cup For(T, j)
    BY <1>1, <1>2, ConsumeViews
  <2>2. \A x \in T : x.idx = i
    BY <1>3
  <2>3. For(T, i) = T /\ \A j : j # i => For(T, j) = {}
    BY <2>2 DEF For
  <2> QED
    BY <2>1, <2>3
<1>5. DataStep
  BY DEF DataStep
<1>6. \A j \in Slot : ctx'[j] = IF j = i THEN w ELSE ctx[j]
  BY <1>1
<1>7. Entries'
  <2> SUFFICES ASSUME NEW j \in Client PROVE SoundAt(j)'
    BY DEF Entries, SoundAt
  <2>1. CASE j # i
    <3>1. ctx'[j] = ctx[j] /\ (alive' => alive)
      BY <1>6, <2>1, SlotType
    <3>2. Ended(ctx[j].socket) => conn'[link[ctx[j].socket]] \in {"fin", "rst"}
      BY DEF Ended
    <3> QED
      BY <1>4, <1>5, <2>1, <3>1, <3>2, OtherEntry
  <2>2. CASE j = i
    <3>1. ctx'[i] = w /\ s = ctx'[i].socket
      BY <1>1, <1>6
    <3>2. Heard(s)' = Heard(s)
      BY DEF Heard
    <3>3. Sound(w, T, {}, Heard(s)', Ended(s)', alive')
      BY <1>3, <3>2 DEF Sound
    <3>4. Sound(ctx'[i], Pending(i)', Arrived(i)', Heard(s)', Ended(s)', alive')
      BY <1>4, <3>1, <3>3
    <3>5. Heard(ctx[i].socket)' = Heard(s)' /\ Ended(ctx[i].socket)' = Ended(s)'
      BY <3>1
    <3> QED
      BY <2>2, <3>4, <3>5 DEF SoundAt
  <2> QED
    BY <2>1, <2>2
<1>8. Links'
  BY LinksLess DEF Streams
<1>9. KeyIsFirst'
  BY <1>5, DataStepKeeps DEF Streams
<1>10. Listening' /\ NoResets'
  BY <1>1, <1>4 DEF Streams, Listening, NoResets
<1> QED
  BY <1>7, <1>8, <1>9, <1>10 DEF Streams

\* What is known of the entry whose packet is handled.
LEMMA DequeuedEntry ==
  ASSUME IInv, Streams, NEW i \in Client, NEW ov, Dequeued(i, ov)
  PROVE  /\ Head(port) \in Packet /\ Head(port).ov = ov /\ Head(port).ok
         /\ Sound(ctx[i], {}, {Head(port)}, Heard(ctx[i].socket), Ended(ctx[i].socket), alive)
<1>1. port # <<>> /\ i = Head(port).key /\ Head(port).ov = ov /\ Head(port).ok
  BY DEF Dequeued
<1>2. Head(port) \in Packet /\ Arrived(i) = {Head(port)} /\ Pending(i) = {}
  BY <1>1, Taken
<1> QED
  BY <1>1, <1>2 DEF Streams, Entries

\* overlap_recv_handler, data received.
LEMMA ExecRecvStreams ==
  ASSUME IInv, Streams, NEW i \in Client, ExecRecv(i)
  PROVE  Streams'
<1> DEFINE c == [ctx[i] EXCEPT !.szRecv = @ + transferred]
<1>1. /\ Dequeued(i, "recv") /\ transferred > 0 /\ port' = Tail(port)
      /\ UNCHANGED <<link, conn, backlog, data, sent>>
      /\ (c.buf.zero /\ form_answ_key(i, c)) \/ msg_handler(i, c)
  BY DEF ExecRecv, peers
<1>2. PICK s : s = ctx[i].socket
  OBVIOUS
<1>3. s \in Socket /\ transferred \in Nat /\ port # <<>> /\ ctx[i] \in Context
  BY <1>1, <1>2, DequeuedIsConnected, SlotType DEF IInv, TypeOK
<1>4. /\ c \in Context /\ c.socket = s /\ c.buf = ctx[i].buf /\ c.szSend = ctx[i].szSend
      /\ c.szRecv \in Nat \ {0}
  <2>1. ctx[i].szRecv + transferred \in Nat \ {0}
    BY <1>1, <1>3 DEF Context
  <2> QED
    BY <1>2, <1>3, <2>1 DEF Context
<1>5. ~ReKey => Heard(s) /\ (IsKeyMessage(c.buf) => c.szSend = 0)
  BY <1>1, <1>2, <1>4, DequeuedEntry DEF Sound, transferred
<1> HIDE DEF c
<1>6. CASE Abort
  BY <1>1, <1>3, <1>6, DropStreams DEF Abort
\* Either answer is w, and is sent from its first byte.
<1>7. ASSUME NEW w \in Context, w.socket = s, ~ReKey => w.szSend = 0,
             w.szSendTotal <= BufLen, ctx' = [ctx EXCEPT ![i] = w],
             ops' = ops \cup Started(schedule_write(i, w)), alive' = alive
      PROVE  Streams'
  <2>1. PICK o \in Operation :
          /\ o = schedule_write(i, w) /\ o.idx = i /\ o.sock = s
          /\ o.ov = "send" /\ ~o.dead /\ o.len = (w.szSendTotal - w.szSend) % Word
    <3>1. /\ schedule_write(i, w) \in Operation
          /\ schedule_write(i, w).idx = i /\ schedule_write(i, w).sock = s
      BY <1>3, <1>7, ScheduleType, SlotType
    <3> QED
      BY <3>1 DEF schedule_write
  <2>2. ~ReKey => w.szSend + o.len = w.szSendTotal
    <3>1. w.szSendTotal \in 0..BufLen /\ w.szSend \in Nat
      BY <1>7, ServerAssumption DEF Context
    <3>2. ~ReKey => w.szSendTotal - w.szSend = w.szSendTotal
      BY <1>7, <3>1
    <3> QED
      BY <1>7, <2>1, <3>1, <3>2, WordIs
  <2> QED
    BY <1>1, <1>2, <1>5, <1>7, <2>1, <2>2, HandlerStreams
<1>8. CASE c.buf.zero /\ form_answ_key(i, c) /\ ~Abort
  <2> DEFINE w == [c EXCEPT !.szRecv = @ - 1, !.key = TRUE, !.szSendTotal = KeyAnswer]
  <2>1. /\ ctx' = [ctx EXCEPT ![i] = w] /\ IsKeyMessage(c.buf) /\ alive' = alive
        /\ ops' = ops \cup Started(schedule_write(i, w))
    BY <1>8 DEF form_answ_key, IsKeyMessage
  <2>2. w \in Context /\ w.socket = s /\ w.szSend = c.szSend /\ w.szSendTotal = KeyAnswer
    <3>1. c.szRecv - 1 \in Nat /\ KeyAnswer \in Nat
      BY <1>4, ServerAssumption
    <3> QED
      BY <1>4, <3>1 DEF Context
  <2>3. w.szSendTotal <= BufLen /\ (~ReKey => w.szSend = 0)
    BY <1>5, <2>1, <2>2, ServerAssumption
  <2> HIDE DEF w
  <2> QED
    BY <1>7, <2>1, <2>2, <2>3
<1>9. CASE msg_handler(i, c) /\ ~Abort
  <2>1. PICK n \in Replies \cap (0..BufLen) :
          LET w == [c EXCEPT !.szSend = 0, !.szSendTotal = n]
          IN  /\ ctx' = [ctx EXCEPT ![i] = w]
              /\ ops' = ops \cup Started(schedule_write(i, w))
              /\ alive' = alive
    BY <1>9 DEF msg_handler, PathUnreadable
  <2> DEFINE w == [c EXCEPT !.szSend = 0, !.szSendTotal = n]
  <2>2. /\ ctx' = [ctx EXCEPT ![i] = w] /\ alive' = alive
        /\ ops' = ops \cup Started(schedule_write(i, w))
    BY <2>1
  <2>3. n \in Nat /\ n <= BufLen
    BY ServerAssumption
  <2>4. w \in Context /\ w.socket = s /\ w.szSend = 0 /\ w.szSendTotal = n
    BY <1>4, <2>3 DEF Context
  <2> HIDE DEF w
  <2> QED
    BY <1>7, <2>2, <2>3, <2>4
<1> QED
  BY <1>1, <1>6, <1>8, <1>9

\* overlap_send_handler.
LEMMA ExecSendStreams ==
  ASSUME IInv, Streams, NEW i \in Client, ExecSend(i)
  PROVE  Streams'
<1> DEFINE c == [ctx[i] EXCEPT !.szSend = @ + transferred]
           d == [c EXCEPT !.szRecv = 0]
<1>1. /\ Dequeued(i, "send") /\ port' = Tail(port)
      /\ \/ /\ c.szSend < c.szSendTotal
            /\ ctx' = [ctx EXCEPT ![i] = c]
            /\ ops' = ops \cup Started(schedule_write(i, c))
         \/ /\ ctx' = [ctx EXCEPT ![i] = d]
            /\ ops' = ops \cup Started(schedule_read(i, d))
      /\ UNCHANGED <<alive, link, conn, backlog, data, sent>>
  BY DEF ExecSend, peers
<1>2. PICK s : s = ctx[i].socket
  OBVIOUS
<1>3. s \in Socket /\ transferred \in Nat /\ ctx[i] \in Context
  BY <1>1, <1>2, DequeuedIsConnected, SlotType DEF IInv, TypeOK
<1>4. /\ c \in Context /\ c.socket = s /\ c.szSend = ctx[i].szSend + transferred
      /\ c.szSendTotal = ctx[i].szSendTotal
      /\ d \in Context /\ d.socket = s /\ d.szRecv = 0
  <2>1. ctx[i].szSend + transferred \in Nat
    BY <1>3 DEF Context
  <2>2. /\ c \in Context /\ c.socket = s /\ c.szSend = ctx[i].szSend + transferred
        /\ c.szSendTotal = ctx[i].szSendTotal
    BY <1>2, <1>3, <2>1 DEF Context
  <2> HIDE DEF c
  <2> QED
    BY <2>2 DEF Context
<1>5. ~ReKey => Heard(s) /\ c.szSend <= c.szSendTotal /\ c.szSendTotal <= BufLen
  BY <1>1, <1>2, <1>4, DequeuedEntry DEF Sound, transferred
<1> HIDE DEF c, d
<1>6. ASSUME c.szSend < c.szSendTotal, ctx' = [ctx EXCEPT ![i] = c],
             ops' = ops \cup Started(schedule_write(i, c))
      PROVE  Streams'
  <2>1. PICK o \in Operation :
          /\ o = schedule_write(i, c) /\ o.idx = i /\ o.sock = s
          /\ o.ov = "send" /\ ~o.dead /\ o.len = (c.szSendTotal - c.szSend) % Word
    <3>1. /\ schedule_write(i, c) \in Operation
          /\ schedule_write(i, c).idx = i /\ schedule_write(i, c).sock = s
      BY <1>3, <1>4, ScheduleType, SlotType
    <3> QED
      BY <3>1 DEF schedule_write
  <2>2. ~ReKey => c.szSend + o.len = c.szSendTotal
    <3>1. c.szSend \in Nat /\ c.szSendTotal \in Nat
      BY <1>4 DEF Context
    <3>2. ~ReKey => c.szSendTotal - c.szSend \in 0..BufLen
      BY <1>5, <3>1, ServerAssumption
    <3>3. ~ReKey => o.len = c.szSendTotal - c.szSend
      BY <2>1, <3>2, WordIs
    <3> QED
      BY <3>1, <3>3
  <2> QED
    BY <1>1, <1>2, <1>4, <1>5, <1>6, <2>1, <2>2, HandlerStreams
<1>7. ASSUME ctx' = [ctx EXCEPT ![i] = d], ops' = ops \cup Started(schedule_read(i, d))
      PROVE  Streams'
  <2>1. PICK o \in Operation :
          /\ o = schedule_read(i, d) /\ o.idx = i /\ o.sock = s
          /\ o.ov = "recv" /\ ~o.dead /\ o.len = BufLen
    <3>1. /\ schedule_read(i, d) \in Operation
          /\ schedule_read(i, d).idx = i /\ schedule_read(i, d).sock = s
      BY <1>3, <1>4, ScheduleType, SlotType
    <3>2. (BufLen - d.szRecv) % Word = BufLen
      BY <1>4, WordIs, ServerAssumption
    <3> QED
      BY <3>1, <3>2 DEF schedule_read
  <2> QED
    BY <1>1, <1>2, <1>4, <1>5, <1>7, <2>1, HandlerStreams
<1> QED
  BY <1>1, <1>6, <1>7

\* overlap_recv_handler, the peer has closed.
LEMMA ExecDisconnectStreams ==
  ASSUME IInv, Streams, NEW i \in Client, ExecDisconnect(i)
  PROVE  Streams'
<1>1. /\ Dequeued(i, "recv") /\ transferred = 0 /\ ops' = Kill(ops, ctx[i].socket)
      /\ port' = Append(Tail(port), [key |-> i, ov |-> "cancel", sock |-> ctx[i].socket,
                                     bytes |-> 0, ok |-> TRUE])
      /\ UNCHANGED <<ctx, alive, link, conn, backlog, data, sent>>
  BY DEF ExecDisconnect, server, peers
<1>2. PICK s : s = ctx[i].socket
  OBVIOUS
<1>3. s \in Socket /\ i \in Slot /\ i # 0 /\ port # <<>> /\ i = Head(port).key
  BY <1>1, <1>2, DequeuedIsConnected, SlotType
<1>4. PICK p \in Packet : /\ p.key = i /\ p.ov = "cancel" /\ p.ok
                          /\ port' = Append(Tail(port), p)
  <2> DEFINE p == [key |-> i, ov |-> "cancel", sock |-> s, bytes |-> 0, ok |-> TRUE]
  <2>1. p \in Packet /\ p.key = i /\ p.ov = "cancel" /\ p.ok /\ port' = Append(Tail(port), p)
    BY <1>1, <1>2, <1>3 DEF Packet
  <2> QED
    BY <2>1
<1>5. ops' = ops
  BY <1>1, NothingPending
<1>6. /\ Arrived(i)' = {p} /\ Pending(i)' = {}
      /\ \A j : j # i => Arrived(j)' = Arrived(j) /\ Pending(j)' = Pending(j)
  BY <1>3, <1>4, <1>5, RepostViews
<1>7. /\ Sound(ctx[i], {}, {Head(port)}, Heard(s), Ended(s), alive) /\ Ended(s)
  BY <1>1, <1>2, DequeuedEntry DEF Sound, transferred
<1>8. DataStep
  BY <1>1 DEF DataStep
<1>9. Entries'
  <2> SUFFICES ASSUME NEW j \in Client PROVE SoundAt(j)'
    BY DEF Entries, SoundAt
  <2>1. CASE j # i
    <3>1. Ended(ctx[j].socket) => conn'[link[ctx[j].socket]] \in {"fin", "rst"}
      BY <1>1 DEF Ended
    <3> QED
      BY <1>1, <1>6, <1>8, <2>1, <3>1, OtherEntry
  <2>2. CASE j = i
    <3>1. Heard(s)' = Heard(s) /\ Ended(s)'
      BY <1>1, <1>7 DEF Heard, Ended
    <3>2. Sound(ctx[i], {}, {p}, Heard(s)', Ended(s)', alive)
      BY <1>4, <1>7, <3>1 DEF Sound
    <3>3. Heard(ctx[i].socket)' = Heard(s)' /\ Ended(ctx[i].socket)' = Ended(s)'
      BY <1>1, <1>2
    <3> QED
      BY <1>1, <1>6, <2>2, <3>2, <3>3 DEF SoundAt
  <2> QED
    BY <2>1, <2>2
<1>10. Links'
  BY <1>1, LinksLess DEF Streams
<1>11. KeyIsFirst'
  BY <1>8, DataStepKeeps DEF Streams
<1>12. Listening' /\ NoResets'
  BY <1>1, <1>3, <1>6 DEF Streams, Listening, NoResets
<1> QED
  BY <1>9, <1>10, <1>11, <1>12 DEF Streams

\* A socket is closed and its connection with it: the connections of the other
\* sockets are not touched.
LEMMA CloseStep ==
  ASSUME IInv, Streams, NEW s \in Socket, NEW v \in ConnState \ {"idle", "rst"},
         link' = [link EXCEPT ![s] = NoConn],
         conn' = [conn EXCEPT ![link[s]] = v],
         data' = [data EXCEPT ![link[s]] = <<>>],
         UNCHANGED <<backlog, sent>>
  PROVE  /\ DataStep /\ Links' /\ KeyIsFirst' /\ NoResets'
         /\ \A t \in Socket \ {s} :
              link'[t] = link[t] /\ (Ended(t) => conn'[link[t]] \in {"fin", "rst"})
<1>1. /\ link \in [Socket -> Conn \cup {NoConn}] /\ conn \in [Conn -> ConnState]
      /\ data \in [Conn -> Seq(Chunk)]
  BY DEF IInv, TypeOK
<1>2. PICK c : c = link[s]
  OBVIOUS
<1>3. /\ \A x \in Conn : conn'[x] = IF x = c THEN v ELSE conn[x]
      /\ \A x \in Conn : data'[x] = IF x = c THEN <<>> ELSE data[x]
  BY <1>1, <1>2
<1>4. DataStep
  BY <1>3 DEF DataStep
<1>5. \A t \in Socket : link'[t] = IF t = s THEN NoConn ELSE link[t]
  BY <1>1
<1>6. Links'
  BY <1>3, <1>5, LinksLess DEF Streams
<1>7. KeyIsFirst'
  BY <1>4, DataStepKeeps DEF Streams
<1>8. NoResets'
  BY <1>3 DEF Streams, NoResets
<1>9. ASSUME NEW t \in Socket \ {s}
      PROVE  link'[t] = link[t] /\ (Ended(t) => conn'[link[t]] \in {"fin", "rst"})
  <2>1. link[t] # NoConn => link[t] # c /\ link[t] \in Conn
    BY <1>1, <1>2 DEF Streams, Links
  <2> QED
    BY <1>3, <1>5, <2>1 DEF Ended
<1> QED
  BY <1>4, <1>6, <1>7, <1>8, <1>9

\* overlap_cancel_handler.
LEMMA ExecCancelStreams ==
  ASSUME IInv, Streams, NEW i \in Client, ExecCancel(i)
  PROVE  Streams'
<1>1. PICK s : s = ctx[i].socket
  OBVIOUS
<1>2. /\ Dequeued(i, "cancel") /\ port' = Tail(port)
      /\ link' = [link EXCEPT ![s] = NoConn]
      /\ conn' = [conn EXCEPT ![link[s]] = "closed"]
      /\ data' = [data EXCEPT ![link[s]] = <<>>]
      /\ ops' = Kill(ops, s) /\ ctx' = [ctx EXCEPT ![i] = Zeroed]
      /\ UNCHANGED <<alive, backlog, sent>>
  BY <1>1 DEF ExecCancel
<1>3. s \in Socket /\ i \in Slot /\ i # 0 /\ port # <<>> /\ i = Head(port).key
  BY <1>1, <1>2, DequeuedIsConnected, SlotType
<1>4. ops' = ops
  BY <1>1, <1>2, NothingPending
<1>5. /\ Arrived(i)' = {} /\ Pending(i)' = {}
      /\ \A j : j # i => Arrived(j)' = Arrived(j) /\ Pending(j)' = Pending(j)
  <2>1. PICK T : T = {}
    OBVIOUS
  <2>2. ops' = ops \cup T
    BY <1>4, <2>1
  <2>3. port' = Tail(port)
    BY <1>2
  <2>5. Arrived(i)' = {}
    BY <1>3, <2>2, <2>3, ConsumeViews
  <2>6. Pending(i)' = For(T, i)
    BY <1>3, <2>2, <2>3, ConsumeViews
  <2>7. \A j : j # i => /\ Arrived(j)' = Arrived(j)
                        /\ Pending(j)' = Pending(j) \cup For(T, j)
    BY <1>3, <2>2, <2>3, ConsumeViews
  <2>4. \A j : For(T, j) = {}
    BY <2>1 DEF For
  <2> QED
    BY <2>4, <2>5, <2>6, <2>7
<1>6. /\ DataStep /\ Links' /\ KeyIsFirst' /\ NoResets'
      /\ \A t \in Socket \ {s} :
           link'[t] = link[t] /\ (Ended(t) => conn'[link[t]] \in {"fin", "rst"})
  BY <1>2, <1>3, CloseStep DEF ConnState
<1>7. \A j \in Slot : ctx'[j] = IF j = i THEN Zeroed ELSE ctx[j]
  BY <1>2 DEF IInv, TypeOK
<1>8. Entries'
  <2> SUFFICES ASSUME NEW j \in Client PROVE SoundAt(j)'
    BY DEF Entries, SoundAt
  <2>1. CASE j # i
    <3>1. ctx'[j] = ctx[j] /\ (alive' => alive)
      BY <1>2, <1>7, <2>1, SlotType
    <3>2. ctx[j].socket # s
      BY <1>1, <1>3, <2>1, EntrySocket
    <3> QED
      BY <1>5, <1>6, <2>1, <3>1, <3>2, OtherEntry
  <2>2. CASE j = i
    <3>1. Zeroed.socket = NoSocket /\ Zeroed.szSend = 0
      BY DEF Zeroed
    <3> QED
      BY <1>3, <1>5, <1>7, <2>2, <3>1 DEF SoundAt, Sound
  <2> QED
    BY <2>1, <2>2
<1>9. Listening'
  BY <1>2, <1>3, <1>5 DEF Streams, Listening
<1> QED
  BY <1>6, <1>8, <1>9 DEF Streams

\* A step of ExecAccept starts the next accept operation and at most one
\* receive, for the entry i that gets the accepted socket.
LEMMA AcceptViews ==
  ASSUME IInv, Dequeued(0, "recv"), port' = Tail(port),
         NEW s \in Socket, NEW i \in Client, NEW r, r.idx = i,
         NEW R \in SUBSET {r}, ops' = (ops \cup R) \cup {AcceptOp(s)}
  PROVE  /\ Arrived(0)' = {} /\ Pending(0)' = {AcceptOp(s)}
         /\ Arrived(i)' = Arrived(i) /\ Pending(i)' = Pending(i) \cup R
         /\ \A j : j # 0 /\ j # i => Arrived(j)' = Arrived(j) /\ Pending(j)' = Pending(j)
<1>1. port # <<>> /\ Head(port).key = 0
  BY DEF Dequeued
<1>2. PICK T : T = R \cup {AcceptOp(s)} /\ ops' = ops \cup T
  <2>1. ops' = ops \cup (R \cup {AcceptOp(s)})
    OBVIOUS
  <2> QED
    BY <2>1
<1>3. /\ Arrived(0)' = {} /\ Pending(0)' = For(T, 0)
      /\ \A j : j # 0 => /\ Arrived(j)' = Arrived(j)
                         /\ Pending(j)' = Pending(j) \cup For(T, j)
  <2>1. PICK z : z = 0
    OBVIOUS
  <2>2. port # <<>> /\ z = Head(port).key /\ ops' = ops \cup T
    BY <1>1, <1>2, <2>1
  <2>3. Arrived(z)' = {}
    BY <2>2, ConsumeViews
  <2>4. Pending(z)' = For(T, z)
    BY <2>2, ConsumeViews
  <2>5. ASSUME NEW j, j # z
        PROVE  Arrived(j)' = Arrived(j) /\ Pending(j)' = Pending(j) \cup For(T, j)
    BY <2>2, <2>5, ConsumeViews
  <2> QED
    BY <2>1, <2>3, <2>4, <2>5
<1>4. AcceptOp(s).idx = 0 /\ i # 0
  BY AcceptOpType, SlotType
<1>5. /\ For(T, 0) = {AcceptOp(s)} /\ For(T, i) = R
      /\ \A j : j # 0 /\ j # i => For(T, j) = {}
  <2>1. PICK a : a = AcceptOp(s) /\ a.idx = 0 /\ T = R \cup {a}
    BY <1>2, <1>4
  <2>2. \A x \in R : x.idx = i
    OBVIOUS
  <2>3. For(T, 0) = {a} /\ For(T, i) = R /\ \A j : j # 0 /\ j # i => For(T, j) = {}
    BY <1>4, <2>1, <2>2 DEF For
  <2> QED
    BY <2>1, <2>3
<1>6. Arrived(i)' = Arrived(i) /\ Pending(i)' = Pending(i) \cup R
  BY <1>3, <1>4, <1>5
<1>7. ASSUME NEW j, j # 0, j # i
      PROVE  Arrived(j)' = Arrived(j) /\ Pending(j)' = Pending(j)
  <2>1. For(T, j) = {}
    BY <1>5, <1>7
  <2> QED
    BY <1>3, <1>7, <2>1
<1> QED
  BY <1>3, <1>5, <1>6, <1>7

\* add_accepted_connection finds no free entry.
LEMMA RefuseStreams ==
  ASSUME IInv, Streams, Dequeued(0, "recv"), port' = Tail(port), RefuseConnection,
         UNCHANGED <<keysLive, alive, backlog, sent>>
  PROVE  Streams'
<1>1. PICK s \in Socket : ops' = Kill(ops, acceptedSocket) \cup {AcceptOp(s)}
  BY DEF RefuseConnection, schedule_accept, IInv, TypeOK
<1>2. /\ ctx' = [ctx EXCEPT ![0].szRecv = @ + transferred]
      /\ link' = [link EXCEPT ![acceptedSocket] = NoConn]
      /\ conn' = [conn EXCEPT ![link[acceptedSocket]] = "refused"]
      /\ data' = [data EXCEPT ![link[acceptedSocket]] = <<>>]
  BY DEF RefuseConnection
<1>3. transferred \in Nat /\ Kill(ops, acceptedSocket) = ops
  BY AcceptDequeued
<1>4. \A j \in Client : ctx'[j] = ctx[j]
  BY <1>2, <1>3, CountAccept
<1>5. PICK i \in Client : TRUE
  BY ServerAssumption DEF Client, Slot
<1>6. /\ Arrived(0)' = {} /\ Pending(0)' = {AcceptOp(s)}
      /\ \A j \in Client : Arrived(j)' = Arrived(j) /\ Pending(j)' = Pending(j)
  <2>1. PICK r : r = [idx |-> i]
    OBVIOUS
  <2>2. PICK R \in SUBSET {r} : R = {}
    OBVIOUS
  <2>3. r.idx = i /\ ops' = (ops \cup R) \cup {AcceptOp(s)}
    BY <1>1, <1>3, <2>1, <2>2
  <2>4. /\ Arrived(0)' = {} /\ Pending(0)' = {AcceptOp(s)}
        /\ Arrived(i)' = Arrived(i) /\ Pending(i)' = Pending(i) \cup R
        /\ \A j : j # 0 /\ j # i => Arrived(j)' = Arrived(j) /\ Pending(j)' = Pending(j)
    BY <2>3, AcceptViews
  <2> QED
    BY <2>2, <2>4, SlotType
<1>7. acceptedSocket \in Socket
  BY DEF IInv, TypeOK
<1>8. /\ DataStep /\ Links' /\ KeyIsFirst' /\ NoResets'
      /\ \A t \in Socket \ {acceptedSocket} :
           link'[t] = link[t] /\ (Ended(t) => conn'[link[t]] \in {"fin", "rst"})
  BY <1>2, <1>7, CloseStep DEF ConnState
<1>9. Entries'
  <2> SUFFICES ASSUME NEW j \in Client PROVE SoundAt(j)'
    BY DEF Entries, SoundAt
  <2>1. ctx[j].socket # acceptedSocket
    BY EntrySocket
  <2> QED
    BY <1>4, <1>6, <1>8, <2>1, OtherEntry
<1>10. Listening'
  <2>1. AcceptOp(s).ov = "recv"
    BY DEF AcceptOp
  <2>2. Arrived(0)' = {} /\ Pending(0)' = {AcceptOp(s)}
    BY <1>6
  <2> QED
    BY <2>1, <2>2 DEF Listening
<1> QED
  BY <1>8, <1>9, <1>10 DEF Streams

\* add_accepted_connection gives the socket to a free entry.
LEMMA StoreStreams ==
  ASSUME IInv, Streams, Dequeued(0, "recv"), port' = Tail(port),
         NEW i \in Slot, StoreConnection(i),
         UNCHANGED <<keysLive, alive, backlog, sent>>
  PROVE  Streams'
<1> DEFINE c == [ctx[i] EXCEPT !.socket = acceptedSocket]
           x == [ctx EXCEPT ![0].szRecv = @ + transferred]
           read == schedule_read(i, c)
<1>1. /\ ctx[i].socket = NoSocket
      /\ ctx' = [ctx EXCEPT ![0].szRecv = @ + transferred, ![i] = c]
      /\ UNCHANGED <<link, conn, data>>
  BY DEF StoreConnection, FirstFree
<1>2. i \in Client
  BY <1>1, ServerAssumption DEF Client, IInv
<1>3. PICK s \in Socket :
        \/ ops' = (ops \cup Started(read)) \cup {AcceptOp(s)}
        \/ "associate" \in Faults /\ ops' = ops \cup {AcceptOp(s)}
  BY DEF StoreConnection, schedule_accept
<1>4. transferred \in Nat /\ acceptedSocket \in Socket /\ ctx[i] = Zeroed
      /\ ctx \in [Slot -> Context] /\ ctx[i] \in Context
  BY <1>1, <1>2, AcceptDequeued DEF IInv, TypeOK, FreeEntriesAreBlank
<1>5. /\ c \in Context /\ c.socket = acceptedSocket /\ c.szRecv = 0 /\ c.szSend = 0
  <2>1. Zeroed.szRecv = 0 /\ Zeroed.szSend = 0
    BY DEF Zeroed
  <2>2. ctx[i].szRecv = 0 /\ ctx[i].szSend = 0
    BY <1>4, <2>1
  <2> QED
    BY <1>4, <2>2 DEF Context
<1>6. x \in [Slot -> Context] /\ \A j \in Client : x[j] = ctx[j]
  BY <1>4, CountAccept
<1>7. ctx' = [x EXCEPT ![i] = c]
  BY <1>1
<1> HIDE DEF c, x
<1>8. \A j \in Client : ctx'[j] = IF j = i THEN c ELSE ctx[j]
  BY <1>2, <1>6, <1>7, SlotType
<1>9. /\ read \in Operation /\ read.idx = i /\ read.sock = acceptedSocket
      /\ read.ov = "recv" /\ ~read.dead /\ read.len = BufLen
  <2>1. read \in Operation /\ read.idx = i /\ read.sock = acceptedSocket
    BY <1>4, <1>5, ScheduleType
  <2>2. (BufLen - c.szRecv) % Word = BufLen
    BY <1>5, WordIs, ServerAssumption
  <2> QED
    BY <2>1, <2>2 DEF schedule_read
<1> HIDE DEF read
<1>10. PICK R \in SUBSET {read} :
         ops' = (ops \cup R) \cup {AcceptOp(s)} /\ (Faults = {} => R = {read})
  <2>1. CASE ops' = (ops \cup Started(read)) \cup {AcceptOp(s)}
    <3>1. Faults = {} => Started(read) = {read}
      BY <1>4, <1>9, ServerAssumption DEF Started, IsReset, Streams, NoResets, IInv, TypeOK
    <3>2. Started(read) \in SUBSET {read}
      BY StartedSubset
    <3> QED
      BY <2>1, <3>1, <3>2
  <2>2. CASE "associate" \in Faults /\ ops' = ops \cup {AcceptOp(s)}
    <3>1. {} \in SUBSET {read} /\ ops' = (ops \cup {}) \cup {AcceptOp(s)} /\ Faults # {}
      BY <2>2
    <3> QED
      BY <3>1
  <2> QED
    BY <1>3, <2>1, <2>2
<1>11. /\ Arrived(0)' = {} /\ Pending(0)' = {AcceptOp(s)}
       /\ Arrived(i)' = Arrived(i) /\ Pending(i)' = Pending(i) \cup R
       /\ \A j : j # 0 /\ j # i => Arrived(j)' = Arrived(j) /\ Pending(j)' = Pending(j)
  BY <1>2, <1>9, <1>10, AcceptViews
<1>12. Arrived(i) = {} /\ Pending(i) = {}
  <2>1. \A o \in ops : o.idx # i
    BY <1>1, <1>2, PendingIsConnected, ServerAssumption
  <2>2. \A k \in Queued : port[k].key # i
    BY <1>1, <1>2, PendingIsConnected, ServerAssumption
  <2> QED
    BY <2>1, <2>2 DEF Arrived, Pending, For
<1>13. DataStep
  BY <1>1 DEF DataStep
<1>14. Entries'
  <2> SUFFICES ASSUME NEW j \in Client PROVE SoundAt(j)'
    BY DEF Entries, SoundAt
  <2>1. CASE j # i
    <3>1. ctx'[j] = ctx[j] /\ Arrived(j)' = Arrived(j) /\ Pending(j)' = Pending(j)
      BY <1>8, <1>11, <2>1, SlotType
    <3>2. Ended(ctx[j].socket) => conn'[link[ctx[j].socket]] \in {"fin", "rst"}
      BY <1>1 DEF Ended
    <3> QED
      BY <1>1, <1>13, <3>1, <3>2, OtherEntry
  <2>2. CASE j = i
    <3>1. PICK t : t = acceptedSocket /\ t = ctx'[i].socket
      BY <1>2, <1>5, <1>8
    <3>2. Sound(c, R, {}, Heard(t)', Ended(t)', alive')
      BY <1>5, <1>9, <1>10 DEF Sound
    <3>3. Sound(ctx'[i], Pending(i)', Arrived(i)', Heard(t)', Ended(t)', alive')
      BY <1>2, <1>8, <1>11, <1>12, <3>2
    <3>4. Heard(ctx[i].socket)' = Heard(t)' /\ Ended(ctx[i].socket)' = Ended(t)'
      BY <3>1
    <3> QED
      BY <2>2, <3>3, <3>4 DEF SoundAt
  <2> QED
    BY <2>1, <2>2
<1>15. Links'
  BY <1>1, LinksLess DEF Streams
<1>16. KeyIsFirst'
  BY <1>13, DataStepKeeps DEF Streams
<1>17. NoResets'
  BY <1>1 DEF Streams, NoResets
<1>18. Listening'
  <2>1. AcceptOp(s).ov = "recv"
    BY DEF AcceptOp
  <2>2. Arrived(0)' = {} /\ Pending(0)' = {AcceptOp(s)}
    BY <1>11
  <2> QED
    BY <2>1, <2>2 DEF Listening
<1> QED
  BY <1>14, <1>15, <1>16, <1>17, <1>18 DEF Streams

\* Every step keeps it.
LEMMA NextStreams == IInv /\ Streams /\ [Next]_vars => Streams'
<1> SUFFICES ASSUME IInv, Streams, [Next]_vars PROVE Streams'
  OBVIOUS
<1>1. CASE ExecFailed
  BY <1>1, DropStreams DEF ExecFailed, server, peers
<1>2. CASE ExecAccept
  <2>1. /\ Dequeued(0, "recv") /\ port' = Tail(port)
        /\ UNCHANGED <<keysLive, alive, backlog, sent>>
        /\ RefuseConnection \/ \E i \in Slot : StoreConnection(i)
    BY <1>2 DEF ExecAccept
  <2> QED
    BY <2>1, RefuseStreams, StoreStreams
<1>3. ASSUME NEW i \in Client, ExecDisconnect(i) PROVE Streams'
  BY <1>3, ExecDisconnectStreams
<1>4. ASSUME NEW i \in Client, ExecRecv(i) PROVE Streams'
  BY <1>4, ExecRecvStreams
<1>5. ASSUME NEW i \in Client, ExecSend(i) PROVE Streams'
  BY <1>5, ExecSendStreams
<1>6. ASSUME NEW i \in Client, ExecCancel(i) PROVE Streams'
  BY <1>6, ExecCancelStreams
<1>7. CASE CompleteAccept
  BY <1>7, CompleteAcceptStreams
<1>8. ASSUME NEW i \in Client, CompleteRecv(i) PROVE Streams'
  BY <1>8, CompleteRecvStreams
<1>9. ASSUME NEW i \in Client, CompleteSend(i) PROVE Streams'
  BY <1>9, CompleteSendStreams
<1>10. CASE Clients
  BY <1>10, ClientsStreams DEF Clients
<1>11. CASE UNCHANGED vars
  <2>1. UNCHANGED <<ctx, alive, port, ops, link, conn, backlog, data, sent>>
    BY <1>11 DEF vars, server, kernel, peers
  <2>2. \A i : Pending(i)' = Pending(i) /\ Arrived(i)' = Arrived(i)
    BY <2>1 DEF Pending, Arrived, Queued
  <2>3. \A s : Heard(s)' = Heard(s) /\ Ended(s)' = Ended(s)
    BY <2>1 DEF Heard, Ended
  <2>4. Entries'
    <3>1. ASSUME NEW i \in Client PROVE SoundAt(i)'
      <4>1. PICK s : s = ctx[i].socket
        OBVIOUS
      <4>2. Heard(ctx[i].socket)' = Heard(s)' /\ Ended(ctx[i].socket)' = Ended(s)'
        BY <2>1, <4>1
      <4>3. Sound(ctx[i], Pending(i), Arrived(i), Heard(s), Ended(s), alive)
        BY <4>1 DEF Streams, Entries
      <4> QED
        BY <2>1, <2>2, <2>3, <4>2, <4>3 DEF SoundAt
    <3> QED
      BY <3>1 DEF Entries, SoundAt
  <2>5. Listening'
    BY <2>1, <2>2 DEF Streams, Listening
  <2> QED
    BY <2>1, <2>4, <2>5 DEF Streams, Links, KeyIsFirst, NoResets
<1> QED
  BY <1>1, <1>2, <1>3, <1>4, <1>5, <1>6, <1>7, <1>8, <1>9, <1>10, <1>11
     DEF Next, Exec, Kernel

-----------------------------------------------------------------------------
(* The theorems.                                                           *)

\* The invariant holds in every reachable state.
LEMMA StreamsInductive == Spec => [](IInv /\ Streams)
<1>1. Init => IInv /\ Streams
  BY InitIInv, InitStreams
<1>2. IInv /\ Streams /\ [Next]_vars => (IInv /\ Streams)'
  BY NextIInv, NextStreams
<1> QED
  BY <1>1, <1>2, PTL DEF Spec

\* What the queue holds for entry i, and what the kernel has pending for it.
LEMMA ViewsOf ==
  ASSUME IInv
  PROVE  /\ \A k \in Queued : port[k] \in Arrived(port[k].key) /\ port[k].key \in Slot
         /\ \A o \in ops : o \in Pending(o.idx) /\ o.idx \in Slot
         /\ \A i : Pending(i) # {} => \E o \in ops : o.idx = i
         /\ \A i : Arrived(i) # {} => \E k \in Queued : port[k].key = i
<1>1. (\A o \in ops : o.idx \in Slot) /\ (\A k \in Queued : port[k].key \in Slot)
  BY IndexType DEF IInv, TypeOK
<1> QED
  BY <1>1 DEF Arrived, Pending, For

\* overlap_recv_handler takes `transferred == 0` for the end of a connection,
\* and it is: whatever the clients send and whichever faults there are, a
\* receive is never started with no room left in buf_recv.
THEOREM TeardownIsTheClients == Spec => []DisconnectIsReal
<1>1. ASSUME IInv, Streams PROVE DisconnectIsReal
  <2> SUFFICES ASSUME NEW k \in Queued, port[k].ov = "cancel"
               PROVE  conn[link[ctx[port[k].key].socket]] \in {"fin", "rst"}
    BY DEF DisconnectIsReal
  <2>1. port[k] \in Arrived(port[k].key) /\ port[k].key \in Slot
    BY <1>1, ViewsOf
  <2>2. port[k].key # 0
    BY <1>1, <2>1 DEF Streams, Listening
  <2>3. port[k].key \in Client
    BY <2>1, <2>2 DEF Client
  <2>4. Ended(ctx[port[k].key].socket)
    BY <1>1, <2>1, <2>3 DEF Streams, Entries, Sound
  <2> QED
    BY <2>4 DEF Ended
<1> QED
  BY <1>1, StreamsInductive, PTL

\* As long as a client sends its key message once, first, what schedule_write
\* asks for is exactly the rest of the reply, inside buf_send.
THEOREM SendsTheRest == ASSUME ~ReKey PROVE Spec => []SendStaysInBuffer
<1>1. ASSUME IInv, Streams PROVE SendStaysInBuffer
  <2> SUFFICES ASSUME NEW o \in ops, o.ov = "send"
               PROVE  /\ ctx[o.idx].szSend + o.len = ctx[o.idx].szSendTotal
                      /\ ctx[o.idx].szSendTotal <= BufLen
    BY DEF SendStaysInBuffer
  <2>1. o \in Pending(o.idx) /\ o.idx \in Slot
    BY <1>1, ViewsOf
  <2>2. o.idx # 0
    BY <1>1, <2>1 DEF Streams, Listening
  <2>3. o.idx \in Client
    BY <2>1, <2>2 DEF Client
  <2> QED
    BY <1>1, <2>1, <2>3 DEF Streams, Entries, Sound
<1> QED
  BY <1>1, StreamsInductive, PTL

\* Without resets exec never drops the packet of the accept operation, and both
\* paths of add_accepted_connection are followed by schedule_accept: the server
\* keeps accepting.
THEOREM KeepsAccepting == ASSUME "reset" \notin Faults PROVE Spec => []AcceptArmed
<1>1. ASSUME IInv, Streams PROVE AcceptArmed
  <2>1. alive => Pending(0) # {} \/ Arrived(0) # {}
    BY <1>1 DEF Streams, Listening
  <2> QED
    BY <1>1, <2>1, ViewsOf DEF AcceptArmed
<1> QED
  BY <1>1, StreamsInductive, PTL

\* Without faults each handler leaves its connection with a next operation or a
\* packet: no entry of g_ctxs is in use and forgotten.
THEOREM NobodyIsForgotten == ASSUME Faults = {} PROVE Spec => []NoOrphan
<1>1. ASSUME IInv, Streams PROVE NoOrphan
  <2>1. ASSUME alive, NEW i \in Client, ctx[i].socket # NoSocket
        PROVE  Pending(i) # {} \/ Arrived(i) # {}
    BY <1>1, <2>1 DEF Streams, Entries, Sound
  <2> QED
    BY <1>1, <2>1, ViewsOf DEF NoOrphan
<1> QED
  BY <1>1, StreamsInductive, PTL

===============================================================================
