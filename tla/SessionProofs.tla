---------------------------- MODULE SessionProofs ----------------------------
(***************************************************************************)
(* Proofs about Session, for messages of any length and any number of      *)
(* requests, with or without clashes and faults.  TypeCorrect, NoDeadlock  *)
(* and ServerAgrees hold however TCP cuts the messages;                    *)
(* RepliesMatchRequests is about whole messages.                           *)
(***************************************************************************)
EXTENDS Session, TLAPS

\* While the client waits for a server that is up, something is under way: in
\* one of the streams or in the send buffer.  An empty reply would break this.
InFlight ==
  0 \notin ReplyLens /\ pc \in {"wait_key", "wait_reply"} /\ ServerUp => c2s # <<>> \/ s2c # <<>> \/ out # <<>>

\* The send buffer holds something exactly as long as a send is going on.
OutOnlyWhileSending == srv # "sending" /\ ~ServerEnded => out = <<>>

\* The number of failed connects is below the limit as long as main goes on.
TriesLeft == pc = "connect" => tries < ReconnectTries

IInv == TypeOK /\ TriesLeft /\ InFlight /\ OutOnlyWhileSending

-----------------------------------------------------------------------------
(* Messages and streams.                                                   *)

\* The lengths are those of messages of at least one piece.
LEMMA Lengths ==
  /\ ReconnectTries \in Nat /\ ReconnectTries > 0 /\ MaxRequests \in Nat
  /\ KeyLen \in Nat /\ KeyLen > 0 /\ KeyAnswerLen \in Nat /\ KeyAnswerLen > 0
  /\ \A len \in RequestLens : len \in Nat /\ len > 0
  /\ \A len \in ReplyLens : len \in Nat
  /\ SendRoom \in Nat
<1>1. \A x \in {ReconnectTries, KeyLen, KeyAnswerLen} : x \in Nat \ {0}
  BY SessionAssumption
<1>2. \A x \in Nat \ {0} : x > 0
  OBVIOUS
<1> QED
  BY <1>1, <1>2, SessionAssumption

\* A function of len pieces, such as a message, is a sequence of pieces.
LEMMA MessageType ==
  ASSUME NEW len \in Nat, NEW m, m = [p \in 1..len |-> m[p]],
         \A p \in 1..len : m[p] \in Piece
  PROVE  /\ m \in Seq(Piece)
         /\ len > 0 => m # <<>>
<1>1. m \in [1..len -> Piece]
  OBVIOUS
<1>2. m \in Seq(Piece) /\ Len(m) = len
  BY <1>1
<1> QED
  BY <1>2

\* What one call moves is a nonempty prefix; it and the rest are pieces.
LEMMA AmountType ==
  ASSUME NEW s \in Seq(Piece), NEW n \in Amounts(s)
  PROVE  /\ First(s, n) \in Seq(Piece) /\ First(s, n) # <<>> /\ Rest(s, n) \in Seq(Piece)
         /\ s[1] \in Piece /\ First(s, n)[1] = s[1]
<1>1. n \in 1..Len(s)
  BY DEF Amounts
<1>2. First(s, n) \in Seq(Piece) /\ Len(First(s, n)) = n /\ First(s, n)[1] = s[1]
  BY <1>1 DEF First
<1>3. Rest(s, n) \in Seq(Piece)
  BY <1>1 DEF Rest
<1> QED
  BY <1>1, <1>2, <1>3

\* Appending to a stream.
LEMMA AppendType ==
  ASSUME NEW s \in Seq(Piece), NEW m \in Seq(Piece)
  PROVE  s \o m \in Seq(Piece) /\ (m # <<>> => s \o m # <<>>)
  OBVIOUS

\* The key message and its answer.
LEMMA KeyTypes ==
  /\ KeyMessage \in Seq(Piece) /\ KeyMessage # <<>>
  /\ KeyReply \in Seq(Piece) /\ KeyReply # <<>>
<1>1. KeyLen \in Nat /\ KeyLen > 0 /\ KeyAnswerLen \in Nat /\ KeyAnswerLen > 0
  BY Lengths
<1>2. KeyMessage = [p \in 1..KeyLen |-> KeyMessage[p]] /\ \A p \in 1..KeyLen : KeyMessage[p] \in Piece
  BY <1>1 DEF KeyMessage, Message, Piece
<1>3. KeyReply = [p \in 1..KeyAnswerLen |-> KeyReply[p]] /\ \A p \in 1..KeyAnswerLen : KeyReply[p] \in Piece
  BY <1>1 DEF KeyReply, Message, Piece
<1>4. KeyMessage \in Seq(Piece) /\ KeyMessage # <<>>
  BY <1>1, <1>2, MessageType
<1>5. KeyReply \in Seq(Piece) /\ KeyReply # <<>>
  BY <1>1, <1>3, MessageType
<1> QED
  BY <1>4, <1>5

-----------------------------------------------------------------------------

\* The initial state.
LEMMA InitIInv == Init => IInv
<1> SUFFICES ASSUME Init PROVE IInv
  OBVIOUS
<1>1. TypeOK
  <2>1. <<>> \in Seq(Piece)
    OBVIOUS
  <2> QED
    <3>1. shown = <<>> /\ c2s = <<>> /\ s2c = <<>> /\ got = <<>> /\ out = <<>>
      BY DEF Init
    <3>2. {shown, c2s, s2c, got, out} \subseteq Seq(Piece)
      BY <2>1, <3>1
    <3>3. tries \in 0..ReconnectTries /\ reqs \in 0..MaxRequests
      BY Lengths DEF Init
    <3>4. hasKey \in BOOLEAN /\ pc = "connect" /\ srv = "idle"
      BY DEF Init
    <3> QED
      BY <3>2, <3>3, <3>4 DEF TypeOK
<1>2. TriesLeft /\ InFlight /\ OutOnlyWhileSending
  BY Lengths DEF Init, TriesLeft, InFlight, OutOnlyWhileSending, ServerEnded
<1> QED
  BY <1>1, <1>2 DEF IInv

\* send_request of a message puts it under way if the server is up.
LEMMA SendRequest ==
  ASSUME TypeOK, NEW m \in Seq(Piece), m # <<>>, send_request(m)
  PROVE  /\ c2s' \in Seq(Piece) /\ s2c' = s2c /\ UNCHANGED <<srv, hasKey, got, out>>
         /\ ServerUp' => c2s' # <<>>
<1>1. c2s \in Seq(Piece)
  BY DEF TypeOK
<1>2. s2c' = s2c /\ UNCHANGED <<srv, hasKey, got, out>> /\ (ServerUp' = ServerUp)
  BY DEF send_request, entry, ServerUp, ServerEnded
<1>3. CASE ServerUp
  <2>1. c2s' = c2s \o m
    BY <1>3 DEF send_request
  <2> QED
    BY <1>1, <1>2, <2>1, AppendType
<1>4. CASE ~ServerUp
  BY <1>1, <1>2, <1>4 DEF send_request
<1> QED
  BY <1>3, <1>4

\* The client's steps.
LEMMA ClientIInv ==
  ASSUME IInv, ConnectFails \/ Connects \/ SendKey \/ Ask \/ Exit \/ Recv
  PROVE  IInv'
<1> USE Lengths DEF IInv, TypeOK, TriesLeft, InFlight, OutOnlyWhileSending, ServerUp, ServerEnded
<1>1. CASE ConnectFails
  BY <1>1 DEF ConnectFails, entry
<1>2. CASE Connects
  BY <1>2 DEF Connects
<1>3. CASE SendKey
  <2>1. pc' = "wait_key" /\ send_request(KeyMessage) /\ UNCHANGED <<tries, reqs, shown>>
    BY <1>3 DEF SendKey
  <2>2. /\ c2s' \in Seq(Piece) /\ s2c' = s2c /\ UNCHANGED <<srv, hasKey, got, out>>
        /\ ServerUp' => c2s' # <<>>
    BY <2>1, KeyTypes, SendRequest
  <2> QED
    BY <2>1, <2>2
<1>4. CASE Ask
  <2>1. /\ pc = "dialog" /\ pc' = "wait_reply" /\ reqs < MaxRequests /\ reqs' = reqs + 1
        /\ UNCHANGED <<tries, shown>>
    BY <1>4 DEF Ask
  <2>2. PICK kind \in Requests, len \in RequestLens, zero \in {FALSE, Clash} :
          send_request(Message(kind, reqs', zero, TRUE, len))
    BY <1>4 DEF Ask
  <2>3. reqs' \in 0..MaxRequests /\ reqs' \in Nat /\ len \in Nat /\ len > 0
    BY <2>1
  <2>4. PICK m \in Seq(Piece) : m # <<>> /\ send_request(m)
    <3> DEFINE w == Message(kind, reqs', zero, TRUE, len)
    <3>1. w \in Seq(Piece) /\ w # <<>>
      <4>1. zero \in BOOLEAN
        BY SessionAssumption
      <4>2. w = [p \in 1..len |-> w[p]] /\ \A p \in 1..len : w[p] \in Piece
        BY <2>3, <4>1 DEF Message, Piece
      <4> HIDE DEF w
      <4> QED
        BY <2>3, <4>2, MessageType
    <3>2. send_request(w)
      BY <2>2
    <3> HIDE DEF w
    <3> QED
      BY <3>1, <3>2
  <2>5. /\ c2s' \in Seq(Piece) /\ s2c' = s2c /\ UNCHANGED <<srv, hasKey, got, out>>
        /\ ServerUp' => c2s' # <<>>
    BY <2>4, SendRequest
  <2> QED
    BY <2>1, <2>3, <2>5
<1>5. CASE Exit
  BY <1>5 DEF Exit, entry
<1>6. CASE RecvKey
  <2>1. PICK n \in Amounts(s2c) : s2c' = Rest(s2c, n)
    BY <1>6 DEF RecvKey
  <2>2. s2c' \in Seq(Piece)
    BY <2>1, AmountType
  <2>3. pc' \in {"dialog", "aborted"} /\ UNCHANGED <<tries, reqs, shown, c2s, srv, hasKey, got, out>>
    BY <1>6 DEF RecvKey, entry
  <2> QED
    BY <2>2, <2>3
<1>7. CASE RecvReply
  <2>1. PICK n \in Amounts(s2c) : shown' = First(s2c, n) /\ s2c' = Rest(s2c, n)
    BY <1>7 DEF RecvReply
  <2>2. s2c' \in Seq(Piece) /\ shown' \in Seq(Piece)
    BY <2>1, AmountType
  <2>3. pc' = "dialog" /\ UNCHANGED <<tries, reqs, c2s, srv, hasKey, got, out>>
    BY <1>7 DEF RecvReply, entry
  <2> QED
    BY <2>2, <2>3
<1>8. CASE RecvLost
  <2>1. s2c' = <<>> /\ s2c' \in Seq(Piece) /\ ~ServerUp
    BY <1>8 DEF RecvLost
  <2>2. UNCHANGED <<tries, reqs, c2s, srv, hasKey, got, out>>
    BY <1>8 DEF RecvLost, entry
  <2>3. pc' \in {"dialog", "aborted"} /\ shown' \in Seq(Piece)
    <3>1. pc' \in {"dialog", "aborted"} /\ (shown' = shown \/ shown' = <<>>)
      BY <1>8 DEF RecvLost
    <3>2. shown \in Seq(Piece) /\ <<>> \in Seq(Piece)
      OBVIOUS
    <3> QED
      BY <3>1, <3>2
  <2> QED
    BY <2>1, <2>2, <2>3
<1> QED
  BY <1>1, <1>2, <1>3, <1>4, <1>5, <1>6, <1>7, <1>8 DEF Recv

\* The server's steps.
LEMMA ServerIInv ==
  ASSUME IInv, Server \/ Death
  PROVE  IInv'
<1> USE Lengths DEF IInv, TypeOK, TriesLeft, InFlight, OutOnlyWhileSending, ServerUp, ServerEnded
<1>1. CASE Accept
  BY <1>1 DEF Accept, client
<1>2. CASE Receive
  <2>1. PICK n \in Amounts(c2s) :
          /\ \E zero \in ZeroFirst(First(c2s, n)) :
               \/ zero /\ form_answ_key(First(c2s, n))
               \/ ~zero /\ msg_handler(First(c2s, n))
          /\ got' = First(c2s, n)
          /\ c2s' = Rest(c2s, n)
    BY <1>2 DEF Receive
  <2> DEFINE b == First(c2s, n)
  <2>2. c2s' \in Seq(Piece) /\ got' \in Seq(Piece) /\ b[1] \in Piece
    BY <2>1, AmountType
  <2>3. UNCHANGED <<pc, tries, reqs, shown, s2c>>
    BY <1>2 DEF Receive, client
  <2> HIDE DEF b
  <2>4. CASE Abort \/ Crash
    BY <2>2, <2>3, <2>4 DEF Abort, Crash
  <2>5. CASE form_answ_key(b) /\ ~Abort
    <3>1. srv' = "sending" /\ out' = KeyReply /\ hasKey' = TRUE
      BY <2>5 DEF form_answ_key
    <3> QED
      BY <2>2, <2>3, <3>1, KeyTypes
  <2>6. CASE msg_handler(b) /\ ~Abort /\ ~Crash
    <3>1. PICK len \in ReplyLens :
            out' = Message("reply", IF b[1].part = 1 THEN b[1].id ELSE 0, FALSE,
                           IsMessage(b), len)
      BY <2>6 DEF msg_handler
    <3>2. srv' \in {"sending", "aborted"} /\ hasKey' = hasKey
      BY <2>6 DEF msg_handler
    <3>3. PICK id \in Nat : id = IF b[1].part = 1 THEN b[1].id ELSE 0
      BY <2>2 DEF Piece
    <3>4. PICK ok \in BOOLEAN : ok = IsMessage(b)
      BY DEF IsMessage
    <3>5. out' \in Seq(Piece) /\ (0 \notin ReplyLens => out' # <<>>)
      <4>1. len \in Nat /\ (0 \notin ReplyLens => len > 0)
        BY SessionAssumption
      <4>2. out' = [p \in 1..len |-> out'[p]] /\ \A p \in 1..len : out'[p] \in Piece
        BY <3>1, <3>3, <3>4, <4>1 DEF Message, Piece
      <4> QED
        BY <4>1, <4>2, MessageType
    <3> QED
      BY <2>2, <2>3, <3>2, <3>5
  <2> QED
    BY <2>1, <2>4, <2>5, <2>6 DEF b
<1>3. CASE Send
  <2>1. /\ srv = "sending" /\ srv' = IF out' = <<>> THEN "reading" ELSE "sending"
        /\ got' \in Seq(Piece)
        /\ UNCHANGED <<pc, tries, reqs, shown, c2s, hasKey>>
    <3>1. <<>> \in Seq(Piece)
      OBVIOUS
    <3> QED
      BY <1>3, <3>1 DEF Send, client
  <2>2. CASE out = <<>> /\ UNCHANGED <<s2c, out>>
    BY <2>1, <2>2
  <2>3. ASSUME NEW n \in Amounts(out),
               s2c' = IF ClientUp THEN s2c \o First(out, n) ELSE s2c,
               out' = Rest(out, n)
        PROVE  IInv'
    <3>1. First(out, n) \in Seq(Piece) /\ First(out, n) # <<>> /\ out' \in Seq(Piece)
      BY <2>3, AmountType
    <3>2. s2c' \in Seq(Piece) /\ (ClientUp => s2c' # <<>>)
      BY <2>3, <3>1, AppendType
    <3> QED
      BY <2>1, <3>1, <3>2 DEF ClientUp
  <2> QED
    BY <1>3, <2>2, <2>3 DEF Send
<1>4. CASE Disconnect
  BY <1>4 DEF Disconnect, client
<1>5. CASE Death
  BY <1>5 DEF Death, Abort, client
<1> QED
  BY <1>1, <1>2, <1>3, <1>4, <1>5 DEF Server

-----------------------------------------------------------------------------

\* Every step preserves the inductive invariant.
LEMMA Inductive == Spec => []IInv
<1>1. IInv /\ [Next]_vars => IInv'
  <2> SUFFICES ASSUME IInv, [Next]_vars PROVE IInv'
    OBVIOUS
  <2>1. CASE Next
    BY <2>1, ClientIInv, ServerIInv DEF Next
  <2>2. CASE UNCHANGED vars
    BY <2>2 DEF vars, client, entry, IInv, TypeOK, TriesLeft, InFlight,
                OutOnlyWhileSending, ServerUp, ServerEnded
  <2> QED
    BY <2>1, <2>2
<1> QED
  BY <1>1, InitIInv, PTL DEF Spec

\* The streams carry only pieces of messages, and the client stops after
\* reconnect_tries failed connects.
THEOREM TypeCorrect == Spec => []TypeOK
<1>1. IInv => TypeOK
  BY DEF IInv
<1> QED
  BY <1>1, Inductive, PTL

\* If no request handler leaves its reply empty, the client and the server
\* never wait for each other, however TCP cuts the messages, whatever an
\* encrypted request begins with, and although the server may refuse the
\* client or die.
THEOREM NoDeadlock ==
  ASSUME 0 \notin ReplyLens
  PROVE  Spec => []NoMutualWait
<1>1. IInv => NoMutualWait
  BY DEF IInv, InFlight, OutOnlyWhileSending, NoMutualWait, ServerUp, ServerEnded
<1> QED
  BY <1>1, Inductive, PTL

-----------------------------------------------------------------------------
(* The two sides agree on what is a key and what is a request, however the   *)
(* messages are cut.                                                         *)

\* While the server is up, the stream to it holds the key message alone and
\* untouched until the server has taken it whole and kept the session key, and
\* from then on pieces of requests only.
Talking ==
  ServerUp =>
    \/ pc \in {"connect", "gave_up", "send_key"} /\ c2s = <<>> /\ s2c = <<>> /\ out = <<>>
    \/ pc = "wait_key" /\ c2s = KeyMessage /\ s2c = <<>> /\ out = <<>>
    \/ /\ pc \notin {"connect", "gave_up", "send_key"}
       /\ hasKey /\ \A k \in DOMAIN c2s : c2s[k].kind \in Requests

\* A first part of the key message that passes for a message is all of it.
LEMMA KeyPrefix ==
  ASSUME NEW n \in Amounts(KeyMessage), IsMessage(First(KeyMessage, n))
  PROVE  First(KeyMessage, n) = KeyMessage /\ Rest(KeyMessage, n) = <<>>
<1>1. KeyMessage \in Seq(Piece) /\ KeyLen \in Nat /\ Len(KeyMessage) = KeyLen
  BY KeyTypes, Lengths DEF KeyMessage, Message
<1>2. n \in 1..KeyLen
  BY <1>1 DEF Amounts
<1>3. Len(First(KeyMessage, n)) = n /\ First(KeyMessage, n)[n] = KeyMessage[n]
  BY <1>1, <1>2 DEF First
<1>4. DOMAIN First(KeyMessage, n) = 1..n
  BY <1>1, <1>2 DEF First
<1>5. KeyMessage[n].last
  BY <1>2, <1>3, <1>4 DEF IsMessage
<1>6. n = KeyLen
  BY <1>2, <1>5 DEF KeyMessage, Message
<1> QED
  BY <1>1, <1>6 DEF First, Rest

\* The kinds of pieces in a stream of requests.
LEMMA Kinds ==
  ASSUME NEW s \in Seq(Piece), \A k \in DOMAIN s : s[k].kind \in Requests
  PROVE  /\ \A n \in Amounts(s) : \A k \in DOMAIN Rest(s, n) : Rest(s, n)[k].kind \in Requests
         /\ \A n \in Amounts(s) : First(s, n)[1].kind \in Requests
         /\ \A m \in Seq(Piece) : (\A k \in DOMAIN m : m[k].kind \in Requests)
              => \A k \in DOMAIN (s \o m) : (s \o m)[k].kind \in Requests
<1>1. ASSUME NEW n \in Amounts(s), NEW k \in DOMAIN Rest(s, n)
      PROVE  Rest(s, n)[k].kind \in Requests
  <2>1. n \in 1..Len(s)
    BY DEF Amounts
  <2>2. k \in 1..(Len(s) - n) /\ Rest(s, n)[k] = s[n + k]
    BY <2>1 DEF Rest
  <2>3. n + k \in DOMAIN s
    BY <2>1, <2>2
  <2> QED
    BY <2>2, <2>3
<1>2. ASSUME NEW n \in Amounts(s)
      PROVE  First(s, n)[1].kind \in Requests
  <2>1. First(s, n)[1] = s[1]
    BY AmountType
  <2>2. 1 \in DOMAIN s
    BY DEF Amounts
  <2> QED
    BY <2>1, <2>2
<1>3. ASSUME NEW m \in Seq(Piece), \A k \in DOMAIN m : m[k].kind \in Requests,
             NEW k \in DOMAIN (s \o m)
      PROVE  (s \o m)[k].kind \in Requests
  <2>1. CASE k \in 1..Len(s)
    <3>1. (s \o m)[k] = s[k] /\ k \in DOMAIN s
      BY <2>1
    <3> QED
      BY <3>1
  <2>2. CASE k \in (Len(s) + 1)..(Len(s) + Len(m))
    <3>1. (s \o m)[k] = m[k - Len(s)] /\ k - Len(s) \in DOMAIN m
      BY <2>2
    <3> QED
      BY <1>3, <3>1
  <2> QED
    BY <2>1, <2>2
<1> QED
  BY <1>1, <1>2, <1>3

LEMMA InitTalking == Init => Talking /\ AssertionsHold
BY DEF Init, Talking, AssertionsHold

\* The client's steps.
LEMMA ClientTalking ==
  ASSUME IInv, Talking, AssertionsHold,
         ConnectFails \/ Connects \/ SendKey \/ Ask \/ Exit \/ Recv
  PROVE  Talking' /\ AssertionsHold'
<1> USE DEF Talking, ServerUp, ServerEnded
<1>0. c2s \in Seq(Piece) /\ s2c \in Seq(Piece)
  BY DEF IInv, TypeOK
<1>1. CASE ConnectFails
  BY <1>1 DEF ConnectFails, entry, AssertionsHold
<1>2. CASE Connects
  BY <1>2 DEF Connects, AssertionsHold
<1>3. CASE SendKey
  <2>1. /\ pc = "send_key" /\ pc' = "wait_key" /\ UNCHANGED <<s2c, srv, hasKey, got, out>>
        /\ c2s' = IF ServerUp THEN c2s \o KeyMessage ELSE c2s
    BY <1>3 DEF SendKey, send_request, entry
  <2>2. c2s = <<>> => c2s \o KeyMessage = KeyMessage
    BY KeyTypes
  <2>3. Talking'
    BY <2>1, <2>2
  <2> QED
    BY <2>1, <2>3 DEF AssertionsHold, IsMessage
<1>4. CASE Ask
  <2>1. PICK kind \in Requests, len \in RequestLens, zero \in {FALSE, Clash} :
          send_request(Message(kind, reqs', zero, TRUE, len))
    BY <1>4 DEF Ask
  <2> DEFINE m == Message(kind, reqs', zero, TRUE, len)
  <2>2. pc = "dialog" /\ pc' = "wait_reply" /\ UNCHANGED <<s2c, srv, hasKey, got, out>>
    BY <1>4 DEF Ask, send_request, entry
  <2>3. c2s' = IF ServerUp THEN c2s \o m ELSE c2s
    BY <2>1 DEF send_request
  <2>4. m \in Seq(Piece) /\ \A k \in DOMAIN m : m[k].kind \in Requests
    <3>0. reqs \in 0..MaxRequests /\ reqs' = reqs + 1
      BY <1>4 DEF Ask, IInv, TypeOK
    <3>1. reqs' \in Nat /\ len \in Nat /\ zero \in BOOLEAN
      <4>1. MaxRequests \in Nat /\ len \in Nat
        BY Lengths
      <4>2. zero \in BOOLEAN
        BY SessionAssumption
      <4>3. reqs \in Nat
        BY <3>0, <4>1
      <4>4. reqs' \in Nat
        BY <3>0, <4>3
      <4> QED
        BY <4>1, <4>2, <4>4
    <3>2. m = [p \in 1..len |-> m[p]] /\ \A p \in 1..len : m[p] \in Piece /\ m[p].kind = kind
      BY <3>1 DEF Message, Piece
    <3> HIDE DEF m
    <3> QED
      BY <3>1, <3>2, MessageType
  <2> HIDE DEF m
  <2>5. Talking'
    <3>1. ASSUME ServerUp
          PROVE  \A k \in DOMAIN c2s' : c2s'[k].kind \in Requests
      <4>1. \A k \in DOMAIN c2s : c2s[k].kind \in Requests
        BY <2>2, <3>1
      <4> QED
        BY <1>0, <2>3, <2>4, <3>1, <4>1, Kinds
    <3> QED
      BY <2>2, <3>1
  <2> QED
    BY <2>2, <2>5 DEF AssertionsHold, IsMessage
<1>5. CASE Exit
  BY <1>5 DEF Exit, entry, AssertionsHold, IsMessage
<1>6. CASE RecvKey
  <2>1. pc = "wait_key" /\ pc' \in {"dialog", "aborted"} /\ UNCHANGED <<c2s, srv, hasKey, got, out>>
    BY <1>6 DEF RecvKey, entry
  <2>2. s2c # <<>>
    BY <1>6 DEF RecvKey, Amounts
  <2>3. Talking'
    BY <2>1, <2>2
  <2> QED
    BY <2>1, <2>3 DEF AssertionsHold, IsMessage
<1>7. CASE RecvReply
  <2>1. pc = "wait_reply" /\ pc' = "dialog" /\ UNCHANGED <<c2s, srv, hasKey, got, out>>
    BY <1>7 DEF RecvReply, entry
  <2>2. Talking'
    BY <2>1
  <2> QED
    BY <2>1, <2>2 DEF AssertionsHold, IsMessage
<1>8. CASE RecvLost
  <2>1. ~ServerUp /\ UNCHANGED <<c2s, srv, hasKey, got, out>>
    BY <1>8 DEF RecvLost, entry
  <2>2. Talking'
    BY <2>1
  <2> QED
    BY <2>1, <2>2 DEF AssertionsHold, IsMessage
<1> QED
  BY <1>1, <1>2, <1>3, <1>4, <1>5, <1>6, <1>7, <1>8 DEF Recv

\* The server takes what it is sent for what it is, or for one of the things
\* AssertionsHold excepts.
LEMMA ReceiveTalking ==
  ASSUME IInv, Talking, Receive
  PROVE  Talking' /\ AssertionsHold'
<1>1. PICK n \in Amounts(c2s) :
        /\ \E zero \in ZeroFirst(First(c2s, n)) :
             \/ zero /\ form_answ_key(First(c2s, n))
             \/ ~zero /\ msg_handler(First(c2s, n))
        /\ got' = First(c2s, n)
        /\ c2s' = Rest(c2s, n)
  BY DEF Receive
<1> DEFINE b == First(c2s, n)
<1>2. srv = "reading" /\ ServerUp /\ c2s # <<>> /\ UNCHANGED <<pc, s2c>>
  BY <1>1 DEF Receive, ServerUp, ServerEnded, client, Amounts
<1>3. c2s \in Seq(Piece)
  BY DEF IInv, TypeOK
<1>4. CASE pc = "wait_key" /\ c2s = KeyMessage /\ s2c = <<>> /\ out = <<>>
  <2>1. b[1] = KeyMessage[1] /\ KeyMessage[1].part = 1 /\ KeyMessage[1].zero = TRUE
    <3>1. 1 \in 1..KeyLen
      BY Lengths
    <3> QED
      BY <1>3, <1>4, <3>1, AmountType DEF KeyMessage, Message
  <2> HIDE DEF b
  <2>2. form_answ_key(b)
    BY <1>1, <2>1 DEF ZeroFirst, b
  <2>3. CASE IsMessage(b)
    <3>1. b = KeyMessage /\ c2s' = <<>>
      BY <1>1, <1>4, <2>3, KeyPrefix DEF b
    <3>2. srv' = "sending" /\ hasKey'
      BY <2>2, <3>1 DEF form_answ_key
    <3> QED
      BY <1>2, <1>4, <3>1, <3>2 DEF Talking, AssertionsHold
  <2>4. CASE ~IsMessage(b)
    <3>1. b # KeyMessage
      <4>1. DOMAIN KeyMessage = 1..KeyLen /\ Len(KeyMessage) = KeyLen
        BY Lengths DEF KeyMessage, Message
      <4>2. \A k \in 1..KeyLen : KeyMessage[k].last <=> k = KeyLen
        BY DEF KeyMessage, Message
      <4> QED
        BY <2>1, <2>4, <4>1, <4>2 DEF IsMessage
    <3>2. srv' = "aborted"
      BY <2>2, <3>1 DEF form_answ_key, Abort
    <3>3. got' = b
      BY <1>1 DEF b
    <3> QED
      BY <2>4, <3>2, <3>3 DEF Talking, ServerUp, ServerEnded, AssertionsHold, IsMessage
  <2> QED
    BY <2>3, <2>4
<1>5. CASE /\ pc \notin {"connect", "gave_up", "send_key"}
           /\ hasKey /\ \A k \in DOMAIN c2s : c2s[k].kind \in Requests
  <2>1. b[1].kind \in Requests /\ \A k \in DOMAIN c2s' : c2s'[k].kind \in Requests
    BY <1>1, <1>3, <1>5, Kinds
  <2> HIDE DEF b
  <2>2. got' = b
    BY <1>1 DEF b
  <2>3. IsMessage(b) => b[1].part = 1 /\ \E k \in DOMAIN b : b[k].last
    <3>1. b \in Seq(Piece) /\ b # <<>>
      BY <1>3, AmountType DEF b
    <3>2. Len(b) \in DOMAIN b
      BY <3>1
    <3> QED
      BY <3>2 DEF IsMessage
  <2>4. CASE form_answ_key(b) /\ (b[1].part = 1 => b[1].zero)
    <3>1. \/ srv' = "aborted"
          \/ srv' = "sending" /\ hasKey'
      BY <2>4 DEF form_answ_key, Abort
    <3> QED
      BY <1>2, <1>5, <2>1, <2>2, <2>3, <2>4, <3>1
      DEF Talking, ServerUp, ServerEnded, AssertionsHold, IsMessage
  <2>5. CASE msg_handler(b)
    <3>1. \/ srv' = "aborted" /\ b[1].part # 1
          \/ srv' = "crashed" /\ PathUnread(b)
          \/ srv' = "sending" /\ hasKey'
          \/ srv' = "aborted" /\ Len(out') > SendRoom
      <4>1. ASSUME NEW len \in ReplyLens,
                   out' = Message("reply", IF b[1].part = 1 THEN b[1].id ELSE 0, FALSE,
                                  IsMessage(b), len),
                   srv' = IF len <= SendRoom THEN "sending" ELSE "aborted", hasKey' = hasKey
            PROVE  \/ srv' = "sending" /\ hasKey'
                   \/ srv' = "aborted" /\ Len(out') > SendRoom
        <5>1. Len(out') = len /\ len \in Nat /\ SendRoom \in Nat
          BY <4>1, Lengths DEF Message
        <5>2. CASE len <= SendRoom
          BY <1>5, <4>1, <5>2
        <5>3. CASE len > SendRoom
          <6>1. ~ (len <= SendRoom)
            BY <5>1, <5>3
          <6>2. srv' = "aborted"
            BY <4>1, <6>1
          <6> QED
            BY ONLY <5>1, <5>3, <6>2
        <5> QED
          BY <5>1, <5>2, <5>3
      <4> QED
        BY <1>5, <2>5, <4>1 DEF msg_handler, Abort, Crash
    <3>2. PathUnread(b) => ~IsMessage(b) \/ b[1].kind = "unreadable"
      BY <2>3 DEF PathUnread
    <3> QED
      BY <1>2, <1>5, <2>1, <2>2, <2>3, <3>1, <3>2
      DEF Talking, ServerUp, ServerEnded, AssertionsHold, IsMessage
  <2> QED
    BY <1>1, <2>4, <2>5 DEF ZeroFirst, b
<1> QED
  BY <1>2, <1>4, <1>5 DEF Talking

\* The server's steps.
LEMMA ServerTalking ==
  ASSUME IInv, Talking, AssertionsHold, Server \/ Death
  PROVE  Talking' /\ AssertionsHold'
<1> USE DEF Talking, ServerUp, ServerEnded, AssertionsHold
<1>1. CASE Accept
  BY <1>1 DEF Accept, client
<1>2. CASE Receive
  BY <1>2, ReceiveTalking
<1>3. CASE Send
  <2>1. /\ srv = "sending" /\ srv' \in {"sending", "reading"} /\ UNCHANGED <<pc, c2s, hasKey>>
        /\ out # <<>> \/ UNCHANGED <<s2c, out>>
    BY <1>3 DEF Send, client, Amounts
  <2>2. KeyMessage' = KeyMessage
    OBVIOUS
  <2> QED
    BY <2>1, <2>2
<1>4. CASE Disconnect
  BY <1>4 DEF Disconnect
<1>5. CASE Death
  BY <1>5 DEF Death
<1> QED
  BY <1>1, <1>2, <1>3, <1>4, <1>5 DEF Server

\* However TCP cuts or joins the messages, whatever an encrypted request begins
\* with and however long the replies are: an assert of the server fails, and the
\* server crashes, only for the messages AssertionsHold names.
THEOREM ServerAgrees == Spec => []AssertionsHold
<1>1. IInv /\ Talking /\ AssertionsHold /\ [Next]_vars => (Talking /\ AssertionsHold)'
  <2> SUFFICES ASSUME IInv, Talking, AssertionsHold, [Next]_vars
               PROVE  Talking' /\ AssertionsHold'
    OBVIOUS
  <2>1. CASE Next
    BY <2>1, ClientTalking, ServerTalking DEF Next
  <2>2. CASE UNCHANGED vars
    BY <2>2 DEF vars, client, entry, Talking, ServerUp, ServerEnded, AssertionsHold, IsMessage
  <2> QED
    BY <2>1, <2>2
<1> QED
  BY <1>1, InitTalking, Inductive, PTL DEF Spec

-----------------------------------------------------------------------------
(* Whole messages: what is proved when no message is cut.                    *)

\* The messages of a conversation with no message cut: the request under way,
\* which with Clash may begin like a key, and what may answer it.
IsRequest(m) ==
  \E kind \in Requests, len \in RequestLens : \E zero \in {FALSE, Clash} :
    m = Message(kind, reqs, zero, TRUE, len)
IsReply(m)   == \E len \in ReplyLens : m = Message("reply", reqs, FALSE, TRUE, len)

\* Nothing is on its way.
Quiet == c2s = <<>> /\ s2c = <<>> /\ out = <<>>

\* The two sides take turns: at any time there is one message, and both agree
\* on what it is.  Once the server has closed or ended only the client moves.
Turns ==
  \/ pc \in {"connect", "gave_up"} /\ srv = "idle" /\ Quiet
  \/ pc = "send_key" /\ srv \in {"backlog", "reading"} /\ Quiet
  \/ pc = "wait_key" /\ srv \in {"backlog", "reading"} /\ c2s = KeyMessage /\ s2c = <<>> /\ out = <<>>
  \/ pc = "wait_key" /\ srv = "sending" /\ hasKey /\ c2s = <<>> /\ s2c = <<>> /\ out = KeyReply
  \/ pc = "wait_key" /\ srv = "reading" /\ hasKey /\ c2s = <<>> /\ s2c = KeyReply /\ out = <<>>
  \/ pc \in {"dialog", "exited"} /\ srv = "reading" /\ hasKey /\ Quiet
  \/ pc = "wait_reply" /\ srv = "reading" /\ hasKey /\ IsRequest(c2s) /\ s2c = <<>> /\ out = <<>>
  \/ pc = "wait_reply" /\ srv = "sending" /\ hasKey /\ c2s = <<>> /\ s2c = <<>> /\ IsReply(out)
  \/ pc = "wait_reply" /\ srv = "reading" /\ hasKey /\ c2s = <<>> /\ IsReply(s2c) /\ out = <<>>
  \/ /\ ~ServerUp
     /\ pc \notin {"connect", "gave_up"}
     /\ \/ s2c = <<>>
        \/ pc = "wait_key" /\ s2c = KeyReply
        \/ pc = "wait_reply" /\ IsReply(s2c)

\* What the client has on its screen is the reply to its last request.
Shown ==
  /\ pc \in {"connect", "gave_up", "send_key", "wait_key"} => shown = <<>>
  /\ PrintedIsTheReply

\* Without Fragments one call moves a whole message.
LEMMA OneMessage ==
  ASSUME ~Fragments, NEW len \in Nat, NEW m, m = [p \in 1..len |-> m[p]],
         \A p \in 1..len : m[p] \in Piece /\ m[p].part = p /\ (m[p].last <=> p = len),
         NEW n \in Amounts(m)
  PROVE  First(m, n) = m /\ Rest(m, n) = <<>> /\ IsMessage(m) /\ 1 \in 1..len
<1>1. m \in Seq(Piece)
  BY MessageType
<1>2. DOMAIN m = 1..len /\ Len(m) = len
  OBVIOUS
<1>3. n \in 1..len /\ m[n].last
  BY <1>2 DEF Amounts
<1>4. n = len /\ 1 \in 1..len
  BY <1>3
<1>5. First(m, n) = m
  BY <1>1, <1>2, <1>4 DEF First
<1>6. Rest(m, n) = <<>>
  BY <1>1, <1>2, <1>4 DEF Rest
<1>7. IsMessage(m)
  BY <1>2, <1>4 DEF IsMessage
<1> QED
  BY <1>4, <1>5, <1>6, <1>7

\* Nothing can be taken from an empty stream.
LEMMA NoAmount == Amounts(<<>>) = {}
BY DEF Amounts

\* The same for the four messages of the conversation.
LEMMA WholeMessages ==
  ASSUME ~Fragments, TypeOK, NEW m, NEW n \in Amounts(m)
  PROVE  /\ m = KeyMessage => First(m, n) = m /\ Rest(m, n) = <<>> /\ m[1].part = 1 /\ m[1].zero
         /\ m = KeyReply => First(m, n) = m /\ Rest(m, n) = <<>>
         /\ IsRequest(m) => /\ First(m, n) = m /\ Rest(m, n) = <<>> /\ IsMessage(m)
                            /\ m[1].part = 1 /\ m[1].zero \in {FALSE, Clash} /\ m[1].id = reqs
                            /\ m # KeyMessage
         /\ IsReply(m) => /\ First(m, n) = m /\ Rest(m, n) = <<>> /\ IsMessage(m)
                          /\ m[1].kind = "reply" /\ m[1].id = reqs /\ m[1].ok
<1>1. reqs \in Nat /\ KeyLen \in Nat /\ KeyAnswerLen \in Nat
  BY Lengths DEF TypeOK
<1>2. ASSUME m = KeyMessage
      PROVE  First(m, n) = m /\ Rest(m, n) = <<>> /\ m[1].part = 1 /\ m[1].zero
  <2>1. m = Message("key", 0, TRUE, TRUE, KeyLen)
    BY <1>2 DEF KeyMessage
  <2>2. m = [p \in 1..KeyLen |-> m[p]] /\ KeyLen \in Nat
    BY <1>1, <2>1 DEF Message
  <2>3. \A p \in 1..KeyLen : m[p] \in Piece
    BY <1>1, <2>1 DEF Message, Piece
  <2>4. \A p \in 1..KeyLen : m[p].part = p /\ (m[p].last <=> p = KeyLen)
    BY <2>1 DEF Message
  <2>5. \A p \in 1..KeyLen : m[p].zero
    BY <2>1 DEF Message
  <2>6. First(m, n) = m /\ Rest(m, n) = <<>> /\ IsMessage(m) /\ 1 \in 1..KeyLen
    BY <2>2, <2>3, <2>4, OneMessage
  <2> QED
    BY <2>4, <2>5, <2>6
<1>3. ASSUME m = KeyReply
      PROVE  First(m, n) = m /\ Rest(m, n) = <<>>
  <2>1. m = Message("keyanswer", 0, TRUE, TRUE, KeyAnswerLen)
    BY <1>3 DEF KeyReply
  <2>2. m = [p \in 1..KeyAnswerLen |-> m[p]] /\ KeyAnswerLen \in Nat
    BY <1>1, <2>1 DEF Message
  <2>3. \A p \in 1..KeyAnswerLen : m[p] \in Piece
    BY <1>1, <2>1 DEF Message, Piece
  <2>4. \A p \in 1..KeyAnswerLen : m[p].part = p /\ (m[p].last <=> p = KeyAnswerLen)
    BY <2>1 DEF Message
  <2>6. First(m, n) = m /\ Rest(m, n) = <<>> /\ IsMessage(m) /\ 1 \in 1..KeyAnswerLen
    BY <2>2, <2>3, <2>4, OneMessage
  <2> QED
    BY <2>4, <2>6
<1>4. ASSUME IsRequest(m)
      PROVE  /\ First(m, n) = m /\ Rest(m, n) = <<>> /\ IsMessage(m)
             /\ m[1].part = 1 /\ m[1].zero \in {FALSE, Clash} /\ m[1].id = reqs
             /\ m # KeyMessage
  <2>1. PICK kind \in Requests, len \in RequestLens :
          \E zero \in {FALSE, Clash} : m = Message(kind, reqs, zero, TRUE, len)
    BY <1>4 DEF IsRequest
  <2>7. PICK zero \in {FALSE, Clash} : m = Message(kind, reqs, zero, TRUE, len)
    BY <2>1
  <2>2. m = [p \in 1..len |-> m[p]] /\ len \in Nat
    BY Lengths, <2>7 DEF Message
  <2>3. \A p \in 1..len : m[p] \in Piece
    <3>1. CASE zero = FALSE
      <4>1. m = Message(kind, reqs, FALSE, TRUE, len)
        BY <2>7, <3>1
      <4> QED
        BY <1>1, <4>1 DEF Message, Piece
    <3>2. CASE zero = TRUE
      <4>1. m = Message(kind, reqs, TRUE, TRUE, len)
        BY <2>7, <3>2
      <4> QED
        BY <1>1, <4>1 DEF Message, Piece
    <3> QED
      BY <3>1, <3>2, SessionAssumption
  <2>4. \A p \in 1..len : m[p].part = p /\ (m[p].last <=> p = len)
    BY <2>7 DEF Message
  <2>5. \A p \in 1..len : m[p].zero = zero /\ m[p].id = reqs /\ m[p].kind \in Requests
    BY <2>7 DEF Message
  <2>6. First(m, n) = m /\ Rest(m, n) = <<>> /\ IsMessage(m) /\ 1 \in 1..len
    BY <2>2, <2>3, <2>4, OneMessage
  <2>8. m # KeyMessage
    <3>1. \A p \in 1..KeyLen : KeyMessage[p].kind = "key"
      BY DEF KeyMessage, Message
    <3>2. 1 \in 1..KeyLen
      BY SessionAssumption
    <3>3. m[1].kind \in Requests
      BY <2>5, <2>6
    <3> QED
      BY <3>1, <3>2, <3>3 DEF Requests
  <2> QED
    BY <2>4, <2>5, <2>6, <2>8
<1>5. ASSUME IsReply(m)
      PROVE  /\ First(m, n) = m /\ Rest(m, n) = <<>> /\ IsMessage(m)
             /\ m[1].kind = "reply" /\ m[1].id = reqs /\ m[1].ok
  <2>1. PICK len \in ReplyLens : m = Message("reply", reqs, FALSE, TRUE, len)
    BY <1>5 DEF IsReply
  <2>2. m = [p \in 1..len |-> m[p]] /\ len \in Nat
    BY Lengths, <2>1 DEF Message
  <2>3. \A p \in 1..len : m[p] \in Piece
    BY <1>1, <2>1 DEF Message, Piece
  <2>4. \A p \in 1..len : m[p].part = p /\ (m[p].last <=> p = len)
    BY <2>1 DEF Message
  <2>5. \A p \in 1..len : m[p].kind = "reply" /\ m[p].id = reqs /\ m[p].ok
    BY <2>1 DEF Message
  <2>6. First(m, n) = m /\ Rest(m, n) = <<>> /\ IsMessage(m) /\ 1 \in 1..len
    BY <2>2, <2>3, <2>4, OneMessage
  <2> QED
    BY <2>4, <2>5, <2>6
<1> QED
  BY <1>2, <1>3, <1>4, <1>5

\* The first turn is the client's.
LEMMA InitTurns == Init => Turns /\ Shown
BY DEF Init, Turns, Quiet, Shown, PrintedIsTheReply

\* The client's steps hand the turn to the server or take it back.
LEMMA ClientTurns ==
  ASSUME ~Fragments, IInv, Turns, Shown,
         ConnectFails \/ Connects \/ SendKey \/ Ask \/ Exit \/ Recv
  PROVE  Turns' /\ Shown'
<1> USE DEF Shown, PrintedIsTheReply, Quiet, ServerUp, ServerEnded
<1>0. TypeOK
  BY DEF IInv
<1>1. CASE ConnectFails
  BY <1>1 DEF ConnectFails, entry, Turns
<1>2. CASE Connects
  BY <1>2 DEF Connects, Turns
<1>3. CASE SendKey
  <2>1. /\ pc = "send_key" /\ pc' = "wait_key"
        /\ UNCHANGED <<reqs, shown, s2c, srv, hasKey, out>>
        /\ c2s' = IF ServerUp THEN c2s \o KeyMessage ELSE c2s
    BY <1>3 DEF SendKey, send_request, entry
  <2>2. c2s = <<>> => c2s \o KeyMessage = KeyMessage
    BY KeyTypes
  <2> QED
    BY <2>1, <2>2 DEF Turns
<1>4. CASE Ask
  <2>1. /\ pc = "dialog" /\ pc' = "wait_reply" /\ reqs' = reqs + 1
        /\ UNCHANGED <<shown, s2c, srv, hasKey, out>>
    BY <1>4 DEF Ask, send_request, entry
  <2>2. ServerUp /\ c2s = <<>> => IsRequest(c2s)'
    <3>1. PICK kind \in Requests, len \in RequestLens, zero \in {FALSE, Clash} :
            send_request(Message(kind, reqs', zero, TRUE, len))
      BY <1>4 DEF Ask
    <3> DEFINE m == Message(kind, reqs', zero, TRUE, len)
    <3>3. ServerUp => c2s' = c2s \o m
      BY <3>1 DEF send_request
    <3>4. m = [p \in 1..len |-> m[p]] /\ len \in Nat
      BY Lengths DEF Message
    <3> HIDE DEF m
    <3>5. c2s = <<>> => c2s \o m = m
      BY <3>4
    <3> QED
      BY <3>3, <3>5 DEF IsRequest, m
  <2> QED
    BY <2>1, <2>2 DEF Turns
<1>5. CASE Exit
  BY <1>5 DEF Exit, entry, Turns, IsRequest, IsReply
<1>6. CASE RecvKey
  <2>1. PICK n \in Amounts(s2c) :
          /\ pc' = IF First(s2c, n) = KeyReply THEN "dialog" ELSE "aborted"
          /\ s2c' = Rest(s2c, n)
    BY <1>6 DEF RecvKey
  <2>2. pc = "wait_key" /\ UNCHANGED <<reqs, shown, c2s, srv, hasKey, out>>
    BY <1>6 DEF RecvKey, entry
  <2>3. s2c = KeyReply
    BY <2>1, <2>2, NoAmount DEF Turns
  <2>4. pc' = "dialog" /\ s2c' = <<>>
    BY <1>0, <2>1, <2>3, WholeMessages
  <2> QED
    BY <2>2, <2>3, <2>4, KeyTypes DEF Turns
<1>7. CASE RecvReply
  <2>1. PICK n \in Amounts(s2c) : shown' = First(s2c, n) /\ s2c' = Rest(s2c, n)
    BY <1>7 DEF RecvReply
  <2>2. pc = "wait_reply" /\ pc' = "dialog" /\ UNCHANGED <<reqs, c2s, srv, hasKey, out>>
    BY <1>7 DEF RecvReply, entry
  <2>3. IsReply(s2c) /\ s2c # <<>>
    BY <2>1, <2>2, NoAmount DEF Turns
  <2>4. /\ shown' = s2c /\ s2c' = <<>>
        /\ IsMessage(s2c) /\ s2c[1].kind = "reply" /\ s2c[1].id = reqs /\ s2c[1].ok
    BY <1>0, <2>1, <2>3, WholeMessages
  <2>5. Shown'
    BY <2>2, <2>4 DEF IsMessage
  <2> QED
    BY <2>2, <2>3, <2>4, <2>5 DEF Turns
<1>8. CASE RecvLost
  <2>1. /\ ~ServerUp /\ s2c' = <<>> /\ pc \in {"wait_key", "wait_reply"}
        /\ pc' = "aborted" \/ (pc' = "dialog" /\ shown' = <<>>)
        /\ UNCHANGED <<reqs, c2s, srv, hasKey, out>>
    BY <1>8 DEF RecvLost, entry
  <2> QED
    BY <2>1 DEF Turns
<1> QED
  BY <1>1, <1>2, <1>3, <1>4, <1>5, <1>6, <1>7, <1>8 DEF Recv

\* The server's steps answer the message they are given.
LEMMA ServerTurns ==
  ASSUME ~Fragments, IInv, Turns, Shown, Server \/ Death
  PROVE  Turns' /\ Shown'
<1>0. TypeOK
  BY DEF IInv
<1>1. UNCHANGED <<pc, tries, reqs, shown>>
  BY DEF Server, Death, Accept, Receive, Send, Disconnect, client
<1>2. Shown'
  BY <1>1 DEF Shown, PrintedIsTheReply, IsMessage
<1> USE DEF Quiet, ServerUp, ServerEnded
<1>3. CASE Accept
  <2>1. srv = "backlog" /\ srv' \in {"reading", "closed"} /\ UNCHANGED <<c2s, s2c, hasKey, out>>
    BY <1>3 DEF Accept
  <2> QED
    BY <1>1, <1>2, <2>1 DEF Turns
<1>4. CASE Receive
  <2>1. PICK n \in Amounts(c2s) :
          /\ \E zero \in ZeroFirst(First(c2s, n)) :
               \/ zero /\ form_answ_key(First(c2s, n))
               \/ ~zero /\ msg_handler(First(c2s, n))
          /\ c2s' = Rest(c2s, n)
    BY <1>4 DEF Receive
  <2>2. srv = "reading" /\ s2c' = s2c
    BY <1>4 DEF Receive
  <2>3. CASE c2s = KeyMessage /\ pc = "wait_key" /\ s2c = <<>>
    <3>1. First(c2s, n) = KeyMessage /\ c2s' = <<>> /\ c2s[1].part = 1 /\ c2s[1].zero
      BY <1>0, <2>1, <2>3, WholeMessages
    <3>2. form_answ_key(KeyMessage)
      BY <2>1, <2>3, <3>1 DEF ZeroFirst
    <3>3. srv' = "sending" /\ out' = KeyReply /\ hasKey'
      BY <3>2 DEF form_answ_key
    <3> QED
      BY <1>1, <1>2, <2>2, <2>3, <3>1, <3>3 DEF Turns
  <2>4. CASE IsRequest(c2s) /\ pc = "wait_reply" /\ s2c = <<>> /\ hasKey
    <3>1. /\ First(c2s, n) = c2s /\ c2s' = <<>> /\ c2s[1].part = 1 /\ c2s[1].zero \in {FALSE, Clash}
          /\ IsMessage(c2s) /\ c2s[1].id = reqs /\ c2s # KeyMessage
      BY <1>0, <2>1, <2>4, WholeMessages
    <3>6. CASE c2s[1].zero = TRUE
      <4>2. form_answ_key(c2s)
        BY <2>1, <3>1, <3>6 DEF ZeroFirst
      <4>3. srv' = "aborted"
        BY <3>1, <4>2 DEF form_answ_key, Abort
      <4> QED
        BY <1>1, <1>2, <2>2, <2>4, <4>3 DEF Turns
    <3>7. CASE c2s[1].zero = FALSE
      <4>2. msg_handler(c2s)
        BY <2>1, <3>1, <3>7 DEF ZeroFirst
      <4>3. CASE srv' \in {"aborted", "crashed"}
        BY <1>1, <1>2, <2>2, <2>4, <4>3 DEF Turns
      <4>4. CASE srv' \notin {"aborted", "crashed"}
        <5>1. PICK len \in ReplyLens : out' = Message("reply", reqs, FALSE, IsMessage(c2s), len)
          BY <2>4, <3>1, <4>2, <4>4 DEF msg_handler, Abort, Crash
        <5>2. IsMessage(c2s) = TRUE
          BY <3>1 DEF IsMessage
        <5>3. srv' = "sending" /\ hasKey'
          BY <2>4, <3>1, <4>2, <4>4 DEF msg_handler, Abort, Crash
        <5>4. IsReply(out)'
          BY <1>1, <5>1, <5>2 DEF IsReply
        <5> QED
          BY <1>1, <1>2, <2>2, <2>4, <3>1, <5>3, <5>4 DEF Turns
      <4> QED
        BY <4>3, <4>4
    <3> QED
      BY <3>1, <3>6, <3>7, SessionAssumption
  <2> QED
    BY <2>1, <2>2, <2>3, <2>4, NoAmount DEF Turns
<1>5. CASE Send
  <2>1. /\ srv = "sending" /\ srv' = IF out' = <<>> THEN "reading" ELSE "sending"
        /\ UNCHANGED <<c2s, hasKey>>
    BY <1>5 DEF Send
  <2>2. CASE out = <<>> /\ UNCHANGED <<s2c, out>>
    BY <1>1, <1>2, <2>1, <2>2, KeyTypes DEF Turns, IsReply
  <2>3. ASSUME NEW n \in Amounts(out),
               s2c' = IF ClientUp THEN s2c \o First(out, n) ELSE s2c,
               out' = Rest(out, n)
        PROVE  Turns'
    <3>1. /\ s2c = <<>> /\ c2s = <<>> /\ hasKey
          /\ \/ pc = "wait_key" /\ out = KeyReply
             \/ pc = "wait_reply" /\ IsReply(out)
      BY <2>1 DEF Turns
    <3>2. First(out, n) = out /\ out' = <<>>
      BY <1>0, <2>3, <3>1, WholeMessages
    <3>3. s2c' = out
      <4>1. s2c' = <<>> \o out
        BY <2>3, <3>1, <3>2 DEF ClientUp
      <4>2. out \in Seq(Piece)
        BY <1>0 DEF TypeOK
      <4> QED
        BY <4>1, <4>2
    <3> QED
      BY <1>1, <2>1, <3>1, <3>2, <3>3 DEF Turns, IsReply
  <2> QED
    BY <1>2, <1>5, <2>2, <2>3 DEF Send
<1>6. CASE Disconnect
  <2>1. /\ srv = "reading" /\ ~ClientUp /\ srv' = "closed"
        /\ UNCHANGED <<c2s, s2c, out>>
    BY <1>6 DEF Disconnect
  <2> QED
    BY <1>1, <1>2, <2>1 DEF Turns, ClientUp
<1>7. CASE Death
  <2>1. /\ srv \in {"backlog", "reading", "sending"} /\ srv' = "dead"
        /\ UNCHANGED <<c2s, s2c, hasKey, out>>
    BY <1>7 DEF Death
  <2> QED
    BY <1>1, <1>2, <2>1 DEF Turns, IsReply
<1> QED
  BY <1>3, <1>4, <1>5, <1>6, <1>7 DEF Server

\* The two sides take turns in every reachable state.
LEMMA TurnsInductive ==
  ASSUME ~Fragments
  PROVE  Spec => [](Turns /\ Shown)
<1>1. IInv /\ Turns /\ Shown /\ [Next]_vars => (Turns /\ Shown)'
  <2> SUFFICES ASSUME IInv, Turns, Shown, [Next]_vars PROVE Turns' /\ Shown'
    OBVIOUS
  <2>1. CASE Next
    BY <2>1, ClientTurns, ServerTurns DEF Next
  <2>2. CASE UNCHANGED vars
    BY <2>2 DEF vars, client, entry, Turns, Quiet, IsRequest, IsReply, Shown,
                PrintedIsTheReply, IsMessage, ServerUp, ServerEnded
  <2> QED
    BY <2>1, <2>2
<1> QED
  BY <1>1, InitTurns, Inductive, PTL DEF Spec

\* As long as TCP does not cut messages, what the client prints is the whole
\* reply to the request it has just made, or nothing; also when that request
\* begins like a key and the server fails over it.
THEOREM RepliesMatchRequests ==
  ASSUME ~Fragments
  PROVE  Spec => []PrintedIsTheReply
<1>1. Shown => PrintedIsTheReply
  BY DEF Shown
<1> QED
  BY <1>1, TurnsInductive, PTL

=============================================================================
