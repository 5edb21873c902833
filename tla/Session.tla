------------------------------- MODULE Session -------------------------------
(***************************************************************************)
(* One client program of Lab 01 (Client1) and the server's side of its     *)
(* connection: connecting, the key exchange, requests and replies over two *)
(* byte streams that know no messages.                                     *)
(*                                                                         *)
(* A message is a sequence of pieces, and a receive takes pieces from the  *)
(* head of a stream.  What the server does with an entry of g_ctxs between *)
(* two messages is the subject of IocpServer; here one step receives and   *)
(* handles (CompleteRecv, ExecRecv there) or sends and goes on             *)
(* (CompleteSend, ExecSend).                                               *)
(***************************************************************************)
EXTENDS Integers, Sequences

CONSTANTS
  ReconnectTries,  \* reconnect_tries
  KeyLen,          \* pieces of a key message
  KeyAnswerLen,    \* pieces of its answer
  RequestLens,     \* pieces a request may have
  ReplyLens,       \* pieces a reply may have
  SendRoom,        \* pieces buf_send has room for
  MaxRequests,     \* bound: requests the user makes
  Fragments,       \* whether TCP may deliver or accept a part of a message
  Clash,           \* whether an encrypted request may begin with a 0 byte
  Faults           \* "full": the server has no entry left; "death": a request
                   \* on another connection ends it

ASSUME SessionAssumption ==
  /\ {ReconnectTries, KeyLen, KeyAnswerLen} \subseteq Nat \ {0}
  /\ RequestLens \subseteq Nat \ {0}
  /\ ReplyLens \subseteq Nat
  /\ {SendRoom, MaxRequests} \subseteq Nat
  /\ Fragments \in BOOLEAN /\ Clash \in BOOLEAN
  /\ Faults \subseteq {"full", "death"}

VARIABLES
  pc,      \* where main of the client is
  tries,   \* connects that failed
  reqs,    \* requests sent; the last one has this number
  shown,   \* what decrypt_msg has printed last
  c2s,     \* stream to the server
  s2c,     \* stream to the client
  srv,     \* the server's side of the connection
  hasKey,  \* whether g_ctxs[idx].key is set
  got,     \* what buf_recv holds of a message: its first sz_recv bytes
  out      \* what is left to send of buf_send

client == <<pc, tries, reqs, shown>>
entry  == <<srv, hasKey, got, out>>
vars   == <<client, c2s, s2c, entry>>

-----------------------------------------------------------------------------
(* Messages.                                                               *)

\* The pieces of a message.  `id`: the request it is or answers, 0 for keys
\* and for an answer to no request.  `zero`: whether it begins with byte 0.
\* `ok`: a reply is the reply to the whole request.
Message(kind, id, zero, ok, len) ==
  [p \in 1..len |-> [kind |-> kind, id |-> id, zero |-> zero, ok |-> ok,
                     part |-> p, last |-> p = len]]

\* A request of the user; "unreadable" is a request 7 or 8 for a path whose
\* security data the server cannot read.
Requests == {"request", "unreadable"}

KeyMessage == Message("key", 0, TRUE, TRUE, KeyLen)
KeyReply   == Message("keyanswer", 0, TRUE, TRUE, KeyAnswerLen)

IsMessage(b) == b[1].part = 1 /\ \A k \in DOMAIN b : b[k].last <=> k = Len(b)

\* How much one call may move from the head of a stream or buffer: anything,
\* or, without Fragments, one message.
Amounts(s) == {n \in 1..Len(s) : Fragments \/ (s[n].last /\ \A k \in 1..(n - 1) : ~s[k].last)}

First(s, n) == SubSeq(s, 1, n)
Rest(s, n)  == SubSeq(s, n + 1, Len(s))

\* The client's socket is open; the server's process has ended; the server has
\* neither ended nor closed its socket.
ClientUp == pc \notin {"exited", "aborted", "gave_up"}
ServerEnded == srv \in {"aborted", "crashed", "dead"}
ServerUp == srv # "closed" /\ ~ServerEnded

Init ==
  /\ pc = "connect" /\ tries = 0 /\ reqs = 0 /\ shown = <<>>
  /\ c2s = <<>> /\ s2c = <<>>
  /\ srv = "idle" /\ hasKey = FALSE /\ got = <<>> /\ out = <<>>

-----------------------------------------------------------------------------
(* The client: main.                                                       *)

\* Mutant: one try too many.
ConnectFails_OneMore ==
  /\ pc = "connect"
  /\ tries' = tries + 1
  /\ pc' = IF tries > ReconnectTries THEN "gave_up" ELSE "connect"
  /\ UNCHANGED <<reqs, shown, c2s, s2c, entry>>

\* try_connect: a connect fails; after reconnect_tries of them main returns.
ConnectFails ==
  /\ pc = "connect"
  /\ tries' = tries + 1
  /\ pc' = IF tries' = ReconnectTries THEN "gave_up" ELSE "connect"
  /\ UNCHANGED <<reqs, shown, c2s, s2c, entry>>

\* try_connect: the kernel queues the connection for the server to accept.
Connects ==
  /\ pc = "connect" /\ srv = "idle"
  /\ pc' = "send_key"
  /\ srv' = "backlog"
  /\ UNCHANGED <<tries, reqs, shown, c2s, s2c, hasKey, got, out>>

\* send_request: main does not look at its result.
send_request(m) ==
  /\ c2s' = IF ServerUp THEN c2s \o m ELSE c2s
  /\ UNCHANGED <<s2c, entry>>

\* request_formation with request_type 0, the public key.
SendKey ==
  /\ pc = "send_key"
  /\ pc' = "wait_key"
  /\ send_request(KeyMessage)
  /\ UNCHANGED <<tries, reqs, shown>>

\* ask_request_type, request_formation: a request 1..8, encrypted.
Ask ==
  /\ pc = "dialog"
  /\ reqs < MaxRequests
  /\ reqs' = reqs + 1
  /\ \E kind \in Requests, len \in RequestLens, zero \in {FALSE, Clash} :
       send_request(Message(kind, reqs', zero, TRUE, len))
  /\ pc' = "wait_reply"
  /\ UNCHANGED <<tries, shown>>

\* ask_request_type: 9; main returns and the socket is closed.
Exit ==
  /\ pc = "dialog"
  /\ pc' = "exited"
  /\ UNCHANGED <<tries, reqs, shown, c2s, s2c, entry>>

\* recv_request and set_key: what one recv returns is imported as the key.
RecvKey ==
  /\ pc = "wait_key"
  /\ \E n \in Amounts(s2c) :
       /\ pc' = IF First(s2c, n) = KeyReply THEN "dialog" ELSE "aborted"
       /\ s2c' = Rest(s2c, n)
  /\ UNCHANGED <<tries, reqs, shown, c2s, entry>>

\* recv_request and decrypt_msg: what one recv returns is decrypted and shown.
RecvReply ==
  /\ pc = "wait_reply"
  /\ \E n \in Amounts(s2c) :
       /\ shown' = First(s2c, n)
       /\ s2c' = Rest(s2c, n)
  /\ pc' = "dialog"
  /\ UNCHANGED <<tries, reqs, c2s, entry>>

\* recv returns 0 or an error, and nobody looks: set_key and, after an error,
\* decrypt_msg run into an assert; after 0 decrypt_msg prints an empty line.
RecvLost ==
  /\ ~ServerUp
  /\ s2c = <<>> \/ srv # "closed"
  /\ \/ pc \in {"wait_key", "wait_reply"} /\ pc' = "aborted" /\ UNCHANGED shown
     \/ pc = "wait_reply" /\ pc' = "dialog" /\ shown' = <<>>
  /\ s2c' = <<>>
  /\ UNCHANGED <<tries, reqs, c2s, entry>>

-----------------------------------------------------------------------------
(* The server's side.                                                      *)

\* add_accepted_connection.
Accept ==
  /\ srv = "backlog"
  /\ srv' \in {"reading"} \cup (IF "full" \in Faults THEN {"closed"} ELSE {})
  /\ UNCHANGED <<client, c2s, s2c, hasKey, got, out>>

\* An assert of form_answ_key or of msg_handler fails.
Abort ==
  /\ srv' = "aborted"
  /\ UNCHANGED <<hasKey, out>>

\* client_send_crypt_key: the first byte received is 0.  Inside a message any
\* byte may come first.
ZeroFirst(b) == IF b[1].part = 1 THEN {b[1].zero} ELSE BOOLEAN

\* Mutant: the key is not kept in the entry.
form_answ_key_NotKept(b) ==
  \/ b # KeyMessage /\ Abort
  \/ /\ b = KeyMessage
     /\ srv' = "sending" /\ out' = KeyReply
     /\ UNCHANGED hasKey

\* Mutant: the length of the answer is not set.
form_answ_key_NoLength(b) ==
  \/ b # KeyMessage /\ Abort
  \/ /\ b = KeyMessage
     /\ srv' = "sending" /\ out' = <<>>
     /\ hasKey' = TRUE

\* form_answ_key: CryptImportKey asserts that a whole public key came.
form_answ_key(b) ==
  \/ b # KeyMessage /\ Abort
  \/ /\ b = KeyMessage
     /\ srv' = "sending" /\ out' = KeyReply
     /\ hasKey' = TRUE

\* Mutant: a reply is put in the buffer twice.
msg_handler_Twice(b) ==
  /\ hasKey
  /\ \E len \in ReplyLens :
       LET m == Message("reply", b[1].id, FALSE, IsMessage(b), len) IN out' = m \o m
  /\ srv' = "sending"
  /\ UNCHANGED hasKey

\* Mutant: after the handler nothing is sent, the next receive is started.
msg_handler_NoWrite(b) ==
  /\ hasKey
  /\ srv' = "reading"
  /\ UNCHANGED <<hasKey, out>>

\* The path of a request 7 or 8 may be unreadable: it is, or it is cut off, or
\* it comes from inside a message.
PathUnread(b) ==
  b[1].kind = "unreadable" \/ b[1].part # 1 \/ \A k \in DOMAIN b : ~b[k].last

\* access_right_handler, owner_handler: the address of what they wanted to read
\* was never set.  To read there ends the process, or gives some reply.
Crash ==
  /\ srv' = "crashed"
  /\ UNCHANGED <<hasKey, out>>

\* msg_handler: the bytes received are decrypted as one request.  From inside
\* a message they give any type, an illegal one (assert) or that of another
\* request.  The handler's reply may be empty; CryptEncrypt refuses one there
\* is no room for (assert).
msg_handler(b) ==
  \/ (~hasKey \/ b[1].part # 1) /\ Abort
  \/ hasKey /\ PathUnread(b) /\ Crash
  \/ /\ hasKey
     /\ \E len \in ReplyLens :
          /\ out' = Message("reply", IF b[1].part = 1 THEN b[1].id ELSE 0, FALSE,
                            IsMessage(b), len)
          /\ srv' = IF len <= SendRoom THEN "sending" ELSE "aborted"
     /\ UNCHANGED hasKey

\* overlap_recv_handler: one receive is handled as one message.
Receive ==
  /\ srv = "reading"
  /\ \E n \in Amounts(c2s) :
       LET b == First(c2s, n) IN
       /\ \E zero \in ZeroFirst(b) : \/ zero /\ form_answ_key(b)
                                     \/ ~zero /\ msg_handler(b)
       /\ got' = b
       /\ c2s' = Rest(c2s, n)
  /\ UNCHANGED <<client, s2c>>

\* overlap_send_handler: send the rest of the reply, then read again from the
\* start of buf_recv; an empty reply completes as well.
Send ==
  /\ srv = "sending"
  /\ \/ out = <<>> /\ UNCHANGED <<s2c, out>>
     \/ \E n \in Amounts(out) :
          /\ s2c' = IF ClientUp THEN s2c \o First(out, n) ELSE s2c
          /\ out' = Rest(out, n)
  /\ \/ out' = <<>> /\ srv' = "reading" /\ got' = <<>>
     \/ out' # <<>> /\ UNCHANGED <<srv, got>>
  /\ UNCHANGED <<client, c2s, hasKey>>

\* overlap_recv_handler and overlap_cancel_handler after the client's close.
Disconnect ==
  /\ srv = "reading" /\ c2s = <<>> /\ ~ClientUp
  /\ srv' = "closed" /\ hasKey' = FALSE
  /\ UNCHANGED <<client, c2s, s2c, got, out>>

\* A request on another connection ends the whole server.
Death ==
  /\ "death" \in Faults
  /\ srv \in {"backlog", "reading", "sending"}
  /\ srv' = "dead"
  /\ UNCHANGED <<client, c2s, s2c, hasKey, got, out>>

-----------------------------------------------------------------------------

Recv   == RecvKey \/ RecvReply \/ RecvLost
Server == Accept \/ Receive \/ Send \/ Disconnect

Next == ConnectFails \/ Connects \/ SendKey \/ Ask \/ Exit \/ Recv \/ Server \/ Death

Spec == Init /\ [][Next]_vars

\* The client's recv returns when it can, the server's loop runs; nothing is
\* assumed of the user at the dialog or of the network at connect.
FairSpec == Spec /\ WF_vars(SendKey) /\ WF_vars(Recv) /\ WF_vars(Server)

-----------------------------------------------------------------------------
(* Properties.                                                             *)

Piece == [kind : {"key", "keyanswer", "reply"} \cup Requests, id : Nat, zero : BOOLEAN,
          ok : BOOLEAN, part : Nat \ {0}, last : BOOLEAN]

\* Every variable has its type; the client stops trying after ReconnectTries.
TypeOK ==
  /\ pc \in {"connect", "send_key", "wait_key", "dialog", "wait_reply",
             "exited", "aborted", "gave_up"}
  /\ tries \in 0..ReconnectTries
  /\ reqs \in 0..MaxRequests
  /\ {shown, c2s, s2c, got, out} \subseteq Seq(Piece)
  /\ srv \in {"idle", "backlog", "reading", "sending", "closed", "aborted", "crashed", "dead"}
  /\ hasKey \in BOOLEAN

\* What the client prints after a request is nothing (the connection is lost)
\* or the reply to this request, whole.
PrintedIsTheReply ==
  pc = "dialog" /\ shown # <<>> =>
    IsMessage(shown) /\ shown[1].kind = "reply" /\ shown[1].id = reqs /\ shown[1].ok

\* The client never waits in recv while the server waits for the client and
\* nothing is on its way: each would wait for the other for ever.
NoMutualWait ==
  ~ /\ pc \in {"wait_key", "wait_reply"} /\ srv = "reading"
    /\ c2s = <<>> /\ s2c = <<>>

\* A message of the client fails an assert of the server, which ends it for every
\* client, only if TCP cut it or joined it to another, if it is a request whose
\* ciphertext begins like a key, or if there is no room for its reply; and only a
\* request 7 or 8 with an unreadable path, or a message not received whole,
\* ends it without an assert.  Otherwise both sides agree on what each message
\* is: a key is taken for a key, and a request finds the session key it needs.
AssertionsHold ==
  /\ srv = "aborted" => \/ ~IsMessage(got)
                        \/ got[1].kind \in Requests /\ got[1].zero
                        \/ Len(out) > SendRoom
  /\ srv = "crashed" => ~IsMessage(got) \/ got[1].kind = "unreadable"

\* Every request gets its own reply printed, unless the whole server ends first.
RequestsAreAnswered == \A r \in 1..MaxRequests :
  (pc = "wait_reply" /\ reqs = r) ~>
    \/ pc = "dialog" /\ shown # <<>> /\ shown[1].id = r
    \/ ServerEnded

\* Whatever the streams do to the messages, the client does not wait for ever:
\* it gets some answer, or it ends.
WaitingEnds ==
  pc \in {"wait_key", "wait_reply"} ~> pc \in {"dialog", "aborted"}

=============================================================================
