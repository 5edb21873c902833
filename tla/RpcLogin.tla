------------------------------ MODULE RpcLogin ------------------------------
(***************************************************************************)
(* How the clients of the two RPC systems (Lab 02 and Lab 01 - dop) come   *)
(* to their command loop, and as whom their commands run.  The server's    *)
(* serv_login is called on any thread of the RPC runtime's pool, for any   *)
(* client, and leaves its result in two places: the global variable        *)
(* InterfaceHandle, shared by all threads, and the impersonation token of  *)
(* the thread, which stays with the thread after the call.                 *)
(*                                                                         *)
(* A user is named by the client that gives the user's name; a token is    *)
(* the user it was issued for.                                             *)
(***************************************************************************)
EXTENDS Naturals, FiniteSets

CONSTANTS
  Client,       \* client processes
  Thread,       \* threads of the RPC runtime's pool
  Nobody,       \* no token: the account the server was started with
  Faults,       \* which faults of the environment are enabled
  MaxStarts     \* bound: how often the server is started

ASSUME LoginAssumption ==
  /\ Nobody \notin Client
  /\ Faults \subseteq {"start", "crash", "address"}
  /\ MaxStarts \in Nat \ {0}

VARIABLES
  good,       \* clients whose name and password are right
  server,     \* how far the server has come
  starts,     \* how often it was started
  handle,     \* InterfaceHandle of the server: a token or Nobody
  thread,     \* pool thread -> the call it works on
  token,      \* pool thread -> its impersonation token
  client,     \* client -> where its main is
  disturbed   \* history: pool thread -> whether InterfaceHandle was written
              \* by another login since this thread's LogonUser

vars == <<good, server, starts, handle, thread, token, client, disturbed>>

\* The states of a call on a pool thread.  "logon" and "impersonate" are the
\* two halves of the condition in serv_login.
Free == [at |-> "free", by |-> Nobody, ok |-> FALSE]
Work == [at : {"free", "logon", "impersonate", "answer", "command"},
         by : Client \cup {Nobody}, ok : BOOLEAN]

ClientState == {"start", "bound", "login", "loop", "call", "ended", "failed", "died"}
ServerState == {"start", "endpoint", "interface", "ready", "listening", "down"}

-----------------------------------------------------------------------------

Init ==
  /\ good \in SUBSET Client
  /\ server = "start" /\ starts = 1
  /\ handle = Nobody
  /\ thread = [t \in Thread |-> Free]
  /\ token = [t \in Thread |-> Nobody]
  /\ client = [c \in Client |-> "start"]
  /\ disturbed = [t \in Thread |-> FALSE]

(* The server's main: the constructor, then listen.                        *)

\* The next of the three steps of the constructor and the call in listen; each
\* asserts its status.
StartStep ==
  LET after == [start |-> "endpoint", endpoint |-> "interface",
                interface |-> "ready", ready |-> "listening"]
  IN  /\ server \in DOMAIN after
      /\ \/ server' = after[server]
         \/ "start" \in Faults /\ server' = "down"
      /\ UNCHANGED <<good, starts, handle, thread, token, client, disturbed>>

\* The process ends.  The calls in progress fail with an exception, which no
\* client catches.
Crash ==
  /\ "crash" \in Faults
  /\ server = "listening"
  /\ server' = "down"
  /\ handle' = Nobody
  /\ thread' = [t \in Thread |-> Free]
  /\ token' = [t \in Thread |-> Nobody]
  /\ client' = [c \in Client |-> IF client[c] \in {"login", "call"} THEN "died" ELSE client[c]]
  /\ disturbed' = [t \in Thread |-> FALSE]
  /\ UNCHANGED <<good, starts>>

\* The server is started again by hand.
Restart ==
  /\ server = "down"
  /\ starts < MaxStarts
  /\ server' = "start" /\ starts' = starts + 1
  /\ UNCHANGED <<good, handle, thread, token, client, disturbed>>

-----------------------------------------------------------------------------
(* The client's main.                                                      *)

\* The constructor of Client: an address that cannot be taken apart fails an
\* assert.  Nothing is sent yet.
Bind(c) ==
  /\ client[c] = "start"
  /\ \/ client' = [client EXCEPT ![c] = "bound"]
     \/ "address" \in Faults /\ client' = [client EXCEPT ![c] = "died"]
  /\ UNCHANGED <<good, server, starts, handle, thread, token, disturbed>>

\* A call of client c that no server answers.
Unanswered(c) ==
  /\ server # "listening"
  /\ client' = [client EXCEPT ![c] = "died"]
  /\ UNCHANGED thread

\* A call of client c that a free thread of the pool takes, to work on `at`.
Served(c, at, state) ==
  /\ server = "listening"
  /\ \E t \in Thread :
       /\ thread[t] = Free
       /\ thread' = [thread EXCEPT ![t] = [at |-> at, by |-> c, ok |-> FALSE]]
  /\ client' = [client EXCEPT ![c] = state]

\* authentification: the result of RpcBindingSetAuthInfo is not used; then
\* serv_login is called.
Login(c) ==
  /\ client[c] = "bound"
  /\ Served(c, "logon", "login") \/ Unanswered(c)
  /\ UNCHANGED <<good, server, starts, handle, token, disturbed>>

\* cmd_loop: a command that calls the server.
Command(c) ==
  /\ client[c] = "loop"
  /\ Served(c, "command", "call") \/ Unanswered(c)
  /\ UNCHANGED <<good, server, starts, handle, token, disturbed>>

\* cmd_loop: exit, or RpcMgmtIsServerListening answers that the process is
\* there and does not listen yet.
Leave(c) ==
  /\ client[c] = "loop"
  /\ client' = [client EXCEPT ![c] = "ended"]
  /\ UNCHANGED <<good, server, starts, handle, thread, token, disturbed>>

-----------------------------------------------------------------------------
(* The pool threads.                                                       *)

Move(t, at, ok) == thread' = [thread EXCEPT ![t].at = at, ![t].ok = ok]

\* Other logins that are between LogonUser and ImpersonateLoggedOnUser.
Disturb(t) ==
  disturbed' = [u \in Thread |-> IF u = t THEN FALSE
                                 ELSE disturbed[u] \/ thread[u].at = "impersonate"]

\* Mutant: the result of LogonUser is not looked at.
LogonUser_Unchecked(t) ==
  /\ thread[t].at = "logon"
  /\ handle' = thread[t].by
  /\ Move(t, "impersonate", FALSE)
  /\ Disturb(t)
  /\ UNCHANGED <<good, server, starts, token, client>>

\* Mutant: a handle that is already there is used again.
LogonUser_Cached(t) ==
  /\ thread[t].at = "logon"
  /\ \/ /\ thread[t].by \in good
        /\ handle' = IF handle = Nobody THEN thread[t].by ELSE handle
        /\ Move(t, "impersonate", FALSE)
     \/ /\ thread[t].by \notin good
        /\ handle' = handle
        /\ Move(t, "answer", FALSE)
  /\ Disturb(t)
  /\ UNCHANGED <<good, server, starts, token, client>>

\* serv_login: LogonUser writes InterfaceHandle.  When it refuses the user the
\* variable keeps its value or is set to 0 (the API does not say), and the
\* error is returned.
LogonUser(t) ==
  /\ thread[t].at = "logon"
  /\ \/ /\ thread[t].by \in good
        /\ handle' = thread[t].by
        /\ Move(t, "impersonate", FALSE)
     \/ /\ thread[t].by \notin good
        /\ handle' \in {handle, Nobody}
        /\ Move(t, "answer", FALSE)
  /\ Disturb(t)
  /\ UNCHANGED <<good, server, starts, token, client>>

\* Mutant: a thread that already runs as some user is taken for logged in.
Impersonate_Once(t) ==
  /\ thread[t].at = "impersonate"
  /\ \/ /\ handle # Nobody /\ token[t] = Nobody
        /\ token' = [token EXCEPT ![t] = handle]
        /\ Move(t, "answer", TRUE)
     \/ /\ handle = Nobody \/ token[t] # Nobody
        /\ Move(t, "answer", FALSE)
        /\ UNCHANGED token
  /\ UNCHANGED <<good, server, starts, handle, client, disturbed>>

\* Mutant: wait for a token instead of failing.
Impersonate_Waits(t) ==
  /\ thread[t].at = "impersonate"
  /\ handle # Nobody
  /\ token' = [token EXCEPT ![t] = handle]
  /\ Move(t, "answer", TRUE)
  /\ UNCHANGED <<good, server, starts, handle, client, disturbed>>

\* serv_login: ImpersonateLoggedOnUser takes the token that is in
\* InterfaceHandle now.
Impersonate(t) ==
  /\ thread[t].at = "impersonate"
  /\ \/ /\ handle # Nobody
        /\ token' = [token EXCEPT ![t] = handle]
        /\ Move(t, "answer", TRUE)
     \/ /\ handle = Nobody
        /\ Move(t, "answer", FALSE)
        /\ UNCHANGED token
  /\ UNCHANGED <<good, server, starts, handle, client, disturbed>>

\* Mutant: the client goes on whatever serv_login returned.
Answer_Anyway(t) ==
  /\ thread[t].at = "answer"
  /\ client' = [client EXCEPT ![thread[t].by] = "loop"]
  /\ thread' = [thread EXCEPT ![t] = Free]
  /\ disturbed' = [disturbed EXCEPT ![t] = FALSE]
  /\ UNCHANGED <<good, server, starts, handle, token>>

\* Mutant: a refused client is asked for its name again, in a state of its own.
Answer_Again(t) ==
  /\ thread[t].at = "answer"
  /\ client' = [client EXCEPT ![thread[t].by] = IF thread[t].ok THEN "loop" ELSE "again"]
  /\ thread' = [thread EXCEPT ![t] = Free]
  /\ disturbed' = [disturbed EXCEPT ![t] = FALSE]
  /\ UNCHANGED <<good, server, starts, handle, token>>

\* serv_login returns; the client's main goes on to cmd_loop or ends.
Answer(t) ==
  /\ thread[t].at = "answer"
  /\ client' = [client EXCEPT ![thread[t].by] = IF thread[t].ok THEN "loop" ELSE "failed"]
  /\ thread' = [thread EXCEPT ![t] = Free]
  /\ disturbed' = [disturbed EXCEPT ![t] = FALSE]
  /\ UNCHANGED <<good, server, starts, handle, token>>

\* Any other routine of the server, run with the token the thread happens to
\* have; the client is back in its loop.
Execute(t) ==
  /\ thread[t].at = "command"
  /\ client' = [client EXCEPT ![thread[t].by] = "loop"]
  /\ thread' = [thread EXCEPT ![t] = Free]
  /\ UNCHANGED <<good, server, starts, handle, token, disturbed>>

-----------------------------------------------------------------------------

Pool(t) == LogonUser(t) \/ Impersonate(t) \/ Answer(t) \/ Execute(t)

Next ==
  \/ StartStep \/ Crash \/ Restart
  \/ \E c \in Client : Bind(c) \/ Login(c) \/ Command(c) \/ Leave(c)
  \/ \E t \in Thread : Pool(t)

\* The pool's threads run; a client that has begun goes on to its login.
\* Nothing is assumed of the user's commands or of who starts the server.
Fairness ==
  /\ \A t \in Thread : WF_vars(Pool(t))
  /\ \A c \in Client : WF_vars(Bind(c)) /\ SF_vars(Login(c))

Spec == Init /\ [][Next]_vars /\ Fairness

-----------------------------------------------------------------------------
(* Properties.                                                             *)

\* Every variable has its type.
TypeOK ==
  /\ good \in SUBSET Client
  /\ server \in ServerState
  /\ starts \in 1..MaxStarts
  /\ handle \in Client \cup {Nobody}
  /\ thread \in [Thread -> Work]
  /\ token \in [Thread -> Client \cup {Nobody}]
  /\ client \in [Client -> ClientState]
  /\ disturbed \in [Thread -> BOOLEAN]

\* Nobody comes to the command loop on another client's login: although
\* ImpersonateLoggedOnUser may succeed with another user's token, the client
\* was let in on its own name and password.
OnlyVerifiedClientsEnter ==
  \A c \in Client : client[c] \in {"loop", "call"} => c \in good

\* A thread only ever runs as the server itself or as a user whose password
\* was right, also when logins overtake each other between the two calls.
TokensAreVerified == \A t \in Thread : token[t] \in good \cup {Nobody}

\* A login that no other login came between makes its thread run as its own
\* user.
UndisturbedLoginIsItsOwn ==
  \A t \in Thread : thread[t].at = "answer" /\ thread[t].ok /\ ~disturbed[t]
                      => token[t] = thread[t].by

\* A login is refused for a wrong name or password, or because another one
\* came between; for no other reason.
RefusalHasACause ==
  \A t \in Thread : thread[t].at = "answer" /\ ~thread[t].ok
                      => thread[t].by \notin good \/ disturbed[t]

\* A client that has started is let in, refused or told that there is no
\* server: it does not hang in serv_login, however the logins overtake each
\* other and whenever the server dies.
LoginsAreAnswered ==
  \A c \in Client : client[c] = "start" ~> client[c] \notin {"start", "bound", "login"}

=============================================================================
